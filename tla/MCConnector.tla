----------------------------- MODULE MCConnector -----------------------------
EXTENDS Connector
=============================================================================
