---- MODULE MCLoopThread ----
\* One loop_thread, the thread that owns it and one more caller.
EXTENDS LoopThread
====
