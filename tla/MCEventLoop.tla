---- MODULE MCEventLoop ----
\* EventLoop with two callers, three functors and an eventfd that saturates.
EXTENDS EventLoop
====
