---- MODULE MCPoller ----
\* The loop's own two descriptors and three that come and go.
EXTENDS Poller
CONSTANTS waker, timerfd
LoopFds == <<waker, timerfd>>
====
