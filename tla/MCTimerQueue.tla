---- MODULE MCTimerQueue ----
\* Two timers over a few seconds of a few ticks each.
EXTENDS TimerQueue
====
