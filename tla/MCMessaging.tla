------------------------------ MODULE MCMessaging ------------------------------
\* Two messages, one of them altered; a request and the timer; two webhook calls.
EXTENDS Messaging

CONSTANTS m1, m2, w1, w2, a1, a2
================================================================================
