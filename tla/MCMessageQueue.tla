--------------------------- MODULE MCMessageQueue ---------------------------
EXTENDS MessageQueue

CONSTANTS a, a1, a2

\* Two workers in one window: one after the other across a reload, or at once.
TwoInOneWindow == [w \in {a1, a2} |-> a]
=============================================================================
