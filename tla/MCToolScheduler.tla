--------------------------- MODULE MCToolScheduler ---------------------------
(* A batch of two web searches and another call, two at a time.          *)
EXTENDS ToolScheduler, TLC

CONSTANTS w1, w2, c

MCCalls == {w1, w2, c}
MCWeb   == {w1, w2}

=============================================================================
