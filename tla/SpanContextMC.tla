--------------------------- MODULE SpanContextMC ---------------------------
(***************************************************************************)
(* Instances of SpanContext for TLC: a main task and one it may spawn.     *)
(***************************************************************************)
EXTENDS SpanContext

CONSTANTS t1, t2

MCTasks == {t1, t2}
=============================================================================
