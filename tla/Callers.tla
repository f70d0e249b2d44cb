------------------------------ MODULE Callers ------------------------------
(***************************************************************************)
(* The threads of the application that call the library's stateful helpers *)
(* (cost tracker, circuit breaker, cache, audit stream, ...).              *)
(***************************************************************************)
EXTENDS Naturals, Sequences, FiniteSets

CONSTANT Threads

ASSUME CallersAssumption == Threads # {}

(* A step of caller t from label a to label b of its program counter.      *)
Moves(pc, t, a, b) == pc[t] = a /\ pc' = [pc EXCEPT ![t] = b]
=============================================================================
