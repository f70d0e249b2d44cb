----------------------------- MODULE Optionals ------------------------------
(***************************************************************************)
(* What the modules about the library's data share: None, which a field    *)
(* may hold, and records whose fields are described several at a time.     *)
(***************************************************************************)
EXTENDS Integers, FiniteSets, TLC

CONSTANT None

ASSUME NoneAssumption == None \notin Int

Each(names, values) == [n \in names |-> values]

(* The fields of two records together.                                     *)
f ++ g == [n \in DOMAIN f \cup DOMAIN g |-> IF n \in DOMAIN f THEN f[n] ELSE g[n]]
=============================================================================
