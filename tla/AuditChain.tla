----------------------------- MODULE AuditChain -----------------------------
(***************************************************************************)
(* What AgentOBS promises of an HMAC audit chain, whoever builds it: the   *)
(* signed events form one log; each is either the head of a new chain or   *)
(* names, as its prev_id, the event signed immediately before it; no event *)
(* is signed twice.  The emit pipeline implements this specification.      *)
(***************************************************************************)
EXTENDS Integers, Sequences

CONSTANTS Events, Keys, NoEvent

VARIABLES log,   \* every signature made, in signing order
          head   \* the event the next signature links to, NoEvent for none

cvars == <<log, head>>

Signature == [ev : Events, key : Keys, prev : Events \cup {NoEvent}]

LogEvents == {log[i].ev : i \in DOMAIN log}

ChainInit == log = <<>> /\ head = NoEvent

SignEvent(e, k) ==
  /\ e \notin LogEvents
  /\ log' = Append(log, [ev |-> e, key |-> k, prev |-> head])
  /\ head' = e

Restart == head' = NoEvent /\ UNCHANGED log

ChainNext == (\E e \in Events, k \in Keys : SignEvent(e, k)) \/ Restart

ChainSpec == ChainInit /\ [][ChainNext]_cvars

ChainTypeOK == log \in Seq(Signature) /\ head \in Events \cup {NoEvent}

(* A signed event's prev_id is absent or the event_id signed just before.  *)
Linked == \A i \in DOMAIN log :
            \/ log[i].prev = NoEvent
            \/ i > 1 /\ log[i].prev = log[i - 1].ev

(* An event is signed once, so two events never claim the same successor   *)
(* position: together with Linked, the chain cannot fork.                  *)
SignedOnce == \A i, j \in DOMAIN log : log[i].ev = log[j].ev => i = j

Linear == Linked /\ SignedOnce

(* The inductive strengthening: the head, when there is one, is the event  *)
(* of the last signature in the log.                                       *)
HeadIsLast == head # NoEvent => log # <<>> /\ head = log[Len(log)].ev

ChainInv == ChainTypeOK /\ Linear /\ HeadIsLast
=============================================================================
