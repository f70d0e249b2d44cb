-------------------------- MODULE AuditChainProofs --------------------------
(***************************************************************************)
(* The abstract audit chain never forks, for any sets of events and keys.  *)
(***************************************************************************)
EXTENDS AuditChain, TLAPS

(* A signature appended by SignEvent keeps the log linear: its link is the *)
(* head, which is the event of the signature before it.                    *)
LEMMA SignKeepsInv ==
  ASSUME ChainInv, NEW e \in Events, NEW k \in Keys, SignEvent(e, k)
  PROVE  ChainInv'
<1> DEFINE s == [ev |-> e, key |-> k, prev |-> head]
<1> USE DEF ChainInv, ChainTypeOK, SignEvent
<1>1. s \in Signature /\ s.ev = e /\ s.prev = head
  BY DEF Signature
<1>2. log' = Append(log, s) /\ head' = e
  OBVIOUS
<1> HIDE DEF s
<1>3. /\ log' \in Seq(Signature) /\ Len(log') = Len(log) + 1
      /\ DOMAIN log = 1..Len(log) /\ DOMAIN log' = 1..(Len(log) + 1)
      /\ \A i \in 1..Len(log) : log'[i] = log[i]
      /\ log'[Len(log) + 1] = s
  BY <1>1, <1>2
<1>4. ChainTypeOK'
  BY <1>2, <1>3
<1>5. Linked'
  <2>1. \A i \in 1..Len(log) :
           log[i].prev = NoEvent \/ (i > 1 /\ log[i].prev = log[i - 1].ev)
    <3>1. DOMAIN log = 1..Len(log)
      BY <1>3
    <3>2. Linked
      BY DEF Linear
    <3>3. QED BY <3>1, <3>2 DEF Linked
  <2>2. CASE head = NoEvent
    BY <1>1, <1>3, <2>1, <2>2 DEF Linked
  <2>3. CASE head # NoEvent
    <3>1. Len(log) > 0 /\ head = log[Len(log)].ev
      BY <2>3 DEF HeadIsLast
    <3>2. QED BY <1>1, <1>3, <2>1, <3>1 DEF Linked
  <2>4. QED BY <2>2, <2>3
<1>6. SignedOnce'
  <2>1. \A i \in DOMAIN log : log[i].ev # e
    BY DEF LogEvents
  <2>2. QED BY <1>1, <1>3, <2>1 DEF Linear, SignedOnce
<1>7. HeadIsLast'
  BY <1>1, <1>2, <1>3 DEF HeadIsLast
<1>8. QED BY <1>4, <1>5, <1>6, <1>7 DEF Linear

(* The chain invariant is inductive.                                       *)
LEMMA ChainInductive ==
  /\ ChainInit => ChainInv
  /\ ChainInv /\ [ChainNext]_cvars => ChainInv'
<1>1. ChainInit => ChainInv
  BY DEF ChainInit, ChainInv, ChainTypeOK, Linear, Linked, SignedOnce, HeadIsLast
<1>2. ASSUME ChainInv, Restart PROVE ChainInv'
  BY <1>2 DEF ChainInv, ChainTypeOK, Linear, Linked, SignedOnce, HeadIsLast, Restart
<1>3. ASSUME ChainInv, UNCHANGED cvars PROVE ChainInv'
  BY <1>3 DEF ChainInv, ChainTypeOK, Linear, Linked, SignedOnce, HeadIsLast, cvars
<1>4. QED BY <1>1, <1>2, <1>3, SignKeepsInv DEF ChainNext

(* No fork: every prev_id names the event signed just before, and every    *)
(* event is signed once, in every behaviour of the abstract chain.         *)
THEOREM ChainLinear == ChainSpec => []Linear
<1>1. ChainInv => Linear
  BY DEF ChainInv
<1>2. QED BY <1>1, ChainInductive, PTL DEF ChainSpec
=============================================================================
