--------------------------- MODULE RuntimeProofs ----------------------------
(***************************************************************************)
(* What the library keeps for an application and hands on: audit streams,  *)
(* events taken in and sent out, frameworks' callbacks, the cache, the     *)
(* ring of traces; and the types of all components that run.               *)
(***************************************************************************)
EXTENDS RuntimeMC, LimitProofs, IntegrationProofs, FiniteSetTheorems, TLAPS

LEMMA GreatestNumber ==
  ASSUME NEW T \in SUBSET Nat, T # {}, NEW n \in Nat, \A y \in T : y <= n
  PROVE  Max(T) \in T /\ \A y \in T : y <= Max(T)
<1> DEFINE U == {n - y : y \in T}
<1>1. U \in SUBSET Nat /\ U # {}
  OBVIOUS
<1>2. PICK u \in U : \A v \in U : u <= v
  BY <1>1, LeastOf
<1>3. PICK x \in T : u = n - x
  OBVIOUS
<1>4. \A y \in T : n - y \in U
  OBVIOUS
<1> HIDE DEF U
<1>5. \A y \in T : x >= y
  BY <1>2, <1>3, <1>4
<1>6. Max(T) \in T /\ \A y \in T : Max(T) >= y
  BY <1>5 DEF Max
<1> QED BY <1>6

LEMMA SameRange ==
  ASSUME NEW l \in Nat, NEW m \in Nat, 1..l = 1..m
  PROVE  l = m
<1>1. (l = 0 \/ l \in 1..m) /\ (m = 0 \/ m \in 1..l)
  OBVIOUS
<1> QED BY <1>1

(* An element leaves a sequence: the others stay, in order.                *)
LEMMA RemoveAtKeepsTheRest ==
  ASSUME NEW S, NEW s \in Seq(S), NEW p \in DOMAIN s
  PROVE  /\ RemoveAt(s, p) \in Seq(S) /\ Len(RemoveAt(s, p)) = Len(s) - 1
         /\ \A i \in DOMAIN RemoveAt(s, p) :
              \/ i < p /\ i \in DOMAIN s /\ RemoveAt(s, p)[i] = s[i]
              \/ i >= p /\ i + 1 \in DOMAIN s /\ RemoveAt(s, p)[i] = s[i + 1]
         /\ \A j \in DOMAIN s :
              \/ j < p /\ j \in DOMAIN RemoveAt(s, p) /\ RemoveAt(s, p)[j] = s[j]
              \/ j = p
              \/ j > p /\ j - 1 \in DOMAIN RemoveAt(s, p) /\ RemoveAt(s, p)[j - 1] = s[j]
<1>1. PICK n \in Nat : n = Len(s) /\ DOMAIN s = 1..n /\ p \in 1..n
  OBVIOUS
<1> DEFINE a == SubSeq(s, 1, p - 1)
           b == SubSeq(s, p + 1, n)
<1>c. a \in Seq(S) /\ Len(a) = p - 1 /\ \A i \in 1..(p - 1) : a[i] = s[i]
  BY <1>1
<1>d. b \in Seq(S) /\ Len(b) = n - p /\ \A i \in 1..(n - p) : b[i] = s[p + i]
  BY <1>1, SMTT(30)
<1>2. /\ a \in Seq(S) /\ Len(a) = p - 1 /\ \A i \in 1..(p - 1) : a[i] = s[i]
      /\ b \in Seq(S) /\ Len(b) = n - p /\ \A i \in 1..(n - p) : b[i] = s[p + i]
  BY <1>c, <1>d
<1>3. RemoveAt(s, p) = a \o b
  BY <1>1 DEF RemoveAt
<1> HIDE DEF a, b
<1>a. p - 1 \in Nat /\ n - p \in Nat /\ n - 1 \in Nat /\ (p - 1) + (n - p) = n - 1
  BY <1>1
<1>4. /\ a \o b \in Seq(S) /\ DOMAIN (a \o b) = 1..(n - 1) /\ Len(a \o b) = n - 1
  <2>1. a \o b \in Seq(S)
    BY <1>2
  <2>2. DOMAIN (a \o b) = 1..(n - 1)
    BY <1>1, <1>2
  <2>3. Len(a \o b) \in Nat /\ DOMAIN (a \o b) = 1..Len(a \o b)
    BY <2>1
  <2>4. Len(a \o b) = n - 1
    BY <1>a, <2>2, <2>3, SameRange
  <2> QED BY <2>1, <2>2, <2>4
<1>b. ASSUME NEW i \in 1..(n - 1)
      PROVE  (a \o b)[i] = IF i < p THEN a[i] ELSE b[i - (p - 1)]
  <2>1. CASE i < p
    <3>1. i \in 1..Len(a)
      BY <1>1, <1>2, <2>1
    <3>2. (a \o b)[i] = a[i]
      BY <1>2, <3>1, FirstOfTwo, Zenon
    <3> QED BY <2>1, <3>2
  <2>2. CASE ~(i < p)
    <3> DEFINE j == i - (p - 1)
    <3>1. Len(a) = p - 1 /\ Len(b) = n - p
      BY <1>2
    <3>2. j \in 1..(n - p) /\ (p - 1) + j = i
      BY <1>1, <2>2
    <3> HIDE DEF j
    <3>5. j \in 1..Len(b)
      BY <3>1, <3>2, Zenon
    <3>3. (a \o b)[Len(a) + j] = b[j]
      <4>1. a \in Seq(S) /\ b \in Seq(S)
        BY <1>2
      <4> QED BY <3>5, <4>1, SecondOfTwo
    <3>4. (a \o b)[i] = b[j]
      BY <3>1, <3>2, <3>3, Zenon
    <3> QED BY <2>2, <3>4 DEF j
  <2> QED BY <2>1, <2>2
<1>5. ASSUME NEW i \in 1..(n - 1), i < p
      PROVE  i \in 1..n /\ (a \o b)[i] = s[i]
  BY <1>1, <1>2, <1>b, <1>5
<1>6. ASSUME NEW i \in 1..(n - 1), ~(i < p)
      PROVE  i + 1 \in 1..n /\ i + 1 # p /\ (a \o b)[i] = s[i + 1]
  <2>1. PICK k : k = i - (p - 1)
    OBVIOUS
  <2>2. k \in 1..(n - p) /\ p + k = i + 1 /\ i + 1 \in 1..n /\ i + 1 # p
    BY <1>1, <1>6, <2>1
  <2>3. (a \o b)[i] = b[k]
    BY <1>b, <1>6, <2>1
  <2>4. b[k] = s[p + k]
    BY <1>2, <2>2
  <2> QED BY <2>2, <2>3, <2>4
<1>7. \A i \in DOMAIN (a \o b) :
        \/ i < p /\ i \in DOMAIN s /\ (a \o b)[i] = s[i]
        \/ i >= p /\ i + 1 \in DOMAIN s /\ (a \o b)[i] = s[i + 1]
  <2> SUFFICES ASSUME NEW i \in 1..(n - 1)
               PROVE  \/ i < p /\ i \in 1..n /\ (a \o b)[i] = s[i]
                      \/ i >= p /\ i + 1 \in 1..n /\ (a \o b)[i] = s[i + 1]
    BY <1>1, <1>4
  <2>1. CASE i < p
    BY <1>5, <2>1
  <2>2. CASE ~(i < p)
    <3>1. i >= p
      BY <1>1, <2>2
    <3> QED BY <1>6, <2>2, <3>1
  <2> QED BY <2>1, <2>2
<1>8. \A j \in DOMAIN s :
        \/ j < p /\ j \in DOMAIN (a \o b) /\ (a \o b)[j] = s[j]
        \/ j = p
        \/ j > p /\ j - 1 \in DOMAIN (a \o b) /\ (a \o b)[j - 1] = s[j]
  <2> SUFFICES ASSUME NEW j \in 1..n, j # p
               PROVE  \/ j < p /\ j \in 1..(n - 1) /\ (a \o b)[j] = s[j]
                      \/ j > p /\ j - 1 \in 1..(n - 1) /\ (a \o b)[j - 1] = s[j]
    BY <1>1, <1>4
  <2>1. CASE j < p
    <3>1. j \in 1..(n - 1)
      BY <1>1, <2>1
    <3> QED BY <1>5, <2>1, <3>1
  <2>2. CASE j > p
    <3>1. j - 1 \in 1..(n - 1) /\ ~(j - 1 < p) /\ (j - 1) + 1 = j
      BY <1>1, <2>2
    <3>2. (a \o b)[j - 1] = s[(j - 1) + 1]
      BY <1>6, <3>1
    <3> QED BY <2>2, <3>1, <3>2
  <2>3. j < p \/ j > p
    BY <1>1
  <2> QED BY <2>1, <2>2, <2>3
<1> QED BY <1>1, <1>3, <1>4, <1>7, <1>8

(* The first of the places of an element is taken out.                     *)
LEMMA RemoveFirstTakesOut ==
  ASSUME NEW S, NEW s \in Seq(S), IsInjective(s), NEW e \in S
  PROVE  /\ RemoveFirst(s, e) \in Seq(S) /\ IsInjective(RemoveFirst(s, e))
         /\ ToSet(RemoveFirst(s, e)) = ToSet(s) \ {e}
         /\ Len(RemoveFirst(s, e)) = IF e \in ToSet(s) THEN Len(s) - 1 ELSE Len(s)
<1>1. PICK n \in Nat : n = Len(s) /\ DOMAIN s = 1..n
  OBVIOUS
<1>2. CASE e \notin ToSet(s)
  <2>1. RemoveFirst(s, e) = s
    BY <1>1, <1>2 DEF RemoveFirst, ToSet
  <2> QED BY <1>2, <2>1
<1>3. CASE e \in ToSet(s)
  <2>1. PICK p \in 1..n : s[p] = e
    BY <1>1, <1>3 DEF ToSet
  <2> DEFINE places == {i \in 1..n : s[i] = e}
  <2>2. places = {p}
    BY <1>1, <2>1 DEF IsInjective
  <2>3. Min(places) = p
    BY <2>1, <2>2 DEF Min
  <2>4. SelectInSeq(s, LAMBDA v : v = e) = p
    BY <1>1, <2>1, <2>3 DEF SelectInSeq
  <2>5. RemoveFirst(s, e) = RemoveAt(s, p)
    BY <1>1, <2>1, <2>4 DEF RemoveFirst
  <2> HIDE DEF places
  <2> DEFINE r == RemoveAt(s, p)
  <2>a. p \in DOMAIN s
    BY <1>1, <2>1
  <2>6. r \in Seq(S) /\ Len(r) = n - 1
    BY <1>1, <2>a, RemoveAtKeepsTheRest
  <2>b. \A i \in DOMAIN r :
         \/ i < p /\ i \in DOMAIN s /\ r[i] = s[i]
         \/ i >= p /\ i + 1 \in DOMAIN s /\ r[i] = s[i + 1]
    BY <2>a, RemoveAtKeepsTheRest
  <2>c. \A j \in DOMAIN s :
         \/ j < p /\ j \in DOMAIN r /\ r[j] = s[j]
         \/ j = p
         \/ j > p /\ j - 1 \in DOMAIN r /\ r[j - 1] = s[j]
    BY <2>a, RemoveAtKeepsTheRest
  <2> HIDE DEF r
  <2>d. DOMAIN r \subseteq Nat
    BY <2>6
  <2>7. IsInjective(r)
    <3> SUFFICES ASSUME NEW i \in DOMAIN r, NEW j \in DOMAIN r, r[i] = r[j] PROVE i = j
      BY DEF IsInjective
    <3>1. i \in Nat /\ j \in Nat /\ p \in Nat
      BY <2>1, <2>d
    <3> QED BY <2>b, <3>1 DEF IsInjective
  <2>8. \A i \in DOMAIN r : r[i] \in ToSet(s) \ {e}
    <3> SUFFICES ASSUME NEW i \in DOMAIN r PROVE r[i] \in ToSet(s) /\ r[i] # s[p]
      BY <2>1
    <3>1. i \in Nat /\ p \in Nat
      BY <2>1, <2>d
    <3> QED BY <2>a, <2>b, <3>1 DEF IsInjective, ToSet
  <2>9. \A j \in DOMAIN s : s[j] # e => s[j] \in ToSet(r)
    BY <2>1, <2>c DEF ToSet
  <2>10. ToSet(r) = ToSet(s) \ {e}
    BY <2>8, <2>9 DEF ToSet
  <2> QED BY <1>1, <1>3, <2>5, <2>6, <2>7, <2>10 DEF r
<1> QED BY <1>2, <1>3

-----------------------------------------------------------------------------
(* Audit streams *)

(* The secret in force at a place, said without the maximum: that of a     *)
(* rotation with no other between, or the first secret if there is none.   *)
InForce(km, events, i, s) ==
  \/ s = InitialSecret /\ \A j \in 1..(i - 1) : km[events[j].id] = NoSecret
  \/ \E j \in 1..(i - 1) :
       /\ s = km[events[j].id] /\ s # NoSecret
       /\ \A k \in (j + 1)..(i - 1) : km[events[k].id] = NoSecret

LEMMA InForceIsSecretAt ==
  ASSUME NEW keys, NEW events, NEW i \in Nat, NEW s, InForce(keys, events, i, s)
  PROVE  SecretAt(keys, events, i) = s
<1> DEFINE rotations == {j \in 1..(i - 1) : keys[events[j].id] # NoSecret}
<1>1. CASE s = InitialSecret /\ \A j \in 1..(i - 1) : keys[events[j].id] = NoSecret
  <2>1. rotations = {}
    BY <1>1
  <2> QED BY <1>1, <2>1 DEF SecretAt
<1>2. CASE \E j \in 1..(i - 1) :
             /\ s = keys[events[j].id] /\ s # NoSecret
             /\ \A k \in (j + 1)..(i - 1) : keys[events[k].id] = NoSecret
  <2>1. PICK j \in 1..(i - 1) :
             /\ s = keys[events[j].id] /\ s # NoSecret
             /\ \A k \in (j + 1)..(i - 1) : keys[events[k].id] = NoSecret
    BY <1>2
  <2>2. j \in rotations
    BY <2>1
  <2>3. \A k \in rotations : j >= k
    <3> SUFFICES ASSUME NEW k \in 1..(i - 1), keys[events[k].id] # NoSecret, ~(j >= k)
                 PROVE  FALSE
      OBVIOUS
    <3>1. k \in (j + 1)..(i - 1)
      OBVIOUS
    <3> QED BY <2>1, <3>1
  <2>4. \A k \in rotations : (\A n \in rotations : k >= n) => k = j
    BY <2>2, <2>3
  <2> HIDE DEF rotations
  <2>5. Max(rotations) = j
    BY <2>2, <2>3, <2>4 DEF Max
  <2> QED BY <2>1, <2>2, <2>5 DEF SecretAt, rotations
<1> QED BY <1>1, <1>2 DEF InForce

LEMMA InForceAgrees ==
  ASSUME NEW km, NEW events, NEW kn, NEW others, NEW i \in Nat, NEW s,
         \A j \in 1..(i - 1) : km[events[j].id] = kn[others[j].id],
         InForce(km, events, i, s)
  PROVE  InForce(kn, others, i, s)
<1>1. CASE s = InitialSecret /\ \A j \in 1..(i - 1) : km[events[j].id] = NoSecret
  BY <1>1 DEF InForce
<1>2. CASE \E j \in 1..(i - 1) :
             /\ s = km[events[j].id] /\ s # NoSecret
             /\ \A k \in (j + 1)..(i - 1) : km[events[k].id] = NoSecret
  <2>1. PICK j \in 1..(i - 1) :
             /\ s = km[events[j].id] /\ s # NoSecret
             /\ \A k \in (j + 1)..(i - 1) : km[events[k].id] = NoSecret
    BY <1>2
  <2>2. \A k \in (j + 1)..(i - 1) : k \in 1..(i - 1)
    OBVIOUS
  <2>3. \A k \in (j + 1)..(i - 1) : kn[others[k].id] = NoSecret
    BY <2>1, <2>2
  <2>4. s = kn[others[j].id]
    BY <2>1
  <2> QED BY <2>1, <2>3, <2>4 DEF InForce
<1> QED BY <1>1, <1>2 DEF InForce

(* An event that is no rotation leaves the secret in force.                *)
LEMMA InForceOn ==
  ASSUME NEW km, NEW events, NEW n \in Nat \ {0}, NEW s, InForce(km, events, n, s),
         km[events[n].id] = NoSecret
  PROVE  InForce(km, events, n + 1, s)
<1>1. (n + 1) - 1 = n /\ \A j \in 1..n : j \in 1..(n - 1) \/ j = n
  OBVIOUS
<1>2. CASE s = InitialSecret /\ \A j \in 1..(n - 1) : km[events[j].id] = NoSecret
  BY <1>1, <1>2 DEF InForce
<1>3. CASE \E j \in 1..(n - 1) :
             /\ s = km[events[j].id] /\ s # NoSecret
             /\ \A k \in (j + 1)..(n - 1) : km[events[k].id] = NoSecret
  <2>1. PICK j \in 1..(n - 1) :
             /\ s = km[events[j].id] /\ s # NoSecret
             /\ \A k \in (j + 1)..(n - 1) : km[events[k].id] = NoSecret
    BY <1>3
  <2>2. \A k \in (j + 1)..n : k \in (j + 1)..(n - 1) \/ k = n
    OBVIOUS
  <2>3. j \in 1..n /\ \A k \in (j + 1)..n : km[events[k].id] = NoSecret
    BY <2>1, <2>2
  <2> QED BY <1>1, <2>1, <2>3 DEF InForce
<1> QED BY <1>2, <1>3 DEF InForce

(* A rotation is in force from the event after it.                         *)
LEMMA InForceSince ==
  ASSUME NEW km, NEW events, NEW n \in Nat \ {0}, km[events[n].id] # NoSecret
  PROVE  InForce(km, events, n + 1, km[events[n].id])
<1>1. (n + 1) - 1 = n /\ n \in 1..n /\ (n + 1)..n = {}
  OBVIOUS
<1> QED BY <1>1 DEF InForce

-----------------------------------------------------------------------------
(* SignedIds are drawn once: whoever holds one that is not in the stream yet is  *)
(* the only one.                                                           *)

AuditEvent == [id : Nat, key : Secrets, prev : Nat, intact : {TRUE}, rest : {TRUE}]
SignedIds        == {signedEvents[i].id : i \in DOMAIN signedEvents}
Holds(t)   == auditPc[t] \in {"sign", "append"}
Rotates(t) == auditPc[t] \in {"map", "switch"}

AuditTypes ==
  /\ signedEvents \in Seq(AuditEvent)
  /\ secret \in Secrets /\ issued \in 0..MaxSigned /\ overlapped \in BOOLEAN
  /\ auditPc \in [Threads -> {"idle", "sign", "append", "map", "switch"}]
  /\ pending \in [Threads -> [id : Nat, key : Secrets \cup {NoSecret}, prev : Nat,
                              new : Secrets \cup {NoSecret}]]
  /\ keyMap \in [Ids1 -> Secrets \cup {NoSecret}]

IdInv ==
  /\ SignedIds \subseteq 1..issued
  /\ \A i, j \in DOMAIN signedEvents : signedEvents[i].id = signedEvents[j].id => i = j
  /\ \A t, u \in Threads : Holds(t) /\ Holds(u) /\ pending[u].id = pending[t].id => u = t
  /\ \A t \in Threads :
       /\ Holds(t) => pending[t].id \in (1..issued) \ SignedIds
       /\ Rotates(t) => pending[t].id \in SignedIds /\ pending[t].new # NoSecret
       /\ auditPc[t] = "append" => pending[t].key \in Secrets
  /\ \A k \in Ids1 : keyMap[k] # NoSecret => k \in SignedIds

(* As long as calls do not overlap: what is in the stream is linked and    *)
(* signed under the secret in force, and the one call that runs has read   *)
(* what is still so.                                                       *)
Linked == \A i \in DOMAIN signedEvents : LinkedAt(signedEvents, i)
Keyed  ==
  \A i \in DOMAIN signedEvents : InForce(keyMap, signedEvents, i, signedEvents[i].key)
Upcoming(s) == InForce(keyMap, signedEvents, Len(signedEvents) + 1, s)

RunInv(t) ==
  /\ Holds(t) => pending[t].prev = PrevId
  /\ auditPc[t] = "append" => pending[t].key = secret
  /\ Rotates(t) => signedEvents # <<>> /\ pending[t].id = Last(signedEvents).id
  /\ auditPc[t] = "map" => keyMap[pending[t].id] = NoSecret
  /\ IF auditPc[t] = "switch" THEN Upcoming(pending[t].new)
                              ELSE auditPc[t] # "idle" => Upcoming(secret)

OneCall   == \A t, u \in Threads : auditPc[t] # "idle" /\ auditPc[u] # "idle" => t = u
Unstirred == (\A t \in Threads : auditPc[t] = "idle") => Upcoming(secret)

ChainInv == ~overlapped => OneCall /\ Linked /\ Keyed /\ Unstirred /\ \A t \in Threads : RunInv(t)

AuditInv == AuditTypes /\ IdInv /\ ChainInv

LEMMA AuditInitial == AuditInit => AuditInv
<1> SUFFICES ASSUME AuditInit PROVE AuditInv
  OBVIOUS
<1>1. /\ signedEvents = <<>> /\ secret = InitialSecret /\ issued = 0 /\ overlapped = FALSE
      /\ keyMap = [i \in Ids1 |-> NoSecret] /\ pending = [t \in Threads |-> NoCall]
      /\ auditPc = [t \in Threads |-> "idle"]
  BY DEF AuditInit
<1>2. signedEvents \in Seq(AuditEvent) /\ Len(signedEvents) = 0 /\ DOMAIN signedEvents = {}
  BY <1>1
<1>3. NoCall \in [id : Nat, key : Secrets \cup {NoSecret}, prev : Nat, new : Secrets \cup {NoSecret}]
  BY DEF NoCall
<1>4. AuditTypes
  <2>1. pending \in [Threads -> [id : Nat, key : Secrets \cup {NoSecret}, prev : Nat,
                                 new : Secrets \cup {NoSecret}]]
    BY <1>1, <1>3
  <2>2. 0 \in 0..MaxSigned /\ InitialSecret \in Secrets
    BY AuditAssumption
  <2>3. auditPc \in [Threads -> {"idle", "sign", "append", "map", "switch"}]
    BY <1>1
  <2>4. keyMap \in [Ids1 -> Secrets \cup {NoSecret}]
    BY <1>1
  <2> QED BY <1>1, <1>2, <2>1, <2>2, <2>3, <2>4 DEF AuditTypes
<1>5. SignedIds = {}
  BY <1>2 DEF SignedIds
<1>6. IdInv
  BY <1>1, <1>2, <1>5 DEF IdInv, Holds, Rotates
<1>7. Upcoming(secret)
  <2>1. 1..((0 + 1) - 1) = {}
    OBVIOUS
  <2> QED BY <1>1, <1>2, <2>1 DEF Upcoming, InForce
<1>8. ChainInv
  BY <1>1, <1>2, <1>7 DEF ChainInv, OneCall, Linked, Keyed, Unstirred, RunInv, Holds, Rotates
<1> QED BY <1>4, <1>6, <1>8 DEF AuditInv

LEMMA ReadPrevKeeps ==
  ASSUME AuditInv, NEW t \in Threads, NEW new \in Secrets \cup {NoSecret}, ReadPrev(t, new)
  PROVE  AuditInv'
<1> DEFINE call == [id |-> issued + 1, key |-> NoSecret, prev |-> PrevId, new |-> new]
<1>1. /\ issued < MaxSigned /\ issued' = issued + 1
      /\ auditPc[t] = "idle" /\ auditPc' = [auditPc EXCEPT ![t] = "sign"]
      /\ pending' = [pending EXCEPT ![t] = call]
      /\ overlapped' = (overlapped \/ \E u \in Threads : auditPc[u] # "idle")
      /\ UNCHANGED <<signedEvents, secret, keyMap>>
  BY DEF ReadPrev, Moves
<1>2. AuditTypes /\ MaxSigned \in Nat /\ issued \in Nat /\ issued + 1 \in 1..MaxSigned
  BY <1>1, AuditAssumption DEF AuditInv, AuditTypes
<1>3. PrevId \in Nat
  <2>1. CASE signedEvents = <<>>
    BY <2>1 DEF PrevId
  <2>2. CASE signedEvents # <<>>
    <3>1. signedEvents \in Seq(AuditEvent)
      BY <1>2 DEF AuditTypes
    <3>2. signedEvents[Len(signedEvents)] \in AuditEvent
      BY <2>2, <3>1
    <3> QED BY <2>2, <3>2 DEF PrevId, Last, AuditEvent
  <2> QED BY <2>1, <2>2
<1>4. AuditTypes'
  <2>1. call \in [id : Nat, key : Secrets \cup {NoSecret}, prev : Nat, new : Secrets \cup {NoSecret}]
    BY <1>2, <1>3
  <2> HIDE DEF call
  <2> QED BY <1>1, <1>2, <2>1 DEF AuditTypes
<1>5. /\ pending'[t].id = issued + 1 /\ pending'[t].prev = PrevId /\ pending'[t].new = new
      /\ auditPc'[t] = "sign"
      /\ \A u \in Threads : u # t => pending'[u] = pending[u] /\ auditPc'[u] = auditPc[u]
  BY <1>1, <1>2 DEF AuditTypes
<1>6. SignedIds' = SignedIds /\ PrevId' = PrevId /\ \A s : Upcoming(s)' <=> Upcoming(s)
  BY <1>1 DEF SignedIds, PrevId, Upcoming
<1> HIDE DEF call
<1>7. IdInv'
  <2>1. 1..issued \subseteq 1..(issued + 1) /\ issued + 1 \notin 1..issued
        /\ issued + 1 \in 1..(issued + 1)
    BY <1>2
  <2>2. SignedIds' \subseteq 1..issued' /\ pending'[t].id \in (1..issued') \ SignedIds'
    BY <1>1, <1>5, <1>6, <2>1 DEF AuditInv, IdInv
  <2>3. \A u \in Threads : Holds(u)' => u = t \/ (Holds(u) /\ pending'[u].id = pending[u].id)
    BY <1>5 DEF Holds
  <2>4. \A u \in Threads : Holds(u) => pending[u].id \in 1..issued /\ pending[u].id \notin SignedIds
    BY DEF AuditInv, IdInv
  <2>5. \A a, b \in Threads : Holds(a)' /\ Holds(b)' /\ pending'[b].id = pending'[a].id => b = a
    <3> SUFFICES ASSUME NEW a \in Threads, NEW b \in Threads, Holds(a)', Holds(b)',
                        pending'[b].id = pending'[a].id
                 PROVE  b = a
      OBVIOUS
    <3>1. CASE a # t /\ b # t
      BY <2>3, <3>1 DEF AuditInv, IdInv
    <3>2. CASE a = t /\ b # t
      BY <1>5, <2>1, <2>3, <2>4, <3>2
    <3>3. CASE a # t /\ b = t
      BY <1>5, <2>1, <2>3, <2>4, <3>3
    <3> QED BY <3>1, <3>2, <3>3
  <2>6. \A u \in Threads :
          /\ Holds(u)' => pending'[u].id \in (1..issued') \ SignedIds'
          /\ Rotates(u)' => pending'[u].id \in SignedIds' /\ pending'[u].new # NoSecret
          /\ auditPc'[u] = "append" => pending'[u].key \in Secrets
    <3> TAKE u \in Threads
    <3>1. CASE u = t
      BY <1>5, <2>2, <3>1 DEF Rotates
    <3>2. CASE u # t
      BY <1>1, <1>5, <1>6, <2>1, <3>2 DEF AuditInv, IdInv, Holds, Rotates
    <3> QED BY <3>1, <3>2
  <2> QED BY <1>1, <1>6, <2>2, <2>5, <2>6 DEF AuditInv, IdInv
<1>8. ChainInv'
  <2> SUFFICES ASSUME ~overlapped, \A u \in Threads : auditPc[u] = "idle"
               PROVE  OneCall' /\ Linked' /\ Keyed' /\ Unstirred' /\ \A u \in Threads : RunInv(u)'
    BY <1>1, <1>2 DEF ChainInv, AuditTypes
  <2>1. Linked /\ Keyed /\ Upcoming(secret)
    BY DEF AuditInv, ChainInv, Unstirred
  <2>2. Linked' /\ Keyed'
    BY <1>1, <2>1 DEF Linked, Keyed, LinkedAt
  <2>3. OneCall' /\ Unstirred'
    BY <1>5 DEF OneCall, Unstirred
  <2>4. \A u \in Threads : RunInv(u)'
    <3> TAKE u \in Threads
    <3>1. CASE u = t
      BY <1>1, <1>5, <1>6, <2>1, <3>1 DEF RunInv, Holds, Rotates
    <3>2. CASE u # t
      BY <1>5, <3>2 DEF RunInv, Holds, Rotates
    <3> QED BY <3>1, <3>2
  <2> QED BY <2>2, <2>3, <2>4
<1> QED BY <1>4, <1>7, <1>8 DEF AuditInv

(* Others are idle while a call runs that overlaps with none.              *)
LEMMA OthersIdle ==
  ASSUME AuditInv, ~overlapped, NEW t \in Threads, auditPc[t] # "idle"
  PROVE  /\ \A u \in Threads : u # t => auditPc[u] = "idle"
         /\ OneCall /\ Linked /\ Keyed /\ RunInv(t)
BY DEF AuditInv, ChainInv, OneCall

LEMMA SignNowKeeps ==
  ASSUME AuditInv, NEW t \in Threads, SignNow(t)
  PROVE  AuditInv'
<1>1. /\ auditPc[t] = "sign" /\ auditPc' = [auditPc EXCEPT ![t] = "append"]
      /\ pending' = [pending EXCEPT ![t].key = secret]
      /\ UNCHANGED <<signedEvents, secret, keyMap, issued, overlapped>>
  BY DEF SignNow, Moves
<1>2. AuditTypes
  BY DEF AuditInv
<1>3. AuditTypes'
  BY <1>1, <1>2 DEF AuditTypes
<1>4. /\ auditPc'[t] = "append" /\ pending'[t].key = secret /\ secret \in Secrets
      /\ pending'[t].id = pending[t].id /\ pending'[t].prev = pending[t].prev
      /\ \A u \in Threads : u # t => pending'[u] = pending[u] /\ auditPc'[u] = auditPc[u]
      /\ \A u \in Threads : pending'[u].id = pending[u].id /\ pending'[u].new = pending[u].new
  BY <1>1, <1>2 DEF AuditTypes
<1>5. SignedIds' = SignedIds /\ PrevId' = PrevId /\ \A s : Upcoming(s)' <=> Upcoming(s)
  BY <1>1 DEF SignedIds, PrevId, Upcoming
<1>6. /\ \A u \in Threads : Holds(u)' <=> Holds(u)
      /\ \A u \in Threads : Rotates(u)' <=> Rotates(u)
  <2> SUFFICES ASSUME NEW u \in Threads PROVE (Holds(u)' <=> Holds(u)) /\ (Rotates(u)' <=> Rotates(u))
    OBVIOUS
  <2> QED BY <1>1, <1>4 DEF Holds, Rotates
<1>7. IdInv'
  <2>1. \A u \in Threads :
          /\ Holds(u)' => pending'[u].id \in (1..issued') \ SignedIds'
          /\ Rotates(u)' => pending'[u].id \in SignedIds' /\ pending'[u].new # NoSecret
          /\ auditPc'[u] = "append" => pending'[u].key \in Secrets
    <3> TAKE u \in Threads
    <3>1. CASE u = t
      BY <1>1, <1>4, <1>5, <1>6, <3>1 DEF AuditInv, IdInv
    <3>2. CASE u # t
      BY <1>1, <1>4, <1>5, <1>6, <3>2 DEF AuditInv, IdInv
    <3> QED BY <3>1, <3>2
  <2>2. \A a, b \in Threads : Holds(a)' /\ Holds(b)' /\ pending'[b].id = pending'[a].id => b = a
    BY <1>4, <1>6 DEF AuditInv, IdInv
  <2> QED BY <1>1, <1>5, <2>1, <2>2 DEF AuditInv, IdInv
<1>8. ChainInv'
  <2> SUFFICES ASSUME ~overlapped
               PROVE  OneCall' /\ Linked' /\ Keyed' /\ Unstirred' /\ \A u \in Threads : RunInv(u)'
    BY <1>1 DEF ChainInv
  <2>1. (\A u \in Threads : u # t => auditPc[u] = "idle") /\ Linked /\ Keyed /\ RunInv(t)
    BY <1>1, OthersIdle
  <2>2. Linked' /\ Keyed'
    BY <1>1, <2>1 DEF Linked, Keyed, LinkedAt
  <2>3. OneCall' /\ Unstirred'
    BY <1>4, <2>1 DEF OneCall, Unstirred
  <2>4. \A u \in Threads : RunInv(u)'
    <3> TAKE u \in Threads
    <3>1. CASE u = t
      BY <1>1, <1>4, <1>5, <2>1, <3>1 DEF RunInv, Holds, Rotates
    <3>2. CASE u # t
      BY <1>4, <2>1, <3>2 DEF RunInv, Holds, Rotates
    <3> QED BY <3>1, <3>2
  <2> QED BY <2>2, <2>3, <2>4
<1> QED BY <1>3, <1>7, <1>8 DEF AuditInv

(* What was said of the places of a stream is still so when an event is    *)
(* appended that no rotation is recorded for.                              *)
LEMMA AppendedStaysInForce ==
  ASSUME NEW km, NEW events \in Seq(AuditEvent), NEW e \in AuditEvent, NEW i \in 1..(Len(events) + 1),
         NEW s, InForce(km, events, i, s)
  PROVE  InForce(km, Append(events, e), i, s)
<1>1. Len(events) \in Nat /\ \A j \in 1..Len(events) : Append(events, e)[j] = events[j]
  OBVIOUS
<1>2. i \in Nat /\ \A j \in 1..(i - 1) : j \in 1..Len(events)
  BY <1>1
<1>3. \A j \in 1..(i - 1) : km[events[j].id] = km[Append(events, e)[j].id]
  BY <1>1, <1>2
<1> QED BY <1>2, <1>3, InForceAgrees

LEMMA AppendSignedKeeps ==
  ASSUME AuditInv, NEW t \in Threads, AppendSigned(t)
  PROVE  AuditInv'
<1> PICK e : e = [id |-> pending[t].id, key |-> pending[t].key, prev |-> pending[t].prev,
                 intact |-> TRUE, rest |-> TRUE]
  OBVIOUS
<1> PICK n : n = Len(signedEvents)
  OBVIOUS
<1> PICK to : to = IF pending[t].new = NoSecret THEN "idle" ELSE "map"
  OBVIOUS
<1>1. /\ auditPc[t] = "append" /\ auditPc' = [auditPc EXCEPT ![t] = to]
      /\ signedEvents' = Append(signedEvents, e)
      /\ pending' = IF pending[t].new = NoSecret THEN [pending EXCEPT ![t] = NoCall] ELSE pending
      /\ UNCHANGED <<secret, keyMap, issued, overlapped>>
  BY DEF AppendSigned, Moves
<1>2. AuditTypes /\ signedEvents \in Seq(AuditEvent)
  BY DEF AuditInv, AuditTypes
<1>3. /\ pending[t].id \in (1..issued) \ SignedIds /\ pending[t].key \in Secrets /\ pending[t].prev \in Nat
      /\ issued \in Nat
  BY <1>1 DEF AuditInv, AuditTypes, IdInv, Holds
<1>4. e \in AuditEvent /\ e.id = pending[t].id /\ e.key = pending[t].key /\ e.prev = pending[t].prev
  BY <1>3 DEF AuditEvent
<1>5. /\ n \in Nat /\ signedEvents' \in Seq(AuditEvent) /\ Len(signedEvents') = n + 1
      /\ DOMAIN signedEvents = 1..n /\ DOMAIN signedEvents' = 1..(n + 1)
      /\ signedEvents'[n + 1] = e /\ \A i \in 1..n : signedEvents'[i] = signedEvents[i]
  BY <1>1, <1>2, <1>4
<1>6. AuditTypes'
  <2>1. NoCall \in [id : Nat, key : Secrets \cup {NoSecret}, prev : Nat, new : Secrets \cup {NoSecret}]
    BY DEF NoCall
  <2>2. pending' \in [Threads -> [id : Nat, key : Secrets \cup {NoSecret}, prev : Nat,
                                  new : Secrets \cup {NoSecret}]]
    BY <1>1, <1>2, <2>1 DEF AuditTypes
  <2> QED BY <1>1, <1>2, <1>5, <2>2 DEF AuditTypes
<1>7. /\ auditPc'[t] = to /\ ~Holds(t)' /\ (Rotates(t)' <=> to = "map")
      /\ to = "map" => pending'[t] = pending[t] /\ pending[t].new # NoSecret
      /\ to = "idle" \/ to = "map"
      /\ \A u \in Threads : u # t => pending'[u] = pending[u] /\ auditPc'[u] = auditPc[u]
  BY <1>1, <1>2 DEF AuditTypes, Holds, Rotates
<1>8. SignedIds' = SignedIds \cup {e.id}
  <2>1. \A i \in 1..n : signedEvents'[i].id = signedEvents[i].id
    BY <1>5
  <2>2. 1..(n + 1) = (1..n) \cup {n + 1}
    BY <1>5
  <2> QED BY <1>5, <2>1, <2>2 DEF SignedIds
<1>9. IdInv'
  <2>1. SignedIds' \subseteq 1..issued'
    BY <1>1, <1>3, <1>4, <1>8 DEF AuditInv, IdInv
  <2>2. \A i, j \in 1..(n + 1) : signedEvents'[i].id = signedEvents'[j].id => i = j
    <3> SUFFICES ASSUME NEW i \in 1..(n + 1), NEW j \in 1..(n + 1), signedEvents'[i].id = signedEvents'[j].id
                 PROVE  i = j
      OBVIOUS
    <3>0. \A k \in 1..n : signedEvents[k].id # e.id
      BY <1>3, <1>4, <1>5 DEF SignedIds
    <3>1. CASE i \in 1..n /\ j \in 1..n
      BY <1>5, <3>1 DEF AuditInv, IdInv
    <3>2. CASE i = n + 1 \/ j = n + 1
      BY <1>5, <3>0, <3>2
    <3> QED BY <1>5, <3>1, <3>2
  <2>3. \A a, b \in Threads : Holds(a)' /\ Holds(b)' /\ pending'[b].id = pending'[a].id => b = a
    BY <1>7 DEF AuditInv, IdInv, Holds
  <2>4. \A u \in Threads :
          /\ Holds(u)' => pending'[u].id \in (1..issued') \ SignedIds'
          /\ Rotates(u)' => pending'[u].id \in SignedIds' /\ pending'[u].new # NoSecret
          /\ auditPc'[u] = "append" => pending'[u].key \in Secrets
    <3> TAKE u \in Threads
    <3>1. CASE u = t
      BY <1>4, <1>7, <1>8, <3>1
    <3>2. CASE u # t
      <4>1. Holds(t) /\ (Holds(u)' <=> Holds(u)) /\ (Rotates(u)' <=> Rotates(u))
        BY <1>1, <1>7, <3>2 DEF Holds, Rotates
      <4>2. Holds(u) => pending[u].id # e.id
        BY <1>4, <3>2, <4>1 DEF AuditInv, IdInv
      <4> QED BY <1>1, <1>7, <1>8, <3>2, <4>1, <4>2 DEF AuditInv, IdInv
    <3> QED BY <3>1, <3>2
  <2>5. \A k \in Ids1 : keyMap'[k] # NoSecret => k \in SignedIds'
    BY <1>1, <1>8 DEF AuditInv, IdInv
  <2> QED BY <1>5, <2>1, <2>2, <2>3, <2>4, <2>5 DEF IdInv
<1>10. ChainInv'
  <2> SUFFICES ASSUME ~overlapped
               PROVE  OneCall' /\ Linked' /\ Keyed' /\ Unstirred' /\ \A u \in Threads : RunInv(u)'
    BY <1>1 DEF ChainInv
  <2>1. (\A u \in Threads : u # t => auditPc[u] = "idle") /\ Linked /\ Keyed /\ RunInv(t)
    BY <1>1, OthersIdle
  <2>2. e.prev = PrevId /\ e.key = secret /\ Upcoming(secret)
    BY <1>1, <1>4, <2>1 DEF RunInv, Holds
  <2>3. keyMap[e.id] = NoSecret
    <3>1. e.id \in Ids1 /\ e.id \notin SignedIds
      BY <1>2, <1>3, <1>4, AuditAssumption DEF AuditTypes, Ids1
    <3> QED BY <3>1 DEF AuditInv, IdInv
  <2>4. Linked'
    <3> SUFFICES ASSUME NEW i \in 1..(n + 1) PROVE LinkedAt(signedEvents', i)
      BY <1>5 DEF Linked
    <3>1. CASE i \in 1..n
      <4>1. i # 1 => i - 1 \in 1..n
        BY <1>5, <3>1
      <4> QED BY <1>5, <2>1, <3>1, <4>1 DEF Linked, LinkedAt
    <3>2. CASE i = n + 1
      <4>1. CASE n = 0
        BY <1>2, <1>5, <2>2, <3>2, <4>1 DEF LinkedAt, PrevId
      <4>2. CASE n # 0
        <5>1. signedEvents # <<>> /\ n \in 1..n /\ (n + 1) - 1 = n /\ n + 1 # 1
          BY <1>2, <1>5, <4>2
        <5> QED BY <1>5, <2>2, <3>2, <5>1 DEF LinkedAt, PrevId, Last
      <4> QED BY <4>1, <4>2
    <3> QED BY <1>5, <3>1, <3>2
  <2>5. \A i \in 1..(n + 1) : \A s : InForce(keyMap, signedEvents, i, s) => InForce(keyMap, signedEvents', i, s)
    BY <1>1, <1>2, <1>4, AppendedStaysInForce
  <2>6. Keyed'
    <3> SUFFICES ASSUME NEW i \in 1..(n + 1)
                 PROVE  InForce(keyMap, signedEvents', i, signedEvents'[i].key)
      BY <1>1, <1>5 DEF Keyed
    <3>1. CASE i \in 1..n
      BY <1>5, <2>1, <2>5, <3>1 DEF Keyed
    <3>2. CASE i = n + 1
      BY <1>5, <2>2, <2>5, <3>2 DEF Upcoming
    <3> QED BY <1>5, <3>1, <3>2
  <2>7. Upcoming(secret)'
    <3>1. InForce(keyMap, signedEvents', n + 1, secret)
      BY <1>5, <2>2, <2>5 DEF Upcoming
    <3>2. n + 1 \in Nat \ {0} /\ keyMap[signedEvents'[n + 1].id] = NoSecret
      BY <1>5, <2>3
    <3>3. InForce(keyMap, signedEvents', (n + 1) + 1, secret)
      BY <3>1, <3>2, InForceOn
    <3> QED BY <1>1, <1>5, <3>3 DEF Upcoming
  <2>8. OneCall' /\ Unstirred'
    BY <1>7, <2>1, <2>7 DEF OneCall, Unstirred
  <2>9. \A u \in Threads : RunInv(u)'
    <3> TAKE u \in Threads
    <3>1. CASE u = t
      <4>1. signedEvents' # <<>> /\ Last(signedEvents)' = e
        BY <1>5 DEF Last
      <4> QED BY <1>1, <1>4, <1>7, <2>3, <2>7, <3>1, <4>1 DEF RunInv, Holds, Rotates
    <3>2. CASE u # t
      BY <1>7, <2>1, <3>2 DEF RunInv, Holds, Rotates
    <3> QED BY <3>1, <3>2
  <2> QED BY <2>4, <2>6, <2>8, <2>9
<1> QED BY <1>6, <1>9, <1>10 DEF AuditInv

LEMMA MapKeyKeeps ==
  ASSUME AuditInv, NEW t \in Threads, MapKey(t)
  PROVE  AuditInv'
<1> PICK r : r = pending[t].id
  OBVIOUS
<1>1. /\ auditPc[t] = "map" /\ auditPc' = [auditPc EXCEPT ![t] = "switch"]
      /\ keyMap' = [keyMap EXCEPT ![r] = pending[t].new]
      /\ UNCHANGED <<signedEvents, secret, pending, issued, overlapped>>
  BY DEF MapKey, Moves, RotationEvent
<1>2. AuditTypes /\ SignedIds \subseteq 1..issued
  BY DEF AuditInv, IdInv
<1>3. r \in SignedIds /\ pending[t].new # NoSecret /\ pending[t].new \in Secrets \cup {NoSecret}
  BY <1>1, <1>2 DEF AuditInv, AuditTypes, IdInv, Rotates
<1>4. r \in Ids1
  BY <1>2, <1>3, AuditAssumption DEF AuditTypes, Ids1
<1>5. /\ keyMap'[r] = pending[t].new /\ \A k \in Ids1 : k # r => keyMap'[k] = keyMap[k]
      /\ auditPc'[t] = "switch"
      /\ \A u \in Threads : u # t => auditPc'[u] = auditPc[u]
  BY <1>1, <1>2, <1>4 DEF AuditTypes
<1>6. AuditTypes'
  BY <1>1, <1>2, <1>3 DEF AuditTypes
<1>7. SignedIds' = SignedIds /\ PrevId' = PrevId
  BY <1>1 DEF SignedIds, PrevId
<1>8. /\ \A u \in Threads : Holds(u)' <=> Holds(u)
      /\ \A u \in Threads : Rotates(u)' <=> Rotates(u)
  <2> SUFFICES ASSUME NEW u \in Threads PROVE (Holds(u)' <=> Holds(u)) /\ (Rotates(u)' <=> Rotates(u))
    OBVIOUS
  <2> QED BY <1>1, <1>5 DEF Holds, Rotates
<1>9. IdInv'
  <2>1. \A u \in Threads :
          /\ Holds(u)' => pending'[u].id \in (1..issued') \ SignedIds'
          /\ Rotates(u)' => pending'[u].id \in SignedIds' /\ pending'[u].new # NoSecret
          /\ auditPc'[u] = "append" => pending'[u].key \in Secrets
    <3> TAKE u \in Threads
    <3>1. auditPc'[u] = "append" => auditPc[u] = "append"
      BY <1>5
    <3> QED BY <1>1, <1>7, <1>8, <3>1 DEF AuditInv, IdInv
  <2>2. \A a, b \in Threads : Holds(a)' /\ Holds(b)' /\ pending'[b].id = pending'[a].id => b = a
    BY <1>1, <1>8 DEF AuditInv, IdInv
  <2>3. \A k \in Ids1 : keyMap'[k] # NoSecret => k \in SignedIds'
    BY <1>3, <1>5, <1>7 DEF AuditInv, IdInv
  <2> QED BY <1>1, <1>7, <2>1, <2>2, <2>3 DEF AuditInv, IdInv
<1>10. ChainInv'
  <2> SUFFICES ASSUME ~overlapped
               PROVE  OneCall' /\ Linked' /\ Keyed' /\ Unstirred' /\ \A u \in Threads : RunInv(u)'
    BY <1>1 DEF ChainInv
  <2>1. (\A u \in Threads : u # t => auditPc[u] = "idle") /\ Linked /\ Keyed /\ RunInv(t)
    BY <1>1, OthersIdle
  <2> PICK n : n = Len(signedEvents)
    OBVIOUS
  <2>2. /\ n \in Nat \ {0} /\ DOMAIN signedEvents = 1..n /\ signedEvents[n].id = r
    <3>1. signedEvents # <<>> /\ r = Last(signedEvents).id
      BY <1>1, <2>1 DEF RunInv, Rotates
    <3>2. signedEvents \in Seq(AuditEvent)
      BY <1>2 DEF AuditTypes
    <3> QED BY <3>1, <3>2 DEF Last
  <2>3. \A j \in 1..n : signedEvents[j].id \in Ids1 /\ (j # n => signedEvents[j].id # r)
    <3>1. \A j \in 1..n : signedEvents[j].id \in SignedIds
      BY <2>2 DEF SignedIds
    <3>2. SignedIds \subseteq Ids1
      BY <1>2, AuditAssumption DEF AuditTypes, Ids1
    <3>3. n \in 1..n
      BY <2>2
    <3>4. \A j \in 1..n : j # n => signedEvents[j].id # r
      BY <2>2, <3>3 DEF AuditInv, IdInv
    <3> QED BY <3>1, <3>2, <3>4
  <2>4. \A j \in 1..n : j # n => keyMap'[signedEvents[j].id] = keyMap[signedEvents[j].id]
    BY <1>5, <2>3
  <2>5. Keyed'
    <3> SUFFICES ASSUME NEW i \in 1..n
                 PROVE  InForce(keyMap', signedEvents, i, signedEvents[i].key)
      BY <1>1, <2>2 DEF Keyed
    <3>1. i \in Nat /\ \A j \in 1..(i - 1) : j \in 1..n /\ j # n
      BY <2>2
    <3>2. \A j \in 1..(i - 1) : keyMap[signedEvents[j].id] = keyMap'[signedEvents[j].id]
      BY <2>4, <3>1
    <3>3. InForce(keyMap, signedEvents, i, signedEvents[i].key)
      BY <2>1, <2>2 DEF Keyed
    <3> QED BY <3>1, <3>2, <3>3, InForceAgrees
  <2>6. Linked'
    BY <1>1, <2>1 DEF Linked, LinkedAt
  <2>7. Upcoming(pending[t].new)'
    <3>1. keyMap'[signedEvents[n].id] # NoSecret /\ keyMap'[signedEvents[n].id] = pending[t].new
      BY <1>3, <1>5, <2>2
    <3>2. InForce(keyMap', signedEvents, n + 1, keyMap'[signedEvents[n].id])
      BY <2>2, <3>1, InForceSince
    <3>3. InForce(keyMap', signedEvents, Len(signedEvents) + 1, pending[t].new)
      BY <3>1, <3>2
    <3> QED BY <1>1, <3>3 DEF Upcoming
  <2>8. OneCall' /\ Unstirred'
    BY <1>5, <2>1 DEF OneCall, Unstirred
  <2>9. \A u \in Threads : RunInv(u)'
    <3> TAKE u \in Threads
    <3>1. CASE u = t
      <4>1. Upcoming(pending[u].new)' /\ pending' = pending
        BY <1>1, <2>7, <3>1
      <4> QED BY <1>1, <1>5, <2>1, <2>7, <3>1 DEF RunInv, Holds, Rotates, Upcoming
    <3>2. CASE u # t
      BY <1>5, <2>1, <3>2 DEF RunInv, Holds, Rotates
    <3> QED BY <3>1, <3>2
  <2> QED BY <2>5, <2>6, <2>8, <2>9
<1> QED BY <1>6, <1>9, <1>10 DEF AuditInv

LEMMA SwitchKeyKeeps ==
  ASSUME AuditInv, NEW t \in Threads, SwitchKey(t)
  PROVE  AuditInv'
<1>1. /\ auditPc[t] = "switch" /\ auditPc' = [auditPc EXCEPT ![t] = "idle"]
      /\ secret' = pending[t].new /\ pending' = [pending EXCEPT ![t] = NoCall]
      /\ UNCHANGED <<signedEvents, keyMap, issued, overlapped>>
  BY DEF SwitchKey, Moves
<1>2. AuditTypes
  BY DEF AuditInv
<1>3. /\ auditPc'[t] = "idle"
      /\ \A u \in Threads : u # t => pending'[u] = pending[u] /\ auditPc'[u] = auditPc[u]
  BY <1>1, <1>2 DEF AuditTypes
<1>4. AuditTypes'
  <2>1. NoCall \in [id : Nat, key : Secrets \cup {NoSecret}, prev : Nat, new : Secrets \cup {NoSecret}]
    BY DEF NoCall
  <2>2. pending[t].new \in Secrets
    BY <1>1, <1>2 DEF AuditInv, AuditTypes, IdInv, Rotates
  <2>3. pending' \in [Threads -> [id : Nat, key : Secrets \cup {NoSecret}, prev : Nat,
                                  new : Secrets \cup {NoSecret}]]
    BY <1>1, <1>2, <2>1 DEF AuditTypes
  <2> QED BY <1>1, <1>2, <2>2, <2>3 DEF AuditTypes
<1>5. SignedIds' = SignedIds /\ PrevId' = PrevId
  BY <1>1 DEF SignedIds, PrevId
<1>6. IdInv'
  <2>1. ~Holds(t)' /\ ~Rotates(t)' /\ auditPc'[t] # "append"
    BY <1>3 DEF Holds, Rotates
  <2>2. \A u \in Threads : u # t => (Holds(u)' <=> Holds(u)) /\ (Rotates(u)' <=> Rotates(u))
    BY <1>3 DEF Holds, Rotates
  <2>3. \A u \in Threads :
          /\ Holds(u)' => pending'[u].id \in (1..issued') \ SignedIds'
          /\ Rotates(u)' => pending'[u].id \in SignedIds' /\ pending'[u].new # NoSecret
          /\ auditPc'[u] = "append" => pending'[u].key \in Secrets
    BY <1>1, <1>3, <1>5, <2>1, <2>2 DEF AuditInv, IdInv
  <2>4. \A a, b \in Threads : Holds(a)' /\ Holds(b)' /\ pending'[b].id = pending'[a].id => b = a
    BY <1>3, <2>1, <2>2 DEF AuditInv, IdInv
  <2> QED BY <1>1, <1>5, <2>3, <2>4 DEF AuditInv, IdInv
<1>7. ChainInv'
  <2> SUFFICES ASSUME ~overlapped
               PROVE  OneCall' /\ Linked' /\ Keyed' /\ Unstirred' /\ \A u \in Threads : RunInv(u)'
    BY <1>1 DEF ChainInv
  <2>1. (\A u \in Threads : u # t => auditPc[u] = "idle") /\ Linked /\ Keyed /\ RunInv(t)
    BY <1>1, OthersIdle
  <2>2. Upcoming(secret)'
    BY <1>1, <2>1 DEF RunInv, Upcoming
  <2>3. \A u \in Threads : auditPc'[u] = "idle"
    BY <1>3, <2>1
  <2>4. Linked' /\ Keyed'
    BY <1>1, <2>1 DEF Linked, Keyed, LinkedAt
  <2> QED BY <2>2, <2>3, <2>4 DEF OneCall, Unstirred, RunInv, Holds, Rotates
<1> QED BY <1>4, <1>6, <1>7 DEF AuditInv

LEMMA AuditStep == AuditInv /\ [AuditNext]_auditVars => AuditInv'
<1> SUFFICES ASSUME AuditInv, [AuditNext]_auditVars PROVE AuditInv'
  OBVIOUS
<1>1. ASSUME NEW t \in Threads,
             \/ \E new \in Secrets \cup {NoSecret} : ReadPrev(t, new)
             \/ SignNow(t) \/ AppendSigned(t) \/ MapKey(t) \/ SwitchKey(t)
      PROVE  AuditInv'
  BY <1>1, ReadPrevKeeps, SignNowKeeps, AppendSignedKeeps, MapKeyKeeps, SwitchKeyKeeps
<1>2. CASE UNCHANGED streamVars
  BY <1>2 DEF streamVars, AuditInv, AuditTypes, IdInv, ChainInv, OneCall, Linked, LinkedAt, Keyed,
              Unstirred, RunInv, Upcoming, Holds, Rotates, SignedIds, PrevId
<1> QED BY <1>1, <1>2 DEF AuditNext, auditVars, CopyKeys, ListEvents

(* What AuditInv says of the events themselves.                            *)
LEMMA EventsAreApart ==
  ASSUME AuditInv
  PROVE  /\ Len(signedEvents) \in Nat /\ DOMAIN signedEvents = 1..Len(signedEvents)
         /\ signedEvents \in Seq(AuditEvent)
         /\ \A i \in DOMAIN signedEvents : signedEvents[i].id # 0 /\ signedEvents[i].intact
         /\ \A i, j \in DOMAIN signedEvents : signedEvents[i].id = signedEvents[j].id => i = j
<1>1. signedEvents \in Seq(AuditEvent)
  BY DEF AuditInv, AuditTypes
<1>2. \A i \in DOMAIN signedEvents : signedEvents[i] \in AuditEvent
  BY <1>1
<1>3. \A i \in DOMAIN signedEvents : signedEvents[i].id \in 1..issued
  BY DEF AuditInv, IdInv, SignedIds
<1>4. issued \in Nat
  BY AuditAssumption DEF AuditInv, AuditTypes
<1>5. \A i \in DOMAIN signedEvents : signedEvents[i].id # 0
  BY <1>3, <1>4
<1>6. \A i \in DOMAIN signedEvents : signedEvents[i].intact
  BY <1>2, Zenon DEF AuditEvent
<1>7. \A i, j \in DOMAIN signedEvents : signedEvents[i].id = signedEvents[j].id => i = j
  BY DEF AuditInv, IdInv
<1> QED BY <1>1, <1>5, <1>6, <1>7

(* verify_chain finds nothing wrong where every place verifies.            *)
LEMMA ValidSays ==
  ASSUME NEW keys, NEW S, NEW events \in Seq(S)
  PROVE  Valid(keys, events) <=>
         \A i \in 1..Len(events) : VerifiesAt(keys, events, i) /\ LinkedAt(events, i)
<1>1. DOMAIN events = 1..Len(events) /\ Len(events) \in Nat
  OBVIOUS
<1> PICK bad : bad = {i \in DOMAIN events : ~VerifiesAt(keys, events, i)}
  OBVIOUS
<1>2. Cardinality(bad) = 0 <=> bad = {}
  <2>1. IsFiniteSet(1..Len(events))
    BY <1>1, FS_Interval
  <2>2. IsFiniteSet(bad)
    BY <1>1, <2>1, FS_Subset
  <2> QED BY <2>2, FS_EmptySet
<1> QED BY <1>1, <1>2 DEF Valid, TamperedCount, Gaps

LEMMA SerialVerifies == AuditInv => SerialStreamVerifies
<1> SUFFICES ASSUME AuditInv, ~overlapped PROVE Valid(keyMap, signedEvents)
  BY DEF SerialStreamVerifies
<1>1. Linked /\ Keyed
  BY DEF AuditInv, ChainInv
<1>2. signedEvents \in Seq(AuditEvent)
  BY EventsAreApart
<1>3. \A i \in 1..Len(signedEvents) : VerifiesAt(keyMap, signedEvents, i)
  <2> SUFFICES ASSUME NEW i \in 1..Len(signedEvents) PROVE VerifiesAt(keyMap, signedEvents, i)
    OBVIOUS
  <2>1. i \in Nat /\ i \in DOMAIN signedEvents
    BY <1>2
  <2>2. SecretAt(keyMap, signedEvents, i) = signedEvents[i].key
    BY <1>1, <2>1, InForceIsSecretAt DEF Keyed
  <2> QED BY <2>1, <2>2, EventsAreApart DEF VerifiesAt
<1> QED BY <1>1, <1>2, <1>3, ValidSays DEF Linked

LEMMA ForksAreReported == AuditInv => ForkIsReported
<1> SUFFICES ASSUME AuditInv, Valid(keyMap, signedEvents),
                    NEW i \in DOMAIN signedEvents, NEW j \in DOMAIN signedEvents,
                    signedEvents[i].prev = signedEvents[j].prev
             PROVE  i = j
  BY DEF ForkIsReported
<1>1. signedEvents \in Seq(AuditEvent) /\ i \in 1..Len(signedEvents) /\ j \in 1..Len(signedEvents)
      /\ Len(signedEvents) \in Nat
  BY EventsAreApart
<1>2. LinkedAt(signedEvents, i) /\ LinkedAt(signedEvents, j)
  BY <1>1, ValidSays
<1>3. (i # 1 => i - 1 \in DOMAIN signedEvents) /\ (j # 1 => j - 1 \in DOMAIN signedEvents)
  BY <1>1
<1>4. CASE i = 1 \/ j = 1
  <2>1. ASSUME NEW m \in 1..Len(signedEvents), m # 1, LinkedAt(signedEvents, m),
               m - 1 \in DOMAIN signedEvents
        PROVE  signedEvents[m].prev # 0
    BY <2>1, EventsAreApart DEF LinkedAt
  <2>2. (i = 1 => signedEvents[i].prev = 0) /\ (j = 1 => signedEvents[j].prev = 0)
    BY <1>2 DEF LinkedAt
  <2> QED BY <1>1, <1>2, <1>3, <1>4, <2>1, <2>2
<1>5. CASE i # 1 /\ j # 1
  <2>1. signedEvents[i - 1].id = signedEvents[j - 1].id
    BY <1>2, <1>5 DEF LinkedAt
  <2>2. i - 1 = j - 1
    BY <1>3, <1>5, <2>1, EventsAreApart
  <2> QED BY <1>1, <2>2
<1> QED BY <1>4, <1>5

(* Of a sequence that is accepted, the first event that is not the one at  *)
(* its place in the stream would have to be linked to two events at once.  *)
(* A verify() in flight holds the key map as it is, or as it was before a  *)
(* rotation that is on its record.                                         *)
VerifyInv ==
  /\ verifying \in [Threads -> Verify]
  /\ \A t \in Threads :
       /\ verifying[t].running =>
            /\ verifying[t].found = "nothing"
            /\ ~verifying[t].rotated => verifying[t].keys = keyMap
       /\ verifying[t].found = "broken" => overlapped \/ verifying[t].rotated

LEMMA VerifyInitial == AuditInit => VerifyInv
<1> SUFFICES ASSUME AuditInit PROVE VerifyInv
  OBVIOUS
<1> DEFINE idle == [running |-> FALSE, keys |-> keyMap, found |-> "nothing", rotated |-> FALSE]
<1>1. keyMap \in KeyMaps
  BY DEF AuditInit, KeyMaps
<1>2. idle \in Verify /\ ~idle.running /\ idle.found = "nothing"
  BY <1>1 DEF Verify
<1>3. verifying = [t \in Threads |-> idle]
  BY DEF AuditInit
<1> HIDE DEF idle
<1> QED BY <1>2, <1>3 DEF VerifyInv

LEMMA VerifyStep == AuditInv /\ VerifyInv /\ [AuditNext]_auditVars => VerifyInv'
<1> SUFFICES ASSUME AuditInv, VerifyInv, [AuditNext]_auditVars PROVE VerifyInv'
  OBVIOUS
<1>1. CASE UNCHANGED <<keyMap, verifying>> /\ (overlapped => overlapped')
  BY <1>1 DEF VerifyInv
<1>2. ASSUME NEW t \in Threads, MapKey(t) PROVE VerifyInv'
  <2> DEFINE after(u) == [verifying[u] EXCEPT !.rotated = @ \/ verifying[u].running]
  <2>1. verifying' = [u \in Threads |-> after(u)] /\ overlapped' = overlapped
    BY <1>2 DEF MapKey
  <2>2. ASSUME NEW u \in Threads
        PROVE  /\ after(u) \in Verify /\ after(u).running = verifying[u].running
               /\ after(u).found = verifying[u].found
               /\ after(u).running => after(u).rotated
               /\ verifying[u].rotated => after(u).rotated
    <3>1. verifying[u] \in Verify
      BY DEF VerifyInv
    <3>2. /\ after(u).running = verifying[u].running /\ after(u).found = verifying[u].found
          /\ after(u).keys = verifying[u].keys
          /\ after(u).rotated = (verifying[u].rotated \/ verifying[u].running)
      BY <3>1 DEF Verify
    <3>3. (verifying[u].rotated \/ verifying[u].running) \in BOOLEAN
      OBVIOUS
    <3>4. after(u) \in Verify
      BY <3>1, <3>3 DEF Verify
    <3> QED BY <3>2, <3>4
  <2> HIDE DEF after
  <2> QED BY <2>1, <2>2 DEF VerifyInv
<1>3. ASSUME NEW t \in Threads, CopyKeys(t) PROVE VerifyInv'
  <2> DEFINE run == [running |-> TRUE, keys |-> keyMap, found |-> "nothing", rotated |-> FALSE]
  <2>1. run \in Verify /\ run.keys = keyMap /\ run.found = "nothing"
    BY DEF Verify, AuditInv, AuditTypes, KeyMaps
  <2>2. verifying' = [verifying EXCEPT ![t] = run] /\ UNCHANGED <<keyMap, overlapped>>
    BY <1>3 DEF CopyKeys, streamVars
  <2> HIDE DEF run
  <2> QED BY <2>1, <2>2 DEF VerifyInv
<1>4. ASSUME NEW t \in Threads, ListEvents(t) PROVE VerifyInv'
  <2> DEFINE done == [verifying[t] EXCEPT !.running = FALSE, !.found = Verdict1(t)]
  <2>1. /\ verifying' = [verifying EXCEPT ![t] = done] /\ UNCHANGED <<keyMap, overlapped>>
        /\ verifying[t].running /\ verifying[t] \in Verify
    <3>1. verifying' = [verifying EXCEPT ![t].running = FALSE, ![t].found = Verdict1(t)]
          /\ verifying[t].running /\ UNCHANGED <<keyMap, overlapped>>
      BY <1>4 DEF ListEvents, streamVars
    <3>2. verifying \in [Threads -> Verify]
      BY DEF VerifyInv
    <3> QED BY <3>1, <3>2
  <2>2. Verdict1(t) = "broken" => overlapped \/ verifying[t].rotated
    BY <2>1, SerialVerifies DEF VerifyInv, Verdict1, SerialStreamVerifies
  <2>3. Verdict1(t) \in {"valid", "broken"}
    BY DEF Verdict1
  <2>4. /\ done \in Verify /\ ~done.running /\ done.found = Verdict1(t)
        /\ done.rotated = verifying[t].rotated
    BY <2>1, <2>3 DEF Verify
  <2> HIDE DEF done
  <2> QED BY <2>1, <2>2, <2>4 DEF VerifyInv
<1>5. ASSUME NEW t \in Threads,
             \/ \E new \in Secrets \cup {NoSecret} : ReadPrev(t, new)
             \/ SignNow(t) \/ AppendSigned(t) \/ SwitchKey(t)
      PROVE  UNCHANGED <<keyMap, verifying>> /\ (overlapped => overlapped')
  <2>1. CASE \E new \in Secrets \cup {NoSecret} : ReadPrev(t, new)
    <3>1. UNCHANGED <<keyMap, verifying>>
      BY <2>1 DEF ReadPrev
    <3>2. overlapped' = (overlapped \/ \E u \in Threads : auditPc[u] # "idle")
      BY <2>1 DEF ReadPrev
    <3>3. overlapped => overlapped'
      BY <3>2, Zenon
    <3> QED BY <3>1, <3>3
  <2>2. CASE SignNow(t) \/ AppendSigned(t) \/ SwitchKey(t)
    <3>1. UNCHANGED <<keyMap, verifying, overlapped>>
      BY <2>2 DEF SignNow, AppendSigned, SwitchKey
    <3> QED BY <3>1
  <2> QED BY <1>5, <2>1, <2>2
<1> QED BY <1>1, <1>2, <1>3, <1>4, <1>5 DEF AuditNext, auditVars, streamVars

LEMMA OnlyBeginnings == AuditInv => AcceptsOnlyBeginnings
<1> DEFINE material == UNION {Altered(e) : e \in ToSet(signedEvents)}
<1> SUFFICES ASSUME AuditInv, ~overlapped, NEW events \in SeqOf(material, MaxSigned)
             PROVE  Valid(keyMap, events) <=> IsPrefix(AsSigned(events), signedEvents)
  BY Zenon DEF AcceptsOnlyBeginnings, Forgeries
<1> DEFINE signed == AsSigned(events)
<1> PICK n : n = Len(signedEvents)
  OBVIOUS
<1> PICK m : m = Len(events)
  OBVIOUS
<1>1. /\ n \in Nat /\ DOMAIN signedEvents = 1..n /\ signedEvents \in Seq(AuditEvent)
      /\ Linked /\ Keyed
  BY EventsAreApart DEF AuditInv, ChainInv
<1>2. events \in Seq(material) /\ m \in Nat /\ DOMAIN events = 1..m
  BY AuditAssumption DEF SeqOf
<1>a. \A i \in 1..m : \E k \in 1..n : events[i] \in Altered(signedEvents[k])
  <2> SUFFICES ASSUME NEW i \in 1..m PROVE \E k \in 1..n : events[i] \in Altered(signedEvents[k])
    OBVIOUS
  <2>1. events[i] \in material
    BY <1>2
  <2> QED BY <1>1, <2>1 DEF ToSet
<1> HIDE DEF material
<1> DEFINE Rec == [id : Nat, key : Secrets, prev : Nat, intact : BOOLEAN, rest : {TRUE}]
<1>b. /\ signed \in Seq(Rec)
      /\ Len(signed) = m /\ DOMAIN signed = 1..m
      /\ \A i \in 1..m :
           /\ signed[i].id = events[i].id /\ signed[i].key = events[i].key
           /\ signed[i].prev = events[i].prev /\ signed[i].intact = events[i].intact
  <2>1. ASSUME NEW i \in 1..m
        PROVE  /\ [events[i] EXCEPT !.rest = TRUE] \in Rec
               /\ [events[i] EXCEPT !.rest = TRUE].id = events[i].id
               /\ [events[i] EXCEPT !.rest = TRUE].key = events[i].key
               /\ [events[i] EXCEPT !.rest = TRUE].prev = events[i].prev
               /\ [events[i] EXCEPT !.rest = TRUE].intact = events[i].intact
    <3>1. PICK k \in 1..n : events[i] \in Altered(signedEvents[k])
      BY <1>a
    <3>2. signedEvents[k] \in AuditEvent
      BY <1>1
    <3>3. events[i] \in [id : Nat, key : Secrets, prev : Nat, intact : BOOLEAN, rest : BOOLEAN]
      BY <3>1, <3>2 DEF Altered, AuditEvent
    <3> QED BY <3>3
  <2>2. signed = [i \in 1..m |-> [events[i] EXCEPT !.rest = TRUE]]
    BY <1>2 DEF AsSigned
  <2> HIDE DEF Rec, signed
  <2>3. signed \in [1..m -> Rec] /\ \A i \in 1..m : signed[i] = [events[i] EXCEPT !.rest = TRUE]
    BY <2>1, <2>2
  <2>4. signed \in Seq(Rec) /\ Len(signed) = m /\ DOMAIN signed = 1..m
    BY <1>2, <2>3
  <2> QED BY <2>1, <2>3, <2>4
<1> HIDE DEF Rec
<1>c. \A i \in 1..m : \E k \in 1..n :
        /\ events[i].intact => signed[i] = signedEvents[k]
        /\ events[i].id = signedEvents[k].id /\ events[i].prev = signedEvents[k].prev
  <2> SUFFICES ASSUME NEW i \in 1..m
               PROVE  \E k \in 1..n :
                        /\ events[i].intact => signed[i] = signedEvents[k]
                        /\ events[i].id = signedEvents[k].id /\ events[i].prev = signedEvents[k].prev
    OBVIOUS
  <2>1. PICK k \in 1..n : events[i] \in Altered(signedEvents[k])
    BY <1>a
  <2>2. signedEvents[k] \in AuditEvent
    BY <1>1
  <2>3. signed[i] = [events[i] EXCEPT !.rest = TRUE]
    BY <1>2 DEF AsSigned
  <2>4. /\ events[i].intact => [events[i] EXCEPT !.rest = TRUE] = signedEvents[k]
        /\ events[i].id = signedEvents[k].id /\ events[i].prev = signedEvents[k].prev
    BY <2>1, <2>2 DEF Altered, AuditEvent
  <2> QED BY <2>3, <2>4
<1>d. \A i \in 1..m : LinkedAt(signed, i) <=> LinkedAt(events, i)
  <2> SUFFICES ASSUME NEW i \in 1..m PROVE LinkedAt(signed, i) <=> LinkedAt(events, i)
    OBVIOUS
  <2>1. i # 1 => i - 1 \in 1..m
    BY <1>2
  <2> QED BY <1>b, <2>1 DEF LinkedAt
<1> HIDE DEF signed
<1>3. IsPrefix(signed, signedEvents) <=> m <= n /\ \A i \in 1..m : signed[i] = signedEvents[i]
  <2>1. CASE m <= n
    <3> DEFINE a == SubSeq(signed, 1, m)
               b == SubSeq(signedEvents, 1, m)
    <3>1. Len(a) = m /\ Len(b) = m /\ b \in Seq(AuditEvent)
          /\ a \in Seq(Rec)
          /\ \A i \in 1..m : a[i] = signed[i] /\ b[i] = signedEvents[i]
      BY <1>1, <1>2, <1>b, <2>1
    <3> HIDE DEF a, b
    <3>2. a = b <=> \A i \in 1..m : a[i] = b[i]
      BY <3>1
    <3> QED BY <1>b, <2>1, <3>1, <3>2 DEF IsPrefix, a, b
  <2>2. CASE ~(m <= n)
    BY <1>b, <2>2 DEF IsPrefix
  <2> QED BY <2>1, <2>2
<1>4. ASSUME m <= n, \A i \in 1..m : signed[i] = signedEvents[i]
      PROVE  Valid(keyMap, events)
  <2>0. \A i \in 1..m : /\ events[i].id = signedEvents[i].id /\ events[i].key = signedEvents[i].key
                        /\ events[i].prev = signedEvents[i].prev
                        /\ events[i].intact = signedEvents[i].intact
    BY <1>4, <1>b
  <2> SUFFICES ASSUME NEW i \in 1..m PROVE VerifiesAt(keyMap, events, i) /\ LinkedAt(events, i)
    BY <1>2, ValidSays
  <2>1. i \in Nat /\ i \in DOMAIN signedEvents /\ \A j \in 1..(i - 1) : j \in 1..m
        /\ (i # 1 => i - 1 \in 1..m)
    BY <1>1, <1>2, <1>4
  <2>2. InForce(keyMap, signedEvents, i, signedEvents[i].key)
    BY <1>1, <2>1 DEF Keyed
  <2>3. \A j \in 1..(i - 1) : keyMap[signedEvents[j].id] = keyMap[events[j].id]
    BY <2>0, <2>1
  <2>4. InForce(keyMap, events, i, signedEvents[i].key)
    BY <2>1, <2>2, <2>3, InForceAgrees
  <2>5. SecretAt(keyMap, events, i) = events[i].key
    BY <2>0, <2>1, <2>4, InForceIsSecretAt
  <2>6. events[i].intact
    BY <2>0, <2>1, EventsAreApart
  <2>7. LinkedAt(events, i)
    BY <1>1, <2>0, <2>1 DEF Linked, LinkedAt
  <2> QED BY <2>5, <2>6, <2>7 DEF VerifiesAt
<1>5. ASSUME Valid(keyMap, events)
      PROVE  m <= n /\ \A i \in 1..m : signed[i] = signedEvents[i]
  <2>1. \A i \in 1..m : events[i].intact /\ LinkedAt(signed, i)
    BY <1>2, <1>5, <1>d, ValidSays DEF VerifiesAt
  <2>2. \A i \in 1..m : \E k \in 1..n : signed[i] = signedEvents[k]
    BY <1>c, <2>1
  <2> PICK T : T = {i \in 1..m : i > n \/ signed[i] # signedEvents[i]}
    OBVIOUS
  <2>3. T = {}
    <3> SUFFICES ASSUME T # {} PROVE FALSE
      OBVIOUS
    <3>1. T \in SUBSET Nat
      BY <1>2
    <3>2. PICK x \in T : \A y \in T : x <= y
      BY <3>1, LeastOf
    <3>3. x \in 1..m /\ \A y \in 1..(x - 1) : y \in 1..n /\ signed[y] = signedEvents[y]
      BY <1>1, <1>2, <3>2
    <3>4. PICK k \in 1..n : signed[x] = signedEvents[k]
      BY <2>2, <3>3
    <3>5. LinkedAt(signed, x) /\ LinkedAt(signedEvents, k)
      BY <1>1, <2>1, <3>3 DEF Linked
    <3>6. /\ x # 1 => x - 1 \in 1..n /\ signed[x - 1] = signedEvents[x - 1]
          /\ k # 1 => k - 1 \in 1..n
      <4>1. x # 1 => x - 1 \in 1..(x - 1)
        BY <1>2, <3>3
      <4> QED BY <1>1, <3>3, <4>1
    <3>7. k = x
      <4>1. CASE x = 1
        BY <1>1, <3>4, <3>5, <3>6, <4>1, EventsAreApart DEF LinkedAt
      <4>2. CASE x # 1 /\ k = 1
        <5>1. signedEvents[x - 1].id = 0
          BY <3>4, <3>5, <3>6, <4>2 DEF LinkedAt
        <5> QED BY <1>1, <3>6, <4>2, <5>1, EventsAreApart
      <4>3. CASE x # 1 /\ k # 1
        <5>1. signedEvents[k].prev = signedEvents[x - 1].id /\ signedEvents[k].prev = signedEvents[k - 1].id
          BY <3>4, <3>5, <3>6, <4>3 DEF LinkedAt
        <5>2. x - 1 = k - 1
          BY <1>1, <3>6, <4>3, <5>1, EventsAreApart
        <5> QED BY <1>1, <1>2, <3>3, <5>2
      <4> QED BY <4>1, <4>2, <4>3
    <3> QED BY <1>1, <3>2, <3>4, <3>7
  <2>4. \A i \in 1..m : i <= n /\ signed[i] = signedEvents[i]
    BY <1>1, <1>2, <2>3
  <2>5. m <= n
    <3>1. m = 0 \/ m \in 1..m
      BY <1>2
    <3> QED BY <1>1, <2>4, <3>1
  <2> QED BY <2>4, <2>5
<1> QED BY <1>3, <1>4, <1>5 DEF signed

(* Signing of an audit stream, with keys rotated at any moment: a stream   *)
(* whose writers never overlapped verifies, a verify() beside them finds   *)
(* it so unless a rotation falls between its two reads, and of the         *)
(* sequences made of its events, altered, repeated, reordered or left out, *)
(* verify_chain accepts its beginnings, up to the fields that no signature *)
(* covers, and no other; where writers did overlap, an event that was      *)
(* linked to the wrong one is reported.                                    *)
THEOREM StreamsTellChanges == AuditSpec => []StreamTellsChanges
<1>1. AuditInv /\ VerifyInv => StreamTellsChanges
  BY SerialVerifies, ForksAreReported, OnlyBeginnings
     DEF StreamTellsChanges, VerifyInv, VerifyIsUndisturbed
<1> QED BY <1>1, AuditInitial, AuditStep, VerifyInitial, VerifyStep, PTL DEF AuditSpec
-----------------------------------------------------------------------------
(* Events that are taken in *)

IngestTypes ==
  /\ produced \in Seq({"event", "malformed", "sentinel"})
  /\ ingestPc \in {"idle", "reading"}
  /\ position \in 0..Len(produced) /\ committed \in 0..Len(produced)
  /\ collected \in Seq(Nat) /\ returned \in Seq(Nat)

(* What a call holds comes after all that was returned, and nothing that   *)
(* the source would offer again was returned.                              *)
OrderInv ==
  Resumes =>
    /\ ingestPc = "idle" => collected = <<>>
    /\ sourceKind = "kafkaGroup" /\ ingestPc = "reading" => committed <= position
    /\ \A i \in DOMAIN returned : returned[i] <= Consumed
    /\ \A i \in DOMAIN collected : collected[i] <= position
    /\ \A i, j \in DOMAIN returned : i < j => returned[i] < returned[j]
    /\ \A i, j \in DOMAIN collected : i < j => collected[i] < collected[j]
    /\ \A i \in DOMAIN returned, j \in DOMAIN collected : returned[i] < collected[j]

Accounted == ToSet(returned) \cup ToSet(collected) \cup discarded

(* The events up to where a call has read are accounted for, also those    *)
(* that no commit covers yet.                                              *)
AccountInv ==
  Resumes =>
    /\ \A i \in 1..Consumed : produced[i] = "event" => i \in Accounted
    /\ ingestPc = "reading" => \A i \in 1..position : produced[i] = "event" => i \in Accounted

IngestInv == IngestTypes /\ OrderInv /\ AccountInv

LEMMA IngestInitial == IngestInit => IngestInv
<1> SUFFICES ASSUME IngestInit PROVE IngestInv
  OBVIOUS
<1> USE DEF IngestInit
<1>1. IngestTypes
  BY DEF IngestTypes
<1>2. OrderInv
  BY DEF OrderInv
<1>3. AccountInv
  BY DEF AccountInv, Consumed
<1> QED BY <1>1, <1>2, <1>3 DEF IngestInv

(* What is said of a sequence that is appended to another.                 *)
LEMMA Joined ==
  ASSUME NEW S, NEW a \in Seq(S), NEW b \in Seq(S)
  PROVE  /\ a \o b \in Seq(S)
         /\ ToSet(a \o b) = ToSet(a) \cup ToSet(b)
         /\ \A k \in DOMAIN (a \o b) :
              \/ k \in DOMAIN a /\ (a \o b)[k] = a[k]
              \/ k - Len(a) \in DOMAIN b /\ (a \o b)[k] = b[k - Len(a)]
<1>1. /\ a \o b \in Seq(S) /\ Len(a \o b) = Len(a) + Len(b)
      /\ Len(a) \in Nat /\ Len(b) \in Nat
      /\ DOMAIN (a \o b) = 1..(Len(a) + Len(b)) /\ DOMAIN a = 1..Len(a) /\ DOMAIN b = 1..Len(b)
  OBVIOUS
<1>2. \A k \in 1..(Len(a) + Len(b)) : (a \o b)[k] = IF k <= Len(a) THEN a[k] ELSE b[k - Len(a)]
  OBVIOUS
<1>3. \A k \in DOMAIN (a \o b) :
              \/ k \in DOMAIN a /\ (a \o b)[k] = a[k]
              \/ k - Len(a) \in DOMAIN b /\ (a \o b)[k] = b[k - Len(a)]
  BY <1>1, <1>2
<1>4. ToSet(a \o b) \subseteq ToSet(a) \cup ToSet(b)
  BY <1>3 DEF ToSet
<1>5. ToSet(a) \subseteq ToSet(a \o b)
  BY <1>1, <1>2 DEF ToSet
<1>6. ToSet(b) \subseteq ToSet(a \o b)
  <2> SUFFICES ASSUME NEW k \in 1..Len(b) PROVE b[k] \in ToSet(a \o b)
    BY <1>1 DEF ToSet
  <2>1. k + Len(a) \in 1..(Len(a) + Len(b)) /\ (k + Len(a)) - Len(a) = k /\ ~(k + Len(a) <= Len(a))
    BY <1>1
  <2>2. (a \o b)[k + Len(a)] = b[k]
    BY <1>2, <2>1
  <2> QED BY <1>1, <2>1, <2>2 DEF ToSet
<1> QED BY <1>1, <1>3, <1>4, <1>5, <1>6

LEMMA ToSetOfAppend ==
  ASSUME NEW S, NEW a \in Seq(S), NEW e \in S
  PROVE  ToSet(Append(a, e)) = ToSet(a) \cup {e}
<1>1. /\ DOMAIN a = 1..Len(a) /\ Len(a) \in Nat /\ DOMAIN Append(a, e) = 1..(Len(a) + 1)
      /\ Append(a, e)[Len(a) + 1] = e /\ \A k \in 1..Len(a) : Append(a, e)[k] = a[k]
  OBVIOUS
<1>2. 1..(Len(a) + 1) = (1..Len(a)) \cup {Len(a) + 1}
  BY <1>1
<1> QED BY <1>1, <1>2 DEF ToSet

(* A call returns what it has collected: OrderInv and AccountInv hold when *)
(* at is where it has read to.                                             *)
LEMMA ReturnKeeps ==
  ASSUME IngestTypes, NEW events \in Seq(Nat), NEW at \in 0..Len(produced),
         Resumes => 
           /\ sourceKind = "kafkaGroup" => committed <= at
           /\ \A i \in DOMAIN returned : returned[i] <= at
           /\ \A i \in DOMAIN events : events[i] <= at
           /\ \A i, j \in DOMAIN returned : i < j => returned[i] < returned[j]
           /\ \A i, j \in DOMAIN events : i < j => events[i] < events[j]
           /\ \A i \in DOMAIN returned, j \in DOMAIN events : returned[i] < events[j]
           /\ \A i \in 1..at : produced[i] = "event" =>
                i \in ToSet(returned) \cup ToSet(events) \cup discarded,
         Return(events, at), position' = at, UNCHANGED <<sourceKind, skipErrors, produced, reads>>
  PROVE  IngestInv'
<1>1. /\ ingestPc' = "idle" /\ returned' = returned \o events /\ collected' = <<>>
      /\ committed' = (IF sourceKind = "kafkaGroup" THEN at ELSE committed)
      /\ discarded' = discarded /\ position' = at
      /\ UNCHANGED <<sourceKind, produced>>
  BY DEF Return, Closed
<1>2. returned \in Seq(Nat) /\ Len(returned) \in Nat
  BY DEF IngestTypes
<1>3. IngestTypes'
  BY <1>1, <1>2 DEF IngestTypes
<1>4. Resumes' <=> Resumes
  BY <1>1 DEF Resumes, Queue
<1>5. Resumes => Consumed' = at
  BY <1>1 DEF Resumes, Consumed
<1>6. /\ returned' \in Seq(Nat) /\ ToSet(returned') = ToSet(returned) \cup ToSet(events)
      /\ \A k \in DOMAIN returned' :
              \/ k \in DOMAIN returned /\ returned'[k] = returned[k]
              \/ k - Len(returned) \in DOMAIN events /\ returned'[k] = events[k - Len(returned)]
  BY <1>1, <1>2, Joined
<1>7. DOMAIN returned = 1..Len(returned) /\ DOMAIN returned' = 1..Len(returned')
      /\ DOMAIN events = 1..Len(events) /\ Len(events) \in Nat /\ Len(returned') \in Nat
      /\ DOMAIN collected' = {} /\ ToSet(collected') = {}
  BY <1>1, <1>2, <1>6 DEF ToSet
<1>8. OrderInv'
  <2> SUFFICES ASSUME Resumes
               PROVE  /\ \A i \in DOMAIN returned' : returned'[i] <= at
                      /\ \A i, j \in DOMAIN returned' : i < j => returned'[i] < returned'[j]
    BY <1>1, <1>4, <1>5, <1>7 DEF OrderInv
  <2>1. \A i \in DOMAIN returned' : returned'[i] <= at
    BY <1>6
  <2>2. ASSUME NEW i \in DOMAIN returned', NEW j \in DOMAIN returned', i < j
        PROVE  returned'[i] < returned'[j]
    <3>1. i \in Nat /\ j \in Nat
      BY <1>7
    <3>2. CASE i \in DOMAIN returned /\ returned'[i] = returned[i]
      BY <1>6, <2>2, <3>2
    <3>3. CASE i - Len(returned) \in DOMAIN events /\ returned'[i] = events[i - Len(returned)]
      <4>1. j \notin DOMAIN returned
        BY <1>2, <1>7, <2>2, <3>1, <3>3
      <4>2. j - Len(returned) \in DOMAIN events /\ returned'[j] = events[j - Len(returned)]
        BY <1>6, <4>1
      <4>3. i - Len(returned) < j - Len(returned)
        BY <1>2, <2>2, <3>1
      <4> QED BY <3>3, <4>2, <4>3
    <3> QED BY <1>6, <3>2, <3>3
  <2> QED BY <2>1, <2>2
<1>9. AccountInv'
  <2> SUFFICES ASSUME Resumes, NEW i \in 1..at, produced[i] = "event"
               PROVE  i \in Accounted'
    BY <1>1, <1>4, <1>5 DEF AccountInv
  <2> QED BY <1>1, <1>6 DEF Accounted
<1> QED BY <1>3, <1>8, <1>9 DEF IngestInv

(* A call raises or dies.                                                  *)
LEMMA RaiseKeeps ==
  ASSUME IngestInv, ingestPc = "reading", ingestPc' = "idle",
         discarded' = discarded \cup ToSet(collected), collected' = <<>>,
         NEW at \in 0..Len(produced), position <= at,
         sourceKind = "kafkaGroup" => committed' = committed \/ committed' = at,
         committed' \in 0..Len(produced),
         Queue => position' = at, position' \in 0..Len(produced),
         Resumes => \A i \in 1..at : produced[i] = "event" => i \in Accounted,
         UNCHANGED <<sourceKind, produced, returned>>
  PROVE  IngestInv'
<1>1. IngestTypes'
  BY DEF IngestInv, IngestTypes
<1>2. (Resumes' <=> Resumes) /\ DOMAIN collected' = {} /\ Accounted' = Accounted
  BY DEF Resumes, Queue, Accounted, ToSet
<1>3. Resumes => Consumed' \in 0..Len(produced) /\ Consumed <= Consumed'
                 /\ (Consumed' = Consumed \/ Consumed' = at)
  BY DEF Consumed, Resumes, Queue, IngestInv, OrderInv, IngestTypes
<1>4. OrderInv'
  <2> SUFFICES ASSUME Resumes, NEW i \in DOMAIN returned PROVE returned[i] <= Consumed'
    BY <1>2, Zenon DEF IngestInv, OrderInv
  <2>1. returned[i] \in Nat /\ returned[i] <= Consumed /\ Consumed \in Nat
    BY DEF IngestInv, IngestTypes, OrderInv, Consumed
  <2> QED BY <1>3, <2>1
<1>5. AccountInv'
  BY <1>2, <1>3 DEF IngestInv, AccountInv, IngestTypes
<1> QED BY <1>1, <1>4, <1>5 DEF IngestInv

LEMMA ProduceKeeps ==
  ASSUME IngestInv, NEW m \in {"event", "malformed", "sentinel"}, Produce(m)
  PROVE  IngestInv'
<1>1. /\ produced' = Append(produced, m)
      /\ UNCHANGED <<sourceKind, skipErrors, position, committed, ingestPc, collected,
                     returned, discarded, reads>>
  BY DEF Produce
<1>2. /\ produced \in Seq({"event", "malformed", "sentinel"}) /\ Len(produced) \in Nat
      /\ position \in 0..Len(produced) /\ committed \in 0..Len(produced)
  BY DEF IngestInv, IngestTypes
<1>3. /\ produced' \in Seq({"event", "malformed", "sentinel"}) /\ Len(produced') = Len(produced) + 1
      /\ \A i \in 1..Len(produced) : produced'[i] = produced[i]
  BY <1>1, <1>2
<1>4. IngestTypes'
  BY <1>1, <1>2, <1>3 DEF IngestInv, IngestTypes
<1>5. (Resumes' <=> Resumes) /\ Consumed' = Consumed /\ Accounted' = Accounted /\ Consumed \in 0..Len(produced)
  BY <1>1, <1>2 DEF Resumes, Queue, Consumed, Accounted
<1>6. OrderInv'
  BY <1>1, <1>5 DEF IngestInv, OrderInv
<1>7. AccountInv'
  <2>1. \A i \in 1..Consumed : i \in 1..Len(produced)
    BY <1>2, <1>5
  <2>2. \A i \in 1..position : i \in 1..Len(produced)
    BY <1>2
  <2> QED BY <1>1, <1>3, <1>5, <2>1, <2>2 DEF IngestInv, AccountInv
<1> QED BY <1>4, <1>6, <1>7 DEF IngestInv

LEMMA StartReadKeeps == IngestInv /\ StartRead => IngestInv'
<1> SUFFICES ASSUME IngestInv, StartRead PROVE IngestInv'
  OBVIOUS
<1>1. /\ ingestPc = "idle" /\ ingestPc' = "reading" /\ position' = StartAt /\ collected' = <<>>
      /\ UNCHANGED <<sourceKind, skipErrors, produced, committed, returned, discarded>>
  BY DEF StartRead
<1>2. IngestTypes /\ StartAt \in 0..Len(produced)
  BY DEF IngestInv, IngestTypes, StartAt
<1>3. IngestTypes'
  BY <1>1, <1>2 DEF IngestTypes
<1>4. (Resumes' <=> Resumes) /\ (Resumes => StartAt = Consumed /\ Consumed' = Consumed)
      /\ (sourceKind = "kafkaGroup" => StartAt = committed)
      /\ DOMAIN collected' = {} /\ ToSet(collected') = {}
  BY <1>1 DEF Resumes, Queue, Consumed, StartAt, ToSet
<1>5. Resumes => collected = <<>> /\ ToSet(collected) = {}
  BY <1>1 DEF IngestInv, OrderInv, ToSet
<1>6. OrderInv'
  BY <1>1, <1>2, <1>4 DEF IngestInv, OrderInv
<1>7. AccountInv'
  BY <1>1, <1>4, <1>5 DEF IngestInv, AccountInv, Accounted
<1> QED BY <1>3, <1>6, <1>7 DEF IngestInv

LEMMA TakeOneKeeps == IngestInv /\ TakeOne => IngestInv'
<1> SUFFICES ASSUME IngestInv, TakeOne PROVE IngestInv'
  OBVIOUS
<1> PICK p : p = position + 1
  OBVIOUS
<1> PICK m : m = produced[p]
  OBVIOUS
<1> PICK more : more = Append(collected, p)
  OBVIOUS
<1>1. /\ ingestPc = "reading" /\ position < Len(produced) /\ position' = p
      /\ IF m = "sentinel" /\ sourceKind # "file" THEN Return(collected, p)
         ELSE IF m = "event"
           THEN IF Full(more) THEN Return(more, p) ELSE Continue(more)
         ELSE IF skipErrors THEN Continue(collected)
         ELSE Raise(p)
      /\ UNCHANGED <<sourceKind, skipErrors, produced, reads>>
  BY DEF TakeOne
<1>2. /\ IngestTypes /\ position \in Nat /\ Len(produced) \in Nat /\ p \in 1..Len(produced)
      /\ committed \in 0..Len(produced) /\ collected \in Seq(Nat) /\ returned \in Seq(Nat)
      /\ Len(collected) \in Nat
  BY <1>1 DEF IngestInv, IngestTypes
<1>3. /\ more \in Seq(Nat) /\ Len(more) = Len(collected) + 1 /\ more[Len(collected) + 1] = p
      /\ ToSet(more) = ToSet(collected) \cup {p}
      /\ \A i \in 1..Len(collected) : more[i] = collected[i]
      /\ DOMAIN more = 1..(Len(collected) + 1) /\ DOMAIN collected = 1..Len(collected)
  <2>1. p \in Nat
    BY <1>2
  <2>2. ToSet(more) = ToSet(collected) \cup {p}
    <3>1. \A e \in Nat : ToSet(Append(collected, e)) = ToSet(collected) \cup {e}
      BY <1>2, ToSetOfAppend, Zenon
    <3> QED BY <2>1, <3>1
  <2> QED BY <1>2, <2>1, <2>2
<1>4. ASSUME Resumes
      PROVE  /\ sourceKind = "kafkaGroup" => committed <= position
             /\ \A i \in DOMAIN returned : returned[i] \in Nat /\ returned[i] <= position
             /\ \A i \in DOMAIN collected : collected[i] \in Nat /\ collected[i] <= position
             /\ \A i, j \in DOMAIN returned : i < j => returned[i] < returned[j]
             /\ \A i, j \in DOMAIN collected : i < j => collected[i] < collected[j]
             /\ \A i \in DOMAIN returned, j \in DOMAIN collected : returned[i] < collected[j]
             /\ \A i \in 1..position : produced[i] = "event" => i \in Accounted
             /\ \A i \in 1..p : i \in 1..position \/ i = p
  <2>1. Consumed \in Nat /\ Consumed <= position
    BY <1>1, <1>2, <1>4 DEF IngestInv, OrderInv, Consumed
  <2>2. \A i \in DOMAIN returned : returned[i] \in Nat /\ returned[i] <= Consumed
    BY <1>2, <1>4 DEF IngestInv, OrderInv
  <2>3. \A i \in DOMAIN collected : collected[i] \in Nat /\ collected[i] <= position
    BY <1>2, <1>4 DEF IngestInv, OrderInv
  <2>4. \A i \in DOMAIN returned : returned[i] \in Nat /\ returned[i] <= position
    BY <1>2, <2>1, <2>2
  <2> QED BY <1>1, <1>2, <1>4, <2>3, <2>4 DEF IngestInv, OrderInv, AccountInv
<1>5. ASSUME Resumes
      PROVE  /\ \A i \in DOMAIN more : more[i] <= p
             /\ \A i, j \in DOMAIN more : i < j => more[i] < more[j]
             /\ \A i \in DOMAIN returned, j \in DOMAIN more : returned[i] < more[j]
             /\ \A i \in 1..p : produced[i] = "event" =>
                  i \in ToSet(returned) \cup ToSet(more) \cup discarded
  <2>1. \A i \in DOMAIN more : (i \in DOMAIN collected /\ more[i] = collected[i]) \/ (i = Len(collected) + 1 /\ more[i] = p)
    BY <1>2, <1>3
  <2>2. \A i \in DOMAIN more : more[i] <= p
    BY <1>2, <1>4, <1>5, <2>1
  <2>3. \A i, j \in DOMAIN more : i < j => more[i] < more[j]
    BY <1>2, <1>3, <1>4, <1>5, <2>1
  <2>4. \A i \in DOMAIN returned, j \in DOMAIN more : returned[i] < more[j]
    BY <1>2, <1>4, <1>5, <2>1
  <2>5. \A i \in 1..p : produced[i] = "event" => i \in ToSet(returned) \cup ToSet(more) \cup discarded
    BY <1>3, <1>4, <1>5 DEF Accounted
  <2> QED BY <2>2, <2>3, <2>4, <2>5
<1>6. ASSUME Resumes, m # "event"
      PROVE  \A i \in 1..p : produced[i] = "event" => i \in Accounted
  BY <1>4, <1>6
<1>7. ASSUME NEW events \in Seq(Nat), Continue(events),
             Resumes =>
               /\ \A i \in DOMAIN events : events[i] <= p
               /\ \A i, j \in DOMAIN events : i < j => events[i] < events[j]
               /\ \A i \in DOMAIN returned, j \in DOMAIN events : returned[i] < events[j]
               /\ \A i \in 1..p : produced[i] = "event" =>
                    i \in ToSet(returned) \cup ToSet(events) \cup discarded
      PROVE  IngestInv'
  <2>1. /\ collected' = events /\ position' = p /\ ingestPc' = "reading"
        /\ UNCHANGED <<returned, committed, discarded, sourceKind, produced>>
    BY <1>1, <1>7 DEF Continue
  <2>2. IngestTypes'
    BY <1>2, <1>7, <2>1 DEF IngestTypes
  <2>3. (Resumes' <=> Resumes) /\ (Resumes => Consumed' \in 0..p /\ Consumed <= Consumed' /\ Consumed \in Nat)
    BY <1>2, <1>4, <2>1 DEF Resumes, Queue, Consumed
  <2>4. OrderInv'
    <3> SUFFICES ASSUME Resumes
                 PROVE  /\ sourceKind = "kafkaGroup" => committed <= p
                        /\ \A i \in DOMAIN returned : returned[i] <= Consumed'
      BY <1>4, <1>7, <2>1, <2>3 DEF OrderInv
    <3>1. \A i \in DOMAIN returned : returned[i] \in Nat /\ returned[i] <= Consumed
      BY <1>4 DEF IngestInv, OrderInv
    <3> QED BY <1>2, <1>4, <2>3, <3>1
  <2>5. AccountInv'
    BY <1>2, <1>7, <2>1, <2>3 DEF AccountInv, Accounted
  <2> QED BY <2>2, <2>4, <2>5 DEF IngestInv
<1>8. ASSUME NEW events \in Seq(Nat), Return(events, p),
             Resumes =>
               /\ \A i \in DOMAIN events : events[i] <= p
               /\ \A i, j \in DOMAIN events : i < j => events[i] < events[j]
               /\ \A i \in DOMAIN returned, j \in DOMAIN events : returned[i] < events[j]
               /\ \A i \in 1..p : produced[i] = "event" =>
                    i \in ToSet(returned) \cup ToSet(events) \cup discarded
      PROVE  IngestInv'
  <2>1. Resumes => /\ sourceKind = "kafkaGroup" => committed <= p
                   /\ \A i \in DOMAIN returned : returned[i] <= p
                   /\ \A i, j \in DOMAIN returned : i < j => returned[i] < returned[j]
    BY <1>2, <1>4
  <2>2. p \in 0..Len(produced)
    BY <1>2
  <2> QED BY <1>1, <1>2, <1>8, <2>1, <2>2, ReturnKeeps
<1>9. ASSUME m # "event"
      PROVE  Resumes =>
               /\ \A i \in DOMAIN collected : collected[i] <= p
               /\ \A i, j \in DOMAIN collected : i < j => collected[i] < collected[j]
               /\ \A i \in DOMAIN returned, j \in DOMAIN collected : returned[i] < collected[j]
               /\ \A i \in 1..p : produced[i] = "event" =>
                    i \in ToSet(returned) \cup ToSet(collected) \cup discarded
  BY <1>2, <1>4, <1>6, <1>9 DEF Accounted
<1>10. CASE m = "sentinel" /\ sourceKind # "file"
  BY <1>1, <1>2, <1>8, <1>9, <1>10
<1>11. CASE m = "event"
  BY <1>1, <1>3, <1>5, <1>7, <1>8, <1>11
<1>12. CASE m # "event" /\ Continue(collected)
  BY <1>2, <1>7, <1>9, <1>12
<1>13. CASE m # "event" /\ Raise(p)
  <2>1. /\ ingestPc' = "idle" /\ discarded' = discarded \cup ToSet(collected) /\ collected' = <<>>
        /\ committed' = (IF sourceKind = "kafkaGroup" THEN p ELSE committed) /\ returned' = returned
    BY <1>13 DEF Raise, Closed
  <2> QED BY <1>1, <1>2, <1>6, <1>13, <2>1, RaiseKeeps
<1> QED BY <1>1, <1>10, <1>11, <1>12, <1>13

LEMMA EndOfInputKeeps == IngestInv /\ EndOfInput => IngestInv'
<1> SUFFICES ASSUME IngestInv, EndOfInput PROVE IngestInv'
  OBVIOUS
<1>1. /\ ingestPc = "reading" /\ Return(collected, position)
      /\ UNCHANGED <<sourceKind, skipErrors, produced, position, reads>>
  BY DEF EndOfInput
<1>2. /\ IngestTypes /\ collected \in Seq(Nat) /\ position \in 0..Len(produced)
      /\ returned \in Seq(Nat) /\ position \in Nat
  BY DEF IngestInv, IngestTypes
<1>3. ASSUME Resumes
      PROVE  /\ sourceKind = "kafkaGroup" => committed <= position
             /\ \A i \in DOMAIN returned : returned[i] <= position
             /\ \A i \in DOMAIN collected : collected[i] <= position
             /\ \A i, j \in DOMAIN returned : i < j => returned[i] < returned[j]
             /\ \A i, j \in DOMAIN collected : i < j => collected[i] < collected[j]
             /\ \A i \in DOMAIN returned, j \in DOMAIN collected : returned[i] < collected[j]
             /\ \A i \in 1..position : produced[i] = "event" =>
                  i \in ToSet(returned) \cup ToSet(collected) \cup discarded
  <2>1. Consumed \in Nat /\ Consumed <= position
    BY <1>1, <1>2, <1>3 DEF IngestInv, IngestTypes, OrderInv, Consumed
  <2>2. \A i \in DOMAIN returned : returned[i] \in Nat /\ returned[i] <= Consumed
    BY <1>2, <1>3 DEF IngestInv, OrderInv
  <2>3. \A i \in DOMAIN returned : returned[i] <= position
    BY <1>2, <2>1, <2>2
  <2> QED BY <1>1, <1>3, <2>3 DEF IngestInv, OrderInv, AccountInv, Accounted
<1> QED BY <1>1, <1>2, <1>3, ReturnKeeps

LEMMA AutoCommitKeeps == IngestInv /\ AutoCommit => IngestInv'
<1> SUFFICES ASSUME IngestInv, AutoCommit PROVE IngestInv'
  OBVIOUS
<1>1. /\ ingestPc = "reading" /\ sourceKind = "kafkaGroup" /\ committed' = position
      /\ UNCHANGED <<sourceKind, skipErrors, produced, position, ingestPc, collected,
                     returned, discarded, reads>>
  BY DEF AutoCommit
<1>2. IngestTypes /\ committed \in Nat /\ position \in Nat /\ Resumes
  BY <1>1 DEF IngestInv, IngestTypes, Resumes
<1>3. IngestTypes'
  BY <1>1, <1>2 DEF IngestTypes
<1>4. Consumed' = position /\ Consumed = committed /\ committed <= position /\ Accounted' = Accounted /\ Resumes'
  BY <1>1, <1>2 DEF IngestInv, OrderInv, Consumed, Accounted, Resumes
<1>5. OrderInv'
  <2>1. \A i \in DOMAIN returned : returned[i] \in Nat /\ returned[i] <= committed
    BY <1>2, <1>4 DEF IngestInv, OrderInv, IngestTypes
  <2>2. \A i \in DOMAIN returned : returned[i] <= position
    BY <1>2, <1>4, <2>1
  <2> QED BY <1>1, <1>2, <1>4, <2>2 DEF IngestInv, OrderInv
<1>6. AccountInv'
  BY <1>1, <1>2, <1>4 DEF IngestInv, AccountInv
<1> QED BY <1>3, <1>5, <1>6 DEF IngestInv

LEMMA CrashWhileReadingKeeps == IngestInv /\ CrashWhileReading => IngestInv'
<1> SUFFICES ASSUME IngestInv, CrashWhileReading PROVE IngestInv'
  OBVIOUS
<1>1. /\ ingestPc = "reading" /\ Kafka /\ ingestPc' = "idle"
      /\ discarded' = discarded \cup ToSet(collected) /\ collected' = <<>> /\ position' = 0
      /\ UNCHANGED <<sourceKind, skipErrors, produced, committed, returned, reads>>
  BY DEF CrashWhileReading
<1>2. /\ ~Queue /\ position \in 0..Len(produced) /\ committed \in 0..Len(produced)
      /\ 0 \in 0..Len(produced)
  BY <1>1 DEF Kafka, Queue, IngestInv, IngestTypes
<1>3. Resumes => \A i \in 1..position : produced[i] = "event" => i \in Accounted
  BY <1>1 DEF IngestInv, AccountInv
<1> QED BY <1>1, <1>2, <1>3, RaiseKeeps

LEMMA IngestStep == IngestInv /\ [IngestNext]_ingestVars => IngestInv'
<1> SUFFICES ASSUME IngestInv, [IngestNext]_ingestVars PROVE IngestInv'
  OBVIOUS
<1>1. CASE IngestNext
  BY <1>1, ProduceKeeps, StartReadKeeps, TakeOneKeeps, EndOfInputKeeps, AutoCommitKeeps,
     CrashWhileReadingKeeps DEF IngestNext
<1>2. CASE UNCHANGED ingestVars
  BY <1>2 DEF ingestVars, IngestInv, IngestTypes, OrderInv, AccountInv, Resumes, Queue, Consumed,
     Accounted
<1> QED BY <1>1, <1>2

LEMMA IngestAccounts == IngestInv => ReturnedOnceInOrder /\ ConsumedIsAccountedFor
BY DEF IngestInv, OrderInv, AccountInv, ReturnedOnceInOrder, ConsumedIsAccountedFor, Accounted
-----------------------------------------------------------------------------
(* Batches that are sent out *)

Endpoints == {"hook", "loki", "spans", "logs", "traces", "metrics"}
Request   == [to : Endpoints, ids : SUBSET DOMAIN batch]
Taken(q)  == \E m \in DOMAIN received : received[m][1] = q

DeliveryTypes ==
  /\ batch \in Seq(BatchEvent)
  /\ cursor \in Nat \ {0} /\ tries \in Nat
  /\ dlPc # "done" => cursor \in DOMAIN Requests
  /\ waiting \subseteq DOMAIN Requests
  /\ inFlight \subseteq (DOMAIN Requests) \X Nat
  /\ received \in Seq((DOMAIN Requests) \X Nat)

(* What is under way or taken is at most at the request the task is at,    *)
(* and all before that have been taken.                                    *)
SerialDelivery ==
  ~Parallel =>
    /\ waiting \subseteq {cursor}
    /\ \A q \in 1..(cursor - 1) : Taken(q)
    /\ \A p \in inFlight : p[1] <= cursor

ParallelDelivery ==
  Parallel /\ dlPc = "wait" => \A q \in (DOMAIN Requests) \ waiting : Taken(q)

AllTaken == result = "ok" => \A q \in DOMAIN Requests : Taken(q)

DeliveryInv ==
  DeliveryTypes /\ SerialDelivery /\ ParallelDelivery /\ AllTaken /\ ReceivedWithoutGap

LEMMA SpansAreFinite ==
  ASSUME batch \in Seq(BatchEvent)
  PROVE  IsFiniteSet(Spans) /\ IsFiniteSet(NotSpans) /\ Spans \subseteq Nat /\ NotSpans \subseteq Nat
<1>1. DOMAIN batch = 1..Len(batch) /\ Len(batch) \in Nat
  OBVIOUS
<1>2. IsFiniteSet(DOMAIN batch)
  BY <1>1, FS_Interval
<1>3. Spans \in SUBSET DOMAIN batch /\ NotSpans \in SUBSET DOMAIN batch
  BY DEF Spans, NotSpans, Where
<1> QED BY <1>1, <1>2, <1>3, FS_Subset

LEMMA ChunksAreSequences ==
  ASSUME NEW ids \in SUBSET DOMAIN batch, NEW to \in Endpoints, IsFiniteSet(ids)
  PROVE  Chunks(ids, to) \in Seq(Request)
<1>1. Cardinality(ids) \in Nat
  BY FS_CardinalityType
<1> DEFINE m        == (Cardinality(ids) + BatchSize - 1) \div BatchSize
           chunk(k) == [to |-> to, ids |-> {i \in ids : Rank(ids, i) \in ((k - 1) * BatchSize + 1)..(k * BatchSize)}]
<1>2. m \in Nat
  BY <1>1, DeliveryAssumption
<1>3. \A k \in 1..m : chunk(k) \in Request
  BY DEF Request
<1>4. Chunks(ids, to) = [k \in 1..m |-> chunk(k)]
  BY DEF Chunks
<1> HIDE DEF m, chunk
<1>5. [k \in 1..m |-> chunk(k)] \in [1..m -> Request]
  BY <1>3
<1>6. \A f \in [1..m -> Request] : f \in Seq(Request)
  BY <1>2
<1> QED BY <1>4, <1>5, <1>6

LEMMA RequestsAreSequence ==
  ASSUME batch \in Seq(BatchEvent)
  PROVE  Requests \in Seq(Request)
<1>1. ASSUME NEW ids \in SUBSET DOMAIN batch, NEW to \in Endpoints
      PROVE  OneRequest(ids, to) \in Seq(Request)
  <2>1. [to |-> to, ids |-> ids] \in Request
    BY DEF Request
  <2> QED BY <2>1 DEF OneRequest
<1>2. IsFiniteSet(Spans) /\ IsFiniteSet(NotSpans)
  BY SpansAreFinite
<1>3. Spans \in SUBSET DOMAIN batch /\ NotSpans \in SUBSET DOMAIN batch /\ Measured \in SUBSET DOMAIN batch
  BY DEF Spans, NotSpans, Measured, Where
<1>4. \A a, b \in Seq(Request) : a \o b \in Seq(Request)
  OBVIOUS
<1>5. CASE exporterKind = "webhook"
  BY <1>1, <1>5 DEF Requests, Endpoints
<1>6. CASE exporterKind = "loki"
  BY <1>1, <1>6 DEF Requests, Endpoints
<1>7. CASE exporterKind = "otlp"
  <2>1. Chunks(Spans, "spans") \in Seq(Request) /\ Chunks(NotSpans, "logs") \in Seq(Request)
    BY <1>2, <1>3, ChunksAreSequences DEF Endpoints
  <2> QED BY <1>4, <1>7, <2>1 DEF Requests
<1>8. CASE exporterKind \notin {"webhook", "loki", "otlp"}
  <2>1. OneRequest(Spans, "traces") \in Seq(Request) /\ OneRequest(Measured, "metrics") \in Seq(Request)
    BY <1>1, <1>3 DEF Endpoints
  <2>2. Requests = OneRequest(Spans, "traces") \o OneRequest(Measured, "metrics")
    BY <1>8 DEF Requests
  <2> QED BY <1>4, <2>1, <2>2
<1> QED BY <1>5, <1>6, <1>7, <1>8

(* Every event of a set is in one of its chunks.                           *)
LEMMA ChunksCover ==
  ASSUME NEW ids \in SUBSET Nat, IsFiniteSet(ids), NEW to, NEW i \in ids
  PROVE  \E k \in DOMAIN Chunks(ids, to) : i \in Chunks(ids, to)[k].ids /\ Chunks(ids, to)[k].to = to
<1>1. PICK n \in Nat : n = Cardinality(ids)
  BY FS_CardinalityType
<1>2. PICK r \in Nat : r = Rank(ids, i) /\ 1 <= r /\ r <= n
  <2> DEFINE below == {j \in ids : j <= i}
  <2>1. IsFiniteSet(below) /\ Cardinality(below) <= n /\ Cardinality(below) \in Nat
    BY <1>1, FS_Subset, FS_CardinalityType
  <2>2. i \in below
    OBVIOUS
  <2>3. Cardinality(below) # 0
    BY <2>1, <2>2, FS_EmptySet
  <2> QED BY <2>1, <2>3 DEF Rank
<1>3. PICK m \in Nat : m = (n + BatchSize - 1) \div BatchSize /\ n <= m * BatchSize
  BY DeliveryAssumption
<1> DEFINE enough == {k \in Nat : r <= k * BatchSize}
<1>4. m \in enough
  BY <1>2, <1>3, DeliveryAssumption
<1>5. PICK k \in enough : \A l \in enough : k <= l
  BY <1>4, LeastOf
<1>6. k \in Nat /\ k # 0 /\ k <= m /\ r <= k * BatchSize
  BY <1>2, <1>4, <1>5, DeliveryAssumption
<1>7. k - 1 \notin enough /\ k - 1 \in Nat
  BY <1>5, <1>6
<1>8. r \in ((k - 1) * BatchSize + 1)..(k * BatchSize)
  BY <1>2, <1>6, <1>7, DeliveryAssumption
<1> HIDE DEF enough
<1>9. k \in 1..((Cardinality(ids) + BatchSize - 1) \div BatchSize)
  BY <1>1, <1>3, <1>6
<1> QED BY <1>2, <1>8, <1>9 DEF Chunks

LEMMA DeliveryInitial == DeliveryInit => DeliveryInv
<1> SUFFICES ASSUME DeliveryInit PROVE DeliveryInv
  OBVIOUS
<1>1. /\ cursor = 1 /\ tries = 1 /\ waiting = {} /\ inFlight = {} /\ received = <<>>
      /\ dlPc \in {"done", "post"} /\ (result = "ok" => Requests = <<>>)
      /\ (dlPc # "done" => Requests # <<>>)
  BY DEF DeliveryInit
<1>2. batch \in Seq(BatchEvent)
  <2>1. PICK n \in 1..(IF Parallel THEN 1 ELSE MaxBatch) : batch \in [1..n -> BatchEvent]
    BY DEF DeliveryInit
  <2>2. n \in Nat
    BY <2>1, DeliveryAssumption
  <2> QED BY <2>1, <2>2
<1>3. received \in Seq((DOMAIN Requests) \X Nat) /\ DOMAIN received = {}
  BY <1>1
<1>4. DeliveryTypes
  <2>1. Requests # <<>> => 1 \in DOMAIN Requests
    BY <1>2, RequestsAreSequence
  <2> QED BY <1>1, <1>2, <1>3, <2>1 DEF DeliveryTypes
<1>5. SerialDelivery /\ ParallelDelivery
  BY <1>1 DEF SerialDelivery, ParallelDelivery
<1>6. AllTaken
  <2>1. Requests = <<>> => DOMAIN Requests = {}
    OBVIOUS
  <2> QED BY <1>1, <2>1 DEF AllTaken
<1>7. ReceivedWithoutGap
  BY <1>3 DEF ReceivedWithoutGap
<1> QED BY <1>4, <1>5, <1>6, <1>7 DEF DeliveryInv

(* The requests follow from what Init has fixed.                           *)
LEMMA RequestsAreFixed ==
  ASSUME UNCHANGED <<exporterKind, batch>>
  PROVE  Requests' = Requests /\ (Parallel' <=> Parallel)
BY DEF Requests, Parallel, Chunks, OneRequest, Rank, Spans, NotSpans, Measured, Where

LEMMA PostKeeps == DeliveryInv /\ Post => DeliveryInv'
<1> SUFFICES ASSUME DeliveryInv, Post PROVE DeliveryInv'
  OBVIOUS
<1>1. /\ dlPc = "post" /\ dlPc' = "wait"
      /\ waiting' = (IF Parallel THEN DOMAIN Requests ELSE {cursor})
      /\ inFlight' = inFlight \cup (waiting' \X {tries})
      /\ UNCHANGED <<exporterKind, batch, cursor, tries, received, result>>
  BY DEF Post
<1>2. Requests' = Requests /\ (Parallel' <=> Parallel) /\ batch' = batch
  BY <1>1, RequestsAreFixed
<1>3. DeliveryTypes'
  BY <1>1, <1>2 DEF DeliveryInv, DeliveryTypes
<1>4. \A q : Taken(q)' <=> Taken(q)
  BY <1>1 DEF Taken
<1>5. SerialDelivery'
  <2> SUFFICES ASSUME ~Parallel
               PROVE  /\ waiting' \subseteq {cursor}
                      /\ \A q \in 1..(cursor - 1) : Taken(q)
                      /\ \A p \in inFlight' : p[1] <= cursor
    BY <1>1, <1>2, <1>4 DEF SerialDelivery
  <2>1. cursor \in Nat
    BY DEF DeliveryInv, DeliveryTypes
  <2> QED BY <1>1, <2>1 DEF DeliveryInv, SerialDelivery
<1>6. ParallelDelivery'
  BY <1>1, <1>2 DEF ParallelDelivery
<1>7. AllTaken' /\ ReceivedWithoutGap'
  BY <1>1, <1>2, <1>4 DEF DeliveryInv, AllTaken, ReceivedWithoutGap
<1> QED BY <1>3, <1>5, <1>6, <1>7 DEF DeliveryInv

(* What a post that has been answered leaves: the others are as they were. *)
LEMMA SucceededKeeps ==
  ASSUME DeliveryInv, NEW r \in waiting, Succeeded(r)
  PROVE  DeliveryInv'
<1>1. /\ dlPc = "wait" /\ Contains(received, <<r, tries>>) /\ waiting' = waiting \ {r}
      /\ IF waiting' # {} THEN UNCHANGED <<dlPc, cursor, tries, result>>
         ELSE IF Parallel \/ cursor = Len(Requests)
           THEN dlPc' = "done" /\ result' = "ok" /\ UNCHANGED <<cursor, tries>>
           ELSE dlPc' = "post" /\ cursor' = cursor + 1 /\ tries' = 1 /\ UNCHANGED result
      /\ UNCHANGED <<exporterKind, batch, inFlight, received>>
  BY DEF Succeeded
<1>2. Requests' = Requests /\ (Parallel' <=> Parallel) /\ batch' = batch
  BY <1>1, RequestsAreFixed
<1>0. PICK len \in Nat : len = Len(Requests) /\ DOMAIN Requests = 1..len
  <2>1. Requests \in Seq(Request)
    BY RequestsAreSequence DEF DeliveryInv, DeliveryTypes
  <2> QED BY <2>1
<1>3. cursor \in 1..len /\ cursor \in Nat \ {0}
  BY <1>0, <1>1 DEF DeliveryInv, DeliveryTypes
<1>4. \A q : Taken(q)' <=> Taken(q)
  BY <1>1 DEF Taken
<1>5. Taken(r)
  <2>1. received \in Seq((DOMAIN Requests) \X Nat)
    BY DEF DeliveryInv, DeliveryTypes
  <2>2. PICK m \in 1..Len(received) : received[m] = <<r, tries>>
    BY <1>1 DEF Contains
  <2> QED BY <2>1, <2>2 DEF Taken
<1>6. DeliveryTypes'
  <2>1. cursor' \in Nat \ {0} /\ tries' \in Nat /\ (dlPc' # "done" => cursor' \in DOMAIN Requests)
    <3>1. tries \in Nat /\ tries' \in {tries, 1}
      BY <1>1 DEF DeliveryInv, DeliveryTypes
    <3>2. cursor' = cursor \/ (cursor' = cursor + 1 /\ cursor # len)
      BY <1>0, <1>1
    <3>3. cursor' \in Nat \ {0} /\ cursor' \in 1..len
      BY <1>3, <3>2
    <3> QED BY <1>0, <3>1, <3>3
  <2> QED BY <1>1, <1>2, <2>1 DEF DeliveryInv, DeliveryTypes
<1>7. SerialDelivery'
  <2> SUFFICES ASSUME ~Parallel
               PROVE  /\ waiting' \subseteq {cursor'}
                      /\ \A q \in 1..(cursor' - 1) : Taken(q)
                      /\ \A p \in inFlight : p[1] <= cursor'
    BY <1>1, <1>2, <1>4 DEF SerialDelivery
  <2>1. /\ r = cursor /\ waiting = {cursor} /\ waiting' = {}
        /\ \A q \in 1..(cursor - 1) : Taken(q)
        /\ \A p \in inFlight : p[1] \in Nat /\ p[1] <= cursor
    <3>1. \A p \in inFlight : p[1] \in 1..len
      BY <1>0 DEF DeliveryInv, DeliveryTypes
    <3>2. r = cursor /\ waiting = {cursor} /\ waiting' = {}
      BY <1>1 DEF DeliveryInv, SerialDelivery
    <3> QED BY <3>1, <3>2 DEF DeliveryInv, SerialDelivery
  <2>2. cursor' = cursor \/ cursor' = cursor + 1
    BY <1>1
  <2>3. \A q \in 1..(cursor' - 1) : q \in 1..(cursor - 1) \/ q = cursor
    BY <1>3, <2>2
  <2> QED BY <1>3, <1>5, <2>1, <2>2, <2>3
<1>8. ParallelDelivery'
  BY <1>1, <1>2, <1>4, <1>5 DEF DeliveryInv, ParallelDelivery
<1>9. AllTaken'
  <2> SUFFICES ASSUME result # "ok", result' = "ok", NEW q \in 1..len PROVE Taken(q)
    BY <1>0, <1>1, <1>2, <1>4 DEF DeliveryInv, AllTaken
  <2>1. waiting \subseteq {r} /\ (Parallel \/ cursor = len)
    BY <1>0, <1>1
  <2>2. CASE Parallel
    BY <1>0, <1>1, <1>5, <2>1, <2>2 DEF DeliveryInv, ParallelDelivery
  <2>3. CASE ~Parallel
    <3>1. r = cursor /\ \A p \in 1..(cursor - 1) : Taken(p)
      BY <2>3 DEF DeliveryInv, SerialDelivery
    <3>2. cursor = len
      BY <2>1, <2>3
    <3>3. q \in 1..(cursor - 1) \/ q = cursor
      BY <1>3, <3>2
    <3> QED BY <1>5, <3>1, <3>3
  <2> QED BY <2>2, <2>3
<1>10. ReceivedWithoutGap'
  BY <1>1, <1>2 DEF DeliveryInv, ReceivedWithoutGap
<1> QED BY <1>6, <1>7, <1>8, <1>9, <1>10 DEF DeliveryInv

(* Every other step of the task gives the waiting up, and takes no post    *)
(* back.                                                                   *)
LEMMA GivingUpKeeps ==
  ASSUME DeliveryInv, waiting' = {}, inFlight' \subseteq inFlight, tries' \in Nat,
         dlPc' \in {"post", "backoff", "done"}, dlPc # "done",
         result' # "ok" \/ result' = result,
         UNCHANGED <<exporterKind, batch, cursor, received>>
  PROVE  DeliveryInv'
<1>1. Requests' = Requests /\ (Parallel' <=> Parallel) /\ batch' = batch
  BY RequestsAreFixed
<1>2. \A q : Taken(q)' <=> Taken(q)
  BY DEF Taken
<1>3. DeliveryTypes'
  BY <1>1 DEF DeliveryInv, DeliveryTypes
<1>4. SerialDelivery' /\ ParallelDelivery' /\ AllTaken' /\ ReceivedWithoutGap'
  BY <1>1, <1>2 DEF DeliveryInv, SerialDelivery, ParallelDelivery, AllTaken, ReceivedWithoutGap
<1> QED BY <1>3, <1>4 DEF DeliveryInv

LEMMA FailureKeeps ==
  ASSUME DeliveryInv, NEW r \in waiting, Failed(r) \/ Refused(r)
  PROVE  DeliveryInv'
<1>1. tries \in Nat
  BY DEF DeliveryInv, DeliveryTypes
<1> QED BY <1>1, GivingUpKeeps DEF Failed, Refused, OnFailure, BackOff, Raises

(* A post is taken: if the one before it was not the same request, that    *)
(* one was taken before.                                                   *)
LEMMA ArriveKeeps ==
  ASSUME DeliveryInv, NEW p \in inFlight, Arrive(p)
  PROVE  DeliveryInv'
<1> PICK n : n = Len(received)
  OBVIOUS
<1>1. /\ inFlight' = inFlight \ {p} /\ received' = Append(received, p)
      /\ UNCHANGED <<exporterKind, batch, dlPc, cursor, tries, waiting, result>>
  BY DEF Arrive
<1>2. Requests' = Requests /\ (Parallel' <=> Parallel) /\ batch' = batch
  BY <1>1, RequestsAreFixed
<1>3. /\ received \in Seq((DOMAIN Requests) \X Nat) /\ p \in (DOMAIN Requests) \X Nat
      /\ n \in Nat /\ DOMAIN received = 1..n
  BY DEF DeliveryInv, DeliveryTypes
<1>4. /\ received' \in Seq((DOMAIN Requests) \X Nat) /\ DOMAIN received' = 1..(n + 1)
      /\ received'[n + 1] = p /\ \A m \in 1..n : received'[m] = received[m]
  BY <1>1, <1>3
<1>5. \A q : Taken(q) => Taken(q)'
  BY <1>3, <1>4 DEF Taken
<1>6. DeliveryTypes'
  BY <1>1, <1>2, <1>4 DEF DeliveryInv, DeliveryTypes
<1>7. SerialDelivery' /\ ParallelDelivery' /\ AllTaken'
  BY <1>1, <1>2, <1>5 DEF DeliveryInv, SerialDelivery, ParallelDelivery, AllTaken
<1>8. ReceivedWithoutGap'
  <2> SUFFICES ASSUME ~Parallel, NEW k \in 1..(n + 1), received'[k][1] # 1
               PROVE  \E m \in 1..(k - 1) : received'[m][1] = received'[k][1] - 1
    BY <1>2, <1>4 DEF ReceivedWithoutGap
  <2>1. CASE k \in 1..n
    <3>1. PICK m \in 1..(k - 1) : received[m][1] = received[k][1] - 1
      BY <1>3, <1>4, <2>1 DEF DeliveryInv, ReceivedWithoutGap
    <3>2. m \in 1..n
      BY <1>3, <2>1
    <3> QED BY <1>4, <2>1, <3>1, <3>2
  <2>2. CASE k = n + 1
    <3>1. p[1] \in Nat \ {0} /\ p[1] # 1 /\ p[1] <= cursor /\ cursor \in Nat
      <4>1. Requests \in Seq(Request)
        BY RequestsAreSequence DEF DeliveryInv, DeliveryTypes
      <4>2. p[1] \in 1..Len(Requests) /\ Len(Requests) \in Nat
        BY <1>3, <4>1
      <4> QED BY <1>4, <2>2, <4>2 DEF DeliveryInv, SerialDelivery, DeliveryTypes
    <3>2. p[1] - 1 \in 1..(cursor - 1)
      BY <3>1
    <3>3. PICK m \in DOMAIN received : received[m][1] = p[1] - 1
      BY <3>2 DEF DeliveryInv, SerialDelivery, Taken
    <3>4. m \in 1..(k - 1) /\ received'[m] = received[m] /\ received'[k] = p
      BY <1>3, <1>4, <2>2, <3>3
    <3> QED BY <3>3, <3>4
  <2> QED BY <1>3, <2>1, <2>2
<1> QED BY <1>6, <1>7, <1>8 DEF DeliveryInv

LEMMA DeliveryStep == DeliveryInv /\ [DeliveryNext]_deliveryVars => DeliveryInv'
<1> SUFFICES ASSUME DeliveryInv, [DeliveryNext]_deliveryVars PROVE DeliveryInv'
  OBVIOUS
<1>1. tries \in Nat
  BY DEF DeliveryInv, DeliveryTypes
<1>2. CASE Post
  BY <1>2, PostKeeps
<1>3. CASE BackOffOver
  <2>1. /\ dlPc = "backoff" /\ dlPc' = "post"
        /\ UNCHANGED <<exporterKind, batch, cursor, tries, waiting, inFlight, received, result>>
    BY <1>3 DEF BackOffOver
  <2>2. Requests' = Requests /\ (Parallel' <=> Parallel) /\ batch' = batch
    BY <2>1, RequestsAreFixed
  <2>3. \A q : Taken(q)' <=> Taken(q)
    BY <2>1 DEF Taken
  <2>4. DeliveryTypes'
    BY <2>1, <2>2 DEF DeliveryInv, DeliveryTypes
  <2> QED BY <2>1, <2>2, <2>3, <2>4
          DEF DeliveryInv, SerialDelivery, ParallelDelivery, AllTaken, ReceivedWithoutGap
<1>4. CASE Cancel
  BY <1>1, <1>4, GivingUpKeeps DEF Cancel
<1>5. CASE \E r \in waiting : Succeeded(r) \/ Failed(r) \/ Refused(r)
  BY <1>5, SucceededKeeps, FailureKeeps
<1>6. CASE \E p \in inFlight : Arrive(p)
  BY <1>6, ArriveKeeps
<1>7. CASE \E p \in inFlight : Lose(p)
  <2>1. /\ inFlight' \subseteq inFlight
        /\ UNCHANGED <<exporterKind, batch, dlPc, cursor, tries, waiting, received, result>>
    BY <1>7 DEF Lose
  <2>2. Requests' = Requests /\ (Parallel' <=> Parallel) /\ batch' = batch
    BY <2>1, RequestsAreFixed
  <2>3. \A q : Taken(q)' <=> Taken(q)
    BY <2>1 DEF Taken
  <2>4. DeliveryTypes'
    BY <2>1, <2>2 DEF DeliveryInv, DeliveryTypes
  <2> QED BY <2>1, <2>2, <2>3, <2>4
          DEF DeliveryInv, SerialDelivery, ParallelDelivery, AllTaken, ReceivedWithoutGap
<1>8. CASE UNCHANGED deliveryVars
  <2>1. UNCHANGED <<exporterKind, batch, dlPc, cursor, tries, waiting, inFlight, received, result>>
    BY <1>8 DEF deliveryVars
  <2>2. Requests' = Requests /\ (Parallel' <=> Parallel) /\ batch' = batch
    BY <2>1, RequestsAreFixed
  <2>3. \A q : Taken(q)' <=> Taken(q)
    BY <2>1 DEF Taken
  <2>4. DeliveryTypes'
    BY <2>1, <2>2 DEF DeliveryInv, DeliveryTypes
  <2> QED BY <2>1, <2>2, <2>3, <2>4
          DEF DeliveryInv, SerialDelivery, ParallelDelivery, AllTaken, ReceivedWithoutGap
<1> QED BY <1>2, <1>3, <1>4, <1>5, <1>6, <1>7, <1>8 DEF DeliveryNext

(* An event that is in a request that was taken has been received there.   *)
LEMMA TakenIsReceived ==
  ASSUME DeliveryInv, NEW i \in DOMAIN batch, NEW q \in DOMAIN Requests, Taken(q),
         i \in Requests[q].ids
  PROVE  i \in ReceivedAt(Requests[q].to)
BY DEF Taken, ReceivedAt

LEMMA OkMeansDelivered == DeliveryInv => SuccessMeansDelivered
<1> SUFFICES ASSUME DeliveryInv, result = "ok" PROVE SuccessMeansDelivered
  BY DEF SuccessMeansDelivered
<1>1. /\ batch \in Seq(BatchEvent) /\ \A q \in DOMAIN Requests : Taken(q)
  BY DEF DeliveryInv, DeliveryTypes, AllTaken
<1>2. ASSUME NEW ids \in SUBSET DOMAIN batch, NEW to, NEW i \in ids
      PROVE  LET one == OneRequest(ids, to)
             IN  1 \in DOMAIN one /\ Len(one) = 1 /\ one[1].to = to /\ i \in one[1].ids
  BY DEF OneRequest
<1>3. ASSUME NEW ids \in SUBSET DOMAIN batch, NEW to, Requests = OneRequest(ids, to), NEW i \in ids
      PROVE  i \in ReceivedAt(to)
  BY <1>1, <1>2, <1>3, TakenIsReceived
<1>4. \A to : ReceivedAt(to) \subseteq DOMAIN batch
  BY DEF ReceivedAt
<1>5. ASSUME NEW a \in SUBSET DOMAIN batch, NEW b \in SUBSET DOMAIN batch, NEW to, NEW at,
             Requests = OneRequest(a, to) \o OneRequest(b, at)
      PROVE  (\A i \in a : i \in ReceivedAt(to)) /\ (\A i \in b : i \in ReceivedAt(at))
  <2>1. /\ OneRequest(a, to) \in Seq({[to |-> to, ids |-> a]})
        /\ OneRequest(b, at) \in Seq({[to |-> at, ids |-> b]})
    <3>1. \A R : <<>> \in Seq({R}) /\ <<R>> \in Seq({R})
      OBVIOUS
    <3> QED BY <3>1 DEF OneRequest
  <2>2. ASSUME NEW i \in a PROVE i \in ReceivedAt(to)
    <3>1. OneRequest(a, to) = <<[to |-> to, ids |-> a]>>
      BY DEF OneRequest
    <3>2. 1 \in DOMAIN Requests /\ Requests[1] = [to |-> to, ids |-> a]
      BY <1>5, <2>1, <3>1
    <3> QED BY <1>1, <3>2, TakenIsReceived
  <2>3. ASSUME NEW i \in b PROVE i \in ReceivedAt(at)
    <3>1. OneRequest(b, at) = <<[to |-> at, ids |-> b]>>
      BY DEF OneRequest
    <3>2. PICK n \in {1, 2} : n \in DOMAIN Requests /\ Requests[n] = [to |-> at, ids |-> b]
      <4>1. CASE a = {}
        BY <1>5, <3>1, <4>1 DEF OneRequest
      <4>2. CASE a # {}
        <5>1. OneRequest(a, to) = <<[to |-> to, ids |-> a]>>
          BY <4>2 DEF OneRequest
        <5> QED BY <1>5, <3>1, <5>1
      <4> QED BY <4>1, <4>2
    <3> QED BY <1>1, <3>2, TakenIsReceived
  <2> QED BY <2>2, <2>3
<1>6. CASE exporterKind = "webhook"
  <2>1. Requests = OneRequest(DOMAIN batch, "hook")
    BY <1>6 DEF Requests
  <2>2. ReceivedAt("hook") = DOMAIN batch
    BY <1>3, <1>4, <2>1
  <2> QED BY <1>6, <2>2 DEF SuccessMeansDelivered
<1>7. CASE exporterKind = "loki"
  <2>1. Requests = OneRequest(DOMAIN batch, "loki")
    BY <1>7 DEF Requests
  <2>2. ReceivedAt("loki") = DOMAIN batch
    BY <1>3, <1>4, <2>1
  <2> QED BY <1>7, <2>2 DEF SuccessMeansDelivered
<1>8. CASE exporterKind = "otlp"
  <2> DEFINE a == Chunks(Spans, "spans")
             b == Chunks(NotSpans, "logs")
  <2>1. /\ IsFiniteSet(Spans) /\ IsFiniteSet(NotSpans) /\ Spans \subseteq Nat /\ NotSpans \subseteq Nat
        /\ Spans \subseteq DOMAIN batch /\ NotSpans \subseteq DOMAIN batch
    BY <1>1, SpansAreFinite DEF Spans, NotSpans, Where
  <2>2. Requests = a \o b /\ a \in Seq(Request) /\ b \in Seq(Request)
    BY <1>8, <2>1, ChunksAreSequences DEF Requests, Endpoints
  <2>3. /\ \A i \in Spans : \E k \in DOMAIN a : i \in a[k].ids /\ a[k].to = "spans"
        /\ \A i \in NotSpans : \E k \in DOMAIN b : i \in b[k].ids /\ b[k].to = "logs"
    BY <2>1, ChunksCover
  <2> HIDE DEF a, b
  <2>4. /\ \A k \in DOMAIN a : k \in DOMAIN Requests /\ Requests[k] = a[k]
        /\ \A k \in DOMAIN b : Len(a) + k \in DOMAIN Requests /\ Requests[Len(a) + k] = b[k]
    BY <2>2
  <2>5. ASSUME NEW i \in DOMAIN batch
        PROVE  i \in ReceivedAt(IF batch[i].isSpan THEN "spans" ELSE "logs")
    <3>1. CASE batch[i].isSpan
      <4>1. i \in Spans
        BY <3>1 DEF Spans, Where
      <4>2. PICK k \in DOMAIN a : i \in a[k].ids /\ a[k].to = "spans"
        BY <2>3, <4>1
      <4> QED BY <1>1, <2>4, <3>1, <4>2, TakenIsReceived
    <3>2. CASE ~batch[i].isSpan
      <4>1. i \in NotSpans
        BY <3>2 DEF NotSpans, Where
      <4>2. PICK k \in DOMAIN b : i \in b[k].ids /\ b[k].to = "logs"
        BY <2>3, <4>1
      <4> QED BY <1>1, <2>4, <3>2, <4>2, TakenIsReceived
    <3> QED BY <3>1, <3>2
  <2> QED BY <1>8, <2>5 DEF SuccessMeansDelivered
<1>9. CASE exporterKind \notin {"webhook", "loki", "otlp"}
  <2>1. Requests = OneRequest(Spans, "traces") \o OneRequest(Measured, "metrics")
    BY <1>9 DEF Requests
  <2>2. Spans \in SUBSET DOMAIN batch /\ Measured \in SUBSET DOMAIN batch
    BY DEF Spans, Measured, Where
  <2>3. (\A i \in Spans : i \in ReceivedAt("traces")) /\ (\A i \in Measured : i \in ReceivedAt("metrics"))
    BY <1>5, <2>1, <2>2
  <2>4. \A i \in DOMAIN batch : /\ batch[i].isSpan => i \in ReceivedAt("traces")
                                /\ batch[i].hasMetric => i \in ReceivedAt("metrics")
    BY <2>3 DEF Spans, Measured, Where
  <2> QED BY <1>9, <2>4 DEF SuccessMeansDelivered
<1> QED BY <1>6, <1>7, <1>8, <1>9

-----------------------------------------------------------------------------
(* A behaviour of the runtime is one of each component: a step is a step   *)
(* of the component that runs and leaves the others alone.                 *)

LEMMA RuntimeStepsAreTheirs ==
  ASSUME [RuntimeNext]_runtimeVars
  PROVE  /\ [DeliveryNext]_deliveryVars /\ [IngestNext]_ingestVars
         /\ [AuditNext]_auditVars /\ [CacheNext]_cacheVars /\ [StoreNext]_ringVars
<1>1. CASE RuntimeNext
  BY <1>1 DEF RuntimeNext, Only
<1>2. CASE UNCHANGED runtimeVars
  BY <1>2 DEF runtimeVars
<1> QED BY <1>1, <1>2

(* Batches that are sent and sources that are read, in every interleaving  *)
(* with late posts, losses, retries, cancellations, crashes and commits:   *)
(* an export that returns was taken whole by every endpoint, what arrives  *)
(* of one that fails leaves no hole, and what a queue or a consumer group  *)
(* counts as consumed was returned once and in order, or its loss raised.  *)
THEOREM EventsAreAccountedFor == RuntimeSpec => []NoEventVanishes
<1>1. RuntimeInit => DeliveryInv /\ IngestInv
  BY DeliveryInitial, IngestInitial DEF RuntimeInit
<1>2. DeliveryInv /\ IngestInv /\ [RuntimeNext]_runtimeVars => (DeliveryInv /\ IngestInv)'
  BY RuntimeStepsAreTheirs, DeliveryStep, IngestStep
<1>3. DeliveryInv /\ IngestInv => NoEventVanishes
  <2>1. DeliveryInv => ReceivedWithoutGap
    BY DEF DeliveryInv
  <2> QED BY <2>1, OkMeansDelivered, IngestAccounts DEF NoEventVanishes
<1> QED BY <1>1, <1>2, <1>3, PTL DEF RuntimeSpec

-----------------------------------------------------------------------------
(* Framework callbacks *)

(* A span is in the dictionary of tools at most once, and what is in one   *)
(* of the dictionaries is open and has not been exited.                    *)
InTools(s) == \E i \in DOMAIN toolSpans : toolSpans[i].span = s
InTasks(s) == \E k \in Tasks : taskSpans[k] = s

CrewEntry == [key : CrewKeys, span : Nat]

CallbackTypes ==
  /\ callbacks \in 0..MaxCallbacks
  /\ toolSpans \in Seq(CrewEntry)
  /\ \A i \in DOMAIN toolSpans : toolSpans[i].span \in 1..callbacks
  /\ taskSpans \in [Tasks -> 0..callbacks]
  /\ crewOpen \subseteq 1..callbacks
  /\ crewExits \in [Numbers -> {0, 1}]
  /\ startTimes \in [Tasks -> 0..callbacks]
  /\ handlerEvents \in Seq([kind : {"started", "completed", "error"}, id : Tasks,
                            at : Nat, since : Nat])

SpansDiffer == \A i, j \in DOMAIN toolSpans : toolSpans[i].span = toolSpans[j].span => i = j
KeysDiffer  == \A i, j \in DOMAIN toolSpans : toolSpans[i].key = toolSpans[j].key => i = j

CrewInv ==
  /\ SpansDiffer /\ KeysDiffer
  /\ \A k, l \in Tasks : taskSpans[k] = taskSpans[l] /\ taskSpans[k] # 0 => k = l
  /\ \A i \in DOMAIN toolSpans, k \in Tasks : toolSpans[i].span # taskSpans[k]
  /\ \A s \in Numbers : InTools(s) \/ InTasks(s) => s \in crewOpen
  /\ \A s \in Numbers : s \in crewOpen \/ s > callbacks => crewExits[s] = 0

(* A start that is still to be popped has ended nothing yet.               *)
TimingInv ==
  /\ \A i \in DOMAIN handlerEvents :
       /\ handlerEvents[i].at \in 1..callbacks /\ handlerEvents[i].since \in 0..callbacks
       /\ handlerEvents[i].since # 0 => handlerEvents[i].since < handlerEvents[i].at
       /\ \A k \in Tasks : startTimes[k] # 0 => startTimes[k] # handlerEvents[i].since
  /\ \A i, j \in DOMAIN handlerEvents :
       handlerEvents[i].since # 0 /\ handlerEvents[i].since = handlerEvents[j].since => i = j
  /\ \A k, l \in Tasks : startTimes[k] = startTimes[l] /\ startTimes[k] # 0 => k = l

CallbackInv == CallbackTypes /\ CrewInv /\ TimingInv

LEMMA CallbackInitial == CallbackInit => CallbackInv
<1> SUFFICES ASSUME CallbackInit PROVE CallbackInv
  OBVIOUS
<1> USE DEF CallbackInit
<1>1. CallbackTypes
  BY CallbackAssumption DEF CallbackTypes
<1>2. CrewInv
  BY DEF CrewInv, SpansDiffer, KeysDiffer, InTools, InTasks, Numbers
<1>3. TimingInv
  BY DEF TimingInv
<1> QED BY <1>1, <1>2, <1>3 DEF CallbackInv

(* A number is drawn with every callback.                                  *)
LEMMA NewIsFresh ==
  ASSUME CallbackInv, NEW h, Called(h)
  PROVE  /\ New \in Numbers /\ New \in Nat /\ callbacks' = New /\ callbacks \in Nat
         /\ New = callbacks + 1 /\ New \in 1..callbacks' /\ 1..callbacks \subseteq 1..callbacks'
         /\ 0..callbacks \subseteq 0..callbacks' /\ callbacks' \in 0..MaxCallbacks
         /\ New \notin 0..callbacks /\ New \notin 1..callbacks
<1>1. callbacks \in 0..MaxCallbacks /\ callbacks < MaxCallbacks /\ callbacks' = callbacks + 1
      /\ MaxCallbacks \in Nat
  BY CallbackAssumption DEF CallbackInv, CallbackTypes, Called
<1> QED BY <1>1 DEF New, Numbers

LEMMA CrewLeavesTiming ==
  ASSUME CallbackInv, NEW h, Called(h), UNCHANGED <<startTimes, handlerEvents>>
  PROVE  /\ TimingInv' /\ startTimes' \in [Tasks -> 0..callbacks']
         /\ handlerEvents' \in Seq([kind : {"started", "completed", "error"}, id : Tasks,
                            at : Nat, since : Nat])
<1>1. 1..callbacks \subseteq 1..callbacks' /\ 0..callbacks \subseteq 0..callbacks'
  BY NewIsFresh
<1> QED BY <1>1 DEF CallbackInv, CallbackTypes, TimingInv

(* The entry of a new span takes the place of the one with its key, or     *)
(* comes last: the other entries are as they were.                         *)
LEMMA KeptKeepsTheRest ==
  ASSUME CallbackInv, NEW key \in CrewKeys, NEW span \in Nat
  PROVE  /\ KeptTool(key, span) \in Seq(CrewEntry)
         /\ \A i \in DOMAIN KeptTool(key, span) :
              \/ /\ i \in DOMAIN toolSpans /\ KeptTool(key, span)[i] = toolSpans[i]
                 /\ toolSpans[i].key # key
              \/ KeptTool(key, span)[i] = [key |-> key, span |-> span]
         /\ \A i, j \in DOMAIN KeptTool(key, span) :
              KeptTool(key, span)[i].key = key /\ KeptTool(key, span)[j].key = key => i = j
<1>1. PICK e : e = [key |-> key, span |-> span]
  OBVIOUS
<1>2. e \in CrewEntry /\ e.key = key
  BY <1>1 DEF CrewEntry
<1>3. PICK n \in Nat : n = Len(toolSpans) /\ DOMAIN toolSpans = 1..n /\ toolSpans \in Seq(CrewEntry)
  BY DEF CallbackInv, CallbackTypes
<1>4. PICK kept : kept = KeptTool(key, span)
  OBVIOUS
<1>5. CASE \E i \in DOMAIN toolSpans : toolSpans[i].key = key
  <2>1. kept = [i \in DOMAIN toolSpans |-> IF toolSpans[i].key = key THEN e ELSE toolSpans[i]]
    BY <1>1, <1>4, <1>5 DEF KeptTool
  <2>2. \A i \in 1..n : toolSpans[i] \in CrewEntry
    BY <1>3
  <2>3. kept \in [1..n -> CrewEntry]
    BY <1>2, <1>3, <2>1, <2>2
  <2>4. kept \in Seq(CrewEntry) /\ DOMAIN kept = 1..n
    BY <1>3, <2>3
  <2>5. \A i \in 1..n : (kept[i] = toolSpans[i] /\ toolSpans[i].key # key)
                        \/ (kept[i] = e /\ toolSpans[i].key = key)
    BY <1>3, <2>1
  <2>6. \A i, j \in 1..n : kept[i].key = key /\ kept[j].key = key => i = j
    BY <1>3, <2>5 DEF CallbackInv, CrewInv, KeysDiffer
  <2> QED BY <1>1, <1>3, <1>4, <2>4, <2>5, <2>6
<1>6. CASE ~\E i \in DOMAIN toolSpans : toolSpans[i].key = key
  <2>1. kept = Append(toolSpans, e)
    BY <1>1, <1>4, <1>6 DEF KeptTool
  <2>2. /\ kept \in Seq(CrewEntry) /\ DOMAIN kept = 1..(n + 1) /\ kept[n + 1] = e
        /\ \A i \in 1..n : kept[i] = toolSpans[i]
    BY <1>2, <1>3, <2>1
  <2>3. \A i \in 1..(n + 1) : (i \in 1..n /\ kept[i] = toolSpans[i] /\ toolSpans[i].key # key)
                              \/ (i = n + 1 /\ kept[i] = e)
    BY <1>3, <1>6, <2>2
  <2>4. \A i, j \in 1..(n + 1) : kept[i].key = key /\ kept[j].key = key => i = j
    BY <2>3
  <2> QED BY <1>1, <1>3, <1>4, <2>2, <2>3, <2>4
<1> QED BY <1>5, <1>6

LEMMA OpenToolSpanKeeps ==
  ASSUME CallbackInv, NEW of \in Agents \cup Tools, NEW name \in ToolNames, NEW tick \in Ticks,
         OpenToolSpan(of, name, tick)
  PROVE  CallbackInv'
<1>1. PICK key \in CrewKeys : key = [of |-> of, name |-> name, tick |-> tick]
  BY DEF CrewKeys
<1>2. /\ Called("crewai") /\ toolSpans' = KeptTool(key, New) /\ crewOpen' = crewOpen \cup {New}
      /\ UNCHANGED <<taskSpans, crewExits, startTimes, handlerEvents, exportTasks>>
  BY <1>1 DEF OpenToolSpan
<1>3. /\ New \in Numbers /\ New \in Nat /\ callbacks' = New /\ callbacks \in Nat
      /\ New = callbacks + 1 /\ New \in 1..callbacks' /\ 1..callbacks \subseteq 1..callbacks'
      /\ 0..callbacks \subseteq 0..callbacks' /\ callbacks' \in 0..MaxCallbacks
      /\ New \notin 0..callbacks /\ New \notin 1..callbacks
  BY <1>2, NewIsFresh
<1>4. \A i \in DOMAIN toolSpans : toolSpans[i].span \in 1..callbacks
  BY DEF CallbackInv, CallbackTypes
<1>5. /\ toolSpans' \in Seq(CrewEntry)
      /\ \A i \in DOMAIN toolSpans' :
           \/ i \in DOMAIN toolSpans /\ toolSpans'[i] = toolSpans[i] /\ toolSpans[i].key # key
           \/ toolSpans'[i].span = New /\ toolSpans'[i].key = key
      /\ \A i, j \in DOMAIN toolSpans' : toolSpans'[i].key = key /\ toolSpans'[j].key = key => i = j
  BY <1>2, <1>3, KeptKeepsTheRest
<1>6. CallbackTypes'
  <2>1. \A i \in DOMAIN toolSpans' : toolSpans'[i].span \in 1..callbacks'
    BY <1>3, <1>4, <1>5
  <2> QED BY <1>2, <1>3, <1>5, <2>1, CrewLeavesTiming DEF CallbackInv, CallbackTypes
<1>7. CrewInv'
  <2>1. SpansDiffer'
    BY <1>3, <1>4, <1>5 DEF CallbackInv, CrewInv, SpansDiffer
  <2>2. KeysDiffer'
    BY <1>5 DEF CallbackInv, CrewInv, KeysDiffer
  <2>3. \A i \in DOMAIN toolSpans', k \in Tasks : toolSpans'[i].span # taskSpans'[k]
    <3> SUFFICES ASSUME NEW i \in DOMAIN toolSpans', NEW k \in Tasks
                 PROVE  toolSpans'[i].span # taskSpans[k]
      BY <1>2
    <3>1. taskSpans[k] \in 0..callbacks
      BY DEF CallbackInv, CallbackTypes
    <3>2. CASE toolSpans'[i].span = New
      BY <1>3, <3>1, <3>2
    <3>3. CASE i \in DOMAIN toolSpans /\ toolSpans'[i] = toolSpans[i]
      BY <3>3 DEF CallbackInv, CrewInv
    <3> QED BY <1>5, <3>2, <3>3
  <2>4. \A s \in Numbers : (InTools(s)' => InTools(s) \/ s = New) /\ (InTasks(s)' <=> InTasks(s))
    BY <1>2, <1>5 DEF InTools, InTasks
  <2>5. \A s \in Numbers : InTools(s)' \/ InTasks(s)' => s \in crewOpen'
    BY <1>2, <2>4 DEF CallbackInv, CrewInv
  <2>6. \A s \in Numbers : s \in crewOpen' \/ s > callbacks' => crewExits'[s] = 0
    <3> SUFFICES ASSUME NEW s \in Numbers, s \in crewOpen' \/ s > callbacks' PROVE crewExits[s] = 0
      BY <1>2
    <3>1. s \in Nat
      BY DEF Numbers
    <3>2. s \in crewOpen \/ s > callbacks
      BY <1>2, <1>3, <3>1
    <3> QED BY <3>2 DEF CallbackInv, CrewInv
  <2> QED BY <1>2, <2>1, <2>2, <2>3, <2>5, <2>6 DEF CallbackInv, CrewInv
<1> QED BY <1>2, <1>6, <1>7, CrewLeavesTiming DEF CallbackInv

(* A span leaves the dictionaries, and is exited unless its output is not  *)
(* to be had.                                                              *)
LEMMA ExitKeeps ==
  ASSUME CallbackInv, NEW s \in 1..callbacks, s \in crewOpen, ExitCrewSpan(s), Called("crewai"),
         UNCHANGED <<startTimes, handlerEvents>>,
         toolSpans' \in Seq(CrewEntry),
         taskSpans' \in [Tasks -> 0..callbacks],
         SpansDiffer', KeysDiffer',
         \A i \in DOMAIN toolSpans' : InTools(toolSpans'[i].span) /\ toolSpans'[i].span # s,
         \A k \in Tasks : taskSpans'[k] = 0 \/ (taskSpans'[k] = taskSpans[k] /\ taskSpans[k] # s)
  PROVE  CallbackInv'
<1>1. /\ New \in Numbers /\ New \in Nat /\ callbacks' = New /\ callbacks \in Nat
      /\ New = callbacks + 1 /\ New \in 1..callbacks' /\ 1..callbacks \subseteq 1..callbacks'
      /\ 0..callbacks \subseteq 0..callbacks' /\ callbacks' \in 0..MaxCallbacks
      /\ New \notin 0..callbacks /\ New \notin 1..callbacks
  BY NewIsFresh
<1>2. s \in Numbers /\ s \in Nat /\ crewExits[s] = 0
  <2>1. MaxCallbacks \in Nat /\ s \in 1..callbacks /\ callbacks \in 0..MaxCallbacks
    BY CallbackAssumption DEF CallbackInv, CallbackTypes
  <2>2. s \in Numbers /\ s \in Nat
    BY <2>1 DEF Numbers
  <2> QED BY <2>2 DEF CallbackInv, CrewInv
<1>a. \A i \in DOMAIN toolSpans' : toolSpans'[i].span \in 1..callbacks
  BY DEF InTools, CallbackInv, CallbackTypes
<1>3. /\ crewOpen' \subseteq crewOpen /\ crewOpen \ {s} \subseteq crewOpen'
      /\ crewExits' \in [Numbers -> {0, 1}]
      /\ \A u \in Numbers : u # s => crewExits'[u] = crewExits[u]
      /\ s \in crewOpen' => crewExits'[s] = 0
  <2>1. crewExits \in [Numbers -> {0, 1}]
    BY DEF CallbackInv, CallbackTypes
  <2>2. CASE crewOpen' = crewOpen \ {s} /\ crewExits' = [crewExits EXCEPT ![s] = @ + 1]
    BY <1>2, <2>1, <2>2
  <2>3. CASE UNCHANGED <<crewOpen, crewExits>>
    BY <1>2, <2>1, <2>3
  <2> QED BY <2>2, <2>3 DEF ExitCrewSpan
<1>4. CallbackTypes'
  <2>1. \A i \in DOMAIN toolSpans' : toolSpans'[i].span \in 1..callbacks'
    BY <1>1, <1>a
  <2> QED BY <1>1, <1>3, <2>1, CrewLeavesTiming DEF CallbackInv, CallbackTypes
<1>5. CrewInv'
  <2>1. \A k, l \in Tasks : taskSpans'[k] = taskSpans'[l] /\ taskSpans'[k] # 0 => k = l
    BY DEF CallbackInv, CrewInv
  <2>2. \A i \in DOMAIN toolSpans', k \in Tasks : toolSpans'[i].span # taskSpans'[k]
    <3> SUFFICES ASSUME NEW i \in DOMAIN toolSpans', NEW k \in Tasks
                 PROVE  toolSpans'[i].span # taskSpans'[k]
      OBVIOUS
    <3>1. toolSpans'[i].span \in 1..callbacks
      BY <1>a
    <3>2. \E j \in DOMAIN toolSpans : toolSpans[j].span = toolSpans'[i].span
      BY DEF InTools
    <3> QED BY <1>1, <3>1, <3>2 DEF CallbackInv, CrewInv
  <2>3. \A u \in Numbers : InTools(u)' \/ InTasks(u)' => u # s /\ (InTools(u) \/ InTasks(u))
    <3> SUFFICES ASSUME NEW u \in Numbers, InTools(u)' \/ InTasks(u)'
                 PROVE  u # s /\ (InTools(u) \/ InTasks(u))
      OBVIOUS
    <3>1. u # 0
      BY DEF Numbers
    <3> QED BY <3>1 DEF InTools, InTasks
  <2>4. \A u \in Numbers : InTools(u)' \/ InTasks(u)' => u \in crewOpen'
    BY <1>3, <2>3 DEF CallbackInv, CrewInv
  <2>5. \A u \in Numbers : u \in crewOpen' \/ u > callbacks' => crewExits'[u] = 0
    <3> SUFFICES ASSUME NEW u \in Numbers, u \in crewOpen' \/ u > callbacks' PROVE crewExits'[u] = 0
      OBVIOUS
    <3>1. u \in Nat
      BY DEF Numbers
    <3>2. CASE u = s
      BY <1>1, <1>3, <3>2
    <3>3. CASE u # s
      BY <1>1, <1>3, <3>1, <3>3 DEF CallbackInv, CrewInv
    <3> QED BY <3>2, <3>3
  <2> QED BY <2>1, <2>2, <2>4, <2>5 DEF CrewInv
<1> QED BY <1>4, <1>5, CrewLeavesTiming DEF CallbackInv

(* LlamaIndex and LangChain leave CrewAI's dictionaries alone.             *)
LEMMA OthersLeaveCrew ==
  ASSUME CallbackInv, NEW h, Called(h), UNCHANGED crewVars
  PROVE  /\ CrewInv' /\ callbacks' \in 0..MaxCallbacks
         /\ toolSpans' \in Seq(CrewEntry) /\ crewOpen' \subseteq 1..callbacks'
         /\ \A i \in DOMAIN toolSpans' : toolSpans'[i].span \in 1..callbacks'
         /\ taskSpans' \in [Tasks -> 0..callbacks'] /\ crewExits' \in [Numbers -> {0, 1}]
<1>1. /\ callbacks' = callbacks + 1 /\ callbacks \in Nat /\ 1..callbacks \subseteq 1..callbacks'
      /\ 0..callbacks \subseteq 0..callbacks' /\ callbacks' \in 0..MaxCallbacks
  BY NewIsFresh
<1>2. CrewInv'
  <2>1. UNCHANGED <<toolSpans, taskSpans, crewOpen, crewExits>>
    BY DEF crewVars
  <2>2. \A s \in Numbers : s > callbacks' => s > callbacks
    BY <1>1 DEF Numbers
  <2> QED BY <2>1, <2>2 DEF CallbackInv, CrewInv, SpansDiffer, KeysDiffer, InTools, InTasks
<1> QED BY <1>1, <1>2 DEF CallbackInv, CallbackTypes, crewVars

LEMMA UntouchedKeeps ==
  ASSUME CallbackInv, NEW h, Called(h), UNCHANGED <<crewVars, startTimes, handlerEvents>>
  PROVE  CallbackInv'
BY OthersLeaveCrew, CrewLeavesTiming DEF CallbackInv, CallbackTypes

(* The entry on_tool_end takes is in the dictionary, and none that holds   *)
(* the name comes after it.                                                *)
LEMMA LastIsPicked ==
  ASSUME CallbackInv, NEW name, NEW matching, matching = Holding(name), matching # {}
  PROVE  /\ Picked(matching) \in matching /\ matching \subseteq DOMAIN toolSpans
         /\ \A i \in matching : i <= Picked(matching)
<1>1. toolSpans \in Seq(CrewEntry)
  BY DEF CallbackInv, CallbackTypes
<1>2. PICK n \in Nat : n = Len(toolSpans) /\ DOMAIN toolSpans = 1..n
  BY <1>1
<1>3. matching \subseteq DOMAIN toolSpans
  BY DEF Holding
<1>4. matching \in SUBSET Nat /\ \A i \in matching : i <= n
  BY <1>2, <1>3
<1> QED BY <1>2, <1>3, <1>4, GreatestNumber DEF Picked

LEMMA OnToolEndKeeps ==
  ASSUME CallbackInv, NEW name \in ToolNames, OnToolEnd(name)
  PROVE  CallbackInv'
<1>1. PICK matching : matching = Holding(name)
  OBVIOUS
<1>2. PICK p : p = Picked(matching)
  OBVIOUS
<1>3. /\ Called("crewai")
      /\ IF matching = {} THEN UNCHANGED <<toolSpans, crewOpen, crewExits>>
         ELSE toolSpans' = Popped(p) /\ ExitCrewSpan(toolSpans[p].span)
      /\ UNCHANGED <<taskSpans, startTimes, handlerEvents, exportTasks>>
  BY <1>1, <1>2 DEF OnToolEnd
<1>4. CASE matching = {}
  BY <1>3, <1>4, UntouchedKeeps DEF crewVars
<1>5. CASE matching # {}
  <2>1. p \in DOMAIN toolSpans
    BY <1>1, <1>2, <1>5, LastIsPicked
  <2>2. toolSpans \in Seq(CrewEntry) /\ toolSpans[p].span \in 1..callbacks
    BY <2>1 DEF CallbackInv, CallbackTypes
  <2>3. toolSpans[p].span \in crewOpen
    <3>1. toolSpans[p].span \in Numbers
      BY <2>2, CallbackAssumption DEF CallbackInv, CallbackTypes, Numbers
    <3> QED BY <2>1, <3>1 DEF CallbackInv, CrewInv, InTools
  <2>4. /\ toolSpans' \in Seq(CrewEntry)
        /\ \A i \in DOMAIN toolSpans' :
             \/ i < p /\ i \in DOMAIN toolSpans /\ toolSpans'[i] = toolSpans[i]
             \/ i >= p /\ i + 1 \in DOMAIN toolSpans /\ toolSpans'[i] = toolSpans[i + 1]
    BY <1>3, <1>5, <2>1, <2>2, RemoveAtKeepsTheRest DEF Popped
  <2>5. SpansDiffer' /\ KeysDiffer'
    <3> SUFFICES ASSUME NEW i \in DOMAIN toolSpans', NEW j \in DOMAIN toolSpans',
                        \/ toolSpans'[i].span = toolSpans'[j].span
                        \/ toolSpans'[i].key = toolSpans'[j].key
                 PROVE  i = j
      BY DEF SpansDiffer, KeysDiffer
    <3>1. i \in Nat /\ j \in Nat /\ p \in Nat
      BY <2>1, <2>2, <2>4
    <3>2. PICK u \in DOMAIN toolSpans : toolSpans'[i] = toolSpans[u] /\ u = IF i < p THEN i ELSE i + 1
      BY <2>4, <3>1
    <3>3. PICK v \in DOMAIN toolSpans : toolSpans'[j] = toolSpans[v] /\ v = IF j < p THEN j ELSE j + 1
      BY <2>4, <3>1
    <3>4. u = v
      BY <3>2, <3>3 DEF CallbackInv, CrewInv, SpansDiffer, KeysDiffer
    <3> QED BY <3>1, <3>2, <3>3, <3>4
  <2>6. ASSUME NEW i \in DOMAIN toolSpans'
        PROVE  InTools(toolSpans'[i].span) /\ toolSpans'[i].span # toolSpans[p].span
    <3>1. i \in Nat /\ p \in Nat
      BY <2>1, <2>2, <2>4
    <3> QED BY <2>1, <2>4, <3>1 DEF InTools, CallbackInv, CrewInv, SpansDiffer
  <2>7. \A k \in Tasks : taskSpans'[k] = taskSpans[k] /\ taskSpans[k] # toolSpans[p].span
    BY <1>3, <2>1 DEF CallbackInv, CrewInv
  <2>8. taskSpans' \in [Tasks -> 0..callbacks]
    BY <1>3 DEF CallbackInv, CallbackTypes
  <2> QED BY <1>3, <1>5, <2>2, <2>3, <2>4, <2>5, <2>6, <2>7, <2>8, ExitKeeps
<1> QED BY <1>4, <1>5

LEMMA OnTaskStartKeeps ==
  ASSUME CallbackInv, NEW k \in Tasks, OnTaskStart(k)
  PROVE  CallbackInv'
<1>1. /\ Called("crewai") /\ taskSpans' = [taskSpans EXCEPT ![k] = New]
      /\ crewOpen' = crewOpen \cup {New}
      /\ UNCHANGED <<toolSpans, crewExits, startTimes, handlerEvents, exportTasks>>
  BY DEF OnTaskStart
<1>2. /\ New \in Numbers /\ New \in Nat /\ callbacks' = New /\ callbacks \in Nat
      /\ New = callbacks + 1 /\ New \in 1..callbacks' /\ 1..callbacks \subseteq 1..callbacks'
      /\ 0..callbacks \subseteq 0..callbacks' /\ callbacks' \in 0..MaxCallbacks
      /\ New \notin 0..callbacks /\ New \notin 1..callbacks
  BY <1>1, NewIsFresh
<1>3. /\ taskSpans \in [Tasks -> 0..callbacks] /\ toolSpans \in Seq(CrewEntry)
      /\ \A i \in DOMAIN toolSpans : toolSpans[i].span \in 1..callbacks
  BY DEF CallbackInv, CallbackTypes
<1>4. /\ taskSpans' \in [Tasks -> 0..callbacks'] /\ taskSpans'[k] = New
      /\ \A l \in Tasks : l # k => taskSpans'[l] = taskSpans[l] /\ taskSpans[l] # New
  BY <1>1, <1>2, <1>3
<1>5. CallbackTypes'
  BY <1>1, <1>2, <1>3, <1>4, CrewLeavesTiming DEF CallbackInv, CallbackTypes
<1>6. CrewInv'
  <2>1. \A l, m \in Tasks : taskSpans'[l] = taskSpans'[m] /\ taskSpans'[l] # 0 => l = m
    BY <1>2, <1>4 DEF CallbackInv, CrewInv
  <2>2. \A i \in DOMAIN toolSpans, l \in Tasks : toolSpans[i].span # taskSpans'[l]
    BY <1>2, <1>3, <1>4 DEF CallbackInv, CrewInv
  <2>3. \A s \in Numbers : (InTools(s)' <=> InTools(s)) /\ (InTasks(s)' => InTasks(s) \/ s = New)
    BY <1>1, <1>4 DEF InTools, InTasks
  <2>4. \A s \in Numbers : InTools(s)' \/ InTasks(s)' => s \in crewOpen'
    BY <1>1, <2>3 DEF CallbackInv, CrewInv
  <2>5. \A s \in Numbers : s \in crewOpen' \/ s > callbacks' => crewExits'[s] = 0
    <3> SUFFICES ASSUME NEW s \in Numbers, s \in crewOpen' \/ s > callbacks' PROVE crewExits[s] = 0
      BY <1>1
    <3>1. s \in Nat
      BY DEF Numbers
    <3>2. s \in crewOpen \/ s > callbacks
      BY <1>1, <1>2, <3>1
    <3> QED BY <3>2 DEF CallbackInv, CrewInv
  <2>6. SpansDiffer' /\ KeysDiffer'
    BY <1>1 DEF CallbackInv, CrewInv, SpansDiffer, KeysDiffer
  <2> QED BY <1>1, <2>1, <2>2, <2>4, <2>5, <2>6 DEF CallbackInv, CrewInv
<1> QED BY <1>1, <1>5, <1>6, CrewLeavesTiming DEF CallbackInv

LEMMA OnTaskEndKeeps ==
  ASSUME CallbackInv, NEW k \in Tasks, OnTaskEnd(k)
  PROVE  CallbackInv'
<1>1. /\ Called("crewai")
      /\ IF taskSpans[k] = 0 THEN UNCHANGED <<taskSpans, crewOpen, crewExits>>
         ELSE taskSpans' = [taskSpans EXCEPT ![k] = 0] /\ ExitCrewSpan(taskSpans[k])
      /\ UNCHANGED <<toolSpans, startTimes, handlerEvents, exportTasks>>
  BY DEF OnTaskEnd
<1>2. /\ taskSpans \in [Tasks -> 0..callbacks] /\ toolSpans \in Seq(CrewEntry)
      /\ callbacks \in Nat
  BY DEF CallbackInv, CallbackTypes
<1>3. CASE taskSpans[k] = 0
  BY <1>1, <1>3, UntouchedKeeps DEF crewVars
<1>4. CASE taskSpans[k] # 0
  <2>1. taskSpans[k] \in 1..callbacks
    BY <1>2, <1>4
  <2>2. taskSpans[k] \in crewOpen
    <3>1. taskSpans[k] \in Numbers
      BY <2>1, CallbackAssumption DEF CallbackInv, CallbackTypes, Numbers
    <3> QED BY <3>1 DEF CallbackInv, CrewInv, InTasks
  <2>3. taskSpans' \in [Tasks -> 0..callbacks]
    BY <1>1, <1>2, <1>4
  <2>4. \A l \in Tasks : taskSpans'[l] = 0 \/ (taskSpans'[l] = taskSpans[l] /\ taskSpans[l] # taskSpans[k])
    <3> SUFFICES ASSUME NEW l \in Tasks, l # k, taskSpans[l] # 0
                 PROVE  taskSpans'[l] = taskSpans[l] /\ taskSpans[l] # taskSpans[k]
      BY <1>1, <1>2, <1>4
    <3> QED BY <1>1, <1>2, <1>4 DEF CallbackInv, CrewInv
  <2>5. \A i \in DOMAIN toolSpans : InTools(toolSpans[i].span) /\ toolSpans[i].span # taskSpans[k]
    BY DEF InTools, CallbackInv, CrewInv
  <2>6. SpansDiffer' /\ KeysDiffer'
    BY <1>1 DEF CallbackInv, CrewInv, SpansDiffer, KeysDiffer
  <2> QED BY <1>1, <1>2, <1>4, <2>1, <2>2, <2>3, <2>4, <2>5, <2>6, ExitKeeps
<1> QED BY <1>3, <1>4

Report == [kind : {"started", "completed", "error"}, id : Tasks, at : Nat, since : Nat]

(* A start time is set or popped, and an event may be made of it.          *)
LEMMA ReportKeeps ==
  ASSUME CallbackInv, NEW h, Called(h), UNCHANGED crewVars,
         NEW k \in Tasks, NEW at \in {0, New, startTimes[k]},
         startTimes' = [startTimes EXCEPT ![k] = at],
         NEW e \in Report, e.at = New, e.since \in {0, startTimes[k]}, at # 0 => e.since = 0,
         handlerEvents' = handlerEvents \/ handlerEvents' = Append(handlerEvents, e)
  PROVE  CallbackInv'
<1>1. /\ New \in Numbers /\ New \in Nat /\ callbacks' = New /\ callbacks \in Nat
      /\ New = callbacks + 1 /\ New \in 1..callbacks' /\ 1..callbacks \subseteq 1..callbacks'
      /\ 0..callbacks \subseteq 0..callbacks' /\ callbacks' \in 0..MaxCallbacks
      /\ New \notin 0..callbacks /\ New \notin 1..callbacks
  BY NewIsFresh
<1>2. /\ startTimes \in [Tasks -> 0..callbacks] /\ handlerEvents \in Seq(Report)
  BY DEF CallbackInv, CallbackTypes, Report
<1>3. /\ startTimes' \in [Tasks -> 0..callbacks'] /\ startTimes'[k] = at
      /\ \A l \in Tasks : l # k => startTimes'[l] = startTimes[l] /\ startTimes[l] \in 0..callbacks
      /\ startTimes[k] \in 0..callbacks
  BY <1>1, <1>2
<1>4. PICK n \in Nat : n = Len(handlerEvents) /\ DOMAIN handlerEvents = 1..n
  BY <1>2
<1>5. /\ handlerEvents' \in Seq(Report)
      /\ \A i \in DOMAIN handlerEvents' :
           \/ i \in 1..n /\ handlerEvents'[i] = handlerEvents[i]
           \/ i = n + 1 /\ handlerEvents'[i] = e
  <2>1. CASE handlerEvents' = handlerEvents
    BY <1>2, <1>4, <2>1
  <2>2. CASE handlerEvents' = Append(handlerEvents, e)
    <3>1. Append(handlerEvents, e) \in Seq(Report)
      BY <1>2
    <3>2. DOMAIN Append(handlerEvents, e) = 1..(n + 1)
      BY <1>2, <1>4
    <3>3. \A i \in 1..n : Append(handlerEvents, e)[i] = handlerEvents[i]
      BY <1>2, <1>4
    <3>4. Append(handlerEvents, e)[n + 1] = e
      BY <1>2, <1>4
    <3> QED BY <1>4, <2>2, <3>1, <3>2, <3>3, <3>4
  <2> QED BY <2>1, <2>2
<1>6. CallbackTypes'
  BY <1>3, <1>5, OthersLeaveCrew DEF CallbackTypes, Report
<1>7. \A i \in 1..n :
        /\ handlerEvents[i].at \in 1..callbacks /\ handlerEvents[i].since \in 0..callbacks
        /\ handlerEvents[i].since # 0 => handlerEvents[i].since < handlerEvents[i].at
        /\ \A l \in Tasks : startTimes[l] # 0 => startTimes[l] # handlerEvents[i].since
  BY <1>4 DEF CallbackInv, TimingInv
<1>8. \A l, m \in Tasks : startTimes[l] = startTimes[m] /\ startTimes[l] # 0 => l = m
  BY DEF CallbackInv, TimingInv
<1>9. TimingInv'
  <2>1. ASSUME NEW i \in DOMAIN handlerEvents'
        PROVE  /\ handlerEvents'[i].at \in 1..callbacks' /\ handlerEvents'[i].since \in 0..callbacks'
               /\ handlerEvents'[i].since # 0 => handlerEvents'[i].since < handlerEvents'[i].at
               /\ \A l \in Tasks : startTimes'[l] # 0 => startTimes'[l] # handlerEvents'[i].since
    <3>1. CASE i \in 1..n /\ handlerEvents'[i] = handlerEvents[i]
      BY <1>1, <1>3, <1>7, <3>1
    <3>2. CASE handlerEvents'[i] = e
      <4>1. e.since # 0 => e.since = startTimes[k] /\ at = 0
        OBVIOUS
      <4>2. e.since \in 0..callbacks
        BY <1>1, <1>3
      <4>3. \A l \in Tasks : startTimes'[l] # 0 => startTimes'[l] # e.since
        BY <1>1, <1>3, <1>8, <4>1
      <4> QED BY <1>1, <3>2, <4>2, <4>3
    <3> QED BY <1>5, <3>1, <3>2
  <2>2. ASSUME NEW i \in DOMAIN handlerEvents', NEW j \in DOMAIN handlerEvents',
               handlerEvents'[i].since # 0, handlerEvents'[i].since = handlerEvents'[j].since
        PROVE  i = j
    <3>1. CASE i \in 1..n /\ handlerEvents'[i] = handlerEvents[i] /\ j \in 1..n /\ handlerEvents'[j] = handlerEvents[j]
      BY <1>4, <2>2, <3>1 DEF CallbackInv, TimingInv
    <3>2. CASE i = n + 1 /\ j = n + 1
      BY <3>2
    <3>3. ASSUME NEW m \in 1..n, handlerEvents[m].since = e.since, e.since # 0 PROVE FALSE
      BY <1>7, <3>3
    <3> QED BY <1>5, <2>2, <3>1, <3>2, <3>3
  <2>3. \A l, m \in Tasks : startTimes'[l] = startTimes'[m] /\ startTimes'[l] # 0 => l = m
    BY <1>1, <1>3, <1>8
  <2> QED BY <2>1, <2>2, <2>3 DEF TimingInv
<1> QED BY <1>6, <1>9, OthersLeaveCrew DEF CallbackInv

(* The event of a callback, and whether one is made of it.                 *)
LEMMA ReportedOrQuiet ==
  ASSUME NEW e, NEW known \in BOOLEAN, IF known THEN MakeEvent(e) ELSE Quiet
  PROVE  handlerEvents' = handlerEvents \/ handlerEvents' = Append(handlerEvents, e)
BY DEF MakeEvent, Quiet

LEMMA OnEventStartKeeps ==
  ASSUME CallbackInv, NEW k \in Tasks, NEW known \in BOOLEAN, OnEventStart(k, known)
  PROVE  CallbackInv'
<1>1. PICK e : e = [kind |-> "started", id |-> k, at |-> New, since |-> 0]
  OBVIOUS
<1>2. /\ Called("llamaindex") /\ startTimes' = [startTimes EXCEPT ![k] = New]
      /\ IF known THEN MakeEvent(e) ELSE Quiet
      /\ UNCHANGED crewVars
  BY <1>1 DEF OnEventStart
<1>3. New \in Nat
  BY <1>2, NewIsFresh
<1>4. e \in Report /\ e.at = New /\ e.since = 0
  BY <1>1, <1>3 DEF Report
<1>5. handlerEvents' = handlerEvents \/ handlerEvents' = Append(handlerEvents, e)
  BY <1>2, ReportedOrQuiet
<1> QED BY <1>2, <1>4, <1>5, ReportKeeps

LEMMA OnEventEndKeeps ==
  ASSUME CallbackInv, NEW k \in Tasks, NEW known \in BOOLEAN, OnEventEnd(k, known)
  PROVE  CallbackInv'
<1>1. PICK e : e = [kind |-> "completed", id |-> k, at |-> New, since |-> startTimes[k]]
  OBVIOUS
<1>2. /\ Called("llamaindex") /\ startTimes' = [startTimes EXCEPT ![k] = 0]
      /\ IF known THEN MakeEvent(e) ELSE Quiet
      /\ UNCHANGED crewVars
  BY <1>1 DEF OnEventEnd, PoppedTime
<1>3. New \in Nat /\ startTimes[k] \in Nat
  BY <1>2, NewIsFresh DEF CallbackInv, CallbackTypes
<1>4. e \in Report /\ e.at = New /\ e.since = startTimes[k]
  BY <1>1, <1>3 DEF Report
<1>5. handlerEvents' = handlerEvents \/ handlerEvents' = Append(handlerEvents, e)
  BY <1>2, ReportedOrQuiet
<1> QED BY <1>2, <1>4, <1>5, ReportKeeps

LEMMA OnLangChainKeeps ==
  ASSUME CallbackInv, NEW kind \in {"started", "completed", "error"}, NEW k \in Tasks,
         OnLangChain(kind, k)
  PROVE  CallbackInv'
<1>1. PICK e : e = [kind |-> kind, id |-> k, at |-> New, since |-> 0]
  OBVIOUS
<1>2. /\ Called("langchain") /\ UNCHANGED startTimes /\ UNCHANGED crewVars
      /\ handlerEvents' = Append(handlerEvents, e)
  BY <1>1 DEF OnLangChain, MakeEvent
<1>3. New \in Nat /\ startTimes \in [Tasks -> 0..callbacks]
  BY <1>2, NewIsFresh DEF CallbackInv, CallbackTypes
<1>4. e \in Report /\ e.at = New /\ e.since = 0
  BY <1>1, <1>3 DEF Report
<1>5. startTimes' = [startTimes EXCEPT ![k] = startTimes[k]]
  BY <1>2, <1>3
<1> QED BY <1>2, <1>4, <1>5, ReportKeeps

LEMMA ClearEventsKeeps ==
  ASSUME CallbackInv, ClearEvents
  PROVE  CallbackInv'
<1>1. Called(handler) /\ UNCHANGED crewVars /\ UNCHANGED startTimes /\ handlerEvents' = <<>>
  BY DEF ClearEvents
<1>2. 0..callbacks \subseteq 0..callbacks'
  BY <1>1, NewIsFresh
<1>3. CallbackTypes'
  BY <1>1, <1>2, OthersLeaveCrew DEF CallbackInv, CallbackTypes
<1>4. TimingInv'
  BY <1>1 DEF CallbackInv, TimingInv
<1> QED BY <1>1, <1>3, <1>4, OthersLeaveCrew DEF CallbackInv

LEMMA CallbackStep == CallbackInv /\ [CallbackNext]_callbackVars => CallbackInv'
<1> SUFFICES ASSUME CallbackInv, [CallbackNext]_callbackVars PROVE CallbackInv'
  OBVIOUS
<1>0. ASSUME NEW of \in Agents \cup Tools, NEW name \in ToolNames, NEW tick \in Ticks,
             OnAgentAction(of, name, tick) \/ OnToolStart(of, name, tick)
      PROVE  CallbackInv'
  BY <1>0, OpenToolSpanKeeps DEF OnAgentAction, OnToolStart
<1>1. ASSUME NEW name \in ToolNames, OnToolEnd(name) PROVE CallbackInv'
  BY <1>1, OnToolEndKeeps
<1>2. ASSUME NEW k \in Tasks, OnTaskStart(k) \/ OnTaskEnd(k) PROVE CallbackInv'
  BY <1>2, OnTaskStartKeeps, OnTaskEndKeeps
<1>3. ASSUME NEW k \in Tasks, NEW known \in BOOLEAN, OnEventStart(k, known) \/ OnEventEnd(k, known)
      PROVE  CallbackInv'
  BY <1>3, OnEventStartKeeps, OnEventEndKeeps
<1>4. ASSUME NEW k \in Tasks, NEW kind \in {"started", "completed", "error"}, OnLangChain(kind, k)
      PROVE  CallbackInv'
  BY <1>4, OnLangChainKeeps
<1>5. CASE ClearEvents
  BY <1>5, ClearEventsKeeps
<1>6. CASE UNCHANGED callbackVars
  BY <1>6 DEF callbackVars, crewVars, CallbackInv, CallbackTypes, CrewInv, SpansDiffer, KeysDiffer,
               TimingInv, InTools, InTasks
<1> QED BY <1>0, <1>1, <1>2, <1>3, <1>4, <1>5, <1>6 DEF CallbackNext

(* No step closes an entry over the head of a later one that its callback  *)
(* would have matched.                                                     *)
LaterFirst ==
  \A i, j \in DOMAIN toolSpans :
    i < j /\ toolSpans[i].span \notin crewOpen' /\ toolSpans[j].span \in crewOpen' =>
      \E name \in ToolNames : i \in Holding(name) /\ j \notin Holding(name)

LEMMA LaterGoFirst == CallbackInv /\ [CallbackNext]_callbackVars => LaterFirst
<1> SUFFICES ASSUME CallbackInv, [CallbackNext]_callbackVars PROVE LaterFirst
  OBVIOUS
<1>1. \A i \in DOMAIN toolSpans : toolSpans[i].span \in crewOpen
  <2> SUFFICES ASSUME NEW i \in DOMAIN toolSpans PROVE toolSpans[i].span \in crewOpen
    OBVIOUS
  <2>1. toolSpans[i].span \in Numbers
    BY CallbackAssumption DEF CallbackInv, CallbackTypes, Numbers
  <2> QED BY <2>1 DEF CallbackInv, CrewInv, InTools
<1>2. ASSUME crewOpen \subseteq crewOpen' PROVE LaterFirst
  BY <1>1, <1>2 DEF LaterFirst
<1>3. ASSUME NEW s, crewOpen \ {s} \subseteq crewOpen',
             \A i \in DOMAIN toolSpans : toolSpans[i].span # s
      PROVE  LaterFirst
  BY <1>1, <1>3 DEF LaterFirst
<1>4. ASSUME NEW name \in ToolNames, OnToolEnd(name) PROVE LaterFirst
  <2>1. PICK matching : matching = Holding(name)
    OBVIOUS
  <2>2. PICK p : p = Picked(matching)
    OBVIOUS
  <2>3. IF matching = {} THEN UNCHANGED crewOpen ELSE ExitCrewSpan(toolSpans[p].span)
    BY <1>4, <2>1, <2>2 DEF OnToolEnd
  <2>4. CASE matching # {} /\ crewOpen' = crewOpen \ {toolSpans[p].span}
    <3>1. p \in matching /\ matching \subseteq DOMAIN toolSpans /\ \A i \in matching : i <= p
      BY <2>1, <2>2, <2>4, LastIsPicked
    <3> SUFFICES ASSUME NEW i \in DOMAIN toolSpans, NEW j \in DOMAIN toolSpans,
                        i < j, toolSpans[i].span \notin crewOpen', toolSpans[j].span \in crewOpen'
                 PROVE  i \in Holding(name) /\ j \notin Holding(name)
      BY DEF LaterFirst
    <3>2. i = p
      BY <1>1, <2>4, <3>1 DEF CallbackInv, CrewInv, SpansDiffer
    <3>3. i \in Nat /\ j \in Nat
      <4>1. toolSpans \in Seq(CrewEntry)
        BY DEF CallbackInv, CallbackTypes
      <4> QED BY <4>1
    <3> QED BY <2>1, <3>1, <3>2, <3>3
  <2> QED BY <1>2, <2>3, <2>4 DEF ExitCrewSpan
<1>5. ASSUME NEW k \in Tasks, OnTaskEnd(k) PROVE LaterFirst
  <2>1. \A i \in DOMAIN toolSpans : toolSpans[i].span # taskSpans[k]
    BY DEF CallbackInv, CrewInv
  <2>2. crewOpen' = crewOpen \/ crewOpen' = crewOpen \ {taskSpans[k]}
    BY <1>5 DEF OnTaskEnd, ExitCrewSpan
  <2> QED BY <1>3, <2>1, <2>2
<1>6. ASSUME NEW of, NEW name, NEW tick, OnAgentAction(of, name, tick) \/ OnToolStart(of, name, tick)
      PROVE  LaterFirst
  BY <1>2, <1>6 DEF OnAgentAction, OnToolStart, OpenToolSpan
<1>7. ASSUME NEW k \in Tasks, OnTaskStart(k) PROVE LaterFirst
  BY <1>2, <1>7 DEF OnTaskStart
<1>8. ASSUME UNCHANGED crewVars PROVE LaterFirst
  BY <1>2, <1>8 DEF crewVars
<1> QED BY <1>4, <1>5, <1>6, <1>7, <1>8
        DEF CallbackNext, OnEventStart, OnEventEnd, OnLangChain, ClearEvents, callbackVars

LEMMA CallbackInvGives == CallbackInv => CrewSpansExitOnce /\ EachStartTimesOneEnd
<1> SUFFICES ASSUME CallbackInv PROVE CrewSpansExitOnce /\ EachStartTimesOneEnd
  OBVIOUS
<1>1. CrewSpansExitOnce
  <2> SUFFICES ASSUME NEW s \in Numbers
               PROVE  /\ crewExits[s] <= 1
                      /\ s \in crewOpen => crewExits[s] = 0
                      /\ InTools(s) => s \in crewOpen
    BY DEF CrewSpansExitOnce, InTools
  <2>1. crewExits[s] \in {0, 1}
    BY DEF CallbackInv, CallbackTypes
  <2> QED BY <2>1 DEF CallbackInv, CrewInv
<1>2. EachStartTimesOneEnd
  BY DEF CallbackInv, TimingInv, EachStartTimesOneEnd
<1> QED BY <1>1, <1>2

(* Whatever the order the frameworks call in, and however often: a CrewAI  *)
(* span is exited at most once, no entry is closed over a later one that   *)
(* the end's name would have matched, and a LlamaIndex duration runs from  *)
(* a start of its own that no other end has used.                          *)
THEOREM CallbacksMatchOnce == CallbackSpec => CallbacksAreMatchedOnce
<1>1. CallbackInv /\ [CallbackNext]_callbackVars => [LaterFirst]_callbackVars
  BY LaterGoFirst
<1>2. CallbackSpec => []CallbackInv
  BY CallbackInitial, CallbackStep, PTL DEF CallbackSpec
<1>3. CallbackSpec => [][LaterFirst]_callbackVars
  BY <1>1, <1>2, PTL DEF CallbackSpec
<1>4. CallbackSpec => LaterEntriesCloseFirst
  BY <1>3 DEF LaterEntriesCloseFirst, LaterFirst
<1>5. CallbackSpec => [](CrewSpansExitOnce /\ EachStartTimesOneEnd)
  BY <1>2, CallbackInvGives, PTL
<1> QED BY <1>4, <1>5, PTL DEF CallbacksAreMatchedOnce
-----------------------------------------------------------------------------
(* The semantic cache *)

(* A call that may still write carries a number that nothing has yet.      *)
MayStore(t) ==
  /\ op[t].kind # "invalidate"
  /\ cachePc[t] \in {"lookup", "evict", "scan", "fetch", "sweep", "compute"}

EntryInv ==
  /\ \A k \in Keys : entries[k] # NoEntry => entries[k].key = k /\ entries[k].ver <= cacheCalls
  /\ \A k, l \in Keys :
       entries[k] # NoEntry /\ entries[l] # NoEntry /\ entries[k].ver = entries[l].ver => k = l

PendingInv ==
  /\ \A t \in Threads : op[t].id <= cacheCalls /\ \A v \in doomed[t] : v <= cacheCalls
  /\ \A t \in Threads : MayStore(t) =>
       /\ op[t].id # 0
       /\ \A u \in Threads : op[t].id \notin doomed[u] /\ (MayStore(u) /\ op[t].id = op[u].id => t = u)
       /\ \A k \in Keys : entries[k].ver # op[t].id

(* The index of the tag lists what carries it, once the write is over.     *)
TagInv ==
  backend = "redis" =>
    \A k \in Keys : entries[k] # NoEntry /\ Tag \in entries[k].tags =>
      k \in tagIndex \/ \E u \in Threads : cachePc[u] = "tag" /\ op[u].key = k

(* What is to be forgotten and still there is among what a call has found, *)
(* or is about to fetch; only Redis lists before it clears.                *)
DoomOf(t) ==
  /\ cachePc[t] = "clear" => backend = "redis"
  /\ op[t].kind = "invalidate" =>
       cachePc[t] \in {"idle", "list", "fetch", "remove", "removed", "clear"}
  /\ doomed[t] # {} => op[t].kind = "invalidate" /\ cachePc[t] \in {"fetch", "remove", "removed"}
  /\ cachePc[t] = "list" => op[t].kind = "invalidate"
  /\ \A k \in Keys : entries[k] # NoEntry /\ entries[k].ver \in doomed[t] =>
       \/ cachePc[t] = "fetch" /\ k \in toFetch[t]
       \/ cachePc[t] \in {"fetch", "remove"} /\ entries[k] \in found[t]

ServedOf(t) ==
  served[t] # NoEntry =>
    /\ ~IsExpired(served[t], began[t])
    /\ \/ served[t].key = op[t].key
       \/ Score[<<op[t].key, served[t].key>>] >= SimilarityThreshold

LruInv ==
  /\ IsInjective(order)
  /\ backend # "memory" => order = <<>>
  /\ backend = "memory" =>
       ToSet(order) = Present /\ (MaxSize > 0 => Len(order) <= MaxSize)

CacheInv ==
  /\ CacheTypeOK /\ EntryInv /\ PendingInv /\ TagInv /\ LruInv
  /\ \A t \in Threads : DoomOf(t) /\ ServedOf(t)

(* An entry and its absence are told apart by the number of the call.      *)
LEMMA EntriesHaveNumbers ==
  /\ NoEntry.ver = 0 /\ \A e \in Entry : e # NoEntry /\ e.ver # 0 /\ e.ver \in Nat
BY CacheAssumption DEF NoEntry, Entry

LEMMA CacheInitial == CacheInit => CacheInv
<1> SUFFICES ASSUME CacheInit PROVE CacheInv
  OBVIOUS
<1> USE DEF CacheInit
<1>1. (CHOOSE k \in Keys : TRUE) \in Keys
  BY CacheAssumption
<1>2. CacheTypeOK
  <2>1. 0 \in 0..MaxNow /\ 0 \in 0..MaxCacheCalls
    BY CacheAssumption
  <2>2. op \in [Threads -> Ops]
    BY <1>1, <2>1 DEF Ops
  <2> QED BY <2>1, <2>2 DEF CacheTypeOK, CachePoints
<1>3. EntryInv /\ TagInv
  BY DEF EntryInv, TagInv
<1>4. PendingInv
  BY DEF PendingInv, MayStore
<1>5. LruInv
  <2>1. order = <<>> /\ DOMAIN order = {} /\ Len(order) = 0
    OBVIOUS
  <2>2. ToSet(order) = {} /\ Present = {} /\ IsInjective(order)
    BY <2>1 DEF ToSet, Present, IsInjective
  <2> QED BY <2>1, <2>2, CacheAssumption DEF LruInv
<1>6. \A t \in Threads : DoomOf(t) /\ ServedOf(t)
  BY DEF DoomOf, ServedOf
<1> QED BY <1>2, <1>3, <1>4, <1>5, <1>6 DEF CacheInv

(* What is deleted leaves the order too, and what is touched ends it.      *)
LEMMA DeleteKeepsOrder ==
  ASSUME CacheTypeOK, LruInv, NEW k \in Keys, Delete(k), UNCHANGED backend
  PROVE  /\ order' \in Seq(Keys) /\ LruInv' /\ tagIndex' = tagIndex
         /\ entries' \in [Keys -> Entry \cup {NoEntry}] /\ entries'[k] = NoEntry
         /\ \A l \in Keys : l # k => entries'[l] = entries[l]
<1>1. /\ order \in Seq(Keys) /\ IsInjective(order) /\ order' = RemoveFirst(order, k)
      /\ entries \in [Keys -> Entry \cup {NoEntry}]
      /\ entries' = [entries EXCEPT ![k] = NoEntry] /\ tagIndex' = tagIndex
  BY DEF CacheTypeOK, LruInv, Delete
<1>2. /\ order' \in Seq(Keys) /\ IsInjective(order')
      /\ ToSet(order') = ToSet(order) \ {k}
      /\ Len(order') = IF k \in ToSet(order) THEN Len(order) - 1 ELSE Len(order)
  BY <1>1, RemoveFirstTakesOut
<1>3. order = <<>> => order' = <<>>
  BY <1>1 DEF RemoveFirst
<1>4. Len(order) \in Nat /\ Len(order') \in Nat
  BY <1>1, <1>2
<1>5. Present' = Present \ {k}
  BY <1>1 DEF Present
<1>6. LruInv'
  BY <1>2, <1>3, <1>4, <1>5, CacheAssumption DEF LruInv
<1> QED BY <1>1, <1>2, <1>6

LEMMA TouchedEndsTheOrder ==
  ASSUME CacheTypeOK, LruInv, backend = "memory", NEW k \in Keys
  PROVE  /\ Touched(k) \in Seq(Keys) /\ IsInjective(Touched(k))
         /\ ToSet(Touched(k)) = ToSet(order) \cup {k}
         /\ Len(Touched(k)) = IF k \in ToSet(order) THEN Len(order) ELSE Len(order) + 1
         /\ Touched(k)[Len(Touched(k))] = k
<1>1. order \in Seq(Keys) /\ IsInjective(order) /\ Len(order) \in Nat
  BY DEF CacheTypeOK, LruInv
<1>2. PICK r : r = RemoveFirst(order, k)
  OBVIOUS
<1>3. /\ r \in Seq(Keys) /\ IsInjective(r) /\ ToSet(r) = ToSet(order) \ {k}
      /\ Len(r) = IF k \in ToSet(order) THEN Len(order) - 1 ELSE Len(order)
  BY <1>1, <1>2, RemoveFirstTakesOut
<1>4. PICK m \in Nat : m = Len(r) /\ DOMAIN r = 1..m
  BY <1>3
<1>5. PICK q : q = Append(r, k)
  OBVIOUS
<1>6. /\ q \in Seq(Keys) /\ DOMAIN q = 1..(m + 1) /\ q[m + 1] = k
      /\ \A i \in 1..m : q[i] = r[i]
  BY <1>3, <1>4, <1>5
<1>7. Len(q) = m + 1
  BY <1>3, <1>4, <1>5
<1>8. k \notin ToSet(r)
  BY <1>3
<1>9. IsInjective(q)
  <2> SUFFICES ASSUME NEW i \in 1..(m + 1), NEW j \in 1..(m + 1), q[i] = q[j] PROVE i = j
    BY <1>6 DEF IsInjective
  <2>1. CASE i \in 1..m /\ j \in 1..m
    BY <1>3, <1>4, <1>6, <2>1 DEF IsInjective
  <2>2. CASE (i \in 1..m /\ j = m + 1) \/ (i = m + 1 /\ j \in 1..m)
    BY <1>4, <1>6, <1>8, <2>2 DEF ToSet
  <2> QED BY <2>1, <2>2
<1>10. ToSet(q) = ToSet(r) \cup {k}
  <2>1. 1..(m + 1) = 1..m \cup {m + 1}
    OBVIOUS
  <2> QED BY <1>4, <1>6, <2>1 DEF ToSet
<1>11. Touched(k) = q
  BY <1>2, <1>5 DEF Touched
<1> QED BY <1>1, <1>3, <1>4, <1>6, <1>7, <1>9, <1>10, <1>11

(* A write puts its key last, drops the front of what is too long, and     *)
(* keeps the entries that are left in the order.                           *)
LEMMA KeptIsTheEnd ==
  ASSUME NEW s \in Seq(Keys), IsInjective(s), s # <<>>
  PROVE  /\ Kept(s) \in Seq(Keys) /\ IsInjective(Kept(s)) /\ ToSet(Kept(s)) \subseteq ToSet(s)
         /\ s[Len(s)] \in ToSet(Kept(s))
         /\ MaxSize > 0 => Len(Kept(s)) <= MaxSize
<1>1. PICK n \in Nat : n = Len(s) /\ DOMAIN s = 1..n /\ n # 0
  OBVIOUS
<1>2. MaxSize \in Nat
  BY CacheAssumption
<1>3. CASE MaxSize = 0
  BY <1>1, <1>3 DEF Kept, ToSet
<1>4. CASE MaxSize # 0
  <2> DEFINE a == Max({1, n - MaxSize + 1})
  <2>1. a \in 1..n /\ n - a + 1 <= MaxSize
    <3>1. CASE n - MaxSize + 1 >= 1
      <4>1. a = n - MaxSize + 1
        BY <1>1, <1>2, <3>1 DEF Max
      <4> QED BY <1>1, <1>2, <1>4, <3>1, <4>1
    <3>2. CASE ~(n - MaxSize + 1 >= 1)
      <4>1. a = 1
        BY <1>1, <1>2, <3>2 DEF Max
      <4> QED BY <1>1, <1>2, <1>4, <3>2, <4>1
    <3> QED BY <3>1, <3>2
  <2>2. Kept(s) = SubSeq(s, a, n)
    BY <1>1, <1>4 DEF Kept
  <2> HIDE DEF a
  <2>3. PICK q : q = SubSeq(s, a, n)
    OBVIOUS
  <2>4. PICK m \in Nat : m = n - a + 1 /\ m # 0 /\ m <= MaxSize
    BY <1>1, <1>2, <2>1
  <2>5. q \in Seq(Keys) /\ DOMAIN q = 1..m /\ Len(q) = m
    BY <1>1, <2>1, <2>3, <2>4
  <2>6. \A i \in 1..m : a + i - 1 \in 1..n /\ q[i] = s[a + i - 1]
    BY <1>1, <2>1, <2>3, <2>4
  <2>7. IsInjective(q)
    <3> SUFFICES ASSUME NEW i \in 1..m, NEW j \in 1..m, q[i] = q[j] PROVE i = j
      BY <2>5 DEF IsInjective
    <3>1. a + i - 1 = a + j - 1
      BY <1>1, <2>6 DEF IsInjective
    <3> QED BY <2>1, <2>4, <3>1
  <2>8. ToSet(q) \subseteq ToSet(s)
    BY <1>1, <2>5, <2>6 DEF ToSet
  <2>9. s[n] \in ToSet(q)
    <3>1. m \in 1..m /\ a + m - 1 = n
      BY <1>1, <2>1, <2>4
    <3> QED BY <2>5, <2>6, <3>1 DEF ToSet
  <2> QED BY <1>1, <2>2, <2>3, <2>4, <2>5, <2>7, <2>8, <2>9
<1> QED BY <1>2, <1>3, <1>4

LEMMA PutKeepsOrder ==
  ASSUME CacheTypeOK, LruInv, NEW e \in Entry, Put(e), UNCHANGED backend
  PROVE  /\ order' \in Seq(Keys) /\ LruInv'
         /\ entries' \in [Keys -> Entry \cup {NoEntry}] /\ entries'[e.key] = e
         /\ \A l \in Keys : l # e.key => entries'[l] \in {entries[l], NoEntry}
<1>1. /\ order \in Seq(Keys) /\ IsInjective(order) /\ order' = Kept(Touched(e.key))
      /\ entries \in [Keys -> Entry \cup {NoEntry}] /\ e.key \in Keys /\ e # NoEntry
      /\ backend' = backend
  BY EntriesHaveNumbers DEF CacheTypeOK, LruInv, Put, Entry
<1>2. entries' = [k \in Keys |->
                   IF k = e.key THEN e
                   ELSE IF backend = "memory" /\ ~Contains(order', k) THEN NoEntry
                   ELSE entries[k]]
  BY DEF Put
<1>3. /\ entries' \in [Keys -> Entry \cup {NoEntry}] /\ entries'[e.key] = e
      /\ \A l \in Keys : l # e.key => entries'[l] \in {entries[l], NoEntry}
  BY <1>1, <1>2
<1>4. CASE backend = "memory"
  <2>1. PICK s : s = Touched(e.key)
    OBVIOUS
  <2>2. /\ s \in Seq(Keys) /\ IsInjective(s) /\ ToSet(s) = ToSet(order) \cup {e.key}
        /\ s[Len(s)] = e.key
        /\ Len(s) = IF e.key \in ToSet(order) THEN Len(order) ELSE Len(order) + 1
    BY <1>1, <1>4, <2>1, TouchedEndsTheOrder
  <2>3. s # <<>>
    BY <2>2 DEF ToSet
  <2>4. /\ order' \in Seq(Keys) /\ IsInjective(order') /\ ToSet(order') \subseteq ToSet(s)
        /\ e.key \in ToSet(order')
        /\ MaxSize > 0 => Len(order') <= MaxSize
    BY <1>1, <2>1, <2>2, <2>3, KeptIsTheEnd
  <2>5. \A k : Contains(order', k) <=> k \in ToSet(order')
    BY <2>4 DEF Contains, ToSet
  <2>6. ToSet(order) = Present
    BY <1>4 DEF LruInv
  <2>7. ToSet(order') = Present'
    <3>1. \A k \in Keys : entries'[k] # NoEntry <=> k \in ToSet(order')
      <4> SUFFICES ASSUME NEW k \in Keys PROVE entries'[k] # NoEntry <=> k \in ToSet(order')
        OBVIOUS
      <4>1. CASE k = e.key
        BY <1>1, <1>3, <2>4, <4>1
      <4>2. CASE k # e.key
        <5>1. entries'[k] = IF k \notin ToSet(order') THEN NoEntry ELSE entries[k]
          BY <1>2, <1>4, <2>5, <4>2
        <5>2. k \in ToSet(order') => entries[k] # NoEntry
          BY <2>2, <2>4, <2>6, <4>2 DEF Present
        <5> QED BY <5>1, <5>2
      <4> QED BY <4>1, <4>2
    <3>2. ToSet(order') \subseteq Keys
      BY <2>4 DEF ToSet
    <3> QED BY <3>1, <3>2 DEF Present
  <2>8. LruInv'
    BY <1>1, <1>4, <2>4, <2>7 DEF LruInv
  <2> QED BY <1>3, <2>4, <2>8
<1>5. CASE backend # "memory"
  <2>1. Touched(e.key) = <<>>
    BY <1>5 DEF Touched, LruInv
  <2>2. Kept(<<>>) = <<>>
    <3>1. CASE MaxSize = 0
      BY <3>1 DEF Kept
    <3>2. CASE MaxSize # 0
      <4>1. MaxSize \in Nat /\ Len(<<>>) = 0
        BY CacheAssumption
      <4>2. Max({1, 0 - MaxSize + 1}) = 1
        BY <3>2, <4>1 DEF Max
      <4>3. SubSeq(<<>>, 1, 0) = <<>>
        OBVIOUS
      <4> QED BY <3>2, <4>1, <4>2, <4>3 DEF Kept
    <3> QED BY <3>1, <3>2
  <2>a. order' = <<>>
    BY <1>1, <2>1, <2>2
  <2>b. <<>> \in Seq(Keys) /\ DOMAIN <<>> = {}
    OBVIOUS
  <2>3. order' = <<>> /\ order' \in Seq(Keys) /\ DOMAIN order' = {}
    BY <2>a, <2>b
  <2>4. IsInjective(order')
    BY <2>3 DEF IsInjective
  <2> QED BY <1>1, <1>3, <1>5, <2>3, <2>4 DEF LruInv
<1> QED BY <1>4, <1>5

(* A step of one thread that writes nothing new: what it leaves of its own *)
(* bookkeeping must still say what is doomed and what was served.          *)
LEMMA ThreadKeeps ==
  ASSUME CacheInv, NEW t \in Threads, CacheTypeOK', LruInv',
         UNCHANGED <<backend, op, began>>, cacheCalls <= cacheCalls',
         \A k \in Keys : entries'[k] \in {entries[k], NoEntry},
         tagIndex \subseteq tagIndex',
         \A u \in Threads : u # t =>
           /\ cachePc'[u] = cachePc[u] /\ found'[u] = found[u] /\ toFetch'[u] = toFetch[u]
           /\ served'[u] = served[u] /\ doomed'[u] = doomed[u],
         MayStore(t)' => MayStore(t), doomed'[t] \subseteq doomed[t],
         cachePc[t] = "tag" => cachePc'[t] = "tag" \/ op[t].key \in tagIndex',
         DoomOf(t)', ServedOf(t)'
  PROVE  CacheInv'
<1>1. /\ cacheCalls \in Nat /\ cacheCalls' \in Nat
      /\ \A u \in Threads : op[u].id \in Nat /\ doomed[u] \subseteq Nat
      /\ \A k \in Keys : entries[k] # NoEntry => entries[k].ver \in Nat
  <2>1. cacheCalls \in Nat /\ cacheCalls' \in Nat /\ \A u \in Threads : doomed[u] \subseteq Nat
    BY CacheAssumption DEF CacheInv, CacheTypeOK
  <2>2. \A u \in Threads : op[u].id \in Nat
    BY CacheAssumption DEF CacheInv, CacheTypeOK, Ops
  <2>3. \A k \in Keys : entries[k] # NoEntry => entries[k].ver \in Nat
    BY EntriesHaveNumbers DEF CacheInv, CacheTypeOK
  <2> QED BY <2>1, <2>2, <2>3
<1>2. EntryInv'
  <2>1. \A k \in Keys : entries'[k] # NoEntry => entries'[k].key = k /\ entries'[k].ver <= cacheCalls'
    BY <1>1 DEF CacheInv, EntryInv
  <2>2. \A k, l \in Keys :
          entries'[k] # NoEntry /\ entries'[l] # NoEntry /\ entries'[k].ver = entries'[l].ver => k = l
    BY DEF CacheInv, EntryInv
  <2> QED BY <2>1, <2>2 DEF EntryInv
<1>3. \A u \in Threads : (MayStore(u)' => MayStore(u)) /\ doomed'[u] \subseteq doomed[u]
  BY DEF MayStore
<1>4. PendingInv'
  <2>1. \A u \in Threads : op[u].id <= cacheCalls' /\ \A v \in doomed'[u] : v <= cacheCalls'
    <3> SUFFICES ASSUME NEW u \in Threads
                 PROVE  op[u].id <= cacheCalls' /\ \A v \in doomed'[u] : v <= cacheCalls'
      OBVIOUS
    <3>1. op[u].id <= cacheCalls /\ \A v \in doomed'[u] : v <= cacheCalls /\ v \in Nat
      BY <1>1, <1>3 DEF CacheInv, PendingInv
    <3> QED BY <1>1, <3>1
  <2>2. ASSUME NEW u \in Threads, MayStore(u)'
        PROVE  /\ op[u].id # 0
               /\ \A w \in Threads : op[u].id \notin doomed'[w] /\ (MayStore(w)' /\ op[u].id = op[w].id => u = w)
               /\ \A k \in Keys : entries'[k].ver # op[u].id
    <3>1. /\ op[u].id # 0
          /\ \A w \in Threads : op[u].id \notin doomed[w] /\ (MayStore(w) /\ op[u].id = op[w].id => u = w)
          /\ \A k \in Keys : entries[k].ver # op[u].id
      BY <1>3, <2>2 DEF CacheInv, PendingInv
    <3> QED BY <1>3, <3>1, EntriesHaveNumbers
  <2> QED BY <2>1, <2>2 DEF PendingInv
<1>5. TagInv'
  BY DEF CacheInv, TagInv
<1>6. ASSUME NEW u \in Threads PROVE DoomOf(u)' /\ ServedOf(u)'
  <2>1. CASE u = t
    BY <2>1
  <2>2. CASE u # t
    <3>1. DoomOf(u)'
      BY <2>2 DEF CacheInv, DoomOf
    <3>2. ServedOf(u)'
      BY <2>2 DEF CacheInv, ServedOf
    <3> QED BY <3>1, <3>2
  <2> QED BY <2>1, <2>2
<1> QED BY <1>2, <1>4, <1>5, <1>6 DEF CacheInv

(* A step that forgets nothing on purpose.                                 *)
LEMMA NothingDoomed ==
  ASSUME CacheInv, NEW t \in Threads, cachePc[t] \notin {"fetch", "remove", "removed"}
  PROVE  doomed[t] = {} /\ DoomOf(t)
BY DEF CacheInv, DoomOf

LEMMA SameServed ==
  ASSUME CacheInv, NEW t \in Threads, UNCHANGED <<op, began, served>>
  PROVE  ServedOf(t)'
BY DEF CacheInv, ServedOf

LEMMA LookupKeeps ==
  ASSUME CacheInv, NEW t \in Threads, Lookup(t)
  PROVE  CacheInv'
<1>1. PICK k \in Keys : k = op[t].key
  BY DEF CacheInv, CacheTypeOK, Ops
<1>2. PICK e : e = entries[k]
  OBVIOUS
<1>3. /\ cachePc[t] = "lookup" /\ order' = IF e = NoEntry THEN order ELSE Touched(k)
      /\ UNCHANGED <<backend, entries, tagIndex, cacheNow, cacheCalls, op, began, toFetch, doomed>>
  BY <1>1, <1>2 DEF Lookup
<1>4. \/ /\ cachePc' = [cachePc EXCEPT ![t] = "scan"] /\ UNCHANGED <<found, served>>
      \/ /\ e # NoEntry /\ cachePc' = [cachePc EXCEPT ![t] = "evict"]
         /\ found' = [found EXCEPT ![t] = {e}] /\ UNCHANGED served
      \/ /\ e # NoEntry /\ ~IsExpired(e, began[t])
         /\ cachePc' = [cachePc EXCEPT ![t] = "idle"]
         /\ served' = [served EXCEPT ![t] = e] /\ UNCHANGED found
  BY <1>1, <1>2 DEF Lookup, StaleHit
<1>5. CacheTypeOK /\ LruInv /\ e \in Entry \cup {NoEntry}
  BY <1>2 DEF CacheInv, CacheTypeOK
<1>6. order' \in Seq(Keys) /\ LruInv'
  <2>1. CASE e = NoEntry
    BY <1>3, <1>5, <2>1 DEF LruInv, Present, CacheTypeOK
  <2>2. CASE e # NoEntry /\ backend = "memory"
    <3>1. /\ order' \in Seq(Keys) /\ IsInjective(order') /\ ToSet(order') = ToSet(order) \cup {k}
          /\ Len(order') = IF k \in ToSet(order) THEN Len(order) ELSE Len(order) + 1
      BY <1>3, <1>5, <2>2, TouchedEndsTheOrder
    <3>2. k \in ToSet(order) /\ ToSet(order) = Present /\ Present' = Present
      BY <1>2, <1>3, <1>5, <2>2 DEF LruInv, Present
    <3>3. ToSet(order') = ToSet(order) /\ Len(order') = Len(order)
      BY <3>1, <3>2
    <3> QED BY <1>3, <1>5, <2>2, <3>1, <3>2, <3>3 DEF LruInv
  <2>3. CASE e # NoEntry /\ backend # "memory"
    <3>1. order' = order
      BY <1>3, <2>3 DEF Touched
    <3> QED BY <1>3, <1>5, <3>1 DEF LruInv, Present, CacheTypeOK
  <2> QED BY <2>1, <2>2, <2>3
<1>7. CacheTypeOK'
  <2>1. cachePc' \in [Threads -> CachePoints]
    BY <1>4, <1>5 DEF CacheTypeOK, CachePoints
  <2>2. found \in [Threads -> SUBSET Entry] /\ served \in [Threads -> Entry \cup {NoEntry}]
    BY <1>5 DEF CacheTypeOK
  <2>3. e # NoEntry => e \in Entry
    BY <1>5
  <2>4. found' \in [Threads -> SUBSET Entry]
    BY <1>4, <2>2, <2>3
  <2>5. served' \in [Threads -> Entry \cup {NoEntry}]
    BY <1>4, <2>2, <2>3
  <2> QED BY <1>3, <1>5, <1>6, <2>1, <2>4, <2>5 DEF CacheTypeOK
<1>8. doomed[t] = {} /\ DoomOf(t)
  BY <1>3, NothingDoomed
<1>9. cachePc'[t] \in {"scan", "evict", "idle"} /\ \A u \in Threads : u # t =>
        cachePc'[u] = cachePc[u] /\ found'[u] = found[u] /\ served'[u] = served[u]
  BY <1>4, <1>5 DEF CacheTypeOK
<1>10. DoomOf(t)'
  BY <1>3, <1>8, <1>9 DEF DoomOf
<1>11. ServedOf(t)'
  <2>1. CASE served' = served
    BY <1>3, <2>1, SameServed
  <2>2. CASE served' = [served EXCEPT ![t] = e] /\ e # NoEntry /\ ~IsExpired(e, began[t])
    <3>1. served'[t] = e /\ e.key = op[t].key
      BY <1>1, <1>2, <1>5, <2>2 DEF CacheTypeOK, CacheInv, EntryInv
    <3> QED BY <1>3, <2>2, <3>1 DEF ServedOf
  <2> QED BY <1>4, <2>1, <2>2
<1>12. (MayStore(t)' => MayStore(t)) /\ doomed'[t] \subseteq doomed[t] /\ cacheCalls <= cacheCalls'
  BY <1>3, <1>5, CacheAssumption DEF MayStore, CacheTypeOK
<1> QED BY <1>3, <1>6, <1>7, <1>9, <1>10, <1>11, <1>12, ThreadKeeps

LEMMA EvictExactKeeps ==
  ASSUME CacheInv, NEW t \in Threads, EvictExact(t)
  PROVE  CacheInv'
<1>1. PICK k \in Keys : k = op[t].key
  BY DEF CacheInv, CacheTypeOK, Ops
<1>2. /\ cachePc[t] = "evict" /\ Delete(k) /\ found' = [found EXCEPT ![t] = {}]
      /\ UNCHANGED <<backend, cacheNow, cacheCalls, op, began, toFetch, served, doomed>>
  BY <1>1 DEF EvictExact, Moves
<1>3. \E l \in {"compute", "idle"} : cachePc' = [cachePc EXCEPT ![t] = l]
  BY DEF EvictExact, Moves, AfterMiss
<1>4. CacheTypeOK /\ LruInv
  BY DEF CacheInv
<1>5. /\ order' \in Seq(Keys) /\ LruInv' /\ tagIndex' = tagIndex
      /\ entries' \in [Keys -> Entry \cup {NoEntry}] /\ entries'[k] = NoEntry
      /\ \A l \in Keys : l # k => entries'[l] = entries[l]
  BY <1>2, <1>4, DeleteKeepsOrder
<1>6. CacheTypeOK'
  <2>1. cachePc' \in [Threads -> CachePoints]
    BY <1>3, <1>4 DEF CacheTypeOK, CachePoints
  <2>2. found' \in [Threads -> SUBSET Entry]
    BY <1>2, <1>4 DEF CacheTypeOK
  <2> QED BY <1>2, <1>4, <1>5, <2>1, <2>2 DEF CacheTypeOK
<1>7. doomed[t] = {} /\ DoomOf(t)
  BY <1>2, NothingDoomed
<1>8. cachePc'[t] \in {"compute", "idle"} /\ \A u \in Threads : u # t =>
        cachePc'[u] = cachePc[u] /\ found'[u] = found[u]
  BY <1>2, <1>3, <1>4 DEF CacheTypeOK
<1>9. DoomOf(t)'
  BY <1>2, <1>7, <1>8 DEF DoomOf
<1>10. ServedOf(t)'
  BY <1>2, SameServed
<1>11. (MayStore(t)' => MayStore(t)) /\ doomed'[t] \subseteq doomed[t] /\ cacheCalls <= cacheCalls'
  BY <1>2, <1>4, CacheAssumption DEF MayStore, CacheTypeOK
<1>12. \A l \in Keys : entries'[l] \in {entries[l], NoEntry}
  BY <1>5
<1> QED BY <1>2, <1>5, <1>6, <1>8, <1>9, <1>10, <1>11, <1>12, ThreadKeeps

(* What a step leaves alone of the store.                                  *)
LEMMA StoreLeftAlone ==
  ASSUME CacheInv, UNCHANGED <<backend, entries, order>>
  PROVE  /\ LruInv' /\ order' \in Seq(Keys) /\ entries' \in [Keys -> Entry \cup {NoEntry}]
         /\ \A k \in Keys : entries'[k] \in {entries[k], NoEntry}
BY DEF CacheInv, CacheTypeOK, LruInv, Present

LEMMA EntriesOfAreEntries ==
  ASSUME CacheInv, NEW keys
  PROVE  EntriesOf(keys) \subseteq Entry
BY DEF CacheInv, CacheTypeOK, EntriesOf, Present

LEMMA ScanKeeps ==
  ASSUME CacheInv, NEW t \in Threads, Scan(t)
  PROVE  CacheInv'
<1>1. /\ cachePc[t] = "scan"
      /\ UNCHANGED <<backend, storeVars, cacheNow, cacheCalls, op, began, served, doomed>>
  BY DEF Scan, Enumerate
<1>2. PICK l \in {"fetch", "sweep"} : cachePc' = [cachePc EXCEPT ![t] = l]
  BY DEF Scan, Enumerate
<1>3. \E f \in SUBSET Entry : found' = [found EXCEPT ![t] = f]
  BY EntriesOfAreEntries DEF Scan, Enumerate
<1>4. CacheTypeOK
  BY DEF CacheInv
<1>5. \E f \in SUBSET Keys : toFetch' = [toFetch EXCEPT ![t] = f]
  <2>1. Listed(FALSE) \subseteq Keys
    BY DEF Listed, Present
  <2>2. toFetch \in [Threads -> SUBSET Keys]
    BY <1>4 DEF CacheTypeOK
  <2>3. CASE UNCHANGED toFetch
    <3>1. toFetch' = [toFetch EXCEPT ![t] = toFetch[t]] /\ toFetch[t] \subseteq Keys
      BY <2>2, <2>3
    <3> QED BY <3>1
  <2> QED BY <2>1, <2>3 DEF Scan, Enumerate
<1>6. UNCHANGED <<entries, order, tagIndex>>
  BY <1>1 DEF storeVars
<1>7. CacheTypeOK'
  <2>1. cachePc' \in [Threads -> CachePoints]
    BY <1>2, <1>4 DEF CacheTypeOK, CachePoints
  <2>2. found' \in [Threads -> SUBSET Entry] /\ toFetch' \in [Threads -> SUBSET Keys]
    BY <1>3, <1>4, <1>5 DEF CacheTypeOK
  <2> QED BY <1>1, <1>4, <1>6, <2>1, <2>2 DEF CacheTypeOK
<1>8. doomed[t] = {} /\ DoomOf(t)
  BY <1>1, NothingDoomed
<1>9. cachePc'[t] \in {"fetch", "sweep"} /\ \A u \in Threads : u # t =>
        cachePc'[u] = cachePc[u] /\ found'[u] = found[u] /\ toFetch'[u] = toFetch[u]
  BY <1>2, <1>3, <1>4, <1>5 DEF CacheTypeOK
<1>10. DoomOf(t)'
  BY <1>1, <1>8, <1>9 DEF DoomOf
<1>11. ServedOf(t)'
  BY <1>1, SameServed
<1>12. (MayStore(t)' => MayStore(t)) /\ doomed'[t] \subseteq doomed[t] /\ cacheCalls <= cacheCalls'
  BY <1>1, <1>4, CacheAssumption DEF MayStore, CacheTypeOK
<1>13. LruInv' /\ \A k \in Keys : entries'[k] \in {entries[k], NoEntry}
  BY <1>1, <1>6, StoreLeftAlone
<1> QED BY <1>1, <1>6, <1>7, <1>9, <1>10, <1>11, <1>12, <1>13, ThreadKeeps

LEMMA FetchOneKeeps ==
  ASSUME CacheInv, NEW t \in Threads, FetchOne(t)
  PROVE  CacheInv'
<1>1. PICK k \in toFetch[t] :
        /\ toFetch' = [toFetch EXCEPT ![t] = @ \ {k}]
        /\ found' = [found EXCEPT ![t] = @ \cup EntriesOf({k})]
  BY DEF FetchOne
<1>2. /\ cachePc[t] = "fetch" /\ UNCHANGED <<entries, order, tagIndex>>
      /\ UNCHANGED <<backend, cacheNow, cacheCalls, cachePc, op, began, served, doomed>>
  BY DEF FetchOne, storeVars
<1>4. CacheTypeOK
  BY DEF CacheInv
<1>5. /\ toFetch' \in [Threads -> SUBSET Keys] /\ found' \in [Threads -> SUBSET Entry]
      /\ toFetch'[t] = toFetch[t] \ {k} /\ found'[t] = found[t] \cup EntriesOf({k})
      /\ \A u \in Threads : u # t => found'[u] = found[u] /\ toFetch'[u] = toFetch[u]
  BY <1>1, <1>4, EntriesOfAreEntries DEF CacheTypeOK
<1>6. CacheTypeOK'
  BY <1>2, <1>4, <1>5 DEF CacheTypeOK
<1>7. DoomOf(t)'
  <2>1. DoomOf(t)
    BY DEF CacheInv
  <2>2. entries[k] # NoEntry => entries[k] \in EntriesOf({k})
    BY <1>1, <1>4 DEF EntriesOf, Present, CacheTypeOK
  <2> QED BY <1>2, <1>5, <2>1, <2>2 DEF DoomOf
<1>8. ServedOf(t)'
  BY <1>2, SameServed
<1>9. (MayStore(t)' => MayStore(t)) /\ doomed'[t] \subseteq doomed[t] /\ cacheCalls <= cacheCalls'
  BY <1>2, <1>4, CacheAssumption DEF MayStore, CacheTypeOK
<1>10. LruInv' /\ \A l \in Keys : entries'[l] \in {entries[l], NoEntry}
  BY <1>2, StoreLeftAlone
<1> QED BY <1>2, <1>5, <1>6, <1>7, <1>8, <1>9, <1>10, ThreadKeeps

LEMMA FetchedAllKeeps ==
  ASSUME CacheInv, NEW t \in Threads, FetchedAll(t)
  PROVE  CacheInv'
<1>1. PICK l \in {"remove", "sweep"} :
        /\ cachePc' = [cachePc EXCEPT ![t] = l]
        /\ op[t].kind = "invalidate" => l = "remove"
  BY DEF FetchedAll
<1>2. /\ cachePc[t] = "fetch" /\ toFetch[t] = {} /\ UNCHANGED <<entries, order, tagIndex>>
      /\ UNCHANGED <<backend, cacheNow, cacheCalls, op, began, found, toFetch, served, doomed>>
  BY DEF FetchedAll, storeVars
<1>4. CacheTypeOK
  BY DEF CacheInv
<1>5. cachePc' \in [Threads -> CachePoints] /\ cachePc'[t] = l
      /\ \A u \in Threads : u # t => cachePc'[u] = cachePc[u]
  BY <1>1, <1>4 DEF CacheTypeOK, CachePoints
<1>6. CacheTypeOK'
  BY <1>2, <1>4, <1>5 DEF CacheTypeOK
<1>7. DoomOf(t)'
  <2>1. DoomOf(t)
    BY DEF CacheInv
  <2> QED BY <1>1, <1>2, <1>5, <2>1 DEF DoomOf
<1>8. ServedOf(t)'
  BY <1>2, SameServed
<1>9. (MayStore(t)' => MayStore(t)) /\ doomed'[t] \subseteq doomed[t] /\ cacheCalls <= cacheCalls'
  BY <1>2, <1>4, CacheAssumption DEF MayStore, CacheTypeOK
<1>10. LruInv' /\ \A k \in Keys : entries'[k] \in {entries[k], NoEntry}
  BY <1>2, StoreLeftAlone
<1> QED BY <1>2, <1>5, <1>6, <1>7, <1>8, <1>9, <1>10, ThreadKeeps

(* Deleting what was found: by the sweep of a get, or by an invalidation.  *)
LEMMA SweepOneKeeps ==
  ASSUME CacheInv, NEW t \in Threads, SweepOne(t)
  PROVE  CacheInv'
<1>1. PICK e \in found[t] : Delete(e.key) /\ found' = [found EXCEPT ![t] = @ \ {e}]
  BY DEF SweepOne, Stale
<1>2. /\ cachePc[t] = "sweep"
      /\ UNCHANGED <<backend, cacheNow, cacheCalls, cachePc, op, began, toFetch, served, doomed>>
  BY DEF SweepOne
<1>3. CacheTypeOK /\ LruInv
  BY DEF CacheInv
<1>4. e.key \in Keys
  BY <1>1, <1>3 DEF CacheTypeOK, Entry
<1>5. /\ order' \in Seq(Keys) /\ LruInv' /\ tagIndex' = tagIndex
      /\ entries' \in [Keys -> Entry \cup {NoEntry}] /\ entries'[e.key] = NoEntry
      /\ \A l \in Keys : l # e.key => entries'[l] = entries[l]
  BY <1>1, <1>2, <1>3, <1>4, DeleteKeepsOrder
<1>6. found' \in [Threads -> SUBSET Entry] /\ \A u \in Threads : u # t => found'[u] = found[u]
  BY <1>1, <1>3 DEF CacheTypeOK
<1>7. CacheTypeOK'
  BY <1>2, <1>3, <1>5, <1>6 DEF CacheTypeOK
<1>8. doomed[t] = {} /\ DoomOf(t)
  BY <1>2, NothingDoomed
<1>9. DoomOf(t)'
  BY <1>2, <1>8 DEF DoomOf
<1>10. ServedOf(t)'
  BY <1>2, SameServed
<1>11. (MayStore(t)' => MayStore(t)) /\ doomed'[t] \subseteq doomed[t] /\ cacheCalls <= cacheCalls'
  BY <1>2, <1>3, CacheAssumption DEF MayStore, CacheTypeOK
<1>12. \A l \in Keys : entries'[l] \in {entries[l], NoEntry}
  BY <1>5
<1> QED BY <1>2, <1>5, <1>6, <1>7, <1>9, <1>10, <1>11, <1>12, ThreadKeeps

LEMMA RemoveOneKeeps ==
  ASSUME CacheInv, NEW t \in Threads, RemoveOne(t)
  PROVE  CacheInv'
<1>1. PICK e \in found[t] : Delete(e.key) /\ found' = [found EXCEPT ![t] = @ \ {e}]
  BY DEF RemoveOne
<1>2. /\ cachePc[t] = "remove"
      /\ UNCHANGED <<backend, cacheNow, cacheCalls, cachePc, op, began, toFetch, served, doomed>>
  BY DEF RemoveOne
<1>3. CacheTypeOK /\ LruInv
  BY DEF CacheInv
<1>4. e.key \in Keys
  BY <1>1, <1>3 DEF CacheTypeOK, Entry
<1>5. /\ order' \in Seq(Keys) /\ LruInv' /\ tagIndex' = tagIndex
      /\ entries' \in [Keys -> Entry \cup {NoEntry}] /\ entries'[e.key] = NoEntry
      /\ \A l \in Keys : l # e.key => entries'[l] = entries[l]
  BY <1>1, <1>2, <1>3, <1>4, DeleteKeepsOrder
<1>6. /\ found' \in [Threads -> SUBSET Entry] /\ found'[t] = found[t] \ {e}
      /\ \A u \in Threads : u # t => found'[u] = found[u]
  BY <1>1, <1>3 DEF CacheTypeOK
<1>7. CacheTypeOK'
  BY <1>2, <1>3, <1>5, <1>6 DEF CacheTypeOK
<1>9. DoomOf(t)'
  <2>1. DoomOf(t) /\ \A k \in Keys : entries[k] # NoEntry => entries[k].key = k
    BY DEF CacheInv, EntryInv
  <2>2. ASSUME NEW k \in Keys, entries'[k] # NoEntry, entries'[k].ver \in doomed'[t]
        PROVE  entries'[k] \in found'[t]
    <3>1. k # e.key /\ entries'[k] = entries[k]
      BY <1>5, <2>2
    <3>2. entries[k] \in found[t]
      BY <1>2, <2>1, <2>2, <3>1 DEF DoomOf
    <3> QED BY <1>6, <2>1, <2>2, <3>1, <3>2
  <2> QED BY <1>2, <2>1, <2>2 DEF DoomOf
<1>10. ServedOf(t)'
  BY <1>2, SameServed
<1>11. (MayStore(t)' => MayStore(t)) /\ doomed'[t] \subseteq doomed[t] /\ cacheCalls <= cacheCalls'
  BY <1>2, <1>3, CacheAssumption DEF MayStore, CacheTypeOK
<1>12. \A l \in Keys : entries'[l] \in {entries[l], NoEntry}
  BY <1>5
<1> QED BY <1>2, <1>5, <1>6, <1>7, <1>9, <1>10, <1>11, <1>12, ThreadKeeps

LEMMA AtLeastTheThreshold ==
  ASSUME NEW x \in Nat, x >= Max({1, SimilarityThreshold})
  PROVE  x >= SimilarityThreshold
<1>1. SimilarityThreshold \in Nat
  BY CacheAssumption
<1>2. CASE SimilarityThreshold >= 1
  <2>1. Max({1, SimilarityThreshold}) = SimilarityThreshold
    BY <1>1, <1>2 DEF Max
  <2> QED BY <2>1
<1>3. CASE ~(SimilarityThreshold >= 1)
  BY <1>1, <1>3
<1> QED BY <1>2, <1>3

LEMMA FinishGetKeeps ==
  ASSUME CacheInv, NEW t \in Threads, FinishGet(t)
  PROVE  CacheInv'
<1>1. /\ cachePc[t] = "sweep" /\ found' = [found EXCEPT ![t] = {}]
      /\ UNCHANGED <<entries, order, tagIndex>>
      /\ UNCHANGED <<backend, cacheNow, cacheCalls, op, began, toFetch, doomed>>
  BY DEF FinishGet, storeVars
<1>2. \E l \in {"compute", "idle"} : cachePc' = [cachePc EXCEPT ![t] = l]
  BY DEF FinishGet, AfterMiss
<1>3. UNCHANGED served \/ \E e \in Similar(t) : served' = [served EXCEPT ![t] = e]
  BY DEF FinishGet
<1>4. CacheTypeOK
  BY DEF CacheInv
<1>5. \A e \in Similar(t) : /\ e \in Entry /\ ~IsExpired(e, began[t])
                            /\ Score[<<op[t].key, e.key>>] >= SimilarityThreshold
  <2> SUFFICES ASSUME NEW e \in Similar(t)
               PROVE  /\ e \in Entry /\ ~IsExpired(e, began[t])
                      /\ Score[<<op[t].key, e.key>>] >= SimilarityThreshold
    OBVIOUS
  <2>1. e \in Candidates(t) /\ Score[<<op[t].key, e.key>>] >= Max({1, SimilarityThreshold})
    BY DEF Similar
  <2>2. e \in Entry /\ ~IsExpired(e, began[t])
    BY <1>4, <2>1 DEF Candidates, CacheTypeOK
  <2>3. op[t].key \in Keys /\ e.key \in Keys
    BY <1>4, <2>2 DEF CacheTypeOK, Ops, Entry
  <2>4. <<op[t].key, e.key>> \in Keys \X Keys
    BY <2>3
  <2>5. Score[<<op[t].key, e.key>>] \in 0..100
    BY <2>4, CacheAssumption
  <2>6. PICK x \in 0..100 : x = Score[<<op[t].key, e.key>>]
    BY <2>5, Zenon
  <2>7. x >= Max({1, SimilarityThreshold})
    BY <2>1, <2>6, Zenon
  <2>8. x >= SimilarityThreshold
    BY <2>6, <2>7, AtLeastTheThreshold
  <2>9. Score[<<op[t].key, e.key>>] >= SimilarityThreshold
    BY <2>6, <2>8, Zenon
  <2> QED BY <2>2, <2>9, Zenon
<1>6. CacheTypeOK'
  <2>1. cachePc' \in [Threads -> CachePoints]
    BY <1>2, <1>4 DEF CacheTypeOK, CachePoints
  <2>2. found' \in [Threads -> SUBSET Entry]
    BY <1>1, <1>4 DEF CacheTypeOK
  <2>3. served' \in [Threads -> Entry \cup {NoEntry}]
    BY <1>3, <1>4, <1>5 DEF CacheTypeOK
  <2> QED BY <1>1, <1>4, <2>1, <2>2, <2>3 DEF CacheTypeOK
<1>7. doomed[t] = {} /\ DoomOf(t)
  BY <1>1, NothingDoomed
<1>8. cachePc'[t] \in {"compute", "idle"} /\ \A u \in Threads : u # t =>
        cachePc'[u] = cachePc[u] /\ found'[u] = found[u] /\ served'[u] = served[u]
  BY <1>1, <1>2, <1>3, <1>4 DEF CacheTypeOK
<1>9. DoomOf(t)'
  BY <1>1, <1>7, <1>8 DEF DoomOf
<1>10. ServedOf(t)'
  <2>1. CASE UNCHANGED served
    BY <1>1, <2>1, SameServed
  <2>2. ASSUME NEW e \in Similar(t), served' = [served EXCEPT ![t] = e] PROVE ServedOf(t)'
    <3>1. served'[t] = e
      BY <1>4, <2>2 DEF CacheTypeOK
    <3> QED BY <1>1, <1>5, <3>1 DEF ServedOf
  <2> QED BY <1>3, <2>1, <2>2
<1>11. (MayStore(t)' => MayStore(t)) /\ doomed'[t] \subseteq doomed[t] /\ cacheCalls <= cacheCalls'
  BY <1>1, <1>4, CacheAssumption DEF MayStore, CacheTypeOK
<1>12. LruInv' /\ \A k \in Keys : entries'[k] \in {entries[k], NoEntry}
  BY <1>1, StoreLeftAlone
<1> QED BY <1>1, <1>6, <1>8, <1>9, <1>10, <1>11, <1>12, ThreadKeeps

LEMMA AddToTagKeeps ==
  ASSUME CacheInv, NEW t \in Threads, AddToTag(t)
  PROVE  CacheInv'
<1>1. /\ cachePc[t] = "tag" /\ cachePc' = [cachePc EXCEPT ![t] = "idle"]
      /\ tagIndex' = tagIndex \cup {op[t].key}
      /\ UNCHANGED <<backend, entries, order, cacheNow, cacheCalls, op, began, found, toFetch,
                     served, doomed>>
  BY DEF AddToTag, Moves
<1>2. CacheTypeOK
  BY DEF CacheInv
<1>3. /\ cachePc' \in [Threads -> CachePoints] /\ cachePc'[t] = "idle"
      /\ \A u \in Threads : u # t => cachePc'[u] = cachePc[u]
  BY <1>1, <1>2 DEF CacheTypeOK, CachePoints
<1>4. tagIndex' \subseteq Keys
  BY <1>1, <1>2 DEF CacheTypeOK, Ops
<1>5. CacheTypeOK'
  BY <1>1, <1>2, <1>3, <1>4 DEF CacheTypeOK
<1>6. doomed[t] = {} /\ DoomOf(t)
  BY <1>1, NothingDoomed
<1>7. DoomOf(t)'
  BY <1>1, <1>3, <1>6 DEF DoomOf
<1>8. ServedOf(t)'
  BY <1>1, SameServed
<1>9. (MayStore(t)' => MayStore(t)) /\ doomed'[t] \subseteq doomed[t] /\ cacheCalls <= cacheCalls'
  BY <1>1, <1>2, <1>3, CacheAssumption DEF MayStore, CacheTypeOK
<1>10. LruInv' /\ \A k \in Keys : entries'[k] \in {entries[k], NoEntry}
  BY <1>1, StoreLeftAlone
<1>11. tagIndex \subseteq tagIndex' /\ op[t].key \in tagIndex'
  BY <1>1
<1> QED BY <1>1, <1>3, <1>5, <1>7, <1>8, <1>9, <1>10, <1>11, ThreadKeeps

LEMMA FinishInvalidateKeeps ==
  ASSUME CacheInv, NEW t \in Threads, FinishInvalidate(t)
  PROVE  CacheInv'
<1>1. /\ cachePc[t] = "remove" /\ cachePc' = [cachePc EXCEPT ![t] = "removed"] /\ found[t] = {}
      /\ UNCHANGED <<entries, order, tagIndex>>
      /\ UNCHANGED <<backend, cacheNow, cacheCalls, op, began, found, toFetch, served, doomed>>
  BY DEF FinishInvalidate, Moves, storeVars
<1>2. CacheTypeOK
  BY DEF CacheInv
<1>3. /\ cachePc' \in [Threads -> CachePoints] /\ cachePc'[t] = "removed"
      /\ \A u \in Threads : u # t => cachePc'[u] = cachePc[u]
  BY <1>1, <1>2 DEF CacheTypeOK, CachePoints
<1>4. CacheTypeOK'
  BY <1>1, <1>2, <1>3 DEF CacheTypeOK
<1>5. DoomOf(t)'
  <2>1. DoomOf(t)
    BY DEF CacheInv
  <2> QED BY <1>1, <1>3, <2>1 DEF DoomOf
<1>6. ServedOf(t)'
  BY <1>1, SameServed
<1>7. (MayStore(t)' => MayStore(t)) /\ doomed'[t] \subseteq doomed[t] /\ cacheCalls <= cacheCalls'
  BY <1>1, <1>2, <1>3, CacheAssumption DEF MayStore, CacheTypeOK
<1>8. LruInv' /\ \A k \in Keys : entries'[k] \in {entries[k], NoEntry}
  BY <1>1, StoreLeftAlone
<1> QED BY <1>1, <1>3, <1>4, <1>5, <1>6, <1>7, <1>8, ThreadKeeps

LEMMA ReturnInvalidateKeeps ==
  ASSUME CacheInv, NEW t \in Threads, ReturnInvalidate(t)
  PROVE  CacheInv'
<1>1. /\ cachePc[t] = "removed" /\ cachePc' = [cachePc EXCEPT ![t] = "idle"]
      /\ doomed' = [doomed EXCEPT ![t] = {}] /\ UNCHANGED <<entries, order, tagIndex>>
      /\ UNCHANGED <<backend, cacheNow, cacheCalls, op, began, found, toFetch, served>>
  BY DEF ReturnInvalidate, Moves, storeVars
<1>2. CacheTypeOK
  BY DEF CacheInv
<1>3. /\ cachePc' \in [Threads -> CachePoints] /\ cachePc'[t] = "idle"
      /\ \A u \in Threads : u # t => cachePc'[u] = cachePc[u] /\ doomed'[u] = doomed[u]
      /\ doomed'[t] = {} /\ doomed' \in [Threads -> SUBSET (1..MaxCacheCalls)]
  BY <1>1, <1>2 DEF CacheTypeOK, CachePoints
<1>4. CacheTypeOK'
  BY <1>1, <1>2, <1>3 DEF CacheTypeOK
<1>5. DoomOf(t)'
  BY <1>1, <1>3 DEF DoomOf
<1>6. ServedOf(t)'
  BY <1>1, SameServed
<1>7. (MayStore(t)' => MayStore(t)) /\ doomed'[t] \subseteq doomed[t] /\ cacheCalls <= cacheCalls'
  BY <1>1, <1>2, <1>3, CacheAssumption DEF MayStore, CacheTypeOK
<1>8. LruInv' /\ \A k \in Keys : entries'[k] \in {entries[k], NoEntry}
  BY <1>1, StoreLeftAlone
<1> QED BY <1>1, <1>3, <1>4, <1>5, <1>6, <1>7, <1>8, ThreadKeeps

(* invalidate_all: at once, or for Redis what it had listed.               *)
LEMMA InvalidateAllKeeps ==
  ASSUME CacheInv, NEW t \in Threads, InvalidateAll(t)
  PROVE  CacheInv'
<1>1. /\ cachePc[t] = "idle" /\ cacheCalls < MaxCacheCalls /\ cacheCalls' = cacheCalls + 1
      /\ entries' = [k \in Keys |-> NoEntry] /\ order' = <<>>
      /\ UNCHANGED <<backend, tagIndex, cacheNow, cachePc, op, began, found, toFetch, served, doomed>>
  BY DEF InvalidateAll
<1>2. CacheTypeOK
  BY DEF CacheInv
<1>3. cacheCalls' \in 0..MaxCacheCalls /\ cacheCalls <= cacheCalls'
  BY <1>1, <1>2, CacheAssumption DEF CacheTypeOK
<1>4. order' \in Seq(Keys) /\ LruInv'
  <2>1. order' \in Seq(Keys) /\ DOMAIN order' = {} /\ Len(order') = 0
    BY <1>1
  <2>2. ToSet(order') = {} /\ Present' = {} /\ IsInjective(order')
    BY <1>1, <2>1 DEF ToSet, Present, IsInjective
  <2> QED BY <1>1, <2>1, <2>2, CacheAssumption DEF LruInv
<1>5. CacheTypeOK'
  BY <1>1, <1>2, <1>3, <1>4 DEF CacheTypeOK
<1>6. doomed[t] = {} /\ DoomOf(t)
  BY <1>1, NothingDoomed
<1>7. DoomOf(t)'
  BY <1>1, <1>6 DEF DoomOf
<1>8. ServedOf(t)'
  BY <1>1, SameServed
<1>9. (MayStore(t)' => MayStore(t)) /\ doomed'[t] \subseteq doomed[t]
      /\ \A k \in Keys : entries'[k] \in {entries[k], NoEntry}
  BY <1>1 DEF MayStore
<1> QED BY <1>1, <1>3, <1>4, <1>5, <1>7, <1>8, <1>9, ThreadKeeps

LEMMA ListAllKeeps ==
  ASSUME CacheInv, NEW t \in Threads, ListAll(t)
  PROVE  CacheInv'
<1>1. /\ cachePc[t] = "idle" /\ cachePc' = [cachePc EXCEPT ![t] = "clear"]
      /\ cacheCalls < MaxCacheCalls /\ cacheCalls' = cacheCalls + 1
      /\ toFetch' = [toFetch EXCEPT ![t] = Present] /\ UNCHANGED <<entries, order, tagIndex>>
      /\ backend = "redis"
      /\ UNCHANGED <<backend, cacheNow, op, began, found, served, doomed>>
  BY DEF ListAll, Moves, storeVars
<1>2. CacheTypeOK
  BY DEF CacheInv
<1>3. cacheCalls' \in 0..MaxCacheCalls /\ cacheCalls <= cacheCalls'
  BY <1>1, <1>2, CacheAssumption DEF CacheTypeOK
<1>4. /\ cachePc' \in [Threads -> CachePoints] /\ cachePc'[t] = "clear"
      /\ toFetch' \in [Threads -> SUBSET Keys]
      /\ \A u \in Threads : u # t => cachePc'[u] = cachePc[u] /\ toFetch'[u] = toFetch[u]
  BY <1>1, <1>2 DEF CacheTypeOK, CachePoints, Present
<1>5. LruInv' /\ \A k \in Keys : entries'[k] \in {entries[k], NoEntry}
  BY <1>1, StoreLeftAlone
<1>6. CacheTypeOK'
  BY <1>1, <1>2, <1>3, <1>4 DEF CacheTypeOK
<1>7. doomed[t] = {} /\ DoomOf(t)
  BY <1>1, NothingDoomed
<1>8. DoomOf(t)'
  BY <1>1, <1>4, <1>7 DEF DoomOf
<1>9. ServedOf(t)'
  BY <1>1, SameServed
<1>10. (MayStore(t)' => MayStore(t)) /\ doomed'[t] \subseteq doomed[t]
  BY <1>1, <1>4 DEF MayStore
<1> QED BY <1>1, <1>3, <1>4, <1>5, <1>6, <1>8, <1>9, <1>10, ThreadKeeps

LEMMA DeleteAllKeeps ==
  ASSUME CacheInv, NEW t \in Threads, DeleteAll(t)
  PROVE  CacheInv'
<1>1. /\ cachePc[t] = "clear" /\ cachePc' = [cachePc EXCEPT ![t] = "idle"]
      /\ entries' = [k \in Keys |-> IF k \in toFetch[t] THEN NoEntry ELSE entries[k]]
      /\ toFetch' = [toFetch EXCEPT ![t] = {}]
      /\ UNCHANGED <<backend, order, tagIndex, cacheNow, cacheCalls, op, began, found, served, doomed>>
  BY DEF DeleteAll, Moves
<1>2. CacheTypeOK /\ LruInv
  BY DEF CacheInv
<1>3. /\ cachePc' \in [Threads -> CachePoints] /\ cachePc'[t] = "idle"
      /\ toFetch' \in [Threads -> SUBSET Keys]
      /\ \A u \in Threads : u # t => cachePc'[u] = cachePc[u] /\ toFetch'[u] = toFetch[u]
  BY <1>1, <1>2 DEF CacheTypeOK, CachePoints
<1>4. /\ entries' \in [Keys -> Entry \cup {NoEntry}]
      /\ \A k \in Keys : entries'[k] \in {entries[k], NoEntry}
  BY <1>1, <1>2 DEF CacheTypeOK
<1>a. backend = "redis"
  BY <1>1 DEF CacheInv, DoomOf
<1>5. LruInv'
  BY <1>1, <1>2, <1>a DEF LruInv
<1>6. CacheTypeOK'
  BY <1>1, <1>2, <1>3, <1>4 DEF CacheTypeOK
<1>7. doomed[t] = {} /\ DoomOf(t)
  BY <1>1, NothingDoomed
<1>8. DoomOf(t)'
  BY <1>1, <1>3, <1>7 DEF DoomOf
<1>9. ServedOf(t)'
  BY <1>1, SameServed
<1>10. (MayStore(t)' => MayStore(t)) /\ doomed'[t] \subseteq doomed[t] /\ cacheCalls <= cacheCalls'
  BY <1>1, <1>2, <1>3, CacheAssumption DEF MayStore, CacheTypeOK
<1> QED BY <1>1, <1>3, <1>4, <1>5, <1>6, <1>8, <1>9, <1>10, ThreadKeeps

(* Redis and the clock act on their own.                                   *)
LEMMA ServerExpiresKeeps ==
  ASSUME CacheInv, NEW k \in Keys, ServerExpires(k)
  PROVE  CacheInv'
<1>1. PICK t \in Threads : TRUE
  BY CallersAssumption
<1>2. /\ Delete(k)
      /\ UNCHANGED <<backend, cacheNow, cacheCalls, cachePc, op, began, found, toFetch, served, doomed>>
  BY DEF ServerExpires
<1>3. CacheTypeOK /\ LruInv /\ DoomOf(t)
  BY DEF CacheInv
<1>4. /\ order' \in Seq(Keys) /\ LruInv' /\ tagIndex' = tagIndex
      /\ entries' \in [Keys -> Entry \cup {NoEntry}] /\ entries'[k] = NoEntry
      /\ \A l \in Keys : l # k => entries'[l] = entries[l]
  BY <1>2, <1>3, DeleteKeepsOrder
<1>5. CacheTypeOK'
  BY <1>2, <1>3, <1>4 DEF CacheTypeOK
<1>6. \A l \in Keys : entries'[l] \in {entries[l], NoEntry}
  BY <1>4
<1>7. DoomOf(t)'
  BY <1>2, <1>3, <1>6 DEF DoomOf
<1>8. ServedOf(t)'
  BY <1>2, SameServed
<1>9. (MayStore(t)' => MayStore(t)) /\ doomed'[t] \subseteq doomed[t] /\ cacheCalls <= cacheCalls'
  BY <1>2, <1>3, CacheAssumption DEF MayStore, CacheTypeOK
<1> QED BY <1>2, <1>4, <1>5, <1>6, <1>7, <1>8, <1>9, ThreadKeeps

LEMMA CacheTickKeeps ==
  ASSUME CacheInv, CacheTick
  PROVE  CacheInv'
<1>1. /\ cacheNow < MaxNow /\ cacheNow' = cacheNow + 1 /\ UNCHANGED <<entries, order, tagIndex>>
      /\ UNCHANGED <<backend, cacheCalls, cachePc, op, began, found, toFetch, served, doomed>>
  BY DEF CacheTick, storeVars
<1>2. CacheTypeOK'
  BY <1>1, CacheAssumption DEF CacheInv, CacheTypeOK
<1>3. EntryInv' /\ PendingInv' /\ TagInv' /\ LruInv'
  BY <1>1 DEF CacheInv, EntryInv, PendingInv, TagInv, LruInv, MayStore, Present
<1>4. \A t \in Threads : DoomOf(t)' /\ ServedOf(t)'
  BY <1>1 DEF CacheInv, DoomOf, ServedOf
<1> QED BY <1>2, <1>3, <1>4 DEF CacheInv

(* A call that begins draws a number no entry has.                         *)
LEMMA CallKeeps ==
  ASSUME CacheInv, NEW t \in Threads, NEW k \in Keys,
         NEW kind \in {"get", "cached", "set", "invalidate"}, Call(t, kind, k)
  PROVE  CacheInv'
<1>1. PICK o : o = [kind |-> kind, key |-> k, id |-> cacheCalls']
  OBVIOUS
<1>2. /\ cachePc[t] = "idle" /\ cacheCalls < MaxCacheCalls /\ cacheCalls' = cacheCalls + 1
      /\ op' = [op EXCEPT ![t] = o] /\ began' = [began EXCEPT ![t] = cacheNow]
      /\ served' = [served EXCEPT ![t] = NoEntry] /\ doomed' = [doomed EXCEPT ![t] = {}]
      /\ UNCHANGED <<entries, order, tagIndex>> /\ UNCHANGED <<backend, cacheNow, found, toFetch>>
  BY <1>1 DEF Call, Moves, storeVars
<1>3. \E l \in {"compute", "list", "lookup"} :
        cachePc' = [cachePc EXCEPT ![t] = l] /\ (l = "list" <=> kind = "invalidate")
  BY DEF Call, Moves
<1>4. CacheTypeOK
  BY DEF CacheInv
<1>5. /\ cacheCalls \in Nat /\ cacheCalls' \in 0..MaxCacheCalls /\ cacheCalls' \in Nat
      /\ cacheCalls' # 0 /\ MaxCacheCalls \in Nat
  BY <1>2, <1>4, CacheAssumption DEF CacheTypeOK
<1>6. o \in Ops /\ o.id = cacheCalls' /\ o.kind = kind
  BY <1>1, <1>5 DEF Ops
<1>7. /\ cachePc' \in [Threads -> CachePoints] /\ op' \in [Threads -> Ops] /\ op'[t] = o
      /\ began' \in [Threads -> 0..MaxNow] /\ served' \in [Threads -> Entry \cup {NoEntry}]
      /\ doomed' \in [Threads -> SUBSET (1..MaxCacheCalls)]
  BY <1>2, <1>3, <1>4, <1>6 DEF CacheTypeOK, CachePoints
<1>8. /\ cachePc'[t] \in {"compute", "list", "lookup"}
      /\ cachePc'[t] = "list" <=> kind = "invalidate"
      /\ served'[t] = NoEntry /\ doomed'[t] = {}
      /\ \A u \in Threads : u # t => /\ cachePc'[u] = cachePc[u] /\ op'[u] = op[u] /\ began'[u] = began[u]
                                     /\ served'[u] = served[u] /\ doomed'[u] = doomed[u]
  BY <1>2, <1>3, <1>4 DEF CacheTypeOK
<1>9. CacheTypeOK'
  BY <1>2, <1>4, <1>5, <1>7 DEF CacheTypeOK
<1>10. /\ \A u \in Threads : op[u].id \in Nat /\ op[u].id <= cacheCalls
       /\ \A u \in Threads : \A v \in doomed[u] : v \in Nat /\ v <= cacheCalls
       /\ \A l \in Keys : entries[l].ver \in Nat /\ entries[l].ver <= cacheCalls
  <2>1. \A u \in Threads : op[u].id \in Nat /\ doomed[u] \subseteq Nat
    BY <1>4, <1>5 DEF CacheTypeOK, Ops
  <2>2. \A l \in Keys : entries[l].ver \in Nat /\ entries[l].ver <= cacheCalls
    BY <1>4, <1>5, EntriesHaveNumbers DEF CacheTypeOK, CacheInv, EntryInv
  <2> QED BY <2>1, <2>2 DEF CacheInv, PendingInv
<1>11. EntryInv'
  <2>1. \A l \in Keys : entries[l].ver <= cacheCalls'
    BY <1>2, <1>5, <1>10
  <2> QED BY <1>2, <2>1 DEF CacheInv, EntryInv
<1>12. PendingInv'
  <2>1. \A u \in Threads : op'[u].id <= cacheCalls' /\ \A v \in doomed'[u] : v <= cacheCalls'
    BY <1>2, <1>5, <1>6, <1>7, <1>8, <1>10
  <2>2. ASSUME NEW u \in Threads, MayStore(u)', NEW w \in Threads
        PROVE  /\ op'[u].id # 0 /\ op'[u].id \notin doomed'[w]
               /\ MayStore(w)' /\ op'[u].id = op'[w].id => u = w
    <3>1. CASE u = t
      BY <1>2, <1>5, <1>6, <1>7, <1>8, <1>10, <3>1
    <3>2. CASE u # t
      <4>1. MayStore(u) /\ op'[u] = op[u]
        BY <1>8, <2>2, <3>2 DEF MayStore
      <4>2. op[u].id # 0 /\ op[u].id \notin doomed[w] /\ (MayStore(w) /\ op[u].id = op[w].id => u = w)
        BY <4>1 DEF CacheInv, PendingInv
      <4>3. CASE w = t
        BY <1>2, <1>5, <1>6, <1>7, <1>8, <1>10, <4>1, <4>2, <4>3
      <4>4. CASE w # t
        BY <1>8, <4>1, <4>2, <4>4 DEF MayStore
      <4> QED BY <4>3, <4>4
    <3> QED BY <3>1, <3>2
  <2>3. ASSUME NEW u \in Threads, MayStore(u)', NEW l \in Keys PROVE entries'[l].ver # op'[u].id
    <3>1. CASE u = t
      BY <1>2, <1>5, <1>6, <1>7, <1>10, <3>1
    <3>2. CASE u # t
      BY <1>2, <1>8, <2>3, <3>2 DEF CacheInv, PendingInv, MayStore
    <3> QED BY <3>1, <3>2
  <2> QED BY <2>1, <2>2, <2>3 DEF PendingInv
<1>13. TagInv' /\ LruInv'
  <2>1. \A u \in Threads : cachePc[u] = "tag" => cachePc'[u] = "tag" /\ op'[u] = op[u]
    BY <1>2, <1>8
  <2> QED BY <1>2, <2>1, StoreLeftAlone DEF CacheInv, TagInv
<1>14. ASSUME NEW u \in Threads PROVE DoomOf(u)' /\ ServedOf(u)'
  <2>1. CASE u = t
    <3>1. op'[t].kind = kind
      BY <1>6, <1>7
    <3>2. DoomOf(t)'
      BY <1>8, <3>1 DEF DoomOf
    <3>3. ServedOf(t)'
      BY <1>8 DEF ServedOf
    <3> QED BY <2>1, <3>2, <3>3
  <2>2. CASE u # t
    <3>1. DoomOf(u)'
      BY <1>2, <1>8, <2>2 DEF CacheInv, DoomOf
    <3>2. ServedOf(u)'
      BY <1>8, <2>2 DEF CacheInv, ServedOf
    <3> QED BY <3>1, <3>2
  <2> QED BY <2>1, <2>2
<1> QED BY <1>9, <1>11, <1>12, <1>13, <1>14 DEF CacheInv

(* What a call to forget is bound to forget, it has found or will fetch.   *)
LEMMA ListTaggedKeeps ==
  ASSUME CacheInv, NEW t \in Threads, ListTagged(t)
  PROVE  CacheInv'
<1>1. PICK d : d = {e.ver : e \in Settled}
  OBVIOUS
<1>2. /\ cachePc[t] = "list" /\ doomed' = [doomed EXCEPT ![t] = d]
      /\ UNCHANGED <<entries, order, tagIndex>>
      /\ UNCHANGED <<backend, cacheNow, cacheCalls, op, began, served>>
  BY <1>1 DEF ListTagged, Enumerate, storeVars
<1>3. \/ /\ backend = "redis" /\ cachePc' = [cachePc EXCEPT ![t] = "fetch"]
         /\ toFetch' = [toFetch EXCEPT ![t] = tagIndex] /\ found' = [found EXCEPT ![t] = {}]
      \/ /\ backend # "redis" /\ cachePc' = [cachePc EXCEPT ![t] = "remove"]
         /\ found' = [found EXCEPT ![t] = EntriesOf({k \in Present : Tag \in entries[k].tags})]
         /\ UNCHANGED toFetch
  BY DEF ListTagged, Enumerate, Listed
<1>4. CacheTypeOK
  BY DEF CacheInv
<1>5. \A v \in d : \E k \in Keys : /\ entries[k] # NoEntry /\ entries[k].ver = v /\ Tag \in entries[k].tags
                                   /\ \A u \in Threads : ~(cachePc[u] = "tag" /\ op[u].key = k)
  BY <1>1 DEF Settled, Present, CacheInv, EntryInv
<1>6. d \subseteq 1..MaxCacheCalls /\ \A v \in d : v <= cacheCalls
  BY <1>4, <1>5 DEF CacheTypeOK, Entry, CacheInv, EntryInv
<1>7. /\ doomed' \in [Threads -> SUBSET (1..MaxCacheCalls)] /\ doomed'[t] = d
      /\ \A u \in Threads : u # t => doomed'[u] = doomed[u]
  BY <1>2, <1>4, <1>6 DEF CacheTypeOK
<1>8. /\ cachePc' \in [Threads -> CachePoints] /\ cachePc'[t] \in {"fetch", "remove"}
      /\ toFetch' \in [Threads -> SUBSET Keys] /\ found' \in [Threads -> SUBSET Entry]
      /\ \A u \in Threads : u # t =>
           cachePc'[u] = cachePc[u] /\ toFetch'[u] = toFetch[u] /\ found'[u] = found[u]
  <2>1. /\ cachePc \in [Threads -> CachePoints] /\ toFetch \in [Threads -> SUBSET Keys]
        /\ found \in [Threads -> SUBSET Entry] /\ tagIndex \subseteq Keys
        /\ {"fetch", "remove"} \subseteq CachePoints
    BY <1>4 DEF CacheTypeOK, CachePoints
  <2>2. EntriesOf({k \in Present : Tag \in entries[k].tags}) \subseteq Entry
    BY EntriesOfAreEntries
  <2>3. CASE backend = "redis"
    BY <1>3, <2>1, <2>3
  <2>4. CASE backend # "redis"
    BY <1>3, <2>1, <2>2, <2>4
  <2> QED BY <2>3, <2>4
<1>9. CacheTypeOK'
  BY <1>2, <1>4, <1>7, <1>8 DEF CacheTypeOK
<1>10. EntryInv' /\ LruInv'
  BY <1>2, StoreLeftAlone DEF CacheInv, EntryInv
<1>11. TagInv'
  <2>1. \A u \in Threads : cachePc[u] = "tag" => cachePc'[u] = "tag"
    BY <1>2, <1>8
  <2> QED BY <1>2, <2>1 DEF CacheInv, TagInv
<1>12. DoomOf(t)'
  <2>1. op[t].kind = "invalidate"
    BY <1>2 DEF CacheInv, DoomOf
  <2>2. ASSUME NEW k \in Keys, entries[k] # NoEntry, entries[k].ver \in d
        PROVE  \/ cachePc'[t] = "fetch" /\ k \in toFetch'[t]
               \/ cachePc'[t] = "remove" /\ entries[k] \in found'[t]
    <3>1. Tag \in entries[k].tags /\ \A u \in Threads : ~(cachePc[u] = "tag" /\ op[u].key = k)
      BY <1>5, <2>2 DEF CacheInv, EntryInv
    <3>2. CASE backend = "redis"
      <4>1. k \in tagIndex
        BY <2>2, <3>1, <3>2 DEF CacheInv, TagInv
      <4> QED BY <1>3, <1>4, <3>2, <4>1 DEF CacheTypeOK
    <3>3. CASE backend # "redis"
      <4>1. k \in {l \in Present : Tag \in entries[l].tags} /\ k \in Present
        BY <2>2, <3>1 DEF Present
      <4>2. entries[k] \in EntriesOf({l \in Present : Tag \in entries[l].tags})
        BY <4>1 DEF EntriesOf
      <4> QED BY <1>3, <1>4, <3>3, <4>2 DEF CacheTypeOK
    <3> QED BY <3>2, <3>3
  <2> QED BY <1>2, <1>7, <1>8, <2>1, <2>2 DEF DoomOf
<1>13. ASSUME NEW u \in Threads PROVE DoomOf(u)' /\ ServedOf(u)'
  <2>1. CASE u = t
    BY <1>2, <1>12, <2>1, SameServed
  <2>2. CASE u # t
    BY <1>2, <1>7, <1>8, <2>2, SameServed DEF CacheInv, DoomOf
  <2> QED BY <2>1, <2>2
<1>14. PendingInv'
  <2>1. \A u \in Threads : op'[u].id <= cacheCalls' /\ \A v \in doomed'[u] : v <= cacheCalls'
    BY <1>2, <1>6, <1>7 DEF CacheInv, PendingInv
  <2>2. op[t].kind = "invalidate"
    BY <1>2 DEF CacheInv, DoomOf
  <2>3. \A u \in Threads : MayStore(u)' => u # t /\ MayStore(u)
    BY <1>2, <1>8, <2>2 DEF MayStore
  <2>4. ASSUME NEW u \in Threads, MayStore(u)'
        PROVE  /\ op'[u].id # 0
               /\ \A w \in Threads :
                    op'[u].id \notin doomed'[w] /\ (MayStore(w)' /\ op'[u].id = op'[w].id => u = w)
               /\ \A k \in Keys : entries'[k].ver # op'[u].id
    <3>1. /\ op[u].id # 0
          /\ \A w \in Threads : op[u].id \notin doomed[w] /\ (MayStore(w) /\ op[u].id = op[w].id => u = w)
          /\ \A k \in Keys : entries[k].ver # op[u].id
      BY <2>3, <2>4 DEF CacheInv, PendingInv
    <3>2. op[u].id \notin d
      BY <1>5, <3>1
    <3>3. \A w \in Threads : op[u].id \notin doomed'[w]
      BY <1>7, <3>1, <3>2
    <3>4. op' = op /\ entries' = entries
      BY <1>2
    <3> QED BY <2>3, <3>1, <3>3, <3>4
  <2> QED BY <2>1, <2>4 DEF PendingInv
<1> QED BY <1>9, <1>10, <1>11, <1>13, <1>14 DEF CacheInv

(* A write puts its own number in the place of its key.                    *)
LEMMA StoreKeeps ==
  ASSUME CacheInv, NEW t \in Threads, Store(t)
  PROVE  CacheInv'
<1>1. PICK tags \in SUBSET {Tag} :
        /\ Moves(cachePc, t, "compute", IF backend = "redis" /\ tags # {} THEN "tag" ELSE "idle")
        /\ Put([ver |-> op[t].id, key |-> op[t].key, created |-> cacheNow, tags |-> tags])
  BY DEF Store
<1>2. PICK e : e = [ver |-> op[t].id, key |-> op[t].key, created |-> cacheNow, tags |-> tags]
  OBVIOUS
<1>3. PICK k : k = op[t].key
  OBVIOUS
<1>4. /\ cachePc[t] = "compute" /\ Put(e)
      /\ cachePc' = [cachePc EXCEPT ![t] = IF backend = "redis" /\ tags # {} THEN "tag" ELSE "idle"]
      /\ UNCHANGED <<backend, tagIndex, cacheNow, cacheCalls, op, began, found, toFetch, served, doomed>>
  BY <1>1, <1>2 DEF Store, Moves
<1>5. CacheTypeOK /\ LruInv /\ DoomOf(t) /\ ServedOf(t)
  BY DEF CacheInv
<1>6. MayStore(t)
  BY <1>4, <1>5 DEF MayStore, DoomOf
<1>7. op[t].id \in 1..MaxCacheCalls /\ op[t].id <= cacheCalls /\ k \in Keys
  <2>1. op[t].id \in 0..MaxCacheCalls /\ k \in Keys
    BY <1>3, <1>5 DEF CacheTypeOK, Ops
  <2> QED BY <1>6, <2>1, CacheAssumption DEF CacheInv, PendingInv
<1>8. e \in Entry /\ e.key = k /\ e.ver = op[t].id /\ e.tags = tags /\ e # NoEntry
  <2>1. e \in Entry
    BY <1>2, <1>3, <1>5, <1>7 DEF CacheTypeOK, Entry
  <2> QED BY <1>2, <1>3, <2>1, EntriesHaveNumbers
<1>9. /\ order' \in Seq(Keys) /\ LruInv'
      /\ entries' \in [Keys -> Entry \cup {NoEntry}] /\ entries'[k] = e
      /\ \A l \in Keys : l # k => entries'[l] \in {entries[l], NoEntry}
  <2>1. UNCHANGED backend
    BY <1>4
  <2> QED BY <1>4, <1>5, <1>8, <2>1, PutKeepsOrder
<1>10. /\ cachePc' \in [Threads -> CachePoints] /\ cachePc'[t] \in {"tag", "idle"}
       /\ backend = "redis" /\ tags # {} => cachePc'[t] = "tag"
       /\ \A u \in Threads : u # t => cachePc'[u] = cachePc[u]
  BY <1>4, <1>5 DEF CacheTypeOK, CachePoints
<1>11. CacheTypeOK'
  BY <1>4, <1>5, <1>9, <1>10 DEF CacheTypeOK
<1>12. \A l \in Keys : entries[l].ver # e.ver
  BY <1>6, <1>8 DEF CacheInv, PendingInv
<1>13. EntryInv'
  <2>1. \A l \in Keys : entries'[l] # NoEntry => entries'[l].key = l /\ entries'[l].ver <= cacheCalls'
    <3> SUFFICES ASSUME NEW l \in Keys, entries'[l] # NoEntry
                 PROVE  entries'[l].key = l /\ entries'[l].ver <= cacheCalls
      BY <1>4
    <3>1. CASE l = k
      BY <1>7, <1>8, <1>9, <3>1
    <3>2. CASE l # k
      BY <1>9, <3>2 DEF CacheInv, EntryInv
    <3> QED BY <3>1, <3>2
  <2>2. ASSUME NEW l \in Keys, NEW m \in Keys, entries'[l] # NoEntry, entries'[m] # NoEntry,
               entries'[l].ver = entries'[m].ver
        PROVE  l = m
    <3>1. CASE l # k /\ m # k
      BY <1>9, <2>2, <3>1 DEF CacheInv, EntryInv
    <3>2. CASE l = k \/ m = k
      BY <1>9, <1>12, <2>2, <3>2
    <3> QED BY <3>1, <3>2
  <2> QED BY <2>1, <2>2 DEF EntryInv
<1>14. \A u \in Threads : MayStore(u)' => u # t /\ MayStore(u)
  BY <1>4, <1>10 DEF MayStore
<1>15. PendingInv'
  <2>1. \A u \in Threads : op'[u].id <= cacheCalls' /\ \A v \in doomed'[u] : v <= cacheCalls'
    BY <1>4 DEF CacheInv, PendingInv
  <2>2. ASSUME NEW u \in Threads, MayStore(u)'
        PROVE  /\ op'[u].id # 0
               /\ \A w \in Threads :
                    op'[u].id \notin doomed'[w] /\ (MayStore(w)' /\ op'[u].id = op'[w].id => u = w)
               /\ \A l \in Keys : entries'[l].ver # op'[u].id
    <3>1. /\ op[u].id # 0
          /\ \A w \in Threads : op[u].id \notin doomed[w] /\ (MayStore(w) /\ op[u].id = op[w].id => u = w)
          /\ \A l \in Keys : entries[l].ver # op[u].id
      BY <1>14, <2>2 DEF CacheInv, PendingInv
    <3>2. u # t /\ op[u].id # e.ver
      BY <1>6, <1>8, <1>14, <2>2, <3>1
    <3>3. \A l \in Keys : entries'[l].ver # op[u].id
      BY <1>9, <3>1, <3>2, EntriesHaveNumbers
    <3>4. op' = op /\ doomed' = doomed
      BY <1>4
    <3> QED BY <1>14, <3>1, <3>3, <3>4
  <2> QED BY <2>1, <2>2 DEF PendingInv
<1>16. TagInv'
  <2> SUFFICES ASSUME backend = "redis", NEW l \in Keys, entries'[l] # NoEntry,
                      Tag \in entries'[l].tags
               PROVE  l \in tagIndex \/ \E u \in Threads : cachePc'[u] = "tag" /\ op[u].key = l
    BY <1>4 DEF TagInv
  <2>1. CASE l = k
    BY <1>3, <1>8, <1>9, <1>10, <2>1
  <2>2. CASE l # k
    <3>1. l \in tagIndex \/ \E u \in Threads : cachePc[u] = "tag" /\ op[u].key = l
      BY <1>9, <2>2 DEF CacheInv, TagInv
    <3>2. \A u \in Threads : cachePc[u] = "tag" => cachePc'[u] = "tag"
      BY <1>4, <1>10
    <3> QED BY <3>1, <3>2
  <2> QED BY <2>1, <2>2
<1>17. ASSUME NEW u \in Threads PROVE DoomOf(u)' /\ ServedOf(u)'
  <2>1. ServedOf(u)'
    BY <1>4, SameServed
  <2>2. e.ver \notin doomed[u] /\ DoomOf(u)
    BY <1>6, <1>8 DEF CacheInv, PendingInv
  <2>3. \A l \in Keys : entries'[l] # NoEntry /\ entries'[l].ver \in doomed[u] => entries'[l] = entries[l]
    BY <1>9, <2>2
  <2>4. CASE u = t
    <3>1. doomed[t] = {} /\ op[t].kind # "invalidate"
      BY <1>4, <1>6, NothingDoomed DEF MayStore
    <3> QED BY <1>4, <1>10, <2>1, <2>4, <3>1 DEF DoomOf
  <2>5. CASE u # t
    <3>1. /\ cachePc'[u] = cachePc[u] /\ op' = op /\ doomed' = doomed /\ toFetch' = toFetch
          /\ found' = found /\ backend' = backend
      BY <1>4, <1>10, <2>5
    <3> QED BY <2>1, <2>2, <2>3, <3>1 DEF DoomOf
  <2> QED BY <2>4, <2>5
<1> QED BY <1>9, <1>11, <1>13, <1>15, <1>16, <1>17 DEF CacheInv

LEMMA CacheStepKeeps == CacheInv /\ [CacheNext]_cacheVars => CacheInv'
<1> SUFFICES ASSUME CacheInv, [CacheNext]_cacheVars PROVE CacheInv'
  OBVIOUS
<1>1. ASSUME NEW t \in Threads, CacheStep(t) PROVE CacheInv'
  <2>1. ASSUME NEW kind \in {"get", "cached", "set", "invalidate"}, NEW k \in Keys, Call(t, kind, k)
        PROVE  CacheInv'
    BY <2>1, CallKeeps
  <2>2. CASE Lookup(t) \/ EvictExact(t) \/ Scan(t) \/ FetchOne(t) \/ FetchedAll(t)
    BY <2>2, LookupKeeps, EvictExactKeeps, ScanKeeps, FetchOneKeeps, FetchedAllKeeps
  <2>3. CASE SweepOne(t) \/ FinishGet(t) \/ Store(t) \/ AddToTag(t)
    BY <2>3, SweepOneKeeps, FinishGetKeeps, StoreKeeps, AddToTagKeeps
  <2>4. CASE ListTagged(t) \/ RemoveOne(t) \/ FinishInvalidate(t) \/ ReturnInvalidate(t)
    BY <2>4, ListTaggedKeeps, RemoveOneKeeps, FinishInvalidateKeeps, ReturnInvalidateKeeps
  <2>5. CASE InvalidateAll(t) \/ ListAll(t) \/ DeleteAll(t)
    BY <2>5, InvalidateAllKeeps, ListAllKeeps, DeleteAllKeeps
  <2> QED BY <1>1, <2>1, <2>2, <2>3, <2>4, <2>5 DEF CacheStep
<1>2. CASE UNCHANGED cacheVars
  <2>1. UNCHANGED <<entries, order, tagIndex, backend, cacheNow, cacheCalls, cachePc, op, began,
                    found, toFetch, served, doomed>>
    BY <1>2 DEF cacheVars, storeVars
  <2>2. CacheTypeOK' /\ EntryInv' /\ PendingInv' /\ TagInv'
    BY <2>1 DEF CacheInv, CacheTypeOK, EntryInv, PendingInv, TagInv, MayStore
  <2>3. LruInv'
    BY <2>1, StoreLeftAlone
  <2>4. \A t \in Threads : DoomOf(t)' /\ ServedOf(t)'
    BY <2>1 DEF CacheInv, DoomOf, ServedOf
  <2> QED BY <2>2, <2>3, <2>4 DEF CacheInv
<1> QED BY <1>1, <1>2, ServerExpiresKeeps, CacheTickKeeps DEF CacheNext

LEMMA CacheInvGives == CacheInv => CacheIsCurrent
<1> SUFFICES ASSUME CacheInv PROVE CacheIsCurrent
  OBVIOUS
<1>1. ServedWasLive
  BY DEF CacheInv, ServedOf, ServedWasLive
<1>2. InvalidatedIsGone
  BY DEF CacheInv, DoomOf, InvalidatedIsGone, Present
<1>3. LruBounded
  BY DEF CacheInv, LruInv, LruBounded
<1> QED BY <1>1, <1>2, <1>3 DEF CacheIsCurrent

(* Whatever other threads write, evict or forget meanwhile, and whatever   *)
(* Redis expires: a hit was live when the get began and similar enough,    *)
(* what was stored under a tag before invalidate_by_tag listed it is gone  *)
(* when it returns, and the LRU order is the store, max_size at most.      *)
THEOREM CacheServesWhatIsCurrent == CacheSpec => []CacheIsCurrent
BY CacheInitial, CacheStepKeeps, CacheInvGives, PTL DEF CacheSpec

(* The variables of the cache keep to their types.                         *)
THEOREM CacheTypes == CacheSpec => []CacheTypeOK
<1>1. CacheInv => CacheTypeOK
  BY DEF CacheInv
<1> QED BY <1>1, CacheInitial, CacheStepKeeps, PTL DEF CacheSpec
-----------------------------------------------------------------------------
(* The ring of recent traces *)

TraceRec == [id : TraceIds, events : Seq(Nat)]
LogRec   == [trace : TraceIds, kind : Kinds]
StoreRec == [max : MaxTraces, traces : Seq(TraceRec), last : TraceIds \cup {0}, log : Seq(LogRec)]

(* Said without cardinalities and maxima: trace a has been active after b  *)
(* was last; at least max_traces others have been active since event n.    *)
After(s, a, b) ==
  \E m \in DOMAIN s.log : /\ s.log[m].trace = a
                          /\ \A n \in DOMAIN s.log : s.log[n].trace = b => n < m

Since(s, n) == {s.log[m].trace : m \in {j \in DOMAIN s.log : j > n}} \ {s.log[n].trace}

ManySince(s, n) ==
  \E f \in [1..s.max -> TraceIds] : IsInjective(f) /\ \A k \in 1..s.max : f[k] \in Since(s, n)

InRing(s, id) == \E i \in DOMAIN s.traces : s.traces[i].id = id

(* The ring: traces apart and in the order of their last activity, behind  *)
(* them those it has dropped; and what it no longer has was dropped when   *)
(* it was full of more recent ones.                                        *)
RingOK(s) ==
  /\ Len(s.traces) <= s.max
  /\ \A i, j \in DOMAIN s.traces : s.traces[i].id = s.traces[j].id => i = j
  /\ \A i \in DOMAIN s.traces : EndsGapless(s, s.traces[i].id, s.traces[i].events)
  /\ \A i, j \in DOMAIN s.traces : i < j => After(s, s.traces[j].id, s.traces[i].id)
  /\ \A i \in DOMAIN s.traces, n \in DOMAIN s.log :
       ~InRing(s, s.log[n].trace) => After(s, s.traces[i].id, s.log[n].trace)
  /\ Len(s.traces) < s.max => \A n \in DOMAIN s.log : InRing(s, s.log[n].trace)
  /\ \A n \in DOMAIN s.log :
       \/ \E i \in DOMAIN s.traces : s.traces[i].id = s.log[n].trace /\ n \in ToSet(s.traces[i].events)
       \/ ManySince(s, n)
  /\ \A n \in DOMAIN s.log :
       s.log[n].kind = "agent" /\ (\A m \in DOMAIN s.log : m > n => s.log[m].kind # "agent") =>
         s.last = s.log[n].trace

RingInv == stores \in Seq(StoreRec) /\ \A i \in DOMAIN stores : RingOK(stores[i])

LEMMA FreshIsOK ==
  ASSUME NEW max \in MaxTraces
  PROVE  Fresh(max) \in StoreRec /\ RingOK(Fresh(max))
<1>1. max \in Nat \ {0}
  BY StoreAssumption
<1>2. Fresh(max) \in StoreRec
  BY DEF Fresh, StoreRec
<1>3. /\ Fresh(max).traces = <<>> /\ Fresh(max).log = <<>> /\ Fresh(max).max = max
      /\ DOMAIN <<>> = {} /\ Len(<<>>) = 0
  BY DEF Fresh
<1>4. RingOK(Fresh(max))
  BY <1>1, <1>3 DEF RingOK
<1> QED BY <1>2, <1>4

(* The place of a trace is found by its id.                                *)
LEMMA PlaceOfTrace ==
  ASSUME NEW s \in StoreRec, RingOK(s), NEW p \in DOMAIN s.traces
  PROVE  SelectInSeq(s.traces, LAMBDA r : r.id = s.traces[p].id) = p
<1>1. s.traces \in Seq(TraceRec)
  BY DEF StoreRec
<1>2. PICK n \in Nat : n = Len(s.traces) /\ DOMAIN s.traces = 1..n
  BY <1>1
<1>3. {i \in 1..n : s.traces[i].id = s.traces[p].id} = {p}
  BY <1>2 DEF RingOK
<1>4. Min({p}) = p
  BY <1>2 DEF Min
<1> QED BY <1>2, <1>3, <1>4 DEF SelectInSeq

(* One event more in the log.                                              *)
LEMMA LogGrows ==
  ASSUME NEW s \in StoreRec, NEW r \in StoreRec, NEW e \in LogRec, r.log = Append(s.log, e)
  PROVE  \E n \in Nat : /\ n = Len(s.log) /\ DOMAIN s.log = 1..n /\ DOMAIN r.log = 1..(n + 1)
                        /\ r.log[n + 1] = e /\ \A i \in 1..n : r.log[i] = s.log[i]
<1>1. s.log \in Seq(LogRec)
  BY DEF StoreRec
<1>2. PICK n \in Nat : n = Len(s.log) /\ DOMAIN s.log = 1..n
  BY <1>1
<1>3. DOMAIN r.log = 1..(n + 1)
  BY <1>1, <1>2
<1>4. r.log[n + 1] = e
  BY <1>1, <1>2
<1>5. \A i \in 1..n : r.log[i] = s.log[i]
  BY <1>1, <1>2
<1> QED BY <1>2, <1>3, <1>4, <1>5

LEMMA SinceGrows ==
  ASSUME NEW s \in StoreRec, NEW r \in StoreRec, NEW e \in LogRec, r.log = Append(s.log, e),
         r.max = s.max, NEW n \in DOMAIN s.log
  PROVE  /\ Since(s, n) \subseteq Since(r, n)
         /\ ManySince(s, n) => ManySince(r, n)
         /\ e.trace # s.log[n].trace => e.trace \in Since(r, n)
<1>1. PICK k \in Nat : /\ k = Len(s.log) /\ DOMAIN s.log = 1..k /\ DOMAIN r.log = 1..(k + 1)
                       /\ r.log[k + 1] = e /\ \A i \in 1..k : r.log[i] = s.log[i]
  BY LogGrows
<1>2. Since(s, n) \subseteq Since(r, n)
  <2> SUFFICES ASSUME NEW m \in 1..k, m > n, s.log[m].trace # s.log[n].trace
               PROVE  s.log[m].trace \in Since(r, n)
    BY <1>1 DEF Since
  <2>1. m \in 1..(k + 1) /\ r.log[m] = s.log[m] /\ r.log[n] = s.log[n]
    BY <1>1
  <2> QED BY <1>1, <2>1 DEF Since
<1>3. ManySince(s, n) => ManySince(r, n)
  BY <1>2 DEF ManySince
<1>4. e.trace # s.log[n].trace => e.trace \in Since(r, n)
  <2>1. k + 1 \in 1..(k + 1) /\ k + 1 > n /\ r.log[n] = s.log[n] /\ r.log[k + 1].trace = e.trace
    BY <1>1
  <2> QED BY <1>1, <2>1 DEF Since
<1> QED BY <1>2, <1>3, <1>4

LEMMA AfterStays ==
  ASSUME NEW s \in StoreRec, NEW r \in StoreRec, NEW e \in LogRec, r.log = Append(s.log, e),
         NEW a, NEW b, b # e.trace
  PROVE  (After(s, a, b) => After(r, a, b)) /\ After(r, e.trace, b)
<1>1. PICK k \in Nat : /\ k = Len(s.log) /\ DOMAIN s.log = 1..k /\ DOMAIN r.log = 1..(k + 1)
                       /\ r.log[k + 1] = e /\ \A i \in 1..k : r.log[i] = s.log[i]
  BY LogGrows
<1>2. \A n \in 1..(k + 1) : r.log[n].trace = b => n \in 1..k /\ s.log[n].trace = b /\ n < k + 1
  BY <1>1
<1>3. After(s, a, b) => After(r, a, b)
  BY <1>1, <1>2 DEF After
<1>4. k + 1 \in 1..(k + 1) /\ r.log[k + 1].trace = e.trace
  BY <1>1
<1>5. After(r, e.trace, b)
  BY <1>1, <1>2, <1>4 DEF After
<1> QED BY <1>3, <1>5

LEMMA GaplessStays ==
  ASSUME NEW s \in StoreRec, NEW r \in StoreRec, NEW e \in LogRec, r.log = Append(s.log, e),
         NEW b, b # e.trace, NEW got, EndsGapless(s, b, got)
  PROVE  EndsGapless(r, b, got)
<1>1. PICK k \in Nat : /\ k = Len(s.log) /\ DOMAIN s.log = 1..k /\ DOMAIN r.log = 1..(k + 1)
                       /\ r.log[k + 1] = e /\ \A i \in 1..k : r.log[i] = s.log[i]
  BY LogGrows
<1>2. {n \in 1..(k + 1) : r.log[n].trace = b /\ n >= got[1]} = {n \in 1..k : s.log[n].trace = b /\ n >= got[1]}
  BY <1>1
<1> QED BY <1>1, <1>2 DEF EndsGapless

(* An event is recorded: its trace comes last, the others keep their order *)
(* (f says where each was), and at most the first of a full ring goes.     *)
LEMMA RingStep ==
  ASSUME NEW s \in StoreRec, RingOK(s), NEW r \in StoreRec, NEW e \in LogRec,
         r.log = Append(s.log, e), r.max = s.max,
         r.last = IF e.kind = "agent" THEN e.trace ELSE s.last,
         NEW q \in Nat, Len(r.traces) = q + 1, q + 1 <= s.max, Len(s.traces) <= q + 1,
         r.traces[q + 1].id = e.trace, EndsGapless(r, e.trace, r.traces[q + 1].events),
         Len(s.log) + 1 \in ToSet(r.traces[q + 1].events),
         \A j \in DOMAIN s.traces :
           s.traces[j].id = e.trace => ToSet(s.traces[j].events) \subseteq ToSet(r.traces[q + 1].events),
         NEW f \in [1..q -> DOMAIN s.traces],
         \A i \in 1..q : r.traces[i] = s.traces[f[i]] /\ s.traces[f[i]].id # e.trace,
         \A i, j \in 1..q : i < j => f[i] < f[j],
         \A j \in DOMAIN s.traces :
           \/ s.traces[j].id = e.trace
           \/ \E i \in 1..q : f[i] = j
           \/ j = 1 /\ Len(s.traces) = s.max /\ q + 1 = s.max /\ ~InRing(s, e.trace)
  PROVE  RingOK(r)
<1>1. PICK k \in Nat : /\ k = Len(s.log) /\ DOMAIN s.log = 1..k /\ DOMAIN r.log = 1..(k + 1)
                       /\ r.log[k + 1] = e /\ \A i \in 1..k : r.log[i] = s.log[i]
  BY LogGrows
<1>2. /\ s.traces \in Seq(TraceRec) /\ r.traces \in Seq(TraceRec) /\ DOMAIN r.traces = 1..(q + 1)
      /\ s.max \in Nat \ {0} /\ DOMAIN s.traces = 1..Len(s.traces) /\ Len(s.traces) \in Nat
  <2>1. s.traces \in Seq(TraceRec) /\ r.traces \in Seq(TraceRec) /\ s.max \in MaxTraces
    BY DEF StoreRec
  <2>2. DOMAIN s.traces = 1..Len(s.traces) /\ Len(s.traces) \in Nat
    BY <2>1
  <2>3. DOMAIN r.traces = 1..(q + 1)
    BY <2>1
  <2> QED BY <2>1, <2>2, <2>3, StoreAssumption
<1>a. InRing(r, e.trace)
  <2>1. q + 1 \in DOMAIN r.traces
    BY <1>2
  <2> QED BY <2>1 DEF InRing
<1>b. \A i \in 1..q : /\ f[i] \in DOMAIN s.traces /\ r.traces[i] = s.traces[f[i]]
                      /\ r.traces[i].id # e.trace
  OBVIOUS
<1>c. ASSUME NEW a, NEW b, b # e.trace, After(s, a, b) PROVE After(r, a, b)
  BY <1>c, AfterStays
<1>d. ASSUME NEW b, b # e.trace PROVE After(r, e.trace, b)
  BY <1>d, AfterStays
<1>3. \A i \in 1..(q + 1) : i \in 1..q \/ i = q + 1
  OBVIOUS
<1>4. \A i \in 1..(q + 1) : r.traces[i].id = e.trace <=> i = q + 1
  BY <1>3
<1>5. \A i, j \in 1..(q + 1) : r.traces[i].id = r.traces[j].id => i = j
  <2> SUFFICES ASSUME NEW i \in 1..(q + 1), NEW j \in 1..(q + 1), r.traces[i].id = r.traces[j].id
               PROVE  i = j
    OBVIOUS
  <2>1. CASE i = q + 1 \/ j = q + 1
    BY <1>4, <2>1
  <2>2. CASE i \in 1..q /\ j \in 1..q
    <3>1. f[i] = f[j]
      <4>1. \A a, b \in DOMAIN s.traces : s.traces[a].id = s.traces[b].id => a = b
        BY DEF RingOK
      <4>2. f[i] \in DOMAIN s.traces /\ f[j] \in DOMAIN s.traces
            /\ s.traces[f[i]].id = s.traces[f[j]].id
        BY <1>b, <2>2
      <4> QED BY <4>1, <4>2
    <3>2. i \in Nat /\ j \in Nat /\ f[i] \in Nat
      BY <1>2, <1>b, <2>2
    <3>3. ~(i < j) /\ ~(j < i)
      BY <2>2, <3>1, <3>2
    <3> QED BY <3>2, <3>3
  <2> QED BY <1>3, <2>1, <2>2
<1>6. ASSUME NEW i \in 1..(q + 1) PROVE EndsGapless(r, r.traces[i].id, r.traces[i].events)
  <2>1. CASE i = q + 1
    BY <2>1
  <2>2. CASE i \in 1..q
    BY <2>2, GaplessStays DEF RingOK
  <2> QED BY <1>3, <2>1, <2>2
<1>7. ASSUME NEW i \in 1..(q + 1), NEW j \in 1..(q + 1), i < j
      PROVE  After(r, r.traces[j].id, r.traces[i].id)
  <2>1. i \in 1..q /\ r.traces[i].id # e.trace
    BY <1>3, <1>7
  <2>2. CASE j = q + 1
    BY <1>d, <2>1, <2>2
  <2>3. CASE j \in 1..q
    <3>1. After(s, s.traces[f[j]].id, s.traces[f[i]].id)
      BY <1>7, <1>b, <2>1, <2>3 DEF RingOK
    <3>2. After(s, r.traces[j].id, r.traces[i].id)
      BY <1>b, <2>1, <2>3, <3>1
    <3> QED BY <1>c, <2>1, <3>2
  <2> QED BY <1>3, <2>2, <2>3
<1>8. ASSUME NEW b, ~InRing(r, b), NEW n \in 1..(k + 1), r.log[n].trace = b
      PROVE  /\ b # e.trace /\ n \in 1..k /\ s.log[n].trace = b
             /\ InRing(s, b) => b = s.traces[1].id /\ 1 \in DOMAIN s.traces /\ Len(s.traces) = s.max
                                /\ q + 1 = s.max /\ ~InRing(s, e.trace)
  <2>1. b # e.trace
    BY <1>8, <1>a
  <2>2. n \in 1..k /\ s.log[n].trace = b
    BY <1>1, <1>8, <2>1
  <2>3. ASSUME NEW j \in DOMAIN s.traces, s.traces[j].id = b, NEW i \in 1..q, f[i] = j PROVE FALSE
    <3>1. i \in DOMAIN r.traces /\ r.traces[i].id = b
      BY <1>2, <2>3
    <3> QED BY <1>8, <3>1 DEF InRing
  <2> QED BY <2>1, <2>2, <2>3, ZenonT(60) DEF InRing
<1>9. ASSUME NEW i \in 1..(q + 1), NEW n \in 1..(k + 1), ~InRing(r, r.log[n].trace)
      PROVE  After(r, r.traces[i].id, r.log[n].trace)
  <2>1. PICK b : b = r.log[n].trace
    OBVIOUS
  <2>2. b # e.trace /\ n \in 1..k /\ s.log[n].trace = b
    BY <1>8, <1>9, <2>1
  <2>3. CASE i = q + 1
    BY <1>d, <2>1, <2>2, <2>3
  <2>4. CASE i \in 1..q
    <3>1. After(s, s.traces[f[i]].id, b)
      <4>1. CASE InRing(s, b)
        <5>1. b = s.traces[1].id /\ 1 \in DOMAIN s.traces
          BY <1>8, <1>9, <2>1, <4>1
        <5>2. f[i] # 1
          <6>1. i \in DOMAIN r.traces
            BY <1>2
          <6> QED BY <1>9, <2>1, <2>4, <5>1, <6>1 DEF InRing
        <5>3. 1 < f[i]
          BY <1>2, <2>4, <5>2
        <5> QED BY <1>b, <2>4, <5>1, <5>3 DEF RingOK
      <4>2. CASE ~InRing(s, b)
        BY <1>1, <1>b, <2>2, <2>4, <4>2 DEF RingOK
      <4> QED BY <4>1, <4>2
    <3>2. After(s, r.traces[i].id, b)
      BY <1>b, <2>4, <3>1
    <3> QED BY <1>c, <2>1, <2>2, <3>2
  <2> QED BY <1>3, <2>3, <2>4
<1>10. ASSUME q + 1 < s.max, NEW n \in 1..(k + 1) PROVE InRing(r, r.log[n].trace)
  <2>1. SUFFICES ASSUME ~InRing(r, r.log[n].trace) PROVE FALSE
    OBVIOUS
  <2>a. q + 1 # s.max
    BY <1>2, <1>10
  <2>2. n \in 1..k /\ ~InRing(s, s.log[n].trace)
    BY <1>8, <2>1, <2>a
  <2>3. Len(s.traces) < s.max
    BY <1>2, <1>10
  <2> QED BY <1>1, <2>2, <2>3 DEF RingOK
<1>11. ASSUME NEW n \in 1..(k + 1)
       PROVE  \/ \E i \in 1..(q + 1) : r.traces[i].id = r.log[n].trace /\ n \in ToSet(r.traces[i].events)
              \/ ManySince(r, n)
  <2>1. CASE n = k + 1
    BY <1>1, <2>1
  <2>2. CASE n \in 1..k
    <3>1. n \in DOMAIN s.log /\ r.log[n] = s.log[n]
      BY <1>1, <2>2
    <3>2. CASE ManySince(s, n)
      BY <3>1, <3>2, SinceGrows
    <3>3. ASSUME NEW j \in DOMAIN s.traces, s.traces[j].id = s.log[n].trace, n \in ToSet(s.traces[j].events)
          PROVE  \/ \E i \in 1..(q + 1) : r.traces[i].id = r.log[n].trace /\ n \in ToSet(r.traces[i].events)
                 \/ ManySince(r, n)
      <4>1. CASE s.traces[j].id = e.trace
        <5>1. q + 1 \in 1..(q + 1)
          OBVIOUS
        <5>2. n \in ToSet(r.traces[q + 1].events)
          <6>1. ToSet(s.traces[j].events) \subseteq ToSet(r.traces[q + 1].events)
            BY <3>3, <4>1
          <6> QED BY <3>3, <6>1
        <5>3. r.traces[q + 1].id = r.log[n].trace
          BY <3>1, <3>3, <4>1
        <5> QED BY <5>1, <5>2, <5>3
      <4>2. ASSUME NEW i \in 1..q, f[i] = j
            PROVE  \E l \in 1..(q + 1) : r.traces[l].id = r.log[n].trace /\ n \in ToSet(r.traces[l].events)
        <5>1. i \in 1..(q + 1) /\ r.traces[i] = s.traces[j]
          BY <4>2
        <5> QED BY <3>1, <3>3, <5>1
      <4>3. CASE j = 1 /\ Len(s.traces) = s.max /\ q + 1 = s.max /\ ~InRing(s, e.trace)
        <5> DEFINE g == [l \in 1..s.max |-> IF l = 1 THEN e.trace ELSE s.traces[l].id]
        <5>1. \A l \in 1..s.max : s.traces[l].id \in TraceIds /\ s.traces[l].id # e.trace
          <6> SUFFICES ASSUME NEW l \in 1..s.max
                       PROVE  s.traces[l].id \in TraceIds /\ s.traces[l].id # e.trace
            OBVIOUS
          <6>1. l \in DOMAIN s.traces
            BY <1>2, <4>3
          <6>2. s.traces[l] \in TraceRec
            BY <1>2, <6>1
          <6> QED BY <4>3, <6>1, <6>2 DEF InRing, TraceRec
        <5>2. g \in [1..s.max -> TraceIds]
          BY <5>1 DEF LogRec
        <5>3. IsInjective(g)
          BY <1>2, <4>3, <5>1 DEF IsInjective, RingOK
        <5>4. \A l \in 1..s.max : g[l] \in Since(r, n)
          <6> SUFFICES ASSUME NEW l \in 1..s.max PROVE g[l] \in Since(r, n)
            OBVIOUS
          <6>1. CASE l = 1
            <7>1. g[l] = e.trace /\ e.trace # s.log[n].trace
              BY <1>2, <3>3, <4>3, <5>1, <6>1
            <7> QED BY <3>1, <7>1, SinceGrows
          <6>2. CASE l # 1
            <7>1. g[l] = s.traces[l].id /\ l \in DOMAIN s.traces /\ 1 < l
              BY <1>2, <4>3, <6>2
            <7>2. After(s, s.traces[l].id, s.log[n].trace) /\ s.traces[l].id # s.log[n].trace
              <8>1. s.log[n].trace = s.traces[1].id /\ 1 \in DOMAIN s.traces
                BY <3>3, <4>3
              <8> QED BY <7>1, <8>1 DEF RingOK
            <7>3. PICK m \in 1..k : s.log[m].trace = s.traces[l].id /\ n < m
              BY <1>1, <3>1, <7>2 DEF After
            <7>4. s.traces[l].id \in Since(s, n)
              BY <1>1, <2>2, <7>2, <7>3 DEF Since
            <7> QED BY <3>1, <7>1, <7>4, SinceGrows, SMTT(30)
          <6> QED BY <6>1, <6>2
        <5> HIDE DEF g
        <5> QED BY <5>2, <5>3, <5>4 DEF ManySince
      <4> QED BY <4>1, <4>2, <4>3
    <3> QED BY <3>1, <3>2, <3>3 DEF RingOK
  <2> QED BY <1>1, <2>1, <2>2
<1>12. ASSUME NEW n \in 1..(k + 1), r.log[n].kind = "agent",
              \A m \in 1..(k + 1) : m > n => r.log[m].kind # "agent"
       PROVE  r.last = r.log[n].trace
  <2>1. CASE n = k + 1
    BY <1>1, <1>12, <2>1
  <2>2. CASE n \in 1..k
    <3>1. k + 1 \in 1..(k + 1) /\ k + 1 > n
      BY <2>2
    <3>2. e.kind # "agent"
      BY <1>1, <1>12, <3>1
    <3>3. \A m \in 1..k : m > n => s.log[m].kind # "agent"
      <4> SUFFICES ASSUME NEW m \in 1..k, m > n PROVE s.log[m].kind # "agent"
        OBVIOUS
      <4>1. m \in 1..(k + 1)
        OBVIOUS
      <4> QED BY <1>1, <1>12, <4>1
    <3>4. s.log[n] = r.log[n]
      BY <1>1, <2>2
    <3>5. s.last = s.log[n].trace
      BY <1>1, <1>12, <2>2, <3>3, <3>4, ZenonT(60) DEF RingOK
    <3> QED BY <3>2, <3>4, <3>5
  <2> QED BY <1>1, <2>1, <2>2
<1> QED BY <1>1, <1>2, <1>5, <1>6, <1>7, <1>9, <1>10, <1>11, <1>12, ZenonT(60) DEF RingOK

(* The places of the ring before the event is added: a known trace moves   *)
(* to the end, a new one is put there, in a full ring for the first.       *)
RingStepsTo(s, id, ring, q, f) ==
  /\ ring \in Seq(TraceRec) /\ Len(ring) = q + 1 /\ q + 1 <= s.max /\ Len(s.traces) <= q + 1
  /\ ring[q + 1].id = id
  /\ \A i \in 1..q : ring[i] = s.traces[f[i]] /\ s.traces[f[i]].id # id
  /\ \A i, j \in 1..q : i < j => f[i] < f[j]
  /\ \A j \in DOMAIN s.traces :
       \/ s.traces[j].id = id
       \/ \E i \in 1..q : f[i] = j
       \/ j = 1 /\ Len(s.traces) = s.max /\ q + 1 = s.max /\ ~InRing(s, id)
  /\ IF InRing(s, id) THEN \E p \in DOMAIN s.traces : ring[q + 1] = s.traces[p]
                      ELSE ring[q + 1].events = <<>>

LEMMA MovedToTheEnd ==
  ASSUME NEW s \in StoreRec, RingOK(s), NEW id \in TraceIds, InRing(s, id)
  PROVE  \E q \in Nat : \E f \in [1..q -> DOMAIN s.traces] : RingStepsTo(s, id, Moved(s, id), q, f)
<1>1. PICK n \in Nat : /\ s.traces \in Seq(TraceRec) /\ n = Len(s.traces) /\ DOMAIN s.traces = 1..n
                       /\ n <= s.max
  BY DEF StoreRec, RingOK
<1>2. PICK p \in 1..n : s.traces[p].id = id
  BY <1>1 DEF InRing
<1>3. \A i \in 1..n : s.traces[i].id = id => i = p
  BY <1>1, <1>2 DEF RingOK
<1>4. SelectInSeq(s.traces, LAMBDA r : r.id = id) = p
  <2>1. SelectInSeq(s.traces, LAMBDA r : r.id = s.traces[p].id) = p
    BY <1>1, PlaceOfTrace
  <2> QED BY <1>2, <2>1
<1>5. PICK a : a = RemoveAt(s.traces, p)
  OBVIOUS
<1>6. PICK ring : ring = Append(a, s.traces[p])
  OBVIOUS
<1>7. Moved(s, id) = ring
  BY <1>4, <1>5, <1>6 DEF Moved
<1>8. /\ a \in Seq(TraceRec) /\ Len(a) = n - 1
      /\ \A i \in DOMAIN a :
           \/ i < p /\ i \in 1..n /\ a[i] = s.traces[i]
           \/ i >= p /\ i + 1 \in 1..n /\ a[i] = s.traces[i + 1]
  <2>1. p \in DOMAIN s.traces /\ s.traces \in Seq(TraceRec)
    BY <1>1, <1>2
  <2>2. /\ a \in Seq(TraceRec) /\ Len(a) = Len(s.traces) - 1
        /\ \A i \in DOMAIN a :
             \/ i < p /\ i \in DOMAIN s.traces /\ a[i] = s.traces[i]
             \/ i >= p /\ i + 1 \in DOMAIN s.traces /\ a[i] = s.traces[i + 1]
    BY <1>5, <2>1, RemoveAtKeepsTheRest, ZenonT(60)
  <2> QED BY <1>1, <2>2
<1>9. PICK q \in Nat : q + 1 = n /\ DOMAIN a = 1..q /\ Len(a) = q
  BY <1>2, <1>8
<1>10. s.traces[p] \in TraceRec
  BY <1>1, <1>2
<1>11. ring \in Seq(TraceRec) /\ Len(ring) = q + 1
  BY <1>6, <1>8, <1>9, <1>10
<1>12. ring[q + 1] = s.traces[p] /\ \A i \in 1..q : ring[i] = a[i]
  BY <1>6, <1>8, <1>9, <1>10
<1> DEFINE f == [i \in 1..q |-> IF i < p THEN i ELSE i + 1]
<1>13. f \in [1..q -> DOMAIN s.traces]
  BY <1>1, <1>9
<1>14. \A i \in 1..q : ring[i] = s.traces[f[i]] /\ f[i] # p
  BY <1>2, <1>8, <1>9, <1>12
<1>15. \A i, j \in 1..q : i < j => f[i] < f[j]
  BY <1>2, <1>9
<1>16. ASSUME NEW j \in 1..n, j # p PROVE \E i \in 1..q : f[i] = j
  <2>1. CASE j < p
    <3>1. j \in 1..q /\ f[j] = j
      BY <1>2, <1>9, <2>1
    <3> QED BY <3>1
  <2>2. CASE j > p
    <3>1. j - 1 \in 1..q /\ f[j - 1] = j
      BY <1>2, <1>9, <2>2
    <3> QED BY <3>1
  <2> QED BY <1>16, <1>2, <2>1, <2>2
<1> HIDE DEF f
<1>17. \A i \in 1..q : s.traces[f[i]].id # id
  BY <1>1, <1>3, <1>13, <1>14
<1>18. RingStepsTo(s, id, ring, q, f)
  <2>1. \A j \in DOMAIN s.traces : s.traces[j].id = id \/ \E i \in 1..q : f[i] = j
    BY <1>1, <1>2, <1>16
  <2>2. \E j \in DOMAIN s.traces : ring[q + 1] = s.traces[j]
    BY <1>1, <1>12
  <2>3. q + 1 <= s.max /\ Len(s.traces) <= q + 1 /\ ring[q + 1].id = id
    BY <1>1, <1>2, <1>9, <1>12
  <2> QED BY <1>11, <1>14, <1>15, <1>17, <2>1, <2>2, <2>3 DEF RingStepsTo
<1> QED BY <1>7, <1>13, <1>18

LEMMA PutAtTheEnd ==
  ASSUME NEW s \in StoreRec, RingOK(s), NEW id \in TraceIds, ~InRing(s, id)
  PROVE  \E q \in Nat : \E f \in [1..q -> DOMAIN s.traces] :
           RingStepsTo(s, id, Append(Evicted(s), [id |-> id, events |-> <<>>]), q, f)
<1>1. PICK n \in Nat : /\ s.traces \in Seq(TraceRec) /\ n = Len(s.traces) /\ DOMAIN s.traces = 1..n
                       /\ n <= s.max /\ s.max \in Nat \ {0}
  <2>1. s.traces \in Seq(TraceRec) /\ s.max \in Nat \ {0}
    BY StoreAssumption DEF StoreRec
  <2>2. Len(s.traces) \in Nat /\ DOMAIN s.traces = 1..Len(s.traces) /\ Len(s.traces) <= s.max
    BY <2>1 DEF RingOK
  <2> QED BY <2>1, <2>2
<1>2. PICK e : e = [id |-> id, events |-> <<>>]
  OBVIOUS
<1>3. e \in TraceRec /\ e.id = id /\ e.events = <<>>
  BY <1>2 DEF TraceRec
<1>4. \A j \in 1..n : s.traces[j].id # id
  BY <1>1 DEF InRing
<1>5. CASE n < s.max
  <2>1. PICK ring : ring = Append(s.traces, e)
    OBVIOUS
  <2>2. Evicted(s) = s.traces
    BY <1>1, <1>5 DEF Evicted
  <2>3. ring \in Seq(TraceRec) /\ Len(ring) = n + 1
    BY <1>1, <1>3, <2>1
  <2>4. ring[n + 1] = e /\ \A i \in 1..n : ring[i] = s.traces[i]
    BY <1>1, <1>3, <2>1
  <2> DEFINE f == [i \in 1..n |-> i]
  <2>5. f \in [1..n -> DOMAIN s.traces] /\ \A i \in 1..n : f[i] = i
    BY <1>1
  <2> HIDE DEF f
  <2>6. RingStepsTo(s, id, ring, n, f)
    BY <1>1, <1>3, <1>4, <1>5, <2>3, <2>4, <2>5 DEF RingStepsTo
  <2> QED BY <1>2, <2>1, <2>2, <2>5, <2>6
<1>6. CASE n = s.max
  <2>1. PICK a : a = Tail(s.traces)
    OBVIOUS
  <2>2. PICK q \in Nat : q + 1 = n
    <3>1. n - 1 \in Nat /\ (n - 1) + 1 = n
      BY <1>1, <1>6
    <3> QED BY <3>1
  <2>3. Evicted(s) = a
    BY <1>1, <1>6, <2>1 DEF Evicted
  <2>4. s.traces # <<>>
    BY <1>1, <2>2
  <2>5. a \in Seq(TraceRec) /\ Len(a) = q
    BY <1>1, <2>1, <2>2, <2>4
  <2>6. \A i \in 1..q : a[i] = s.traces[i + 1]
    BY <1>1, <2>1, <2>2, <2>4
  <2>7. PICK ring : ring = Append(a, e)
    OBVIOUS
  <2>8. ring \in Seq(TraceRec) /\ Len(ring) = q + 1
    BY <1>3, <2>5, <2>7
  <2>9. ring[q + 1] = e /\ \A i \in 1..q : ring[i] = a[i]
    BY <1>3, <2>5, <2>7
  <2> DEFINE f == [i \in 1..q |-> i + 1]
  <2>10. f \in [1..q -> DOMAIN s.traces] /\ \A i \in 1..q : f[i] = i + 1
    BY <1>1, <2>2
  <2> HIDE DEF f
  <2>11. ASSUME NEW j \in 1..n, j # 1 PROVE \E i \in 1..q : f[i] = j
    <3>1. j - 1 \in 1..q /\ f[j - 1] = j
      BY <2>2, <2>10, <2>11
    <3> QED BY <3>1
  <2>12. \A i \in 1..q : ring[i] = s.traces[f[i]] /\ s.traces[f[i]].id # id
    BY <1>1, <1>4, <2>6, <2>9, <2>10
  <2>13. \A i, j \in 1..q : i < j => f[i] < f[j]
    BY <2>10
  <2>14. RingStepsTo(s, id, ring, q, f)
    BY <1>1, <1>3, <1>6, <2>2, <2>8, <2>9, <2>11, <2>12, <2>13 DEF RingStepsTo
  <2> QED BY <1>2, <2>3, <2>7, <2>10, <2>14
<1>7. n < s.max \/ n = s.max
  BY <1>1
<1> QED BY <1>5, <1>6, <1>7

(* The event takes its number, and the trace it is of keeps a gapless end. *)
LEMMA EventIsAdded ==
  ASSUME NEW s \in StoreRec, NEW r \in StoreRec, NEW e \in LogRec, r.log = Append(s.log, e),
         NEW got \in Seq(Nat), got = <<>> \/ EndsGapless(s, e.trace, got)
  PROVE  /\ EndsGapless(r, e.trace, Append(got, Len(s.log) + 1))
         /\ ToSet(got) \cup {Len(s.log) + 1} = ToSet(Append(got, Len(s.log) + 1))
<1>1. PICK k \in Nat : /\ k = Len(s.log) /\ DOMAIN s.log = 1..k /\ DOMAIN r.log = 1..(k + 1)
                       /\ r.log[k + 1] = e /\ \A i \in 1..k : r.log[i] = s.log[i]
  BY LogGrows
<1>2. PICK h : h = Append(got, k + 1)
  OBVIOUS
<1>3. PICK n \in Nat : n = Len(got) /\ DOMAIN got = 1..n
  OBVIOUS
<1>4. h \in Seq(Nat) /\ DOMAIN h = 1..(n + 1) /\ h # <<>>
  BY <1>1, <1>2, <1>3
<1>5. h[n + 1] = k + 1 /\ \A i \in 1..n : h[i] = got[i]
  BY <1>1, <1>2, <1>3
<1>6. ToSet(h) = ToSet(got) \cup {k + 1}
  <2>1. \A i \in 1..(n + 1) : i \in 1..n \/ i = n + 1
    OBVIOUS
  <2>2. ToSet(h) = {h[i] : i \in 1..(n + 1)} /\ ToSet(got) = {got[i] : i \in 1..n}
    BY <1>3, <1>4 DEF ToSet
  <2>3. ASSUME NEW x \in ToSet(h) PROVE x \in ToSet(got) \cup {k + 1}
    <3>1. PICK i \in 1..(n + 1) : x = h[i]
      BY <2>2, <2>3
    <3>2. CASE i = n + 1
      BY <1>5, <3>1, <3>2
    <3>3. CASE i \in 1..n
      BY <1>5, <2>2, <3>1, <3>3
    <3> QED BY <2>1, <3>2, <3>3
  <2>4. ASSUME NEW x \in ToSet(got) PROVE x \in ToSet(h)
    <3>1. PICK i \in 1..n : x = got[i]
      BY <2>2, <2>4
    <3>2. i \in 1..(n + 1) /\ x = h[i]
      BY <1>5, <3>1
    <3> QED BY <2>2, <3>2
  <2>5. k + 1 \in ToSet(h)
    <3>1. n + 1 \in 1..(n + 1)
      OBVIOUS
    <3> QED BY <1>5, <2>2, <3>1
  <2> QED BY <2>3, <2>4, <2>5
<1>7. CASE got = <<>>
  <2>1. n = 0 /\ ToSet(got) = {} /\ h[1] = k + 1
    BY <1>3, <1>5, <1>7 DEF ToSet
  <2>2. \A a, b \in DOMAIN h : a < b => h[a] < h[b]
    BY <1>4, <2>1
  <2>3. {m \in 1..(k + 1) : r.log[m].trace = e.trace /\ m >= k + 1} = {k + 1}
    BY <1>1
  <2> QED BY <1>1, <1>2, <1>4, <1>6, <2>1, <2>2, <2>3 DEF EndsGapless
<1>8. CASE EndsGapless(s, e.trace, got) /\ got # <<>>
  <2>1. n # 0 /\ 1 \in 1..n /\ h[1] = got[1]
    BY <1>3, <1>5, <1>8
  <2>2. ToSet(got) = {m \in 1..k : s.log[m].trace = e.trace /\ m >= got[1]}
    BY <1>1, <1>8 DEF EndsGapless
  <2>3. \A i \in 1..n : got[i] \in 1..k
    BY <1>3, <2>2 DEF ToSet
  <2>4. \A a, b \in DOMAIN h : a < b => h[a] < h[b]
    <3> SUFFICES ASSUME NEW a \in 1..(n + 1), NEW b \in 1..(n + 1), a < b PROVE h[a] < h[b]
      BY <1>4
    <3>1. a \in 1..n /\ h[a] = got[a] /\ got[a] \in 1..k
      BY <1>5, <2>3
    <3>2. CASE b = n + 1
      BY <1>5, <3>1, <3>2
    <3>3. CASE b \in 1..n
      BY <1>3, <1>5, <1>8, <3>1, <3>3 DEF EndsGapless
    <3> QED BY <3>2, <3>3
  <2>5. {m \in 1..(k + 1) : r.log[m].trace = e.trace /\ m >= h[1]} = ToSet(got) \cup {k + 1}
    <3>1. got[1] \in 1..k
      BY <2>1, <2>3
    <3> QED BY <1>1, <2>1, <2>2, <3>1
  <2> QED BY <1>1, <1>2, <1>4, <1>6, <2>4, <2>5 DEF EndsGapless
<1> QED BY <1>7, <1>8

LEMMA RecordedKeeps ==
  ASSUME NEW s \in StoreRec, RingOK(s), NEW id \in TraceIds, NEW kind \in Kinds
  PROVE  Recorded(s, id, kind) \in StoreRec /\ RingOK(Recorded(s, id, kind))
<1>1. PICK e \in LogRec : e = [trace |-> id, kind |-> kind] /\ e.trace = id /\ e.kind = kind
  <2>1. [trace |-> id, kind |-> kind] \in LogRec
    BY DEF LogRec
  <2> QED BY <2>1
<1>2. PICK n \in Nat : n = Len(s.log) + 1
  BY DEF StoreRec
<1>3. PICK ring : ring = IF Contains(Ids(s), id) THEN Moved(s, id)
                         ELSE Append(Evicted(s), [id |-> id, events |-> <<>>])
  OBVIOUS
<1>4. PICK r : r = Recorded(s, id, kind)
  OBVIOUS
<1>5. Contains(Ids(s), id) <=> InRing(s, id)
  <2>1. s.traces \in Seq(TraceRec)
    BY DEF StoreRec
  <2>2. Len(s.traces) \in Nat /\ DOMAIN s.traces = 1..Len(s.traces)
    BY <2>1
  <2>3. Len(Ids(s)) = Len(s.traces)
    BY <2>2 DEF Ids
  <2> QED BY <2>2, <2>3 DEF Contains, Ids, InRing
<1>6. PICK q \in Nat : \E f \in [1..q -> DOMAIN s.traces] : RingStepsTo(s, id, ring, q, f)
  BY <1>3, <1>5, MovedToTheEnd, PutAtTheEnd
<1>7. PICK f \in [1..q -> DOMAIN s.traces] : RingStepsTo(s, id, ring, q, f)
  BY <1>6
<1>8. /\ ring \in Seq(TraceRec) /\ Len(ring) = q + 1 /\ q + 1 <= s.max /\ Len(s.traces) <= q + 1
      /\ ring[q + 1].id = id
      /\ \A i \in 1..q : ring[i] = s.traces[f[i]] /\ s.traces[f[i]].id # id
      /\ \A i, j \in 1..q : i < j => f[i] < f[j]
      /\ \A j \in DOMAIN s.traces :
           \/ s.traces[j].id = id
           \/ \E i \in 1..q : f[i] = j
           \/ j = 1 /\ Len(s.traces) = s.max /\ q + 1 = s.max /\ ~InRing(s, id)
  BY <1>7 DEF RingStepsTo
<1>9. /\ r.traces = [i \in DOMAIN ring |->
                      IF ring[i].id = id THEN [ring[i] EXCEPT !.events = Append(@, n)] ELSE ring[i]]
      /\ r.last = IF e.kind = "agent" THEN e.trace ELSE s.last
      /\ r.log = Append(s.log, e) /\ r.max = s.max
  BY <1>1, <1>2, <1>3, <1>4 DEF Recorded, StoreRec
<1>10. /\ \A i \in 1..q : r.traces[i] = ring[i]
       /\ r.traces[q + 1] = [ring[q + 1] EXCEPT !.events = Append(@, n)]
       /\ DOMAIN r.traces = 1..(q + 1)
  <2>1. DOMAIN ring = 1..(q + 1)
    BY <1>8
  <2>2. DOMAIN r.traces = 1..(q + 1)
    BY <1>9, <2>1
  <2>3. q + 1 \in DOMAIN ring
    BY <2>1
  <2>4. r.traces[q + 1] = [ring[q + 1] EXCEPT !.events = Append(@, n)]
    BY <1>8, <1>9, <2>3
  <2>5. ASSUME NEW i \in 1..q PROVE r.traces[i] = ring[i]
    <3>1. i \in DOMAIN ring
      BY <2>1
    <3>2. ring[i].id # id
      BY <1>8
    <3> QED BY <1>9, <3>1, <3>2
  <2> QED BY <2>2, <2>4, <2>5
<1>11. PICK got \in Seq(Nat) :
         /\ got = ring[q + 1].events /\ (got = <<>> \/ EndsGapless(s, id, got))
         /\ \A j \in DOMAIN s.traces : s.traces[j].id = id => s.traces[j].events = got
  <2>1. ring[q + 1] \in TraceRec
    BY <1>8
  <2>2. ring[q + 1].events \in Seq(Nat)
    BY <2>1 DEF TraceRec
  <2>3. CASE InRing(s, id)
    <3>1. PICK p \in DOMAIN s.traces : ring[q + 1] = s.traces[p]
      BY <1>7, <2>3 DEF RingStepsTo
    <3>2. s.traces[p].id = id /\ \A j \in DOMAIN s.traces : s.traces[j].id = id => j = p
      BY <1>8, <3>1 DEF RingOK
    <3>3. EndsGapless(s, id, ring[q + 1].events)
      BY <3>1, <3>2 DEF RingOK
    <3> QED BY <2>2, <3>1, <3>2, <3>3
  <2>4. CASE ~InRing(s, id)
    <3>1. ring[q + 1].events = <<>> /\ \A j \in DOMAIN s.traces : s.traces[j].id # id
      BY <1>7, <2>4 DEF RingStepsTo, InRing
    <3> QED BY <2>2, <3>1
  <2> QED BY <2>3, <2>4
<1>12. r.traces[q + 1] = [id |-> id, events |-> Append(got, n)] /\ Append(got, n) \in Seq(Nat)
  <2>1. ring[q + 1] \in TraceRec
    BY <1>8
  <2>2. ring[q + 1] = [id |-> id, events |-> got]
    BY <1>8, <1>11, <2>1 DEF TraceRec
  <2>3. Append(got, n) \in Seq(Nat)
    OBVIOUS
  <2>4. PICK h : h = Append(got, n)
    OBVIOUS
  <2>5. r.traces[q + 1] = [ring[q + 1] EXCEPT !.events = h]
    BY <1>10, <1>11, <2>4
  <2>6. r.traces[q + 1] = [id |-> id, events |-> h]
    BY <2>2, <2>5
  <2> QED BY <2>3, <2>4, <2>6
<1>13. r.traces \in Seq(TraceRec) /\ Len(r.traces) = q + 1
  <2>1. \A i \in 1..(q + 1) : r.traces[i] \in TraceRec
    <3>1. r.traces[q + 1] \in TraceRec
      BY <1>12 DEF TraceRec
    <3>2. \A i \in 1..q : r.traces[i] \in TraceRec
      BY <1>8, <1>10
    <3>3. \A i \in 1..(q + 1) : i \in 1..q \/ i = q + 1
      OBVIOUS
    <3> QED BY <3>1, <3>2, <3>3
  <2>2. r.traces = [i \in 1..(q + 1) |-> r.traces[i]]
    BY <1>9, <1>10
  <2> QED BY <2>1, <2>2
<1>14. r \in StoreRec
  <2>1. r.log \in Seq(LogRec) /\ r.max \in MaxTraces /\ r.last \in TraceIds \cup {0}
    BY <1>1, <1>9 DEF StoreRec
  <2>2. r = [max |-> r.max, traces |-> r.traces, last |-> r.last, log |-> r.log]
    BY <1>3, <1>4 DEF Recorded, StoreRec
  <2> QED BY <1>13, <2>1, <2>2 DEF StoreRec
<1>15. /\ EndsGapless(r, id, Append(got, n)) /\ ToSet(got) \cup {n} = ToSet(Append(got, n))
  <2>1. got \in Seq(Nat) /\ (got = <<>> \/ EndsGapless(s, e.trace, got))
    BY <1>1, <1>11
  <2>2. /\ EndsGapless(r, e.trace, Append(got, Len(s.log) + 1))
        /\ ToSet(got) \cup {Len(s.log) + 1} = ToSet(Append(got, Len(s.log) + 1))
    <3>1. r \in StoreRec /\ r.log = Append(s.log, e) /\ e \in LogRec
      BY <1>9, <1>14
    <3> HIDE <1>9
    <3> QED BY <2>1, <3>1, EventIsAdded
  <2> QED BY <1>1, <1>2, <2>2
<1>16. /\ r.traces[q + 1].id = e.trace /\ EndsGapless(r, e.trace, r.traces[q + 1].events)
       /\ Len(s.log) + 1 \in ToSet(r.traces[q + 1].events)
       /\ \A j \in DOMAIN s.traces :
            s.traces[j].id = e.trace => ToSet(s.traces[j].events) \subseteq ToSet(r.traces[q + 1].events)
  BY <1>1, <1>2, <1>11, <1>12, <1>15
<1>17. \A i \in 1..q : r.traces[i] = s.traces[f[i]] /\ s.traces[f[i]].id # e.trace
  BY <1>1, <1>8, <1>10
<1>18. \A j \in DOMAIN s.traces :
         \/ s.traces[j].id = e.trace
         \/ \E i \in 1..q : f[i] = j
         \/ j = 1 /\ Len(s.traces) = s.max /\ q + 1 = s.max /\ ~InRing(s, e.trace)
  BY <1>1, <1>8
<1>19. RingOK(r)
  BY <1>8, <1>9, <1>13, <1>14, <1>16, <1>17, <1>18, RingStep
<1> QED BY <1>4, <1>14, <1>19

LEMMA StoresAre ==
  ASSUME RingInv
  PROVE  \E n \in Nat : /\ n = Len(stores) /\ DOMAIN stores = 1..n
                        /\ \A i \in 1..n : stores[i] \in StoreRec /\ RingOK(stores[i])
BY DEF RingInv

LEMMA StoreChanges ==
  ASSUME RingInv, NEW i \in DOMAIN stores, NEW r \in StoreRec, RingOK(r),
         stores' = [stores EXCEPT ![i] = r]
  PROVE  RingInv'
<1>1. PICK n \in Nat : /\ n = Len(stores) /\ DOMAIN stores = 1..n
                       /\ \A j \in 1..n : stores[j] \in StoreRec /\ RingOK(stores[j])
  BY StoresAre
<1>2. stores \in Seq(StoreRec)
  BY DEF RingInv
<1>3. stores' \in Seq(StoreRec) /\ DOMAIN stores' = 1..n
  BY <1>1, <1>2
<1>4. \A j \in 1..n : stores'[j] = IF j = i THEN r ELSE stores[j]
  BY <1>1
<1>5. \A j \in 1..n : RingOK(stores'[j])
  BY <1>1, <1>4
<1>6. stores' \in Seq(StoreRec) /\ \A j \in DOMAIN stores' : RingOK(stores'[j])
  BY <1>3, <1>5
<1> QED BY <1>6 DEF RingInv, RingOK, After, EndsGapless, InRing, ManySince, Since

LEMMA StoreIsCreated ==
  ASSUME RingInv, NEW max \in MaxTraces, stores' = Append(stores, Fresh(max))
  PROVE  RingInv'
<1>1. PICK n \in Nat : /\ n = Len(stores) /\ DOMAIN stores = 1..n
                       /\ \A j \in 1..n : stores[j] \in StoreRec /\ RingOK(stores[j])
  BY StoresAre
<1>2. PICK r \in StoreRec : r = Fresh(max) /\ RingOK(r)
  BY FreshIsOK
<1>3. stores \in Seq(StoreRec) /\ stores' = Append(stores, r)
  BY <1>2 DEF RingInv
<1>4. stores' \in Seq(StoreRec) /\ DOMAIN stores' = 1..(n + 1)
  BY <1>1, <1>3
<1>5. stores'[n + 1] = r /\ \A j \in 1..n : stores'[j] = stores[j]
  BY <1>1, <1>3
<1>6. \A j \in 1..(n + 1) : j \in 1..n \/ j = n + 1
  OBVIOUS
<1>7. \A j \in DOMAIN stores' : RingOK(stores'[j])
  BY <1>1, <1>2, <1>4, <1>5, <1>6
<1> QED BY <1>4, <1>7 DEF RingInv, RingOK, After, EndsGapless, InRing, ManySince, Since

LEMMA StoreStep == RingInv /\ [StoreNext]_ringVars => RingInv'
<1> SUFFICES ASSUME RingInv, [StoreNext]_ringVars PROVE RingInv'
  OBVIOUS
<1>1. ASSUME UNCHANGED stores PROVE RingInv'
  <2>1. stores' \in Seq(StoreRec) /\ \A j \in DOMAIN stores' : RingOK(stores'[j])
    BY <1>1 DEF RingInv
  <2> QED BY <2>1 DEF RingInv, RingOK, After, EndsGapless, InRing, ManySince, Since
<1>2. ASSUME NEW t \in Threads, NEW id \in TraceIds, NEW kind \in Kinds, RecordEvent(t, id, kind)
      PROVE  RingInv'
  <2>1. stores' = [stores EXCEPT ![target[t]] = Recorded(stores[target[t]], id, kind)]
    BY <1>2 DEF RecordEvent
  <2>2. CASE target[t] \in DOMAIN stores
    <3>1. stores[target[t]] \in StoreRec /\ RingOK(stores[target[t]])
      BY <2>2, StoresAre
    <3>2. PICK r \in StoreRec : r = Recorded(stores[target[t]], id, kind) /\ RingOK(r)
      BY <3>1, RecordedKeeps
    <3> QED BY <2>1, <2>2, <3>2, StoreChanges
  <2>3. CASE target[t] \notin DOMAIN stores
    <3>1. stores' = stores
      BY <2>1, <2>3 DEF RingInv
    <3> QED BY <1>1, <3>1
  <2> QED BY <2>2, <2>3
<1>3. ASSUME NEW t \in Threads, NEW max \in MaxTraces, ResetStore(t, max) \/ InstallStore(t, max)
      PROVE  RingInv'
  BY <1>3, StoreIsCreated DEF ResetStore, InstallStore
<1>4. ASSUME NEW t \in Threads, Clear(t) PROVE RingInv'
  <2>1. stores' = [stores EXCEPT ![theStore] = Fresh(stores[theStore].max)]
    BY <1>4 DEF Clear
  <2>2. CASE theStore \in DOMAIN stores
    <3>1. stores[theStore].max \in MaxTraces
      BY <2>2, StoresAre DEF StoreRec
    <3>2. PICK r \in StoreRec : r = Fresh(stores[theStore].max) /\ RingOK(r)
      BY <3>1, FreshIsOK
    <3> QED BY <2>1, <2>2, <3>2, StoreChanges
  <2>3. CASE theStore \notin DOMAIN stores
    <3>1. stores' = stores
      BY <2>1, <2>3 DEF RingInv
    <3> QED BY <1>1, <3>1
  <2> QED BY <2>2, <2>3
<1>5. ASSUME NEW t \in Threads, TakeStore(t) \/ EnterStoreBlock(t) \/ ExitStoreBlock(t)
      PROVE  UNCHANGED stores
  BY <1>5 DEF TakeStore, EnterStoreBlock, ExitStoreBlock
<1> QED BY <1>1, <1>2, <1>3, <1>4, <1>5 DEF StoreNext, ringVars

LEMMA StoreInitial == StoreInit => RingInv
<1> SUFFICES ASSUME StoreInit PROVE RingInv
  OBVIOUS
<1>1. PICK max \in MaxTraces : stores = <<Fresh(max)>>
  BY DEF StoreInit
<1>2. PICK r \in StoreRec : r = Fresh(max) /\ RingOK(r)
  BY FreshIsOK
<1>3. stores = <<r>>
  BY <1>1, <1>2
<1>4. stores \in Seq(StoreRec) /\ DOMAIN stores = 1..1 /\ stores[1] = r
  BY <1>3
<1>5. \A i \in DOMAIN stores : RingOK(stores[i])
  BY <1>2, <1>4
<1> QED BY <1>4, <1>5 DEF RingInv

(* What the ring says of one store.                                        *)
LEMMA RingIds ==
  ASSUME NEW s \in StoreRec, RingOK(s)
  PROVE  /\ ToSet(Ids(s)) = {s.traces[i].id : i \in DOMAIN s.traces}
         /\ \A id \in ToSet(Ids(s)) : InRing(s, id)
         /\ \A id : InRing(s, id) => id \in ToSet(Ids(s))
         /\ ToSet(Ids(s)) \subseteq Logged(s)
<1>1. DOMAIN Ids(s) = DOMAIN s.traces /\ \A i \in DOMAIN s.traces : Ids(s)[i] = s.traces[i].id
  BY DEF Ids
<1>2. ToSet(Ids(s)) = {s.traces[i].id : i \in DOMAIN s.traces}
  BY <1>1 DEF ToSet
<1>3. ASSUME NEW i \in DOMAIN s.traces PROVE s.traces[i].id \in Logged(s)
  <2>1. PICK got : got = s.traces[i].events /\ EndsGapless(s, s.traces[i].id, got) /\ got \in Seq(Nat)
    <3>1. s.traces \in Seq(TraceRec)
      BY DEF StoreRec
    <3>2. s.traces[i] \in TraceRec
      BY <3>1
    <3> QED BY <3>2 DEF RingOK, TraceRec
  <2>2. got[1] \in ToSet(got)
    <3>1. 1 \in DOMAIN got
      BY <2>1 DEF EndsGapless
    <3> QED BY <3>1 DEF ToSet
  <2>3. got[1] \in DOMAIN s.log /\ s.log[got[1]].trace = s.traces[i].id
    BY <2>1, <2>2 DEF EndsGapless
  <2> QED BY <2>3 DEF Logged
<1> QED BY <1>2, <1>3 DEF InRing

LEMMA LoggedIsFinite ==
  ASSUME NEW s \in StoreRec
  PROVE  IsFiniteSet(Logged(s))
<1>1. PICK k \in Nat : k = Len(s.log) /\ DOMAIN s.log = 1..k
  BY DEF StoreRec
<1> DEFINE g == [i \in 1..k |-> s.log[i].trace]
<1>2. g \in Surjection(1..k, Logged(s))
  BY <1>1 DEF Surjection, Logged
<1>3. IsFiniteSet(1..k)
  BY FS_Interval
<1> HIDE DEF g
<1> QED BY <1>2, <1>3, FS_Surjection

LEMMA RingHoldsAsMany ==
  ASSUME NEW s \in StoreRec, RingOK(s)
  PROVE  Len(s.traces) = Min({s.max, Cardinality(Logged(s))})
<1>1. PICK n \in Nat : n = Len(s.traces) /\ DOMAIN s.traces = 1..n /\ n <= s.max
  BY DEF StoreRec, RingOK
<1>2. s.max \in Nat
  BY StoreAssumption DEF StoreRec
<1>3. PICK k \in Nat : k = Len(s.log) /\ DOMAIN s.log = 1..k
  BY DEF StoreRec
<1>4. PICK L : L = Logged(s)
  OBVIOUS
<1>5. IsFiniteSet(1..n) /\ Cardinality(1..n) = n
  BY FS_Interval
<1>6. IsFiniteSet(L)
  BY <1>4, LoggedIsFinite
<1> DEFINE R == {s.traces[i].id : i \in 1..n}
           f == [i \in 1..n |-> s.traces[i].id]
<1>7. R \subseteq L
  BY <1>1, <1>4, RingIds
<1>8. f \in Bijection(1..n, R)
  <2>1. f \in [1..n -> R] /\ \A i \in 1..n : f[i] = s.traces[i].id
    OBVIOUS
  <2>2. \A i, j \in 1..n : f[i] = f[j] => i = j
    BY <1>1 DEF RingOK
  <2>3. \A x \in R : \E i \in 1..n : f[i] = x
    OBVIOUS
  <2> HIDE DEF f, R
  <2> QED BY <2>1, <2>2, <2>3 DEF Bijection, Injection, Surjection, IsInjective
<1>9. IsFiniteSet(R) /\ Cardinality(R) = n
  <2>1. ExistsBijection(1..n, R)
    BY <1>8 DEF ExistsBijection
  <2> HIDE DEF R, f
  <2> QED BY <1>5, <2>1, FS_Bijection
<1>10. Cardinality(L) \in Nat /\ n <= Cardinality(L)
  <2> HIDE DEF R, f
  <2> QED BY <1>6, <1>7, <1>9, FS_Subset, FS_CardinalityType
<1>11. n < s.max => n = Cardinality(L)
  <2>1. ASSUME n < s.max PROVE L \subseteq R
    BY <1>1, <1>3, <1>4, <2>1 DEF Logged, RingOK, InRing
  <2> HIDE DEF R, f
  <2> QED BY <1>7, <1>9, <2>1
<1>12. PICK c \in Nat : c = Cardinality(L) /\ n <= c /\ (n < s.max => n = c)
  BY <1>10, <1>11
<1>13. n \in {s.max, c} /\ \A y \in {s.max, c} : n <= y
  BY <1>1, <1>2, <1>12
<1>14. Min({s.max, c}) = n
  <2>1. Min({s.max, c}) \in {s.max, c} /\ \A y \in {s.max, c} : Min({s.max, c}) <= y
    BY <1>13 DEF Min
  <2> QED BY <1>2, <1>12, <1>13, <2>1
<1> QED BY <1>1, <1>4, <1>12, <1>14

LEMMA QuietestAreDropped ==
  ASSUME NEW s \in StoreRec, RingOK(s), NEW i \in DOMAIN s.traces,
         NEW other \in Logged(s), ~InRing(s, other)
  PROVE  LatestOf(s, s.traces[i].id) > LatestOf(s, other)
<1>1. PICK k \in Nat : k = Len(s.log) /\ DOMAIN s.log = 1..k
  BY DEF StoreRec
<1> DEFINE OfThis == {n \in 1..k : s.log[n].trace = s.traces[i].id}
           OfOther == {n \in 1..k : s.log[n].trace = other}
<1>2. OfOther # {}
  BY <1>1 DEF Logged
<1>3. After(s, s.traces[i].id, other)
  BY <1>1, <1>2 DEF RingOK
<1>4. PICK m \in OfThis : \A n \in OfOther : n < m
  BY <1>1, <1>3 DEF After
<1>5. OfThis \in SUBSET Nat /\ OfOther \in SUBSET Nat /\ \A y \in OfThis \cup OfOther : y <= k
  OBVIOUS
<1>6. LatestOf(s, s.traces[i].id) = Max(OfThis) /\ LatestOf(s, other) = Max(OfOther)
  BY <1>1 DEF LatestOf
<1> HIDE DEF OfThis, OfOther
<1>7. Max(OfThis) \in OfThis /\ \A y \in OfThis : y <= Max(OfThis)
  <2>1. OfThis # {}
    BY <1>4
  <2> QED BY <1>5, <2>1, GreatestNumber
<1>8. Max(OfOther) \in OfOther
  BY <1>2, <1>5, GreatestNumber
<1>9. Max(OfOther) < m /\ m <= Max(OfThis) /\ m \in Nat /\ Max(OfThis) \in Nat /\ Max(OfOther) \in Nat
  BY <1>4, <1>5, <1>7, <1>8
<1> QED BY <1>6, <1>9

LEMMA GotIsItsEvents ==
  ASSUME NEW s \in StoreRec, RingOK(s), NEW p \in DOMAIN s.traces
  PROVE  GetTrace(s, s.traces[p].id) = s.traces[p].events
<1>1. SelectInSeq(s.traces, LAMBDA r : r.id = s.traces[p].id) = p
  BY PlaceOfTrace
<1>2. p # 0
  BY DEF StoreRec
<1> QED BY <1>1, <1>2 DEF GetTrace

(* Injected numbers bound a cardinality from below.                        *)
LEMMA AtLeastAsMany ==
  ASSUME NEW s \in StoreRec, NEW n \in DOMAIN s.log, ManySince(s, n)
  PROVE  Cardinality(Since(s, n)) \in Nat /\ s.max <= Cardinality(Since(s, n))
<1>1. PICK k \in Nat : k = Len(s.log) /\ DOMAIN s.log = 1..k
  BY DEF StoreRec
<1>2. s.max \in Nat
  BY StoreAssumption DEF StoreRec
<1>3. PICK S : S = Since(s, n)
  OBVIOUS
<1>4. IsFiniteSet(S)
  <2>1. S \subseteq Logged(s)
    BY <1>1, <1>3 DEF Since, Logged
  <2> QED BY <2>1, LoggedIsFinite, FS_Subset
<1>5. PICK f \in [1..s.max -> TraceIds] : IsInjective(f) /\ \A l \in 1..s.max : f[l] \in S
  BY <1>3 DEF ManySince
<1>6. f \in Injection(1..s.max, S)
  <2>1. f \in [1..s.max -> S]
    BY <1>5
  <2> QED BY <1>5, <2>1 DEF Injection, IsInjective
<1>7. Cardinality(1..s.max) <= Cardinality(S) /\ Cardinality(S) \in Nat
  BY <1>4, <1>6, FS_Injection, FS_CardinalityType
<1>8. Cardinality(1..s.max) = s.max
  BY <1>2, FS_Interval
<1> QED BY <1>3, <1>7, <1>8

LEMMA LatestRunIsThere ==
  ASSUME NEW s \in StoreRec, RingOK(s), NEW n \in DOMAIN s.log, s.log[n].kind = "agent",
         \A m \in DOMAIN s.log : m > n => s.log[m].kind # "agent",
         Cardinality(Since(s, n)) < s.max
  PROVE  Contains(GetLastAgentRun(s), n)
<1>1. s.last = s.log[n].trace
  BY DEF RingOK
<1>2. s.last # 0
  <2>1. s.log[n] \in LogRec
    BY DEF StoreRec
  <2>2. s.last \in TraceIds
    BY <1>1, <2>1 DEF LogRec
  <2> QED BY <2>2, StoreAssumption
<1>3. ~ManySince(s, n)
  <2>1. s.max \in Nat
    BY StoreAssumption DEF StoreRec
  <2> QED BY <2>1, AtLeastAsMany
<1>4. PICK i \in DOMAIN s.traces : s.traces[i].id = s.log[n].trace /\ n \in ToSet(s.traces[i].events)
  BY <1>3 DEF RingOK
<1>5. GetTrace(s, s.traces[i].id) = s.traces[i].events
  BY GotIsItsEvents
<1>6. GetLastAgentRun(s) = s.traces[i].events
  BY <1>1, <1>2, <1>4, <1>5 DEF GetLastAgentRun
<1>7. s.traces[i].events \in Seq(Nat)
  <2>1. s.traces \in Seq(TraceRec)
    BY DEF StoreRec
  <2>2. s.traces[i] \in TraceRec
    BY <2>1
  <2> QED BY <2>2 DEF TraceRec
<1>8. PICK got \in Seq(Nat) : got = s.traces[i].events
  BY <1>7
<1>9. \E j \in DOMAIN got : got[j] = n
  BY <1>4, <1>8 DEF ToSet
<1>10. DOMAIN got = 1..Len(got)
  OBVIOUS
<1> QED BY <1>6, <1>8, <1>9, <1>10 DEF Contains

LEMMA RingInvGives == RingInv => RingIsRecent
<1> SUFFICES ASSUME RingInv PROVE RingIsRecent
  OBVIOUS
<1>1. ASSUME NEW i \in DOMAIN stores
      PROVE  stores[i] \in StoreRec /\ RingOK(stores[i])
  BY StoresAre
<1>2. RingHoldsMostRecent
  <2> SUFFICES ASSUME NEW i \in DOMAIN stores, NEW s \in StoreRec, s = stores[i], RingOK(s)
               PROVE  /\ Len(s.traces) = Min({s.max, Cardinality(Logged(s))})
                      /\ \A id \in ToSet(Ids(s)) :
                           /\ \A other \in Logged(s) \ ToSet(Ids(s)) : LatestOf(s, id) > LatestOf(s, other)
                           /\ EndsGapless(s, id, GetTrace(s, id))
    BY <1>1 DEF RingHoldsMostRecent
  <2>1. Len(s.traces) = Min({s.max, Cardinality(Logged(s))})
    BY RingHoldsAsMany
  <2>2. ASSUME NEW id \in ToSet(Ids(s))
        PROVE  /\ \A other \in Logged(s) \ ToSet(Ids(s)) : LatestOf(s, id) > LatestOf(s, other)
               /\ EndsGapless(s, id, GetTrace(s, id))
    <3>1. PICK p \in DOMAIN s.traces : s.traces[p].id = id
      BY <2>2, RingIds DEF InRing
    <3>2. ASSUME NEW other \in Logged(s) \ ToSet(Ids(s)) PROVE LatestOf(s, id) > LatestOf(s, other)
      <4>1. ~InRing(s, other)
        BY <3>2, RingIds
      <4> QED BY <3>1, <4>1, QuietestAreDropped
    <3>3. EndsGapless(s, id, s.traces[p].events) /\ GetTrace(s, id) = s.traces[p].events
      BY <3>1, GotIsItsEvents DEF RingOK
    <3> QED BY <3>2, <3>3
  <2> QED BY <2>1, <2>2
<1>3. LatestAgentRunFound
  <2> SUFFICES ASSUME NEW i \in DOMAIN stores, NEW s \in StoreRec, s = stores[i], RingOK(s),
                      NEW runs, runs = {m \in DOMAIN s.log : s.log[m].kind = "agent"},
                      NEW n, n = Max(runs), runs # {}, Cardinality(Since(s, n)) < s.max
               PROVE  Contains(GetLastAgentRun(s), n)
    BY <1>1 DEF LatestAgentRunFound, Since
  <2>1. PICK k \in Nat : k = Len(s.log) /\ DOMAIN s.log = 1..k
    BY DEF StoreRec
  <2>2. runs \in SUBSET Nat /\ \A y \in runs : y <= k
    BY <2>1
  <2>3. n \in runs /\ \A y \in runs : y <= n
    BY <2>2, GreatestNumber
  <2>4. n \in DOMAIN s.log /\ s.log[n].kind = "agent"
    BY <2>3
  <2>5. \A m \in DOMAIN s.log : m > n => s.log[m].kind # "agent"
    <3> SUFFICES ASSUME NEW m \in 1..k, m > n, s.log[m].kind = "agent" PROVE FALSE
      BY <2>1
    <3>1. m \in runs
      BY <2>1
    <3>2. m <= n /\ n \in Nat
      BY <2>1, <2>3, <2>4, <3>1
    <3> QED BY <3>2
  <2> QED BY <2>4, <2>5, LatestRunIsThere
<1> QED BY <1>2, <1>3 DEF RingIsRecent

(* Whatever traces the application's threads record in turn, and whatever  *)
(* stores trace_store() and configure() put in place meanwhile: each holds *)
(* the most recently active traces with a gapless end of their events, and *)
(* the latest agent run until max_traces others have been active since.    *)
THEOREM RingHoldsTheRecent == StoreSpec => []RingIsRecent
BY StoreInitial, StoreStep, RingInvGives, PTL DEF StoreSpec

-----------------------------------------------------------------------------
(* The types of the components, each along its invariant *)

LEMMA CostTypesStep == AlertInv /\ CostTypeOK /\ [CostNext]_costVars => CostTypeOK'
<1> SUFFICES ASSUME AlertInv, CostTypeOK, [CostNext]_costVars PROVE CostTypeOK'
  OBVIOUS
<1>1. attached' \in Seq(Monitors) /\ fired' \in [Monitors -> BOOLEAN]
      /\ frames' \in [Threads -> Seq(Frame)] /\ alerted' \in [Monitors -> [Threads -> Nat]]
  BY CostStep DEF AlertInv, AlertTypes
<1>2. /\ costRecords' \in Seq([model : Models, usd : Costs])
      /\ costCalls' \in 0..MaxRecords /\ period' \in 0..MaxResets /\ inTime' \subseteq Monitors
  <2>1. CASE UNCHANGED costVars
    BY <2>1 DEF CostTypeOK, costVars
  <2>2. ASSUME NEW t \in Threads, NEW m \in Models, NEW c \in Costs, Record(t, m, c)
        PROVE  /\ costRecords' \in Seq([model : Models, usd : Costs])
               /\ costCalls' \in 0..MaxRecords /\ period' \in 0..MaxResets
               /\ inTime' \subseteq Monitors
    <3>1. [model |-> m, usd |-> c] \in [model : Models, usd : Costs]
      OBVIOUS
    <3>2. costRecords' \in Seq([model : Models, usd : Costs])
      <4> DEFINE R == [model : Models, usd : Costs]
      <4>1. costRecords \in Seq(R) /\ [model |-> m, usd |-> c] \in R
        BY <3>1 DEF CostTypeOK
      <4>2. costRecords' = Append(costRecords, [model |-> m, usd |-> c])
        BY <2>2 DEF Record
      <4> HIDE DEF R
      <4>3. costRecords' \in Seq(R)
        BY <4>1, <4>2
      <4> QED BY <4>3 DEF R
    <3>3. costCalls' \in 0..MaxRecords /\ period' \in 0..MaxResets
      BY <2>2, CostAssumption DEF Record, CostTypeOK
    <3>4. inTime' \subseteq Monitors
      <4>1. \A i \in DOMAIN attached : attached[i] \in Monitors
        BY DEF CostTypeOK
      <4> QED BY <2>2, <4>1 DEF Record
    <3> QED BY <3>2, <3>3, <3>4
  <2>3. ASSUME NEW t \in Threads, Reset(t)
        PROVE  /\ costRecords' \in Seq([model : Models, usd : Costs])
               /\ costCalls' \in 0..MaxRecords /\ period' \in 0..MaxResets
               /\ inTime' \subseteq Monitors
    <3>1. period' \in 0..MaxResets
      BY <2>3, CostAssumption DEF Reset, CostTypeOK
    <3> QED BY <2>3, <3>1 DEF Reset, CostTypeOK
  <2>4. ASSUME NEW t \in Threads,
               \/ SnapshotMonitors(t) \/ TestFired(t) \/ TestTotal(t) \/ Fire(t)
               \/ CallbackReturns(t) \/ RecordReturns(t)
               \/ \E m \in Monitors : AddMonitor(t, m)
        PROVE  UNCHANGED <<costRecords, costCalls, period, inTime>>
    BY <2>4 DEF SnapshotMonitors, TestFired, TestTotal, Fire, CallbackReturns, RecordReturns,
                AddMonitor
  <2>5. UNCHANGED <<costRecords, costCalls, period, inTime>>
          => /\ costRecords' \in Seq([model : Models, usd : Costs])
             /\ costCalls' \in 0..MaxRecords /\ period' \in 0..MaxResets
             /\ inTime' \subseteq Monitors
    BY DEF CostTypeOK
  <2> QED BY <2>1, <2>2, <2>3, <2>4, <2>5 DEF CostNext
<1> QED BY <1>1, <1>2 DEF CostTypeOK

LEMMA CostTypesInitial == CostInit => CostTypeOK
<1> SUFFICES ASSUME CostInit PROVE CostTypeOK
  OBVIOUS
<1>1. attached \in Seq(Monitors) /\ fired \in [Monitors -> BOOLEAN]
      /\ frames \in [Threads -> Seq(Frame)] /\ alerted \in [Monitors -> [Threads -> Nat]]
  BY AlertsInitial DEF AlertInv, AlertTypes
<1> QED BY <1>1, CostAssumption DEF CostInit, CostTypeOK

LEMMA CallbackTypesStep ==
  CallbackInv /\ CallbackTypeOK /\ [CallbackNext]_callbackVars => CallbackTypeOK'
<1> SUFFICES ASSUME CallbackInv, CallbackTypeOK, [CallbackNext]_callbackVars
             PROVE  CallbackTypeOK'
  OBVIOUS
<1>1. CallbackTypes'
  BY CallbackStep DEF CallbackInv
<1>2. handler' = handler
  BY DEF CallbackNext, callbackVars, OnAgentAction, OnToolStart, OpenToolSpan, OnToolEnd,
         OnTaskStart, OnTaskEnd, OnEventStart, OnEventEnd, OnLangChain, ClearEvents, Called
<1>3. exportTasks' = exportTasks \/ (callbacks < MaxCallbacks /\ exportTasks' = exportTasks \cup {New})
  BY DEF CallbackNext, callbackVars, OnAgentAction, OnToolStart, OpenToolSpan, OnToolEnd,
         OnTaskStart, OnTaskEnd, OnEventStart, OnEventEnd, OnLangChain, ClearEvents, Called,
         MakeEvent, Quiet
<1>4. exportTasks' \subseteq Numbers
  <2>1. callbacks < MaxCallbacks => New \in Numbers
    BY CallbackAssumption DEF CallbackTypeOK, New, Numbers
  <2> QED BY <1>3, <2>1 DEF CallbackTypeOK
<1>5. callbacks' \in 0..MaxCallbacks
  BY <1>1 DEF CallbackTypes
<1>6. /\ \A x \in 1..callbacks' : x \in Numbers
      /\ \A x \in 0..callbacks' : x \in Numbers \cup {0}
  BY <1>5, CallbackAssumption DEF Numbers
<1>7. toolSpans' \in Seq([key : CrewKeys, span : Numbers])
  <2>1. /\ toolSpans' \in Seq(CrewEntry)
        /\ \A i \in DOMAIN toolSpans' : toolSpans'[i].span \in Numbers
    BY <1>1, <1>6 DEF CallbackTypes
  <2>2. \A i \in DOMAIN toolSpans' : toolSpans'[i] \in [key : CrewKeys, span : Numbers]
    <3>1. \A i \in DOMAIN toolSpans' : toolSpans'[i] \in CrewEntry
      BY <2>1
    <3>2. \A x \in CrewEntry : x.span \in Numbers => x \in [key : CrewKeys, span : Numbers]
      BY DEF CrewEntry
    <3> QED BY <2>1, <3>1, <3>2
  <2> DEFINE R == [key : CrewKeys, span : Numbers]
  <2>3. \A i \in DOMAIN toolSpans' : toolSpans'[i] \in R
    BY <2>2
  <2> HIDE DEF R
  <2>4. toolSpans' \in Seq(R)
    BY <2>1, <2>3
  <2> QED BY <2>4 DEF R
<1>8. /\ taskSpans' \in [Tasks -> Numbers \cup {0}]
      /\ startTimes' \in [Tasks -> Numbers \cup {0}]
  <2>1. \A f \in [Tasks -> 0..callbacks'] : f \in [Tasks -> Numbers \cup {0}]
    <3> TAKE f \in [Tasks -> 0..callbacks']
    <3>1. \A k \in Tasks : f[k] \in Numbers \cup {0}
      BY <1>6
    <3> QED BY <3>1
  <2> QED BY <1>1, <2>1 DEF CallbackTypes
<1>9. crewOpen' \subseteq Numbers /\ crewExits' \in [Numbers -> Nat]
  <2>1. \A f \in [Numbers -> {0, 1}] : f \in [Numbers -> Nat]
    OBVIOUS
  <2> QED BY <1>1, <1>6, <2>1 DEF CallbackTypes
<1> QED BY <1>2, <1>4, <1>5, <1>7, <1>8, <1>9 DEF CallbackTypeOK

LEMMA CallbackTypesInitial == CallbackInit => CallbackTypeOK
BY CallbackAssumption DEF CallbackInit, CallbackTypeOK, Numbers

LEMMA ToSetIn ==
  ASSUME NEW S, NEW s \in Seq(S)
  PROVE  ToSet(s) \subseteq S
<1>1. \A i \in DOMAIN s : s[i] \in S
  OBVIOUS
<1> QED BY <1>1 DEF ToSet

IngestTyped == IngestTypeOK /\ Len(produced) <= MaxProduced

LEMMA ReturnTypes ==
  ASSUME IngestTypeOK, NEW events \in Seq(1..MaxProduced), NEW at \in 0..MaxProduced,
         Return(events, at)
  PROVE  /\ ingestPc' \in {"idle", "reading"} /\ committed' \in 0..MaxProduced
         /\ collected' \in Seq(1..MaxProduced) /\ returned' \in Seq(1..MaxProduced)
         /\ discarded' \subseteq 1..MaxProduced
<1> DEFINE Ps == 1..MaxProduced
<1>1. returned \in Seq(Ps) /\ events \in Seq(Ps)
  BY DEF IngestTypeOK
<1> HIDE DEF Ps
<1>2. returned \o events \in Seq(Ps) /\ <<>> \in Seq(Ps)
  BY <1>1
<1>3. returned' \in Seq(1..MaxProduced) /\ collected' \in Seq(1..MaxProduced)
  BY <1>2 DEF Return, Ps
<1>4. committed' \in 0..MaxProduced
  BY DEF Return, Closed, IngestTypeOK
<1> QED BY <1>3, <1>4 DEF Return, IngestTypeOK

LEMMA RaiseTypes ==
  ASSUME IngestTypeOK, NEW at \in 0..MaxProduced, Raise(at)
  PROVE  /\ ingestPc' \in {"idle", "reading"} /\ committed' \in 0..MaxProduced
         /\ collected' \in Seq(1..MaxProduced) /\ returned' \in Seq(1..MaxProduced)
         /\ discarded' \subseteq 1..MaxProduced
<1>1. ToSet(collected) \subseteq 1..MaxProduced
  <2>1. collected \in Seq(1..MaxProduced)
    BY DEF IngestTypeOK
  <2> QED BY <2>1, ToSetIn
<1>2. committed' \in 0..MaxProduced
  BY DEF Raise, Closed, IngestTypeOK
<1>3. <<>> \in Seq(1..MaxProduced)
  OBVIOUS
<1> QED BY <1>1, <1>2, <1>3 DEF Raise, IngestTypeOK

LEMMA IngestTypesStep == IngestTyped /\ [IngestNext]_ingestVars => IngestTyped'
<1> SUFFICES ASSUME IngestTyped, [IngestNext]_ingestVars PROVE IngestTyped'
  OBVIOUS
<1>1. MaxProduced \in Nat /\ MaxReads \in Nat
  BY IngestAssumption
<1>2. CASE UNCHANGED ingestVars
  BY <1>2 DEF IngestTyped, IngestTypeOK, ingestVars
<1>3. ASSUME NEW m \in {"event", "malformed", "sentinel"}, Produce(m) PROVE IngestTyped'
  <2>1. produced' \in Seq({"event", "malformed", "sentinel"}) /\ Len(produced') = Len(produced) + 1
    BY <1>3 DEF Produce, IngestTyped, IngestTypeOK
  <2>2. Len(produced) \in Nat /\ Len(produced) < MaxProduced
    BY <1>3 DEF Produce, IngestTyped, IngestTypeOK
  <2>3. Len(produced') <= MaxProduced
    BY <1>1, <2>1, <2>2
  <2> QED BY <1>3, <2>1, <2>3 DEF Produce, IngestTyped, IngestTypeOK
<1>4. CASE StartRead
  <2>1. reads' \in 0..MaxReads /\ position' \in 0..MaxProduced
    BY <1>1, <1>4 DEF StartRead, StartAt, IngestTyped, IngestTypeOK
  <2>2. <<>> \in Seq(1..MaxProduced)
    OBVIOUS
  <2> QED BY <1>4, <2>1, <2>2 DEF StartRead, IngestTyped, IngestTypeOK
<1>5. CASE TakeOne
  <2> DEFINE more == Append(collected, position + 1)   Ps == 1..MaxProduced
  <2>1. position + 1 \in Ps /\ position' = position + 1 /\ position' \in 0..MaxProduced
    <3>1. Len(produced) \in Nat /\ Len(produced) <= MaxProduced /\ position \in Nat
          /\ position < Len(produced) /\ position' = position + 1
      BY <1>1, <1>5 DEF TakeOne, IngestTyped, IngestTypeOK
    <3> QED BY <1>1, <3>1
  <2>2. collected \in Seq(Ps)
    BY DEF IngestTyped, IngestTypeOK
  <2>3. IngestTypeOK /\ UNCHANGED <<sourceKind, skipErrors, produced, reads>>
    BY <1>5 DEF TakeOne, IngestTyped
  <2>4. more \in Seq(Ps)
    <3> HIDE DEF Ps
    <3> QED BY <2>1, <2>2
  <2>5. \/ Return(collected, position') \/ Return(more, position')
        \/ Continue(collected) \/ Continue(more) \/ Raise(position')
    BY <1>5 DEF TakeOne
  <2> HIDE DEF more
  <2>6. /\ ingestPc' \in {"idle", "reading"} /\ committed' \in 0..MaxProduced
        /\ collected' \in Seq(1..MaxProduced) /\ returned' \in Seq(1..MaxProduced)
        /\ discarded' \subseteq 1..MaxProduced
    <3>1. CASE Return(collected, position')
      BY <2>1, <2>2, <2>3, <3>1, ReturnTypes
    <3>2. CASE Return(more, position')
      BY <2>1, <2>3, <2>4, <3>2, ReturnTypes
    <3>3. CASE Continue(collected)
      BY <2>3, <3>3 DEF Continue, IngestTypeOK
    <3>4. CASE Continue(more)
      BY <2>3, <2>4, <3>4 DEF Continue, IngestTypeOK
    <3>5. CASE Raise(position')
      BY <2>1, <2>3, <3>5, RaiseTypes
    <3> QED BY <2>5, <3>1, <3>2, <3>3, <3>4, <3>5
  <2> QED BY <2>1, <2>3, <2>6 DEF IngestTyped, IngestTypeOK
<1>6. CASE EndOfInput
  <2>1. /\ Return(collected, position)
        /\ UNCHANGED <<sourceKind, skipErrors, produced, position, reads>>
    BY <1>6 DEF EndOfInput
  <2>2. IngestTypeOK /\ collected \in Seq(1..MaxProduced) /\ position \in 0..MaxProduced
    BY DEF IngestTyped, IngestTypeOK
  <2>3. /\ ingestPc' \in {"idle", "reading"} /\ committed' \in 0..MaxProduced
        /\ collected' \in Seq(1..MaxProduced) /\ returned' \in Seq(1..MaxProduced)
        /\ discarded' \subseteq 1..MaxProduced
    BY <2>1, <2>2, ReturnTypes
  <2> QED BY <2>1, <2>3 DEF IngestTyped, IngestTypeOK
<1>7. CASE AutoCommit
  BY <1>7 DEF AutoCommit, IngestTyped, IngestTypeOK
<1>8. CASE CrashWhileReading
  <2>1. ToSet(collected) \subseteq 1..MaxProduced
    <3>1. collected \in Seq(1..MaxProduced)
      BY DEF IngestTyped, IngestTypeOK
    <3> QED BY <3>1, ToSetIn
  <2>2. 0 \in 0..MaxProduced /\ <<>> \in Seq(1..MaxProduced)
    BY <1>1
  <2> QED BY <1>8, <2>1, <2>2 DEF CrashWhileReading, IngestTyped, IngestTypeOK
<1> QED BY <1>2, <1>3, <1>4, <1>5, <1>6, <1>7, <1>8 DEF IngestNext

LEMMA IngestTypesInitial == IngestInit => IngestTyped
<1> SUFFICES ASSUME IngestInit PROVE IngestTyped
  OBVIOUS
<1>1. <<>> \in Seq(1..MaxProduced) /\ <<>> \in Seq({"event", "malformed", "sentinel"})
      /\ Len(produced) = 0
  BY DEF IngestInit
<1> QED BY <1>1, IngestAssumption DEF IngestInit, IngestTyped, IngestTypeOK

LEMMA AuditTypesStep ==
  AuditInv /\ VerifyInv /\ AuditTypeOK /\ [AuditNext]_auditVars => AuditTypeOK'
<1> SUFFICES ASSUME AuditInv, VerifyInv, AuditTypeOK, [AuditNext]_auditVars PROVE AuditTypeOK'
  OBVIOUS
<1> DEFINE CallRec == [id : 0..MaxSigned, key : Secrets \cup {NoSecret},
                    prev : 0..MaxSigned, new : Secrets \cup {NoSecret}]
<1>1. /\ secret' \in Secrets /\ keyMap' \in KeyMaps
      /\ auditPc' \in [Threads -> {"idle", "sign", "append", "map", "switch"}]
      /\ issued' \in 0..MaxSigned /\ overlapped' \in BOOLEAN
      /\ verifying' \in [Threads -> Verify]
  BY AuditStep, VerifyStep DEF AuditInv, AuditTypes, KeyMaps, VerifyInv
<1>2. MaxSigned \in Nat /\ issued \in 0..MaxSigned /\ NoCall \in CallRec
  BY AuditAssumption DEF AuditTypeOK, NoCall
<1>3. \A t \in Threads : pending[t] \in CallRec
  BY DEF AuditTypeOK
<1>4. signedEvents \in Seq(Signed) /\ pending \in [Threads -> CallRec]
  BY DEF AuditTypeOK
<1> HIDE DEF CallRec
<1>5. CASE UNCHANGED streamVars
  BY <1>1, <1>4, <1>5 DEF AuditTypeOK, streamVars, CallRec
<1>6. ASSUME NEW t \in Threads, NEW new \in Secrets \cup {NoSecret}, ReadPrev(t, new)
      PROVE  AuditTypeOK'
  <2>1. PrevId \in 0..MaxSigned
    <3>1. CASE signedEvents = <<>>
      BY <1>2, <3>1 DEF PrevId
    <3>2. CASE signedEvents # <<>>
      <4>1. signedEvents[Len(signedEvents)] \in Signed
        BY <1>4, <3>2
      <4> QED BY <1>2, <3>2, <4>1 DEF PrevId, Last, Signed, Ids1
    <3> QED BY <3>1, <3>2
  <2>2. [id |-> issued', key |-> NoSecret, prev |-> PrevId, new |-> new] \in CallRec
    BY <1>1, <2>1 DEF CallRec
  <2>3. pending' \in [Threads -> CallRec]
    BY <1>4, <1>6, <2>2 DEF ReadPrev
  <2> QED BY <1>1, <1>4, <1>6, <2>3 DEF ReadPrev, AuditTypeOK, CallRec
<1>7. ASSUME NEW t \in Threads, SignNow(t) PROVE AuditTypeOK'
  <2>1. [pending[t] EXCEPT !.key = secret] \in CallRec
    BY <1>3 DEF AuditTypeOK, CallRec
  <2>2. pending' = [pending EXCEPT ![t] = [pending[t] EXCEPT !.key = secret]]
    BY <1>7 DEF SignNow
  <2>3. pending' \in [Threads -> CallRec]
    BY <1>4, <2>1, <2>2
  <2> QED BY <1>1, <1>4, <1>7, <2>3 DEF SignNow, AuditTypeOK, CallRec
<1>8. ASSUME NEW t \in Threads, AppendSigned(t) PROVE AuditTypeOK'
  <2>1. auditPc[t] = "append"
    BY <1>8 DEF AppendSigned, Moves
  <2>2. pending[t].id \in 1..issued /\ pending[t].key \in Secrets
    BY <2>1 DEF AuditInv, IdInv, Holds
  <2> DEFINE e == [id |-> pending[t].id, key |-> pending[t].key, prev |-> pending[t].prev,
                   intact |-> TRUE, rest |-> TRUE]
  <2>3. e \in Signed
    <3>1. pending[t].id \in 1..MaxSigned
      BY <1>2, <2>2
    <3> QED BY <1>3, <2>2, <3>1 DEF Signed, Ids1, CallRec
  <2>4. signedEvents' = Append(signedEvents, e)
    BY <1>8 DEF AppendSigned
  <2> HIDE DEF e
  <2>5. signedEvents' \in Seq(Signed)
    BY <1>4, <2>3, <2>4
  <2>6. pending' \in [Threads -> CallRec]
    BY <1>2, <1>4, <1>8 DEF AppendSigned
  <2> QED BY <1>1, <2>5, <2>6 DEF AuditTypeOK, CallRec
<1>9. ASSUME NEW t \in Threads, MapKey(t) PROVE AuditTypeOK'
  BY <1>1, <1>4, <1>9 DEF MapKey, AuditTypeOK, CallRec
<1>10. ASSUME NEW t \in Threads, SwitchKey(t) PROVE AuditTypeOK'
  <2>1. pending' \in [Threads -> CallRec]
    BY <1>2, <1>4, <1>10 DEF SwitchKey
  <2> QED BY <1>1, <1>4, <1>10, <2>1 DEF SwitchKey, AuditTypeOK, CallRec
<1> QED BY <1>5, <1>6, <1>7, <1>8, <1>9, <1>10 DEF AuditNext, CopyKeys, ListEvents, auditVars

LEMMA AuditTypesInitial == AuditInit => AuditTypeOK
<1> SUFFICES ASSUME AuditInit PROVE AuditTypeOK
  OBVIOUS
<1>1. NoCall \in [id : 0..MaxSigned, key : Secrets \cup {NoSecret},
                   prev : 0..MaxSigned, new : Secrets \cup {NoSecret}]
  BY AuditAssumption DEF NoCall
<1>2. <<>> \in Seq(Signed) /\ 0 \in 0..MaxSigned
  BY AuditAssumption
<1>3. verifying \in [Threads -> Verify] /\ keyMap \in KeyMaps
  BY VerifyInitial DEF VerifyInv, AuditInit, KeyMaps
<1> HIDE DEF NoCall
<1> QED BY <1>1, <1>2, <1>3, AuditAssumption DEF AuditInit, AuditTypeOK

LEMMA BlocksGrow ==
  ASSUME NEW n \in Nat, NEW b \in [Threads -> Seq(1..n)]
  PROVE  b \in [Threads -> Seq(1..(n + 1))]
<1>1. \A i \in 1..n : i \in 1..(n + 1)
  OBVIOUS
<1>2. \A s \in Seq(1..n) : s \in Seq(1..(n + 1))
  <2> DEFINE S == 1..n   T == 1..(n + 1)
  <2>1. \A i \in S : i \in T
    BY <1>1
  <2> HIDE DEF S, T
  <2>2. \A s \in Seq(S) : s \in Seq(T)
    BY <2>1
  <2> QED BY <2>2 DEF S, T
<1> QED BY <1>2

LEMMA StoreTypesStep == RingInv /\ StoreTypeOK /\ [StoreNext]_ringVars => StoreTypeOK'
<1> SUFFICES ASSUME RingInv, StoreTypeOK, [StoreNext]_ringVars PROVE StoreTypeOK'
  OBVIOUS
<1> DEFINE n == Len(stores)
           Typed(d) == /\ theStore' \in d
                       /\ storePc' \in [Threads -> {"run", "record", "enter"}]
                       /\ target' \in [Threads -> Nat] /\ blocks' \in [Threads -> Seq(d)]
<1>1. stores \in Seq(StoreRec) /\ n \in Nat /\ DOMAIN stores = 1..n
  BY DEF RingInv
<1>2. RingInv'
  BY StoreStep
<1>3. \A i \in DOMAIN stores' :
        /\ stores'[i].max \in MaxTraces /\ stores'[i].last \in TraceIds \cup {0}
        /\ \A j \in DOMAIN stores'[i].traces : stores'[i].traces[j].id \in TraceIds
        /\ stores'[i].log \in Seq([trace : TraceIds, kind : Kinds])
  <2> TAKE i \in DOMAIN stores'
  <2>1. stores'[i] \in StoreRec
    BY <1>2 DEF RingInv
  <2>2. \A j \in DOMAIN stores'[i].traces : stores'[i].traces[j] \in TraceRec
    BY <2>1 DEF StoreRec
  <2>3. \A j \in DOMAIN stores'[i].traces : stores'[i].traces[j].id \in TraceIds
    BY <2>2 DEF TraceRec
  <2>4. stores'[i].max \in MaxTraces /\ stores'[i].last \in TraceIds \cup {0}
    BY <2>1 DEF StoreRec
  <2>5. stores'[i].log \in Seq(LogRec)
    BY <2>1 DEF StoreRec
  <2>6. stores'[i].log \in Seq([trace : TraceIds, kind : Kinds])
    BY <2>5 DEF LogRec
  <2> QED BY <2>3, <2>4, <2>6
<1>4. Typed(DOMAIN stores') => StoreTypeOK'
  BY <1>3, Zenon DEF StoreTypeOK
<1>5. /\ theStore \in 1..n /\ storePc \in [Threads -> {"run", "record", "enter"}]
      /\ target \in [Threads -> Nat] /\ blocks \in [Threads -> Seq(1..n)]
  BY <1>1 DEF StoreTypeOK
<1> HIDE DEF n
<1>6. CASE UNCHANGED ringVars
  BY <1>1, <1>4, <1>5, <1>6 DEF ringVars
<1>7. ASSUME NEW t \in Threads, TakeStore(t) PROVE StoreTypeOK'
  <2>1. theStore \in Nat
    BY <1>1, <1>5
  <2> QED BY <1>1, <1>4, <1>5, <1>7, <2>1 DEF TakeStore, Moves
<1>8. ASSUME NEW t \in Threads, NEW id \in TraceIds, NEW kind \in Kinds, RecordEvent(t, id, kind)
      PROVE  StoreTypeOK'
  <2>1. DOMAIN stores' = 1..n
    BY <1>1, <1>8 DEF RecordEvent
  <2> QED BY <1>4, <1>5, <1>8, <2>1 DEF RecordEvent, Moves
<1>9. ASSUME NEW t \in Threads, NEW max \in MaxTraces, ResetStore(t, max) \/ InstallStore(t, max)
      PROVE  StoreTypeOK'
  <2>1. /\ stores' = Append(stores, Fresh(max)) /\ theStore' = Len(stores')
        /\ UNCHANGED <<target, blocks>>
    BY <1>9 DEF ResetStore, InstallStore
  <2>2. Fresh(max) \in StoreRec
    BY FreshIsOK
  <2>3. DOMAIN stores' = 1..(n + 1) /\ theStore' = n + 1
    BY <1>1, <2>1, <2>2 DEF n
  <2>4. storePc' \in [Threads -> {"run", "record", "enter"}]
    BY <1>5, <1>9 DEF ResetStore, InstallStore, Moves
  <2>5. blocks' \in [Threads -> Seq(1..(n + 1))]
    BY <1>1, <1>5, <2>1, BlocksGrow
  <2> QED BY <1>1, <1>4, <1>5, <2>1, <2>3, <2>4, <2>5
<1>10. ASSUME NEW t \in Threads, EnterStoreBlock(t) PROVE StoreTypeOK'
  <2>1. Append(blocks[t], theStore) \in Seq(1..n)
    BY <1>5
  <2>2. blocks' \in [Threads -> Seq(1..n)]
    BY <1>5, <1>10, <2>1 DEF EnterStoreBlock
  <2> QED BY <1>1, <1>4, <1>5, <1>10, <2>2 DEF EnterStoreBlock, Moves
<1>11. ASSUME NEW t \in Threads, ExitStoreBlock(t) PROVE StoreTypeOK'
  <2>1. blocks[t] \in Seq(1..n) /\ blocks[t] # <<>>
    BY <1>5, <1>11 DEF ExitStoreBlock
  <2>2. Last(blocks[t]) \in 1..n
    <3> DEFINE S == 1..n
    <3>1. blocks[t] \in Seq(S) /\ blocks[t] # <<>>
      BY <2>1
    <3> HIDE DEF S
    <3>2. blocks[t][Len(blocks[t])] \in S
      BY <3>1
    <3> QED BY <3>2 DEF Last, S
  <2>3. Front(blocks[t]) \in Seq(1..n)
    <3> DEFINE S == 1..n
    <3>1. blocks[t] \in Seq(S) /\ Len(blocks[t]) \in Nat \ {0}
      BY <2>1
    <3> HIDE DEF S
    <3>2. SubSeq(blocks[t], 1, Len(blocks[t]) - 1) \in Seq(S)
      BY <3>1
    <3> QED BY <3>2 DEF Front, S
  <2>4. blocks' \in [Threads -> Seq(1..n)] /\ theStore' \in 1..n
    BY <1>5, <1>11, <2>2, <2>3 DEF ExitStoreBlock
  <2> QED BY <1>1, <1>4, <1>5, <1>11, <2>4 DEF ExitStoreBlock
<1>12. ASSUME NEW t \in Threads, Clear(t) PROVE StoreTypeOK'
  <2>1. DOMAIN stores' = 1..n
    BY <1>1, <1>12 DEF Clear
  <2> QED BY <1>4, <1>5, <1>12, <2>1 DEF Clear
<1>13. CASE StoreNext
  BY <1>7, <1>8, <1>9, <1>10, <1>11, <1>12, <1>13, Zenon DEF StoreNext
<1> QED BY <1>6, <1>13, Zenon

LEMMA StoreTypesInitial == StoreInit => StoreTypeOK
<1> SUFFICES ASSUME StoreInit PROVE StoreTypeOK
  OBVIOUS
<1>1. PICK max \in MaxTraces : stores = <<Fresh(max)>>
  BY DEF StoreInit
<1>2. DOMAIN stores = {1} /\ stores[1] = Fresh(max)
  BY <1>1
<1>3. /\ Fresh(max).max = max /\ Fresh(max).last = 0 /\ Fresh(max).traces = <<>>
      /\ Fresh(max).log = <<>> /\ DOMAIN <<>> = {}
  BY DEF Fresh
<1>4. \A S : <<>> \in Seq(S)
  OBVIOUS
<1>5. \A i \in DOMAIN stores :
        /\ stores[i].max \in MaxTraces /\ stores[i].last \in TraceIds \cup {0}
        /\ \A j \in DOMAIN stores[i].traces : stores[i].traces[j].id \in TraceIds
        /\ stores[i].log \in Seq([trace : TraceIds, kind : Kinds])
  BY <1>2, <1>3, <1>4
<1>6. /\ theStore \in DOMAIN stores /\ storePc \in [Threads -> {"run", "record", "enter"}]
      /\ target \in [Threads -> Nat] /\ blocks \in [Threads -> Seq(DOMAIN stores)]
  BY <1>2, <1>4 DEF StoreInit
<1> QED BY <1>5, <1>6, Zenon DEF StoreTypeOK

(* A batch of n events makes at most n chunks of each kind together, so    *)
(* the task never counts past MaxBatch requests.                           *)
LEMMA FewChunks ==
  ASSUME NEW n \in Nat
  PROVE  (n + BatchSize - 1) \div BatchSize \in 0..n
<1> DEFINE q == (n + BatchSize - 1) \div BatchSize
<1>1. BatchSize \in Nat \ {0}
  BY DeliveryAssumption
<1>2. n + BatchSize - 1 \in Nat
  BY <1>1
<1>3. q \in Nat /\ BatchSize * q <= n + BatchSize - 1
  BY <1>1, <1>2
<1> HIDE DEF q
<1>4. q <= n
  <2> SUFFICES ASSUME q >= n + 1 PROVE FALSE
    BY <1>3
  <2>1. BatchSize * q >= BatchSize * (n + 1)
    BY <1>1, <1>3
  <2>2. BatchSize * (n + 1) = BatchSize * n + BatchSize
    BY <1>1
  <2>3. BatchSize * n >= n
    BY <1>1
  <2>4. BatchSize * q \in Int /\ BatchSize * n \in Int
    BY <1>1, <1>3
  <2> QED BY <1>1, <1>3, <2>1, <2>2, <2>3, <2>4
<1>5. q \in 0..n
  BY <1>3, <1>4
<1> QED BY <1>5 DEF q

LEMMA RequestsAreFew ==
  ASSUME batch \in Seq(BatchEvent), batch # <<>>, Len(batch) <= MaxBatch, ~Parallel
  PROVE  Len(Requests) <= MaxBatch + 1
<1>1. /\ IsFiniteSet(Spans) /\ IsFiniteSet(NotSpans)
      /\ Len(batch) \in Nat /\ Len(batch) >= 1 /\ DOMAIN batch = 1..Len(batch) /\ MaxBatch \in Nat
  <2>1. Len(batch) \in Nat /\ Len(batch) >= 1 /\ DOMAIN batch = 1..Len(batch)
    OBVIOUS
  <2> QED BY <2>1, SpansAreFinite, DeliveryAssumption
<1>2. MaxBatch \in Nat /\ MaxBatch >= 1
  BY <1>1
<1>3. 0 <= MaxBatch + 1 /\ 1 <= MaxBatch + 1 /\ 2 <= MaxBatch + 1
  BY <1>2
<1>4. ASSUME NEW ids \in SUBSET DOMAIN batch, NEW to \in Endpoints
      PROVE  OneRequest(ids, to) \in Seq(Request) /\ Len(OneRequest(ids, to)) \in {0, 1}
  <2>1. [to |-> to, ids |-> ids] \in Request
    BY DEF Request
  <2>2. Len(<<>>) = 0 /\ \A x : Len(<<x>>) = 1
    OBVIOUS
  <2> QED BY <2>1, <2>2 DEF OneRequest
<1>5. CASE exporterKind \in {"webhook", "loki"}
  <2>1. Requests = OneRequest(DOMAIN batch, "hook") \/ Requests = OneRequest(DOMAIN batch, "loki")
    BY <1>5 DEF Requests
  <2>2. Len(Requests) \in {0, 1}
    BY <1>4, <2>1 DEF Endpoints
  <2> QED BY <1>3, <2>2, Zenon
<1>6. CASE exporterKind = "otlp"
  <2>1. Cardinality(Spans) \in Nat /\ Cardinality(NotSpans) \in Nat
    BY <1>1, FS_CardinalityType
  <2>2. Cardinality(Spans) + Cardinality(NotSpans) = Len(batch)
    <3>1. Spans \cap NotSpans = {} /\ Spans \cup NotSpans = DOMAIN batch
      BY DEF Spans, NotSpans, Where, BatchEvent
    <3>2. Cardinality(Spans \cup NotSpans)
            = Cardinality(Spans) + Cardinality(NotSpans) - Cardinality(Spans \cap NotSpans)
      BY <1>1, FS_Union
    <3>3. Cardinality(DOMAIN batch) = Len(batch)
      BY <1>1, FS_Interval
    <3>4. Cardinality({}) = 0
      BY FS_EmptySet
    <3>5. Cardinality(Spans \cap NotSpans) = 0
      BY <3>1, <3>4
    <3>6. Cardinality(Spans \cup NotSpans) = Len(batch)
      BY <3>1, <3>3
    <3> QED BY <2>1, <3>2, <3>5, <3>6
  <2> DEFINE a == Chunks(Spans, "spans")   b == Chunks(NotSpans, "logs")
             m == (Cardinality(Spans) + BatchSize - 1) \div BatchSize
             k == (Cardinality(NotSpans) + BatchSize - 1) \div BatchSize
  <2>3. m \in 0..Cardinality(Spans) /\ k \in 0..Cardinality(NotSpans)
    BY <2>1, FewChunks
  <2>4. Len(a) = m /\ Len(b) = k
    <3>1. DOMAIN a = 1..m /\ DOMAIN b = 1..k
      BY DEF Chunks
    <3>2. a \in Seq(Request) /\ b \in Seq(Request)
      <4>1. Spans \in SUBSET DOMAIN batch /\ NotSpans \in SUBSET DOMAIN batch
        BY DEF Spans, NotSpans, Where
      <4> QED BY <1>1, <4>1, ChunksAreSequences DEF Endpoints
    <3>3. m \in Nat /\ k \in Nat
      BY <2>1, <2>3
    <3> HIDE DEF a, b, m, k
    <3>4. DOMAIN a = 1..Len(a) /\ DOMAIN b = 1..Len(b) /\ Len(a) \in Nat /\ Len(b) \in Nat
      BY <3>2
    <3> QED BY <3>1, <3>3, <3>4, SameRange
  <2>5. Requests = a \o b
    BY <1>6 DEF Requests
  <2>6. a \in Seq(Request) /\ b \in Seq(Request)
    <3>1. Spans \in SUBSET DOMAIN batch /\ NotSpans \in SUBSET DOMAIN batch
      BY DEF Spans, NotSpans, Where
    <3> QED BY <1>1, <3>1, ChunksAreSequences DEF Endpoints
  <2> HIDE DEF a, b, m, k
  <2>7. Len(a \o b) = Len(a) + Len(b)
    BY <2>6
  <2>8. Len(Requests) = m + k
    BY <2>4, <2>5, <2>7
  <2> QED BY <1>1, <2>1, <2>2, <2>3, <2>8
<1>7. CASE exporterKind \notin {"webhook", "loki", "otlp"}
  <2> DEFINE a == OneRequest(Spans, "traces")   b == OneRequest(Measured, "metrics")
  <2>1. Requests = a \o b
    BY <1>7 DEF Requests
  <2>2. /\ a \in Seq(Request) /\ Len(a) \in {0, 1}
        /\ b \in Seq(Request) /\ Len(b) \in {0, 1}
    <3>1. Spans \in SUBSET DOMAIN batch /\ Measured \in SUBSET DOMAIN batch
      BY DEF Spans, Measured, Where
    <3> QED BY <1>4, <3>1 DEF Endpoints
  <2> HIDE DEF a, b
  <2>3. Len(Requests) = Len(a) + Len(b)
    BY <2>1, <2>2
  <2>4. \A x, y \in {0, 1} : x + y \in {0, 1, 2}
    OBVIOUS
  <2>5. Len(Requests) \in {0, 1, 2}
    BY <2>2, <2>3, <2>4, Zenon
  <2> QED BY <1>3, <2>5, Zenon
<1> QED BY <1>5, <1>6, <1>7

DeliveryTyped ==
  DeliveryTypeOK /\ (~Parallel => batch # <<>> /\ Len(batch) <= MaxBatch)

LEMMA DeliveryTypesStep ==
  DeliveryInv /\ DeliveryTyped /\ [DeliveryNext]_deliveryVars => DeliveryTyped'
<1> SUFFICES ASSUME DeliveryInv, DeliveryTyped, [DeliveryNext]_deliveryVars
             PROVE  DeliveryTyped'
  OBVIOUS
<1> DEFINE Rs == DOMAIN Requests   Ts == 1..(MaxRetries + 1)
<1>1. exporterKind' = exporterKind /\ batch' = batch
  BY DEF deliveryVars, DeliveryNext, Post, BackOffOver, Cancel, Succeeded, Failed, Refused, Arrive,
         Lose
<1>2. Requests' = Requests /\ Parallel' = Parallel
  BY <1>1 DEF Requests, Parallel, Chunks, Rank, Spans, NotSpans, Measured, Where
<1>3. waiting' \subseteq Rs
  BY <1>2, DeliveryStep DEF DeliveryInv, DeliveryTypes
<1>4. MaxRetries \in Nat /\ MaxBatch \in Nat
  BY DeliveryAssumption
<1>5. /\ dlPc \in {"post", "wait", "backoff", "done"} /\ result \in {"none", "ok", "raised", "cancelled"}
      /\ cursor \in 1..(MaxBatch + 1) /\ tries \in Ts /\ waiting \subseteq Rs
      /\ inFlight \subseteq Rs \X Ts /\ received \in Seq(Rs \X Ts)
  BY DEF DeliveryTyped, DeliveryTypeOK
<1> SUFFICES /\ dlPc' \in {"post", "wait", "backoff", "done"}
             /\ cursor' \in 1..(MaxBatch + 1) /\ tries' \in Ts
             /\ inFlight' \subseteq Rs \X Ts /\ received' \in Seq(Rs \X Ts)
             /\ result' \in {"none", "ok", "raised", "cancelled"}
  BY <1>1, <1>2, <1>3, Zenon DEF DeliveryTyped, DeliveryTypeOK
<1> HIDE DEF Rs
<1>6. CASE UNCHANGED deliveryVars
  BY <1>5, <1>6 DEF deliveryVars
<1>7. CASE Post
  <2>1. waiting' \X {tries} \subseteq Rs \X Ts
    BY <1>3, <1>5
  <2>2. inFlight' \subseteq Rs \X Ts
    BY <1>5, <1>7, <2>1 DEF Post
  <2> QED BY <1>5, <1>7, <2>2 DEF Post
<1>8. CASE BackOffOver
  BY <1>5, <1>8 DEF BackOffOver
<1>9. CASE Cancel
  BY <1>5, <1>9 DEF Cancel
<1>10. ASSUME NEW r \in waiting, Succeeded(r)
       PROVE  /\ dlPc' \in {"post", "wait", "backoff", "done"}
              /\ cursor' \in 1..(MaxBatch + 1) /\ tries' \in Ts
              /\ inFlight' \subseteq Rs \X Ts /\ received' \in Seq(Rs \X Ts)
              /\ result' \in {"none", "ok", "raised", "cancelled"}
  <2>1. UNCHANGED <<inFlight, received>> /\ dlPc = "wait"
    BY <1>10 DEF Succeeded
  <2>2. CASE UNCHANGED <<dlPc, cursor, tries, result>>
    BY <1>5, <2>1, <2>2
  <2>3. CASE dlPc' = "done" /\ result' = "ok" /\ UNCHANGED <<cursor, tries>>
    BY <1>5, <2>1, <2>3
  <2>4. CASE /\ ~Parallel /\ cursor # Len(Requests)
             /\ dlPc' = "post" /\ cursor' = cursor + 1 /\ tries' = 1 /\ UNCHANGED result
    <3>1. Len(Requests) <= MaxBatch + 1
      BY <2>4, RequestsAreFew DEF DeliveryInv, DeliveryTypes, DeliveryTyped
    <3>2. Requests \in Seq(Request)
      BY RequestsAreSequence DEF DeliveryInv, DeliveryTypes
    <3>3. cursor \in DOMAIN Requests
      BY <2>1 DEF DeliveryInv, DeliveryTypes
    <3>4. cursor \in 1..Len(Requests) /\ Len(Requests) \in Nat
      BY <3>2, <3>3
    <3>5. cursor + 1 \in 1..(MaxBatch + 1) /\ 1 \in Ts
      BY <1>4, <2>4, <3>1, <3>4
    <3> QED BY <1>5, <2>1, <2>4, <3>5
  <2> QED BY <1>10, <2>2, <2>3, <2>4 DEF Succeeded
<1>11. ASSUME NEW r \in waiting, Failed(r) \/ Refused(r)
       PROVE  /\ dlPc' \in {"post", "wait", "backoff", "done"}
              /\ cursor' \in 1..(MaxBatch + 1) /\ tries' \in Ts
              /\ inFlight' \subseteq Rs \X Ts /\ received' \in Seq(Rs \X Ts)
              /\ result' \in {"none", "ok", "raised", "cancelled"}
  <2>1. inFlight' \subseteq inFlight /\ received' = received
    BY <1>11 DEF Failed, Refused
  <2>2. Raises \/ BackOff
    BY <1>11 DEF Failed, Refused, OnFailure
  <2>3. CASE Raises
    BY <1>5, <2>1, <2>3 DEF Raises
  <2>4. CASE BackOff
    <3>1. tries' \in Ts
      BY <1>4, <1>5, <2>4 DEF BackOff
    <3> QED BY <1>5, <2>1, <2>4, <3>1 DEF BackOff
  <2> QED BY <2>2, <2>3, <2>4
<1>12. ASSUME NEW q \in inFlight, Arrive(q) \/ Lose(q)
       PROVE  /\ dlPc' \in {"post", "wait", "backoff", "done"}
              /\ cursor' \in 1..(MaxBatch + 1) /\ tries' \in Ts
              /\ inFlight' \subseteq Rs \X Ts /\ received' \in Seq(Rs \X Ts)
              /\ result' \in {"none", "ok", "raised", "cancelled"}
  <2>1. inFlight' \subseteq Rs \X Ts
    BY <1>5, <1>12 DEF Arrive, Lose
  <2>2. Append(received, q) \in Seq(Rs \X Ts)
    <3> DEFINE S == Rs \X Ts
    <3>1. received \in Seq(S) /\ q \in S
      BY <1>5
    <3> HIDE DEF S
    <3>2. Append(received, q) \in Seq(S)
      BY <3>1
    <3> QED BY <3>2 DEF S
  <2> QED BY <1>5, <1>12, <2>1, <2>2 DEF Arrive, Lose
<1>13. CASE DeliveryNext
  BY <1>7, <1>8, <1>9, <1>10, <1>11, <1>12, <1>13, Zenon DEF DeliveryNext
<1> QED BY <1>6, <1>13, Zenon

LEMMA DeliveryTypesInitial == DeliveryInit => DeliveryTyped
<1> SUFFICES ASSUME DeliveryInit PROVE DeliveryTyped
  OBVIOUS
<1>1. MaxRetries \in Nat /\ MaxBatch \in Nat
  BY DeliveryAssumption
<1>2. batch \in Seq(BatchEvent)
  BY DeliveryInitial DEF DeliveryInv, DeliveryTypes
<1>3. ~Parallel => batch # <<>> /\ Len(batch) <= MaxBatch
  <2> SUFFICES ASSUME ~Parallel PROVE batch # <<>> /\ Len(batch) <= MaxBatch
    OBVIOUS
  <2>1. PICK n \in 1..MaxBatch : batch \in [1..n -> BatchEvent]
    BY DEF DeliveryInit
  <2>2. DOMAIN batch = 1..n /\ n \in Nat /\ 1 \in 1..n
    BY <1>1, <2>1
  <2>3. Len(batch) = n
    BY <2>1, <2>2
  <2>4. batch # <<>>
    BY <2>2
  <2> QED BY <1>1, <2>1, <2>3, <2>4
<1>4. 1 \in 1..(MaxBatch + 1) /\ 1 \in 1..(MaxRetries + 1)
  BY <1>1
<1>5. \A S : <<>> \in Seq(S)
  OBVIOUS
<1> QED BY <1>2, <1>3, <1>4, <1>5 DEF DeliveryInit, DeliveryTyped, DeliveryTypeOK

-----------------------------------------------------------------------------
(* All of them *)

RuntimeTyped ==
  /\ part \in Parts
  /\ SpanTyped /\ AlertInv /\ CostTypeOK /\ BreakerInv /\ CacheInv
  /\ RingInv /\ StoreTypeOK /\ AuditInv /\ VerifyInv /\ AuditTypeOK /\ UlidInv
  /\ DeliveryInv /\ DeliveryTyped /\ IngestTyped /\ HooksInv /\ PatchInv
  /\ CallbackInv /\ CallbackTypeOK

LEMMA EachStepIsTheirs ==
  ASSUME [RuntimeNext]_runtimeVars
  PROVE  /\ part' = part
         /\ [TimeoutNext]_spanVars /\ [CostNext]_costVars /\ [ResilienceNext]_resilienceVars
         /\ [CacheNext]_cacheVars /\ [StoreNext]_ringVars /\ [AuditNext]_auditVars
         /\ [UlidNext]_ulidVars /\ [DeliveryNext]_deliveryVars /\ [IngestNext]_ingestVars
         /\ [HooksNext]_hookVars /\ [PatchNext]_patchVars /\ [CallbackNext]_callbackVars
<1>1. CASE RuntimeNext
  BY <1>1 DEF RuntimeNext, Only
<1>2. CASE UNCHANGED runtimeVars
  BY <1>2 DEF runtimeVars
<1> QED BY <1>1, <1>2

(* Whichever component runs, and in any interleaving of its threads: its   *)
(* variables keep to their types, for every value of the constants.        *)
THEOREM RuntimeTypes == RuntimeSpec => []RuntimeTypeOK
<1>1. RuntimeInit => RuntimeTyped
  BY TimeoutTypesInitial, AlertsInitial, CostTypesInitial, BreakersInitial, CacheInitial,
     StoreInitial,
     StoreTypesInitial, AuditInitial, VerifyInitial, AuditTypesInitial, UlidInitial,
     DeliveryInitial,
     DeliveryTypesInitial, IngestTypesInitial, HooksInitial, PatchInitial, CallbackInitial,
     CallbackTypesInitial DEF RuntimeInit, RuntimeTyped
<1>2. RuntimeTyped /\ [RuntimeNext]_runtimeVars => RuntimeTyped'
  BY EachStepIsTheirs, TimeoutTypesStep, CostStep, CostTypesStep, BreakerStep, CacheStepKeeps,
     StoreStep,
     StoreTypesStep, AuditStep, VerifyStep, AuditTypesStep, UlidStep, DeliveryStep,
     DeliveryTypesStep,
     IngestTypesStep, HooksStep, PatchStep, CallbackStep, CallbackTypesStep DEF RuntimeTyped
<1>3. RuntimeTyped => RuntimeTypeOK
  <2> SUFFICES ASSUME RuntimeTyped PROVE RuntimeTypeOK
    OBVIOUS
  <2>1. /\ TimeoutTypeOK /\ CostTypeOK /\ ResilienceTypeOK /\ CacheTypeOK /\ StoreTypeOK
        /\ AuditTypeOK /\ UlidTypeOK /\ DeliveryTypeOK /\ IngestTypeOK /\ HooksTypeOK
        /\ PatchTypeOK /\ CallbackTypeOK
    BY DEF RuntimeTyped, SpanTyped, CacheInv, BreakerInv, UlidInv, DeliveryTyped, IngestTyped,
           HooksInv, Bounded, PatchInv, PatchTypes
  <2>2. part \in Parts
    BY DEF RuntimeTyped
  <2> QED BY <2>1, <2>2 DEF RuntimeTypeOK, Parts
<1> QED BY <1>1, <1>2, <1>3, PTL DEF RuntimeSpec
=============================================================================
