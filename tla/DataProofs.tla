----------------------------- MODULE DataProofs -----------------------------
(***************************************************************************)
(* The registries and the data of the library.  governance.check_event     *)
(* consults its policy outside the lock, and yet what every policy blocked *)
(* during a check is refused; redaction policies mask what they cover; a   *)
(* tool's description agrees with what its calls accept; payloads and      *)
(* events come back as they were from a dict, from JSON and from a model.  *)
(***************************************************************************)
EXTENDS DataMC, Induction, SequenceTheorems, FiniteSetTheorems, TLAPS

Policies   == 1..2
PolicyType == [blocked : SUBSET EventTypes, deprecated : SUBSET EventTypes,
               vetoed : SUBSET EventTypes, strict : BOOLEAN]
BlockedBy(p) == IF p = 0 THEN {} ELSE policyOf[p].blocked

GovTypes ==
  /\ policyOf \in [Policies -> PolicyType] /\ current \in Policies \cup {0}
  /\ govPolicy \in [Threads -> Policies \cup {0}] /\ heldAll \in [Threads -> SUBSET EventTypes]
  /\ govType \in [Threads -> EventTypes]
  /\ govPc \in [Threads -> {"idle", "blocked?", "deprecated?", "vetoed?", "known?",
                            "passed", "refused"}]
  /\ consumers \in Seq([name : {"a", "b"}, major : 1..2, minor : 0..1])

(* A policy's sets only grow: what was held all along is still blocked by  *)
(* the policy that was read, even if that one is no longer the global one. *)
HeldIsBlocked == \A t \in Threads : heldAll[t] \subseteq BlockedBy(govPolicy[t])

(* Past the first test the type was not in the policy, so not held either. *)
PastBlocked == {"deprecated?", "vetoed?", "known?", "passed"}
PastTest    == \A t \in Threads : govPc[t] \in PastBlocked => govType[t] \notin heldAll[t]

GovInv == GovTypes /\ HeldIsBlocked /\ PastTest

LEMMA GovInitial == EventTypes # {} /\ GovInit => GovInv
<1> SUFFICES ASSUME EventTypes # {}, GovInit PROVE GovInv
  OBVIOUS
<1>1. NoPolicy \in PolicyType /\ [NoPolicy EXCEPT !.strict = TRUE] \in PolicyType
  BY DEF NoPolicy, PolicyType
<1>2. policyOf \in [Policies -> PolicyType]
  <2>1. \A a, b \in PolicyType : <<a, b>> \in [1..2 -> PolicyType]
    OBVIOUS
  <2> QED BY <1>1, <2>1 DEF GovInit, Policies
<1>3. GovTypes
  BY <1>2 DEF GovInit, GovTypes, Policies
<1>4. HeldIsBlocked /\ PastTest
  BY DEF GovInit, HeldIsBlocked, PastTest, PastBlocked
<1> QED BY <1>3, <1>4 DEF GovInv

(* Replacing the global policy takes from what is held, adds nothing.      *)
LEMMA SetGlobalPolicyKeeps ==
  ASSUME GovInv, NEW p \in 0..2, SetGlobalPolicy(p)
  PROVE  GovInv'
<1>1. /\ current' = p /\ UNCHANGED <<policyOf, govPc, govType, govPolicy, consumers>>
      /\ \A t \in Threads : heldAll'[t] \subseteq heldAll[t]
      /\ DOMAIN heldAll' = Threads /\ heldAll' = [t \in Threads |-> heldAll'[t]]
  BY DEF GovInv, GovTypes, SetGlobalPolicy, Held
<1>2. GovTypes'
  BY <1>1 DEF GovInv, GovTypes, Policies
<1>3. HeldIsBlocked' /\ PastTest'
  BY <1>1 DEF GovInv, HeldIsBlocked, BlockedBy, PastTest
<1> QED BY <1>2, <1>3 DEF GovInv

LEMMA AddToKeeps ==
  ASSUME GovInv, NEW p \in 1..2, NEW s \in {"blocked", "deprecated", "vetoed"},
         NEW e \in EventTypes, AddTo(p, s, e)
  PROVE  GovInv'
<1> DEFINE grown == [policyOf[p] EXCEPT ![s] = @ \cup {e}]
<1>1. policyOf \in [Policies -> PolicyType] /\ p \in Policies
  BY DEF GovInv, GovTypes, Policies
<1>2. policyOf' = [policyOf EXCEPT ![p] = grown]
  BY DEF AddTo
<1>3. UNCHANGED <<current, govPc, govType, govPolicy, heldAll, consumers>>
  BY DEF AddTo
<1>4. policyOf[p] \in PolicyType
  BY <1>1
<1>5. grown \in PolicyType /\ policyOf[p].blocked \subseteq grown.blocked
  <2>1. CASE s = "blocked"
    BY <1>4, <2>1 DEF PolicyType
  <2>2. CASE s = "deprecated"
    BY <1>4, <2>2 DEF PolicyType
  <2>3. CASE s = "vetoed"
    BY <1>4, <2>3 DEF PolicyType
  <2> QED BY <2>1, <2>2, <2>3
<1>6. /\ policyOf' \in [Policies -> PolicyType]
      /\ \A q \in Policies : policyOf[q].blocked \subseteq policyOf'[q].blocked
  <2> HIDE DEF grown
  <2> QED BY <1>2, <1>1, <1>5
<1>7. GovTypes'
  BY <1>3, <1>6 DEF GovInv, GovTypes
<1>8. HeldIsBlocked'
  BY <1>3, <1>6 DEF GovInv, GovTypes, HeldIsBlocked, BlockedBy
<1> QED BY <1>3, <1>7, <1>8 DEF GovInv, PastTest

LEMMA ReadPolicyKeeps ==
  ASSUME GovInv, NEW t \in Threads, NEW e \in EventTypes, ReadPolicy(t, e)
  PROVE  GovInv'
<1>1. /\ GovTypes /\ current \in Policies \cup {0}
      /\ govType' = [govType EXCEPT ![t] = e] /\ govPolicy' = [govPolicy EXCEPT ![t] = current]
      /\ govPc' = [govPc EXCEPT ![t] = IF current = 0 THEN "passed" ELSE "blocked?"]
      /\ heldAll' = [heldAll EXCEPT ![t] = BlockedBy(current)]
      /\ UNCHANGED <<policyOf, current, consumers>>
  BY DEF GovInv, GovTypes, ReadPolicy, PolicyRead, BlockedNow, BlockedBy
<1>2. BlockedBy(current) \subseteq EventTypes
  BY <1>1 DEF GovTypes, BlockedBy, PolicyType
<1>3. GovTypes'
  BY <1>1, <1>2 DEF GovTypes
<1>4. HeldIsBlocked'
  BY <1>1 DEF GovInv, GovTypes, HeldIsBlocked, BlockedBy
<1>5. PastTest'
  <2> SUFFICES ASSUME NEW u \in Threads, govPc'[u] \in PastBlocked
               PROVE  govType'[u] \notin heldAll'[u]
    BY DEF PastTest
  <2>1. CASE u = t
    BY <1>1, <2>1 DEF GovTypes, PastBlocked, BlockedBy
  <2>2. CASE u # t
    BY <1>1, <2>2 DEF GovInv, GovTypes, PastTest
  <2> QED BY <2>1, <2>2
<1> QED BY <1>3, <1>4, <1>5 DEF GovInv

(* The other steps of a check change nothing but its program counter.      *)
LEMMA CheckKeeps ==
  ASSUME GovInv, NEW t \in Threads,
         \/ CheckBlocked(t) \/ CheckDeprecated(t) \/ CheckRules(t) \/ CheckRegistered(t)
  PROVE  GovInv'
<1>1. GovTypes /\ UNCHANGED <<policyOf, current, govType, govPolicy, heldAll, consumers>>
  BY DEF GovInv, CheckBlocked, CheckDeprecated, CheckRules, CheckRegistered
<1>2. PICK to \in {"deprecated?", "vetoed?", "known?", "passed", "refused"} :
        /\ govPc' = [govPc EXCEPT ![t] = to]
        /\ to # "refused" => \/ govPc[t] = "blocked?" /\ ~Blocks(t)
                             \/ govPc[t] \in PastBlocked
  BY DEF CheckBlocked, CheckDeprecated, CheckRules, CheckRegistered, Moves, PastBlocked
<1>3. GovTypes' /\ HeldIsBlocked'
  BY <1>1, <1>2 DEF GovInv, GovTypes, HeldIsBlocked, BlockedBy
<1>4. to # "refused" => govType[t] \notin heldAll[t]
  <2>1. CASE govPc[t] = "blocked?" /\ ~Blocks(t)
    BY <2>1 DEF GovInv, HeldIsBlocked, BlockedBy, Blocks, Policy
  <2>2. CASE govPc[t] \in PastBlocked
    BY <2>2 DEF GovInv, PastTest
  <2> QED BY <1>2, <2>1, <2>2
<1>5. PastTest'
  BY <1>1, <1>2, <1>4 DEF GovInv, GovTypes, PastTest, PastBlocked
<1> QED BY <1>3, <1>5 DEF GovInv

LEMMA GovStep == GovInv /\ [GovNext]_govVars => GovInv'
<1> SUFFICES ASSUME GovInv, [GovNext]_govVars PROVE GovInv'
  OBVIOUS
<1> USE DEF GovInv, GovTypes, HeldIsBlocked, BlockedBy, PastTest
<1>1. ASSUME NEW p \in 0..2, SetGlobalPolicy(p) PROVE GovInv'
  BY <1>1, SetGlobalPolicyKeeps
<1>2. ASSUME NEW p \in 1..2, NEW s \in {"blocked", "deprecated", "vetoed"},
             NEW e \in EventTypes, AddTo(p, s, e)
      PROVE  GovInv'
  BY <1>2, AddToKeeps
<1>3. ASSUME NEW t \in Threads, NEW e \in EventTypes, ReadPolicy(t, e) PROVE GovInv'
  BY <1>3, ReadPolicyKeeps
<1>4. ASSUME NEW t \in Threads,
             CheckBlocked(t) \/ CheckDeprecated(t) \/ CheckRules(t) \/ CheckRegistered(t)
      PROVE  GovInv'
  BY <1>4, CheckKeeps
<1>5. ASSUME NEW n \in {"a", "b"}, NEW major \in 1..2, NEW minor \in 0..1,
             RegisterConsumer(n, major, minor)
      PROVE  GovInv'
  BY <1>5 DEF RegisterConsumer
<1>6. ASSUME ClearConsumers PROVE GovInv'
  BY <1>6 DEF ClearConsumers
<1>7. ASSUME UNCHANGED govVars PROVE GovInv'
  BY <1>7 DEF govVars
<1> QED BY <1>1, <1>2, <1>3, <1>4, <1>5, <1>6, <1>7 DEF GovNext

(* What the global policy blocked throughout a check is refused.           *)
THEOREM BlockedIsRefused == GovSpec => []BlockedThroughoutIsRefused
<1>1. GovInv => BlockedThroughoutIsRefused
  BY DEF GovInv, PastTest, PastBlocked, BlockedThroughoutIsRefused
<1>2. GovInit => GovInv
  BY RegistriesAssumption, GovInitial
<1> QED BY <1>1, <1>2, GovStep, PTL DEF GovSpec

(* A consumer on record leaves at most one major version compatible.       *)
THEOREM OneMajor == GovSpec => []OneMajorAtMost
<1>1. GovInv => OneMajorAtMost
  <2> SUFFICES ASSUME GovInv, consumers # <<>>, NEW a \in 1..2, NEW b \in 1..2,
                      NEW x \in 0..1, NEW y \in 0..1,
                      Incompatible(a, x) = {}, Incompatible(b, y) = {}
               PROVE  a = b
    BY DEF OneMajorAtMost
  <2>1. 1 \in DOMAIN consumers
    BY DEF GovInv, GovTypes
  <2>2. ~NeedsMore(consumers[1], a, x) /\ ~NeedsMore(consumers[1], b, y)
    BY <2>1 DEF Incompatible
  <2> QED BY <2>2 DEF NeedsMore
<1>2. GovInit => GovInv
  BY RegistriesAssumption, GovInitial
<1> QED BY <1>1, <1>2, GovStep, PTL DEF GovSpec

(* Neither the governance check nor the compatibility check falls short.   *)
THEOREM GovernanceIsKept == GovSpec => []GovernanceHolds
BY BlockedIsRefused, OneMajor, PTL DEF GovernanceHolds

-----------------------------------------------------------------------------
(* Redaction: any values in any containers, any number of policies.        *)

(* A judgement, or a text, is given up with the next policy, so it is of   *)
(* what is masked now; and no policy takes a mask off.                     *)
JudgedAsIs == judged = "clean" => LeftOver = {}
TextAsIs   == text = "raised" => Redactables # {}

RedactionInv ==
  /\ container \in [Values -> Containers] /\ sensitivity \in [Values -> Levels]
  /\ masked \subseteq Values /\ policies \in Seq(Levels)
  /\ CoveredIsMasked /\ JudgedAsIs /\ TextAsIs

LEMMA RedactionInitial == RedactionInit => RedactionInv
<1> SUFFICES ASSUME RedactionInit PROVE RedactionInv
  OBVIOUS
<1>1. /\ container \in [Values -> Containers] /\ sensitivity \in [Values -> Levels]
      /\ masked = {} /\ policies = <<>> /\ judged = "not asked" /\ text = "none"
  BY DEF RedactionInit
<1>2. <<>> \in Seq(Levels)
  OBVIOUS
<1>4. policies \in Seq(Levels)
  BY <1>1, <1>2
<1>3. CoveredIsMasked
  <2>1. policies = <<>>
    BY <1>1
  <2>2. DOMAIN policies = {}
    BY <2>1
  <2> QED BY <2>2, Zenon DEF CoveredIsMasked
<1> QED BY <1>1, <1>3, <1>4 DEF RedactionInv, JudgedAsIs, TextAsIs

(* A policy masks what it covers and adds to what was masked.              *)
LEMMA ApplyPolicyKeeps ==
  ASSUME RedactionInv, NEW min \in Levels, ApplyPolicy(min)
  PROVE  RedactionInv'
<1> DEFINE hit == {v \in Redactables : container[v] \in Rewritten /\ ShouldRedact(v, min)}
<1>1. /\ container' = container /\ sensitivity' = sensitivity /\ masked' = masked \cup hit
      /\ policies' = Append(policies, min) /\ judged' = "not asked" /\ text' = "none"
  BY DEF ApplyPolicy
<1>2. policies \in Seq(Levels) /\ masked' \subseteq Values
  BY <1>1 DEF RedactionInv, Redactables
<1> HIDE DEF hit
<1>3. /\ policies' \in Seq(Levels) /\ DOMAIN policies' = 1..(Len(policies) + 1)
      /\ policies'[Len(policies) + 1] = min
      /\ \A i \in 1..Len(policies) : policies'[i] = policies[i] /\ i \in DOMAIN policies
      /\ Len(policies) \in Nat
  <2>1. policies' = Append(policies, min) /\ policies \in Seq(Levels) /\ min \in Levels
    BY <1>1, <1>2
  <2> QED BY <2>1
<1>4. CoveredIsMasked'
  <2> SUFFICES ASSUME NEW v \in Values, NEW i \in DOMAIN policies',
                      container[v] \in Rewritten, sensitivity[v] >= policies'[i]
               PROVE  v \in masked'
    BY <1>1 DEF CoveredIsMasked
  <2>1. CASE i = Len(policies) + 1
    BY <1>1, <1>3, <2>1 DEF hit, Redactables, ShouldRedact
  <2>2. CASE i \in 1..Len(policies)
    BY <1>1, <1>3, <2>2 DEF RedactionInv, CoveredIsMasked
  <2> QED BY <1>3, <2>1, <2>2
<1>5. JudgedAsIs' /\ TextAsIs'
  BY <1>1 DEF JudgedAsIs, TextAsIs
<1> QED BY <1>1, <1>2, <1>3, <1>4, <1>5 DEF RedactionInv

LEMMA RedactionStep == RedactionInv /\ [RedactionNext]_redactionVars => RedactionInv'
<1> SUFFICES ASSUME RedactionInv, [RedactionNext]_redactionVars PROVE RedactionInv'
  OBVIOUS
<1>1. ASSUME NEW min \in Levels, ApplyPolicy(min) PROVE RedactionInv'
  BY <1>1, ApplyPolicyKeeps
<1>2. CASE AssertRedacted
  BY <1>2 DEF AssertRedacted, RedactionInv, CoveredIsMasked, JudgedAsIs, TextAsIs,
     LeftOver, Redactables
<1>3. CASE WriteJson
  BY <1>3 DEF WriteJson, JsonOf, RedactionInv, CoveredIsMasked, JudgedAsIs, TextAsIs,
     LeftOver, Redactables
<1>4. CASE UNCHANGED redactionVars
  BY <1>4 DEF redactionVars, RedactionInv, CoveredIsMasked, JudgedAsIs, TextAsIs,
     LeftOver, Redactables
<1> QED BY <1>1, <1>2, <1>3, <1>4 DEF RedactionNext

(* Policies mask what they cover wherever they reach, and what was judged  *)
(* clean can be written, but for a value in an object nobody searches.     *)
THEOREM PoliciesHold == RedactionSpec => []RedactionHolds
<1>1. RedactionInv => RedactionHolds
  <2> SUFFICES ASSUME RedactionInv, judged = "clean", text = "raised"
               PROVE  \E v \in Redactables : container[v] = "object"
    BY DEF RedactionInv, RedactionHolds, CleanCanBeWritten
  <2>1. PICK v \in Redactables : TRUE
    BY DEF RedactionInv, TextAsIs
  <2>2. container[v] \notin Found /\ container[v] \in Containers
    BY DEF RedactionInv, JudgedAsIs, LeftOver, Redactables
  <2> QED BY <2>2 DEF Found, Rewritten, Containers
<1> QED BY <1>1, RedactionInitial, RedactionStep, PTL DEF RedactionSpec
-----------------------------------------------------------------------------
(* The two meanings of an annotation, found level by level.                *)
Meanings == [Annotations -> SUBSET JsonValues]

NothingYet == [a \in Annotations |-> {}]
LegalStep == [n \in Nat |-> [h \in Meanings |->
                [a \in Annotations |-> Admitted(a, PartsOf(a.args), h)]]]
SchemaStep == [n \in Nat |-> [h \in Meanings |->
                [a \in Annotations |-> Admitted(a, DescribedMembers(a), h)]]]

LEMMA StepsAreMeanings ==
  /\ NothingYet \in Meanings
  /\ LegalStep \in [Nat -> [Meanings -> Meanings]]
  /\ SchemaStep \in [Nat -> [Meanings -> Meanings]]
<1>1. NothingYet \in Meanings
  BY DEF NothingYet, Meanings
<1>2. \A a, members, h : Admitted(a, members, h) \in SUBSET JsonValues
  BY DEF Admitted
<1>3. /\ \A h : [a \in Annotations |-> Admitted(a, PartsOf(a.args), h)] \in Meanings
      /\ \A h : [a \in Annotations |-> Admitted(a, DescribedMembers(a), h)] \in Meanings
  BY <1>2 DEF Meanings
<1> HIDE DEF Meanings
<1> QED BY <1>1, <1>3 DEF LegalStep, SchemaStep

LEMMA LegalValues ==
  /\ LegalAt \in [Nat -> Meanings] /\ LegalAt[0] = NothingYet
  /\ \A n \in Nat : LegalAt[n + 1] =
       [a \in Annotations |-> Admitted(a, PartsOf(a.args), LegalAt[n])]
<1> DEFINE body(f) == [n \in Nat |->
                        IF n = 0 THEN NothingYet
                        ELSE [a \in Annotations |-> Admitted(a, PartsOf(a.args), f[n - 1])]]
<1>1. PICK f : IsIteration(f, Meanings, NothingYet, LegalStep)
  BY StepsAreMeanings, IterationsExist, Zenon
<1>2. /\ f \in [Nat -> Meanings] /\ f[0] = NothingYet
      /\ \A n \in Nat : f[n + 1] = LegalStep[n][f[n]]
  BY <1>1, Zenon DEF IsIteration
<1>3. ASSUME NEW n \in Nat
      PROVE  f[n + 1] = [a \in Annotations |-> Admitted(a, PartsOf(a.args), f[n])]
  <2>1. f[n] \in Meanings
    BY <1>2
  <2>2. LegalStep[n][f[n]] = [a \in Annotations |-> Admitted(a, PartsOf(a.args), f[n])]
    BY <2>1, Zenon DEF LegalStep
  <2> QED BY <1>2, <2>2
<1>4. f = body(f)
  <2>1. ASSUME NEW n \in Nat PROVE f[n] = body(f)[n]
    <3>1. CASE n = 0
      BY <1>2, <3>1
    <3>2. CASE n # 0
      <4>1. n - 1 \in Nat /\ (n - 1) + 1 = n
        BY <3>2
      <4>2. f[n] = [a \in Annotations |-> Admitted(a, PartsOf(a.args), f[n - 1])]
        BY <1>3, <4>1
      <4>3. body(f)[n] = [a \in Annotations |-> Admitted(a, PartsOf(a.args), f[n - 1])]
        BY <3>2, Zenon
      <4> QED BY <4>2, <4>3, Zenon
    <3> QED BY <3>1, <3>2
  <2>2. f = [n \in Nat |-> f[n]] /\ body(f) = [n \in Nat |-> body(f)[n]]
    BY <1>2
  <2> HIDE DEF body
  <2> QED BY <2>1, <2>2, Zenon
<1>5. LegalAt = body(LegalAt)
  BY <1>4, Zenon DEF LegalAt, NothingYet
<1>6. DOMAIN LegalAt = Nat /\ LegalAt[0] = NothingYet
  BY <1>5, Zenon
<1>7. ASSUME NEW n \in Nat
      PROVE  LegalAt[n + 1] = [a \in Annotations |-> Admitted(a, PartsOf(a.args), LegalAt[n])]
  <2>1. n + 1 \in Nat /\ n + 1 # 0 /\ (n + 1) - 1 = n
    OBVIOUS
  <2>2. body(LegalAt)[n + 1] =
          [a \in Annotations |-> Admitted(a, PartsOf(a.args), LegalAt[(n + 1) - 1])]
    BY <2>1, Zenon
  <2> HIDE DEF body
  <2> QED BY <1>5, <2>1, <2>2, Zenon
<1>8. ASSUME NEW n \in Nat PROVE LegalAt[n] \in Meanings
  <2>1. CASE n = 0
    BY <1>6, <2>1, StepsAreMeanings
  <2>2. CASE n # 0
    <3>1. n - 1 \in Nat /\ (n - 1) + 1 = n
      BY <2>2
    <3>2. LegalAt[n] = [a \in Annotations |-> Admitted(a, PartsOf(a.args), LegalAt[n - 1])]
      BY <1>7, <3>1
    <3> QED BY <3>2, Zenon DEF Meanings, Admitted
  <2> QED BY <2>1, <2>2
<1>9. LegalAt \in [Nat -> Meanings]
  <2>1. LegalAt = [n \in Nat |-> LegalAt[n]]
    BY <1>5, Zenon
  <2> HIDE DEF Meanings
  <2> QED BY <1>8, <2>1
<1> QED BY <1>6, <1>7, <1>9

LEMMA SchemaValues ==
  /\ SchemaAt \in [Nat -> Meanings] /\ SchemaAt[0] = NothingYet
  /\ \A n \in Nat : SchemaAt[n + 1] =
       [a \in Annotations |-> Admitted(a, DescribedMembers(a), SchemaAt[n])]
<1> DEFINE body(f) == [n \in Nat |->
                        IF n = 0 THEN NothingYet
                        ELSE [a \in Annotations |-> Admitted(a, DescribedMembers(a), f[n - 1])]]
<1>1. PICK f : IsIteration(f, Meanings, NothingYet, SchemaStep)
  BY StepsAreMeanings, IterationsExist, Zenon
<1>2. /\ f \in [Nat -> Meanings] /\ f[0] = NothingYet
      /\ \A n \in Nat : f[n + 1] = SchemaStep[n][f[n]]
  BY <1>1, Zenon DEF IsIteration
<1>3. ASSUME NEW n \in Nat
      PROVE  f[n + 1] = [a \in Annotations |-> Admitted(a, DescribedMembers(a), f[n])]
  <2>1. f[n] \in Meanings
    BY <1>2
  <2>2. SchemaStep[n][f[n]] = [a \in Annotations |-> Admitted(a, DescribedMembers(a), f[n])]
    BY <2>1, Zenon DEF SchemaStep
  <2> QED BY <1>2, <2>2
<1>4. f = body(f)
  <2>1. ASSUME NEW n \in Nat PROVE f[n] = body(f)[n]
    <3>1. CASE n = 0
      BY <1>2, <3>1
    <3>2. CASE n # 0
      <4>1. n - 1 \in Nat /\ (n - 1) + 1 = n
        BY <3>2
      <4>2. f[n] = [a \in Annotations |-> Admitted(a, DescribedMembers(a), f[n - 1])]
        BY <1>3, <4>1
      <4>3. body(f)[n] = [a \in Annotations |-> Admitted(a, DescribedMembers(a), f[n - 1])]
        BY <3>2, Zenon
      <4> QED BY <4>2, <4>3, Zenon
    <3> QED BY <3>1, <3>2
  <2>2. f = [n \in Nat |-> f[n]] /\ body(f) = [n \in Nat |-> body(f)[n]]
    BY <1>2
  <2> HIDE DEF body
  <2> QED BY <2>1, <2>2, Zenon
<1>5. SchemaAt = body(SchemaAt)
  BY <1>4, Zenon DEF SchemaAt, NothingYet
<1>6. DOMAIN SchemaAt = Nat /\ SchemaAt[0] = NothingYet
  BY <1>5, Zenon
<1>7. ASSUME NEW n \in Nat
      PROVE  SchemaAt[n + 1] = [a \in Annotations |-> Admitted(a, DescribedMembers(a), SchemaAt[n])]
  <2>1. n + 1 \in Nat /\ n + 1 # 0 /\ (n + 1) - 1 = n
    OBVIOUS
  <2>2. body(SchemaAt)[n + 1] =
          [a \in Annotations |-> Admitted(a, DescribedMembers(a), SchemaAt[(n + 1) - 1])]
    BY <2>1, Zenon
  <2> HIDE DEF body
  <2> QED BY <1>5, <2>1, <2>2, Zenon
<1>8. ASSUME NEW n \in Nat PROVE SchemaAt[n] \in Meanings
  <2>1. CASE n = 0
    BY <1>6, <2>1, StepsAreMeanings
  <2>2. CASE n # 0
    <3>1. n - 1 \in Nat /\ (n - 1) + 1 = n
      BY <2>2
    <3>2. SchemaAt[n] = [a \in Annotations |-> Admitted(a, DescribedMembers(a), SchemaAt[n - 1])]
      BY <1>7, <3>1
    <3> QED BY <3>2, Zenon DEF Meanings, Admitted
  <2> QED BY <2>1, <2>2
<1>9. SchemaAt \in [Nat -> Meanings]
  <2>1. SchemaAt = [n \in Nat |-> SchemaAt[n]]
    BY <1>5, Zenon
  <2> HIDE DEF Meanings
  <2> QED BY <1>8, <2>1
<1> QED BY <1>6, <1>7, <1>9

(* At the full depth a set of values is made from those of the parts.      *)
LEMMA FullDepth ==
  ASSUME NEW a \in Annotations
  PROVE  /\ Legal[a] = Admitted(a, PartsOf(a.args), Legal)
         /\ Schema[a] = Admitted(a, DescribedMembers(a), Schema)
<1>1. Nesting \in Nat /\ Legal = LegalAt[Nesting + 1] /\ Schema = SchemaAt[Nesting + 1]
  BY ToolAssumption
<1>2. /\ LegalAt[Nesting + 1] = [b \in Annotations |-> Admitted(b, PartsOf(b.args), Legal)]
      /\ SchemaAt[Nesting + 1] =
           [b \in Annotations |-> Admitted(b, DescribedMembers(b), Schema)]
  BY <1>1, LegalValues, SchemaValues, Zenon DEF Legal, Schema
<1> QED BY <1>1, <1>2, Zenon

(* An optional parameter takes null, and its description does not.         *)
LEMMA OptionalLosesNull ==
  ASSUME NEW a \in Annotations, IsOptional(a), NEW v \in JsonValues, v.kind = "null"
  PROVE  v \in Legal[a] \ Schema[a]
<1>1. PICK x \in PartsOf(a.args), none \in PartsOf(a.args) :
        none.kind = "none" /\ NotNone(a) = {x} /\ x.kind \in DOMAIN JsonType
  BY Zenon DEF IsOptional
<1>2. a.kind = "union" /\ a.kind \notin DOMAIN JsonType /\ Len(a.args) = 2
  BY DEF IsOptional, JsonType
<1>3. x \in Annotations /\ none \in Annotations
  <2>1. a.args \in Seq(Annotations)
    BY ToolAssumption
  <2> QED BY <2>1 DEF PartsOf
<1>4. v \in Legal[none]
  <2>1. OfType(v, JsonType["none"]) /\ none.kind \in DOMAIN JsonType
    BY <1>1 DEF OfType, JsonType
  <2> QED BY <1>1, <1>3, <2>1, FullDepth DEF Admitted
<1>5. v \in Legal[a]
  BY <1>1, <1>2, <1>4, FullDepth DEF Admitted
<1>6. DescribedMembers(a) = {x}
  <2>1. Cardinality({x}) = 1
    BY FS_Singleton
  <2> QED BY <1>1, <1>2, <2>1 DEF DescribedMembers
<1>7. v \notin Schema[x]
  <2>1. x.kind # "none"
    BY <1>1 DEF NotNone
  <2>2. ~OfType(v, JsonType[x.kind])
    BY <1>1, <2>1 DEF OfType, JsonType
  <2>3. Schema[x] = Admitted(x, DescribedMembers(x), Schema)
    BY <1>3, FullDepth
  <2>4. x.kind # "union" /\ x.kind # "list"
    BY <1>1 DEF JsonType
  <2>5. v \in Schema[x] => OfType(v, JsonType[x.kind])
    BY <1>1, <2>3, <2>4 DEF Admitted
  <2> QED BY <2>2, <2>5
<1>8. v \notin Schema[a]
  BY <1>2, <1>6, <1>7, FullDepth DEF Admitted
<1> QED BY <1>5, <1>8

(* Whatever the depth, a schema lets through what its annotation takes, but *)
(* for None: where Optional[X] is described as X, at any level.            *)
LEMMA DescribedMeansLegal ==
  ASSUME NEW n \in Nat, NEW a \in Annotations
  PROVE  LegalAt[n][a] \cap WithoutNull \subseteq SchemaAt[n][a]
<1> DEFINE A == {k \in Nat : \A b \in Annotations :
                   LegalAt[k][b] \cap WithoutNull \subseteq SchemaAt[k][b]}
<1>1. 0 \in A
  BY LegalValues, SchemaValues DEF NothingYet
<1>2. \A v \in WithoutNull :
        v \in JsonValues /\ v.kind # "null" /\ PartsOf(v.items) \subseteq WithoutNull
  <2> SUFFICES ASSUME NEW v \in WithoutNull
               PROVE  v \in JsonValues /\ v.kind # "null" /\ PartsOf(v.items) \subseteq WithoutNull
    OBVIOUS
  <2>1. PICK S \in SUBSET JsonValues :
          v \in S /\ \A w \in S : w.kind # "null" /\ PartsOf(w.items) \subseteq S
    BY Zenon DEF WithoutNull
  <2>2. S \subseteq WithoutNull
    BY <2>1, Zenon DEF WithoutNull
  <2> QED BY <2>1, <2>2, Zenon
<1>3. ASSUME NEW k \in Nat, k \in A PROVE k + 1 \in A
  <2> SUFFICES ASSUME NEW b \in Annotations, NEW v \in LegalAt[k + 1][b], v \in WithoutNull
               PROVE  v \in SchemaAt[k + 1][b]
    OBVIOUS
  <2>1. v \in Admitted(b, PartsOf(b.args), LegalAt[k])
    BY LegalValues
  <2>2. \A x \in Annotations : LegalAt[k][x] \cap WithoutNull \subseteq SchemaAt[k][x]
    BY <1>3
  <2>3. b.args \in Seq(Annotations) /\ PartsOf(b.args) \subseteq Annotations
    BY ToolAssumption DEF PartsOf
  <2>4. SchemaAt[k + 1][b] = Admitted(b, DescribedMembers(b), SchemaAt[k])
    BY SchemaValues
  <2>5. v \in JsonValues /\ v.kind # "null" /\ PartsOf(v.items) \subseteq WithoutNull
    BY <1>2
  <2>6. CASE b.kind \in DOMAIN JsonType
    <3>1. b.kind # "union" /\ b.kind # "list"
      BY <2>6 DEF JsonType
    <3>2. OfType(v, JsonType[b.kind])
      BY <2>1, <2>6, <3>1 DEF Admitted
    <3> QED BY <2>4, <2>5, <2>6, <3>1, <3>2 DEF Admitted
  <2>7. CASE b.kind = "union"
    <3>1. b.kind \notin DOMAIN JsonType
      BY <2>7 DEF JsonType
    <3>2. PICK x \in PartsOf(b.args) : v \in LegalAt[k][x]
      BY <2>1, <2>7, <3>1 DEF Admitted
    <3>3. x.kind # "none"
      <4> SUFFICES ASSUME x.kind = "none" PROVE FALSE
        OBVIOUS
      <4>1. CASE k = 0
        BY <2>3, <3>2, <4>1, LegalValues DEF NothingYet
      <4>2. CASE k # 0
        <5>1. k - 1 \in Nat /\ (k - 1) + 1 = k
          BY <4>2
        <5>2. LegalAt[(k - 1) + 1] =
                [c \in Annotations |-> Admitted(c, PartsOf(c.args), LegalAt[k - 1])]
          BY <5>1, LegalValues, Zenon
        <5>3. x \in Annotations /\ LegalAt[k] = LegalAt[(k - 1) + 1]
          BY <2>3, <5>1
        <5>4. LegalAt[k][x] = Admitted(x, PartsOf(x.args), LegalAt[k - 1])
          BY <5>2, <5>3, Zenon
        <5>5. OfType(v, JsonType["none"]) /\ JsonType["none"] = "null"
          BY <3>2, <4>1, <5>4 DEF Admitted, JsonType
        <5> QED BY <2>5, <5>5 DEF OfType
      <4> QED BY <4>1, <4>2
    <3>4. x \in DescribedMembers(b)
      BY <3>2, <3>3 DEF DescribedMembers, NotNone
    <3>5. v \in SchemaAt[k][x]
      BY <2>2, <2>3, <3>2
    <3> QED BY <2>4, <2>5, <2>7, <3>1, <3>4, <3>5 DEF Admitted
  <2>8. CASE b.kind = "list"
    <3>1. b.kind \notin DOMAIN JsonType /\ b.kind # "union"
      BY <2>8 DEF JsonType
    <3>2. v.kind = "array" /\ (b.args # <<>> => PartsOf(v.items) \subseteq LegalAt[k][b.args[1]])
      BY <2>1, <2>8, <3>1 DEF Admitted
    <3>3. b.args # <<>> => b.args[1] \in Annotations
      BY <2>3
    <3>4. b.args # <<>> => PartsOf(v.items) \subseteq SchemaAt[k][b.args[1]]
      BY <2>2, <2>5, <3>2, <3>3
    <3> QED BY <2>4, <2>5, <2>8, <3>1, <3>2, <3>4 DEF Admitted
  <2>9. CASE b.kind \notin DOMAIN JsonType \cup {"union", "list"}
    BY <2>4, <2>5, <2>9 DEF Admitted
  <2> QED BY <2>6, <2>7, <2>8, <2>9
<1> HIDE DEF A
<1>4. n \in A
  BY <1>1, <1>3, Inductive
<1> QED BY <1>4 DEF A

-----------------------------------------------------------------------------
(* What the model was shown, what it asks for and what call() found.       *)
ToolInv ==
  /\ \A n \in DOMAIN tools : tools[n] \in ToolFunctions
  /\ \A n \in DOMAIN advert : advert[n] \in ToolFunctions
  /\ found \subseteq ToolFunctions /\ \A f, g \in found : f = g
  /\ toolPc = "idle" => DOMAIN advert = {}
  /\ toolPc \in {"asked", "found", "refused"} /\ DOMAIN advert # {} =>
       Fits(request.args, ToolFor(request.function))
  /\ toolPc = "refused" => \A f \in found : ~Valid(f, DOMAIN request.args)
  /\ toolPc = "ran" => \A f \in found : Valid(f, DOMAIN request.args)

LEMMA ToolInitial == ToolInit => ToolInv
BY DEF ToolInit, NoTools, ToolInv

LEMMA ToolStep == ToolInv /\ [ToolNext]_toolVars => ToolInv'
<1> SUFFICES ASSUME ToolInv, [ToolNext]_toolVars PROVE ToolInv'
  OBVIOUS
<1> USE DEF ToolInv
<1>1. ASSUME NEW name \in CallNames, NEW f \in ToolFunctions, RegisterTool(name, f) PROVE ToolInv'
  BY <1>1 DEF RegisterTool
<1>2. ASSUME NEW name \in CallNames, Unregister(name) PROVE ToolInv'
  BY <1>2 DEF Unregister
<1>3. CASE ClearTools
  BY <1>3 DEF ClearTools, NoTools
<1>4. CASE ExportTools
  BY <1>4 DEF ExportTools
<1>5. ASSUME NEW name \in CallNames, NEW args \in ArgumentSets, ChooseTool(name, args)
      PROVE  ToolInv'
  BY <1>5 DEF ChooseTool
<1>6. ASSUME NEW name \in CallNames, NEW args, AskDirectly(name, args) PROVE ToolInv'
  BY <1>6 DEF AskDirectly
<1>7. CASE LookUpTool
  BY <1>7 DEF LookUpTool
<1>8. CASE CheckAndRun
  BY <1>8 DEF CheckAndRun
<1>9. CASE UNCHANGED toolVars
  BY <1>9 DEF toolVars
<1> QED BY <1>1, <1>2, <1>3, <1>4, <1>5, <1>6, <1>7, <1>8, <1>9 DEF ToolNext

LEMMA KeptDescriptions == ToolInv => DescriptionsAreKept
<1> SUFFICES ASSUME ToolInv PROVE DescriptionsAreKept
  OBVIOUS
<1>1. FittingCallRuns
  <2> SUFFICES ASSUME toolPc = "refused", DOMAIN advert # {}, NEW f \in found,
                      f = request.function, CallableByKeyword(f),
                      \A p \in f : p.kind = "positional" => p.name \notin DOMAIN request.args
               PROVE  FALSE
    BY DEF FittingCallRuns
  <2>1. Fits(request.args, ToolFor(f)) /\ ~Valid(f, DOMAIN request.args)
    BY DEF ToolInv
  <2>2. \A p \in Described(f) : ~p.default => p.name \in DOMAIN request.args
    BY <2>1 DEF Fits, ToolFor, IsRequired
  <2>3. DOMAIN request.args \subseteq ParameterNames(f)
    BY <2>1 DEF Fits, ToolFor, ParameterNames
  <2>4. Binds(f, DOMAIN request.args)
    BY <2>2 DEF Binds, Described, CallableByKeyword
  <2> QED BY <2>1, <2>2, <2>3, <2>4 DEF Valid, IsRequired
<1>2. RunsFullyBound
  <2> SUFFICES ASSUME toolPc = "ran", NEW f \in found
               PROVE  /\ DOMAIN request.args \subseteq ParameterNames(f)
                      /\ \A p \in f : p.name \in DOMAIN request.args \/ p.default
                                       \/ p.kind \in {"args", "kwargs"}
    BY DEF RunsFullyBound
  <2>1. Valid(f, DOMAIN request.args) /\ f \in ToolFunctions
    BY DEF ToolInv
  <2>2. ASSUME NEW p \in f
        PROVE  p.name \in DOMAIN request.args \/ p.default \/ p.kind \in {"args", "kwargs"}
    <3>1. p.kind \in ParameterKinds
      BY <2>1, ToolAssumption
    <3> QED BY <2>1, <3>1 DEF ParameterKinds, Valid, Binds
  <2> QED BY <2>1, <2>2 DEF Valid
<1>3. LegalValuesAreDescribed
  <2> SUFFICES ASSUME NEW n \in DOMAIN advert, NEW p \in Described(advert[n])
               PROVE  Legal[p.annotation] \cap WithoutNull \subseteq Schema[p.annotation]
    BY DEF LegalValuesAreDescribed
  <2>1. p.annotation \in Annotations /\ Nesting \in Nat
    BY ToolAssumption DEF ToolInv, Described
  <2> QED BY <2>1, DescribedMeansLegal DEF Legal, Schema
<1>4. NullOfOptionalIsLeftOut
  <2> SUFFICES ASSUME NEW n \in DOMAIN advert, NEW p \in Described(advert[n]),
                      IsOptional(p.annotation), NEW v \in JsonValues, v.kind = "null"
               PROVE  v \in Legal[p.annotation] \ Schema[p.annotation]
    BY DEF NullOfOptionalIsLeftOut
  <2>1. p.annotation \in Annotations
    BY ToolAssumption DEF ToolInv, Described
  <2> QED BY <2>1, OptionalLosesNull
<1> QED BY <1>1, <1>2, <1>3, <1>4 DEF DescriptionsAreKept

(* For every set of functions and annotations and however the registry     *)
(* changes: arguments that fit a tool's description pass call() and give   *)
(* the function what it needs, and a description lets through every value  *)
(* its annotations take in which there is no null; that of an optional     *)
(* parameter does not let null through (toolsmith.py).                     *)
THEOREM ToolsAreAsDescribed == ToolSpec => []DescriptionsAreKept
BY ToolInitial, ToolStep, KeptDescriptions, PTL DEF ToolSpec

-----------------------------------------------------------------------------
(* Records put together of several, as payloads and events are.            *)
LEMMA FieldsTogether ==
  ASSUME NEW f, NEW g
  PROVE  /\ DOMAIN (f ++ g) = DOMAIN f \cup DOMAIN g
         /\ \A x \in DOMAIN f : (f ++ g)[x] = f[x]
         /\ \A x \in DOMAIN g \ DOMAIN f : (f ++ g)[x] = g[x]
BY DEF ++

-----------------------------------------------------------------------------
(* The envelope: event.py, validate.py, models.py, compliance/_compat.py   *)

(* What a check of two parts says, part by part.                           *)
LEMMA ChecksTogether ==
  ASSUME NEW f, NEW g, NEW e, DOMAIN f \cap DOMAIN g = {}
  PROVE  Passes(f ++ g, e) <=> Passes(f, e) /\ Passes(g, e)
<1> DEFINE h == f ++ g
<1>1. /\ DOMAIN h = DOMAIN f \cup DOMAIN g
      /\ \A x \in DOMAIN f : h[x] = f[x]
      /\ \A x \in DOMAIN g : h[x] = g[x]
  <2>1. \A x \in DOMAIN g : x \notin DOMAIN f
    OBVIOUS
  <2>2. DOMAIN h = DOMAIN f \cup DOMAIN g
    BY FieldsTogether, Zenon
  <2>3. \A x \in DOMAIN f : h[x] = f[x]
    BY FieldsTogether, Zenon
  <2>4. \A x \in DOMAIN g \ DOMAIN f : h[x] = g[x]
    BY FieldsTogether, Zenon
  <2> HIDE DEF h
  <2>5. \A x \in DOMAIN g : h[x] = g[x]
    BY <2>1, <2>4
  <2> QED BY <2>2, <2>3, <2>5
<1> HIDE DEF h
<1>2. Passes(h, e) <=> Passes(f, e) /\ Passes(g, e)
  BY <1>1, Zenon DEF Passes
<1> QED BY <1>2 DEF h

LEMMA ChecksOfEach ==
  ASSUME NEW names, NEW values, NEW e
  PROVE  Passes(Each(names, values), e) <=> \A f \in names : e[f] \in values
BY DEF Passes, Each

LEMMA ChecksOfThree ==
  ASSUME NEW f, NEW g, NEW h, NEW e, DOMAIN f \cap DOMAIN g = {},
         (DOMAIN f \cup DOMAIN g) \cap DOMAIN h = {}
  PROVE  Passes((f ++ g) ++ h, e) <=> Passes(f, e) /\ Passes(g, e) /\ Passes(h, e)
<1>1. DOMAIN (f ++ g) = DOMAIN f \cup DOMAIN g
  BY FieldsTogether, Zenon
<1>2. DOMAIN (f ++ g) \cap DOMAIN h = {}
  BY <1>1
<1>3. Passes((f ++ g) ++ h, e) <=> Passes(f ++ g, e) /\ Passes(h, e)
  BY <1>2, ChecksTogether
<1> QED BY <1>3, ChecksTogether

LEMMA ChecksOfFour ==
  ASSUME NEW f, NEW g, NEW h, NEW i, NEW e, DOMAIN f \cap DOMAIN g = {},
         (DOMAIN f \cup DOMAIN g) \cap DOMAIN h = {},
         (DOMAIN f \cup DOMAIN g \cup DOMAIN h) \cap DOMAIN i = {}
  PROVE  Passes(((f ++ g) ++ h) ++ i, e) <=>
           Passes(f, e) /\ Passes(g, e) /\ Passes(h, e) /\ Passes(i, e)
<1>1. DOMAIN (f ++ g) = DOMAIN f \cup DOMAIN g
  BY FieldsTogether, Zenon
<1>2. DOMAIN ((f ++ g) ++ h) = DOMAIN (f ++ g) \cup DOMAIN h
  BY FieldsTogether, Zenon
<1>3. DOMAIN ((f ++ g) ++ h) \cap DOMAIN i = {}
  BY <1>1, <1>2
<1>4. Passes(((f ++ g) ++ h) ++ i, e) <=> Passes((f ++ g) ++ h, e) /\ Passes(i, e)
  BY <1>3, ChecksTogether
<1> QED BY <1>4, ChecksOfThree

HexIds == {"trace_id", "span_id", "parent_span_id"}
Marks  == {"checksum", "signature"}

LEMMA PassesByEvent ==
  ASSUME NEW e
  PROVE  Passes(ByEvent, e) <=>
           /\ e.schema_version \in Known /\ e.event_id \in Ulids
           /\ e.event_type \in Types /\ e.timestamp \in Stamps
           /\ e.source \in Sources /\ e.payload \in NotEmpty
           /\ e.prev_id \in (Ulids \cup {None})
           /\ \A f \in HexIds : e[f] \in Hex
           /\ \A f \in StringIds : e[f] \in SomeText
<1> DEFINE own == [schema_version |-> Known, event_id |-> Ulids, event_type |-> Types,
                   timestamp |-> Stamps, source |-> Sources, payload |-> NotEmpty,
                   prev_id |-> (Ulids \cup {None})]
           a == Each(HexIds, Hex)
           b == Each(StringIds, SomeText)
<1>1. /\ DOMAIN own \cap DOMAIN a = {}
      /\ (DOMAIN own \cup DOMAIN a) \cap DOMAIN b = {}
  BY DEF Each, StringIds, HexIds, Marks
<1>2. Passes(own, e) <=>
           /\ e.schema_version \in Known /\ e.event_id \in Ulids
           /\ e.event_type \in Types /\ e.timestamp \in Stamps
           /\ e.source \in Sources /\ e.payload \in NotEmpty
           /\ e.prev_id \in (Ulids \cup {None})
  BY DEF Passes
<1>3. ByEvent = (own ++ a) ++ b
  BY DEF ByEvent, HexIds, Marks, SpanIds
<1> HIDE DEF own, a, b
<1>4. Passes((own ++ a) ++ b, e) <=> Passes(own, e) /\ Passes(a, e) /\ Passes(b, e)
  BY <1>1, ChecksOfThree
<1> QED BY <1>2, <1>3, <1>4, ChecksOfEach DEF a, b

LEMMA PassesBySchema ==
  ASSUME NEW e
  PROVE  Passes(BySchema, e) <=>
           /\ e.schema_version \in Known /\ e.event_id \in {"upper"}
           /\ e.event_type \in Types /\ e.timestamp \in (Stamps \cup {"impossible"})
           /\ e.source \in Sources /\ e.payload \in NotEmpty
           /\ e.prev_id \in {None, "upper"} /\ e.tags \in FewTags
           /\ \A f \in HexIds : e[f] \in Hex
           /\ \A f \in Marks : e[f] \in Digests
           /\ \A f \in StringIds : e[f] \in SomeText
<1> DEFINE own == [schema_version |-> Known, event_id |-> {"upper"}, event_type |-> Types,
                   timestamp |-> (Stamps \cup {"impossible"}), source |-> Sources,
                   payload |-> NotEmpty, prev_id |-> {None, "upper"}, tags |-> FewTags]
           a == Each(HexIds, Hex)
           b == Each(Marks, Digests)
           c == Each(StringIds, SomeText)
<1>1. /\ DOMAIN own \cap DOMAIN a = {}
      /\ (DOMAIN own \cup DOMAIN a) \cap DOMAIN b = {}
      /\ (DOMAIN own \cup DOMAIN a \cup DOMAIN b) \cap DOMAIN c = {}
  BY DEF Each, StringIds, HexIds, Marks
<1>2. Passes(own, e) <=>
           /\ e.schema_version \in Known /\ e.event_id \in {"upper"}
           /\ e.event_type \in Types /\ e.timestamp \in (Stamps \cup {"impossible"})
           /\ e.source \in Sources /\ e.payload \in NotEmpty
           /\ e.prev_id \in {None, "upper"} /\ e.tags \in FewTags
  BY DEF Passes
<1>3. BySchema = ((own ++ a) ++ b) ++ c
  BY DEF BySchema, HexIds, Marks, SpanIds
<1> HIDE DEF own, a, b, c
<1>4. Passes(((own ++ a) ++ b) ++ c, e) <=> Passes(own, e) /\ Passes(a, e) /\ Passes(b, e)
                                            /\ Passes(c, e)
  BY <1>1, ChecksOfFour
<1> QED BY <1>2, <1>3, <1>4, ChecksOfEach DEF a, b, c

LEMMA PassesByModel ==
  ASSUME NEW e
  PROVE  Passes(ByModel, e) <=>
           /\ e.schema_version \in (Known \cup {"3.0"}) /\ e.event_id \in Ulids
           /\ e.event_type \in (Types \cup {"reserved"})
           /\ e.timestamp \in {"micros", "millis", "impossible"}
           /\ e.source \in {"plain"} /\ e.payload \in NotEmpty
           /\ e.prev_id \in (Ulids \cup {None})
           /\ \A f \in HexIds : e[f] \in Hex
           /\ \A f \in StringIds : e[f] \in {None, "id"}
<1> DEFINE own == [schema_version |-> (Known \cup {"3.0"}), event_id |-> Ulids,
                   event_type |-> (Types \cup {"reserved"}),
                   timestamp |-> {"micros", "millis", "impossible"}, source |-> {"plain"},
                   payload |-> NotEmpty, prev_id |-> (Ulids \cup {None})]
           a == Each(HexIds, Hex)
           b == Each(StringIds, {None, "id"})
<1>1. /\ DOMAIN own \cap DOMAIN a = {}
      /\ (DOMAIN own \cup DOMAIN a) \cap DOMAIN b = {}
  BY DEF Each, StringIds, HexIds, Marks
<1>2. Passes(own, e) <=>
           /\ e.schema_version \in (Known \cup {"3.0"}) /\ e.event_id \in Ulids
           /\ e.event_type \in (Types \cup {"reserved"})
           /\ e.timestamp \in {"micros", "millis", "impossible"}
           /\ e.source \in {"plain"} /\ e.payload \in NotEmpty
           /\ e.prev_id \in (Ulids \cup {None})
  BY DEF Passes
<1>3. ByModel = (own ++ a) ++ b
  BY DEF ByModel, HexIds, Marks, SpanIds
<1> HIDE DEF own, a, b
<1>4. Passes((own ++ a) ++ b, e) <=> Passes(own, e) /\ Passes(a, e) /\ Passes(b, e)
  BY <1>1, ChecksOfThree
<1> QED BY <1>2, <1>3, <1>4, ChecksOfEach DEF a, b

LEMMA PassesGiven ==
  ASSUME NEW e
  PROVE  Passes(Given, e) <=>
           /\ e.schema_version \in {"1.0", "2.0", "3.0", "bad"}
           /\ e.event_id \in {"upper", "lower", "bad"}
           /\ e.event_type \in {"registered", "custom", "reserved", "bad"}
           /\ e.timestamp \in {"micros", "millis", "impossible", "bad"}
           /\ e.source \in {"plain", "mixed", "bad"}
           /\ e.payload \in {"flat", "shuffled", "empty", "deep", "dated", "numbered", "opaque"}
           /\ e.tags \in {None, "few", "many"} /\ e.prev_id \in {None, "upper", "lower", "bad"}
           /\ \A f \in HexIds : e[f] \in {None, "hex", "bad"}
           /\ \A f \in Marks : e[f] \in {None, "formed", "bad"}
           /\ \A f \in StringIds : e[f] \in {None, "id", "blank", "empty"}
<1> DEFINE own == [schema_version |-> {"1.0", "2.0", "3.0", "bad"},
                   event_id |-> {"upper", "lower", "bad"},
                   event_type |-> {"registered", "custom", "reserved", "bad"},
                   timestamp |-> {"micros", "millis", "impossible", "bad"},
                   source |-> {"plain", "mixed", "bad"},
                   payload |-> {"flat", "shuffled", "empty", "deep", "dated", "numbered",
                                "opaque"},
                   tags |-> {None, "few", "many"}, prev_id |-> {None, "upper", "lower", "bad"}]
           a == Each(HexIds, {None, "hex", "bad"})
           b == Each(Marks, {None, "formed", "bad"})
           c == Each(StringIds, {None, "id", "blank", "empty"})
<1>1. /\ DOMAIN own \cap DOMAIN a = {}
      /\ (DOMAIN own \cup DOMAIN a) \cap DOMAIN b = {}
      /\ (DOMAIN own \cup DOMAIN a \cup DOMAIN b) \cap DOMAIN c = {}
  BY DEF Each, StringIds, HexIds, Marks
<1>2. Passes(own, e) <=>
           /\ e.schema_version \in {"1.0", "2.0", "3.0", "bad"}
           /\ e.event_id \in {"upper", "lower", "bad"}
           /\ e.event_type \in {"registered", "custom", "reserved", "bad"}
           /\ e.timestamp \in {"micros", "millis", "impossible", "bad"}
           /\ e.source \in {"plain", "mixed", "bad"}
           /\ e.payload \in {"flat", "shuffled", "empty", "deep", "dated", "numbered", "opaque"}
           /\ e.tags \in {None, "few", "many"} /\ e.prev_id \in {None, "upper", "lower", "bad"}
  BY DEF Passes
<1>3. Given = ((own ++ a) ++ b) ++ c
  BY DEF Given, HexIds, Marks, SpanIds
<1> HIDE DEF own, a, b, c
<1>4. Passes(((own ++ a) ++ b) ++ c, e) <=> Passes(own, e) /\ Passes(a, e) /\ Passes(b, e)
                                            /\ Passes(c, e)
  BY <1>1, ChecksOfFour
<1> QED BY <1>2, <1>3, <1>4, ChecksOfEach DEF a, b, c

LEMMA SchemaFilesAgree == BySchemaFile = BySchema
BY DEF BySchemaFile, BySchema

LEMMA GivenChecksAgree ==
  ASSUME NEW e, Passes(Given, e)
  PROVE  /\ Passes(ByEvent, e) =>
              /\ Passes(ByCompatibility, e)
              /\ ~Passes(BySchema, e) <=>
                   "lower" \in {e.event_id, e.prev_id}
                   \/ "bad" \in {e.checksum, e.signature} \/ e.tags = "many"
              /\ ~Passes(ByModel, e) <=>
                   e.source = "mixed" \/ "blank" \in {e[f] : f \in StringIds}
         /\ Passes(BySchema, e) => (~Passes(ByEvent, e) <=> e.timestamp = "impossible")
         /\ Passes(ByModel, e) =>
              (~Passes(ByEvent, e) <=>
                 \/ e.schema_version = "3.0" \/ e.event_type = "reserved"
                 \/ e.timestamp \in {"millis", "impossible"})
<1>1. /\ e.tags \in {None, "few", "many"} /\ e.prev_id \in {None, "upper", "lower", "bad"}
      /\ e.source \in {"plain", "mixed", "bad"}
      /\ e.checksum \in {None, "formed", "bad"} /\ e.signature \in {None, "formed", "bad"}
  BY PassesGiven DEF Marks
<1> USE DEF Known, Ulids, Types, Stamps, Sources, NotEmpty, Hex, SomeText, Digests, FewTags
<1>2. ASSUME Passes(ByEvent, e) PROVE Passes(ByCompatibility, e)
  BY <1>2, PassesByEvent DEF Passes, ByCompatibility
<1>3. ASSUME Passes(ByEvent, e), "lower" \notin {e.event_id, e.prev_id},
             "bad" \notin {e.checksum, e.signature}, e.tags # "many"
      PROVE  Passes(BySchema, e)
  <2>1. \A f \in Marks : e[f] \in Digests
    BY <1>1, <1>3 DEF Marks
  <2> QED BY <1>1, <1>3, <2>1, PassesByEvent, PassesBySchema
<1>4. ASSUME Passes(ByEvent, e), e.source # "mixed", "blank" \notin {e[f] : f \in StringIds}
      PROVE  Passes(ByModel, e)
  <2>1. \A f \in StringIds : e[f] \in {None, "id"}
    BY <1>4, PassesByEvent
  <2> QED BY <1>1, <1>4, <2>1, PassesByEvent, PassesByModel
<1>5. ASSUME Passes(BySchema, e), e.timestamp # "impossible" PROVE Passes(ByEvent, e)
  BY <1>5, PassesBySchema, PassesByEvent
<1>6. ASSUME Passes(ByModel, e), e.schema_version # "3.0", e.event_type # "reserved",
             e.timestamp \notin {"millis", "impossible"}
      PROVE  Passes(ByEvent, e)
  BY <1>6, PassesByModel, PassesByEvent
<1>7. Passes(BySchema, e) => /\ "lower" \notin {e.event_id, e.prev_id}
                             /\ "bad" \notin {e.checksum, e.signature} /\ e.tags # "many"
  <2>1. ASSUME Passes(BySchema, e) PROVE e.checksum \in Digests /\ e.signature \in Digests
    BY <2>1, PassesBySchema DEF Marks
  <2> QED BY <1>1, <2>1, EnvelopeAssumption, PassesBySchema
<1>8. Passes(ByModel, e) => e.source # "mixed" /\ "blank" \notin {e[f] : f \in StringIds}
  BY EnvelopeAssumption, PassesByModel
<1>9. Passes(ByEvent, e) => e.timestamp = "micros" /\ e.schema_version # "3.0"
                            /\ e.event_type # "reserved"
  BY PassesByEvent
<1> HIDE DEF Known, Ulids, Types, Stamps, Sources, NotEmpty, Hex, SomeText, Digests, FewTags
<1> QED BY <1>2, <1>3, <1>4, <1>5, <1>6, <1>7, <1>8, <1>9

(* What an event is while it is made, written and read.                    *)
EnvInv ==
  /\ DOMAIN event = DOMAIN Given /\ Passes(Given, event)
  /\ evPc = "written" => evJson = DocumentOf(event)
  /\ Reread => /\ \A f \in DOMAIN Given \ {"payload"} : reread[f] = event[f]
               /\ reread.payload \in {event.payload, ReadPayload(event.payload)}
  /\ signedText # None => /\ evPc # "new" /\ event.payload \notin CannotSign
                          /\ signedText = Canonical(event.payload)

LEMMA EventDomains == DOMAIN PlainEvent = DOMAIN Given /\ "payload" \in DOMAIN Given
BY DEF PlainEvent, Given, ++, Each, StringIds

LEMMA EnvInitial == EnvInit => EnvInv
<1> SUFFICES ASSUME EnvInit PROVE EnvInv
  OBVIOUS
<1> DEFINE own == [schema_version |-> "2.0", event_id |-> "upper", event_type |-> "registered",
                   timestamp |-> "micros", source |-> "plain", payload |-> "flat"]
           rest == {"tags", "prev_id", "trace_id", "span_id", "parent_span_id",
                    "checksum", "signature"} \cup StringIds
<1>1. PlainEvent = own ++ Each(rest, None)
  BY DEF PlainEvent
<1>2. \A f \in DOMAIN own : PlainEvent[f] = own[f]
  BY <1>1, FieldsTogether, Zenon
<1>3. \A f \in rest : PlainEvent[f] = None
  <2> DEFINE none == Each(rest, None)
  <2>1. PlainEvent = own ++ none /\ DOMAIN none = rest /\ \A f \in rest : none[f] = None
    BY <1>1 DEF Each
  <2>2. \A f \in rest : f \notin DOMAIN own
    BY DEF StringIds
  <2> HIDE DEF own, none, rest
  <2>3. \A f \in DOMAIN none \ DOMAIN own : (own ++ none)[f] = none[f]
    BY FieldsTogether, Zenon
  <2> QED BY <2>1, <2>2, <2>3
<1>4. Passes(Given, PlainEvent)
  <2>1. /\ PlainEvent.schema_version = "2.0" /\ PlainEvent.event_id = "upper"
        /\ PlainEvent.event_type = "registered" /\ PlainEvent.timestamp = "micros"
        /\ PlainEvent.source = "plain" /\ PlainEvent.payload = "flat"
    BY <1>2
  <2>2. /\ PlainEvent.tags = None /\ PlainEvent.prev_id = None
        /\ \A f \in HexIds \cup Marks \cup StringIds : PlainEvent[f] = None
    BY <1>3 DEF HexIds, Marks
  <2> QED BY <2>1, <2>2, PassesGiven
<1> QED BY <1>4, EventDomains DEF EnvInit, EnvInv, Reread

LEMMA ReadsBack ==
  ASSUME DOMAIN event = DOMAIN Given
  PROVE  LET again == EventOf(DocumentOf(event)) IN
         /\ \A f \in DOMAIN Given \ {"payload"} : again[f] = event[f]
         /\ again["payload"] \in {event.payload, ReadPayload(event.payload)}
<1> DEFINE doc == DocumentOf(event)
           again == EventOf(doc)
<1>1. DOMAIN doc = {f \in DOMAIN Given : event[f] # None}
  BY DEF DocumentOf, WrittenFields
<1>2. \A f \in DOMAIN doc : f # "payload" => doc[f] = event[f]
  BY DEF DocumentOf
<1>3. "payload" \in DOMAIN doc => doc["payload"] = ReadPayload(event["payload"])
  BY DEF DocumentOf
<1> HIDE DEF doc
<1>4. \A f \in DOMAIN Given : again[f] = IF f \in DOMAIN doc THEN doc[f] ELSE None
  BY DEF EventOf
<1> HIDE DEF again
<1>5. \A f \in DOMAIN Given \ {"payload"} : again[f] = event[f]
  BY <1>1, <1>2, <1>4
<1>6. again["payload"] \in {event.payload, ReadPayload(event.payload)}
  BY <1>1, <1>3, <1>4, EventDomains
<1> QED BY <1>5, <1>6 DEF again, doc

LEMMA EnvStep == EnvInv /\ [EnvNext]_envelopeVars => EnvInv'
<1> SUFFICES ASSUME EnvInv, [EnvNext]_envelopeVars PROVE EnvInv'
  OBVIOUS
<1> USE DEF EnvInv
<1>1. ASSUME NEW f \in DOMAIN Given, NEW v \in Given[f], Choose(f, v) PROVE EnvInv'
  <2>1. /\ evPc = "new" /\ event' = [event EXCEPT ![f] = v]
        /\ UNCHANGED <<evPc, signedText, evJson, reread>>
    BY <1>1 DEF Choose
  <2>2. DOMAIN event' = DOMAIN Given /\ Passes(Given, event')
    BY <2>1 DEF Passes
  <2> QED BY <2>1, <2>2 DEF Reread
<1>2. CASE MakeEvent
  BY <1>2 DEF MakeEvent, Reread
<1>3. ASSUME NEW prev \in {None, "upper"}, SignEvent(prev) PROVE EnvInv'
  <2>1. evPc = "made" /\ UNCHANGED <<evJson, reread>>
    BY <1>3 DEF SignEvent
  <2>2. CASE event.payload \in CannotSign
    <3>1. evPc' = "unsignable" /\ UNCHANGED <<event, signedText>>
      BY <1>3, <2>2 DEF SignEvent
    <3> QED BY <2>1, <3>1 DEF Reread
  <2>3. CASE event.payload \notin CannotSign
    <3>1. /\ event' = [event EXCEPT !.checksum = "formed", !.signature = "formed",
                       !.prev_id = prev]
          /\ signedText' = Canonical(event.payload) /\ UNCHANGED evPc
      BY <1>3, <2>3 DEF SignEvent
    <3>2. DOMAIN event' = DOMAIN Given /\ event'.payload = event.payload
      BY <3>1
    <3>3. {"checksum", "signature", "prev_id"} \subseteq DOMAIN Given
      BY DEF Given, ++, Each, StringIds
    <3>4. /\ event'.checksum = "formed" /\ event'.signature = "formed" /\ event'.prev_id = prev
          /\ \A g \in DOMAIN Given \ {"checksum", "signature", "prev_id"} : event'[g] = event[g]
      BY <3>1, <3>3
    <3>5. Passes(Given, event')
      <4>1. \A g \in DOMAIN Given : event[g] \in Given[g]
        BY DEF Passes
      <4>2. /\ "formed" \in Given["checksum"] /\ "formed" \in Given["signature"]
            /\ prev \in Given["prev_id"]
        BY DEF Given, ++, Each, StringIds
      <4> QED BY <3>4, <4>1, <4>2 DEF Passes
    <3> QED BY <2>1, <2>3, <3>1, <3>2, <3>5 DEF Reread
  <2> QED BY <2>2, <2>3
<1>4. CASE ToJson
  BY <1>4 DEF ToJson, Reread
<1>5. CASE FromJson
  <2>1. evPc = "written" /\ UNCHANGED <<event, signedText,
          evJson>> /\ evJson = DocumentOf(event)
    BY <1>5 DEF FromJson
  <2>2. CASE Readable(evJson)
    <3>1. evPc' = "reread" /\ reread' = EventOf(DocumentOf(event))
      BY <1>5, <2>1, <2>2 DEF FromJson
    <3> QED BY <2>1, <3>1, ReadsBack DEF Reread
  <2>3. CASE ~Readable(evJson)
    BY <1>5, <2>1, <2>3 DEF FromJson, Reread
  <2> QED BY <2>2, <2>3
<1>6. CASE ThroughModel
  BY <1>6 DEF ThroughModel, Reread
<1>7. CASE UNCHANGED envelopeVars
  BY <1>7 DEF envelopeVars, Reread
<1> QED BY <1>1, <1>2, <1>3, <1>4, <1>5, <1>6, <1>7 DEF EnvNext

LEMMA EnvelopesKept == EnvInv => EnvelopeSurvives /\ SignatureSurvivesJson /\ ChecksAgree
<1> SUFFICES ASSUME EnvInv PROVE EnvelopeSurvives /\ SignatureSurvivesJson /\ ChecksAgree
  OBVIOUS
<1>1. EnvelopeSurvives
  BY DEF EnvInv, EnvelopeSurvives
<1>2. ChecksAgree
  BY GivenChecksAgree, SchemaFilesAgree DEF EnvInv, ChecksAgree
<1>3. SignatureSurvivesJson
  <2> SUFFICES ASSUME Reread, signedText # None, event.payload # "numbered"
               PROVE  Canonical(reread.payload) = signedText
    BY DEF SignatureSurvivesJson
  <2>1. Canonical(ReadPayload(event.payload)) = Canonical(event.payload)
    BY DEF EnvInv, CannotSign, Canonical, ReadPayload
  <2> QED BY <2>1 DEF EnvInv
<1> QED BY <1>1, <1>2, <1>3

-----------------------------------------------------------------------------
(* The payloads: namespaces/                                               *)

(* What a rule must be for a field to come back: a value that is not       *)
(* written is what a dict without it reads as.                             *)
Simple == {-1, 0, 1, 2, None}

GoodRule(r) ==
  /\ r.accepted \subseteq Simple
  /\ \/ r.writing = "always"
     \/ r.writing = "ifSet" /\ r.absent = None
     \/ r.writing = "ifTrue" /\ r.absent = 0 /\ None \notin r.accepted
     \/ r.writing = "ifNotDefault"

GoodFields(c) == \A f \in DOMAIN c : f \notin RawFields /\ GoodRule(c[f])

LEMMA GoodRules ==
  /\ GoodRule(AnyText)
  /\ GoodRule(Name)
  /\ GoodRule(OneOf)
  /\ GoodRule(AnyNumber)
  /\ GoodRule(Count)
  /\ GoodRule(Positive)
  /\ GoodRule(Unit)
  /\ GoodRule(Part)
  /\ GoodRule(SomeItems)
  /\ GoodRule(Items)
  /\ GoodRule(Flag)
  /\ GoodRule(ListAlways)
  /\ GoodRule(ListIfAny)
  /\ GoodRule(Maybe(AnyNumber))
  /\ GoodRule(Maybe(AnyText))
  /\ GoodRule(Maybe(Count))
  /\ GoodRule(Maybe(Flag))
  /\ GoodRule(Maybe(Items))
  /\ GoodRule(Maybe(OneOf))
  /\ GoodRule(Maybe(Part))
  /\ GoodRule(Rule(Numbers, {0, 1, 2}, "ifTrue", 0))
  /\ GoodRule(Rule(Texts, {1, 2}, "ifNotDefault", 1))
  /\ GoodRule(Rule(Texts, Texts, "always", 1))
  /\ GoodRule(Rule(Texts, {1}, "always", 1))
<1> USE NoneAssumption DEF GoodRule, Simple, Rule, Required
<1>1. \A values, accepted : accepted \subseteq Numbers => GoodRule(Required(values, accepted))
  BY DEF Numbers
<1>2. \A values, accepted : accepted \subseteq Numbers =>
        GoodRule(Maybe(Required(values, accepted)))
  BY DEF Numbers, Maybe
<1>3. Texts \subseteq Numbers /\ Numbers \subseteq Numbers
      /\ {1, 2} \subseteq Numbers /\ {0, 1} \subseteq Numbers /\ {0, 1, 2} \subseteq Numbers
      /\ {1} \subseteq Numbers
  BY DEF Texts, Numbers
<1>4. /\ GoodRule(ListAlways) /\ GoodRule(ListIfAny)
      /\ GoodRule(Rule(Numbers, {0, 1, 2}, "ifTrue", 0))
  BY DEF ListAlways, ListIfAny
<1>5. /\ GoodRule(Rule(Texts, {1, 2}, "ifNotDefault", 1))
      /\ GoodRule(Rule(Texts, Texts, "always", 1))
      /\ GoodRule(Rule(Texts, {1}, "always", 1))
  BY DEF Texts
<1> HIDE NoneAssumption DEF GoodRule, Simple, Rule, Required
<1>6. /\ GoodRule(AnyText)
      /\ GoodRule(Name)
      /\ GoodRule(OneOf)
      /\ GoodRule(AnyNumber)
      /\ GoodRule(Count)
      /\ GoodRule(Positive)
      /\ GoodRule(Unit)
      /\ GoodRule(Part)
      /\ GoodRule(SomeItems)
      /\ GoodRule(Items)
      /\ GoodRule(Flag)
  BY <1>1, <1>3, Zenon DEF AnyText, Name, OneOf, AnyNumber, Count, Positive, Unit, Part,
    SomeItems, Items, Flag
<1>7. /\ GoodRule(Maybe(AnyNumber))
      /\ GoodRule(Maybe(AnyText))
      /\ GoodRule(Maybe(Count))
      /\ GoodRule(Maybe(Flag))
      /\ GoodRule(Maybe(Items))
      /\ GoodRule(Maybe(OneOf))
      /\ GoodRule(Maybe(Part))
  BY <1>2, <1>3, Zenon DEF AnyNumber, AnyText, Count, Flag, Items, OneOf, Part
<1> QED BY <1>4, <1>5, <1>6, <1>7

LEMMA GoodTogether ==
  ASSUME NEW f, NEW g, GoodFields(f), GoodFields(g)
  PROVE  GoodFields(f ++ g)
<1> DEFINE h == f ++ g
<1>1. DOMAIN h = DOMAIN f \cup DOMAIN g
  BY FieldsTogether, Zenon
<1>2. \A x \in DOMAIN f : h[x] = f[x]
  BY FieldsTogether, Zenon
<1>3. \A x \in DOMAIN g \ DOMAIN f : h[x] = g[x]
  BY FieldsTogether, Zenon
<1> HIDE DEF h
<1>4. GoodFields(h)
  <2> SUFFICES ASSUME NEW x \in DOMAIN h PROVE x \notin RawFields /\ GoodRule(h[x])
    BY DEF GoodFields
  <2>1. CASE x \in DOMAIN f
    BY <1>2, <2>1 DEF GoodFields
  <2>2. CASE x \notin DOMAIN f
    BY <1>1, <1>3, <2>2 DEF GoodFields
  <2> QED BY <2>1, <2>2
<1> QED BY <1>4 DEF h

LEMMA GoodEach ==
  ASSUME NEW names, names \cap RawFields = {}, NEW r, GoodRule(r)
  PROVE  GoodFields(Each(names, r))
BY DEF GoodFields, Each

(* Every class but ToolCall, and what it is made of.                       *)
LEMMA GoodClasses ==
  /\ GoodFields(TokenUsage)
  /\ GoodFields(ModelInfo)
  /\ GoodFields(CostBreakdown)
  /\ GoodFields(PricingTier)
  /\ GoodFields(SpanEvent)
  /\ GoodFields(ReasoningStep)
  /\ GoodFields(DecisionPoint)
  /\ GoodFields(Timed)
  /\ GoodFields(SpanPayload)
  /\ GoodFields(AgentStepPayload)
  /\ GoodFields(AgentRunPayload)
  /\ GoodFields(AuditKeyRotatedPayload)
  /\ GoodFields(AuditChainVerifiedPayload)
  /\ GoodFields(AuditChainTamperedPayload)
  /\ GoodFields(CacheHitPayload)
  /\ GoodFields(CacheMissPayload)
  /\ GoodFields(CacheEvictedPayload)
  /\ GoodFields(CacheWrittenPayload)
  /\ GoodFields(CostTokenRecordedPayload)
  /\ GoodFields(CostSessionRecordedPayload)
  /\ GoodFields(CostAttributedPayload)
  /\ GoodFields(DiffComputedPayload)
  /\ GoodFields(DiffRegressionFlaggedPayload)
  /\ GoodFields(EvalScoreRecordedPayload)
  /\ GoodFields(EvalRegressionDetectedPayload)
  /\ GoodFields(EvalScenarioStartedPayload)
  /\ GoodFields(EvalScenarioCompletedPayload)
  /\ GoodFields(FenceValidatedPayload)
  /\ GoodFields(FenceRetryTriggeredPayload)
  /\ GoodFields(FenceMaxRetriesExceededPayload)
  /\ GoodFields(GuardPayload)
  /\ GoodFields(PromptRenderedPayload)
  /\ GoodFields(PromptTemplateLoadedPayload)
  /\ GoodFields(PromptVersionChangedPayload)
  /\ GoodFields(RedactPiiDetectedPayload)
  /\ GoodFields(RedactPhiDetectedPayload)
  /\ GoodFields(RedactAppliedPayload)
  /\ GoodFields(TemplateRegisteredPayload)
  /\ GoodFields(TemplateVariableBoundPayload)
  /\ GoodFields(TemplateValidationFailedPayload)
<1>1. GoodFields(TokenUsage)
  <2>1. GoodFields(Each({"input_tokens", "output_tokens", "total_tokens"}, Count))
    BY GoodRules, GoodEach DEF RawFields
  <2>2. GoodFields(Each({"cached_tokens", "cache_creation_tokens", "reasoning_tokens",
                        "image_tokens"}, Maybe(Count)))
    BY GoodRules, GoodEach DEF RawFields
  <2> QED BY <2>1, <2>2, GoodTogether, Zenon DEF TokenUsage
<1>2. GoodFields(ModelInfo)
  <2>1. GoodFields([system |-> AnyText, name |-> Name])
    BY GoodRules DEF GoodFields, RawFields
  <2>2. GoodFields(Each({"response_model", "version", "custom_system_name"}, Maybe(AnyText)))
    BY GoodRules, GoodEach DEF RawFields
  <2> QED BY <2>1, <2>2, GoodTogether, Zenon DEF ModelInfo
<1>3. GoodFields(CostBreakdown)
  <2>1. GoodFields(Each({"input_cost_usd", "output_cost_usd", "total_cost_usd"}, Count))
    BY GoodRules, GoodEach DEF RawFields
  <2>2. GoodFields(Each({"cached_discount_usd", "reasoning_cost_usd"},
                        Rule(Numbers, {0, 1, 2}, "ifTrue", 0)))
    BY GoodRules, GoodEach DEF RawFields
  <2>3. GoodFields([currency |-> Rule(Texts, {1, 2}, "ifNotDefault", 1),
                    pricing_date |-> Maybe(OneOf)])
    BY GoodRules DEF GoodFields, RawFields
  <2> QED BY <2>1, <2>2, <2>3, GoodTogether, Zenon DEF CostBreakdown
<1>4. GoodFields(PricingTier)
  <2>1. GoodFields([system |-> AnyText, model |-> Name, effective_date |-> OneOf])
    BY GoodRules DEF GoodFields, RawFields
  <2>2. GoodFields(Each({"input_per_million_usd", "output_per_million_usd"}, Count))
    BY GoodRules, GoodEach DEF RawFields
  <2>3. GoodFields(Each({"cached_input_per_million_usd", "reasoning_per_million_usd"},
                        Maybe(AnyNumber)))
    BY GoodRules, GoodEach DEF RawFields
  <2> QED BY <2>1, <2>2, <2>3, GoodTogether, Zenon DEF PricingTier
<1>5. GoodFields(SpanEvent)
  <2>1. GoodFields([name |-> Name, timestamp_ns |-> Count, metadata |-> ListAlways])
    BY GoodRules DEF GoodFields, RawFields
  <2> QED BY <2>1 DEF SpanEvent
<1>6. GoodFields(ReasoningStep)
  <2>1. GoodFields([step_index |-> Count, reasoning_tokens |-> Count,
                    duration_ms |-> Maybe(Count), content_hash |-> Maybe(OneOf)])
    BY GoodRules DEF GoodFields, RawFields
  <2> QED BY <2>1 DEF ReasoningStep
<1>7. GoodFields(DecisionPoint)
  <2>1. GoodFields([decision_id |-> Name, decision_type |-> OneOf,
                    options_considered |-> SomeItems, chosen_option |-> Name,
                    rationale |-> Maybe(AnyText)])
    BY GoodRules DEF GoodFields, RawFields
  <2> QED BY <2>1 DEF DecisionPoint
<1>8. GoodFields(Timed)
  <2>1. GoodFields([span_id |-> OneOf, trace_id |-> OneOf, status |-> OneOf,
                    operation |-> AnyText, parent_span_id |-> Maybe(OneOf),
                    start_time_unix_nano |-> Count, end_time_unix_nano |-> AnyNumber])
    BY GoodRules DEF GoodFields, RawFields
  <2>2. GoodFields(Each({"model", "token_usage", "cost"}, Maybe(Part)))
    BY GoodRules, GoodEach DEF RawFields
  <2>3. GoodFields(Each({"tool_calls", "reasoning_steps"}, ListAlways))
    BY GoodRules, GoodEach DEF RawFields
  <2>4. GoodFields(Each({"error", "error_type"}, Maybe(AnyText)))
    BY GoodRules, GoodEach DEF RawFields
  <2> QED BY <2>1, <2>2, <2>3, <2>4, GoodTogether, Zenon DEF Timed
<1>9. GoodFields(SpanPayload)
  <2>1. GoodFields([span_name |-> Name, span_kind |-> AnyText, duration_ms |-> Count,
                    attributes |-> Maybe(Items), events |-> ListIfAny])
    BY GoodRules DEF GoodFields, RawFields
  <2>2. GoodFields(Each({"temperature", "top_p", "max_tokens"}, Maybe(AnyNumber)))
    BY GoodRules, GoodEach DEF RawFields
  <2>3. GoodFields(Each({"agent_run_id", "finish_reason", "error_category"}, Maybe(AnyText)))
    BY GoodRules, GoodEach DEF RawFields
  <2> QED BY <2>1, <2>2, <2>3, <1>8, GoodTogether, Zenon DEF SpanPayload
<1>10. GoodFields(AgentStepPayload)
  <2>1. GoodFields([agent_run_id |-> Name, step_index |-> Count, duration_ms |-> AnyNumber,
                    decision_points |-> ListAlways, step_name |-> Maybe(AnyText)])
    BY GoodRules DEF GoodFields, RawFields
  <2> QED BY <2>1, <1>8, GoodTogether, Zenon DEF AgentStepPayload
<1>11. GoodFields(AgentRunPayload)
  <2>1. GoodFields([agent_run_id |-> Name, agent_name |-> Name, trace_id |-> OneOf,
                    root_span_id |-> OneOf, total_token_usage |-> Part, total_cost |-> Part,
                    status |-> OneOf, start_time_unix_nano |-> Count,
                    end_time_unix_nano |-> AnyNumber, duration_ms |-> AnyNumber,
                    termination_reason |-> Maybe(AnyText)])
    BY GoodRules DEF GoodFields, RawFields
  <2>2. GoodFields(Each({"total_steps", "total_model_calls", "total_tool_calls"}, Count))
    BY GoodRules, GoodEach DEF RawFields
  <2> QED BY <2>1, <2>2, GoodTogether, Zenon DEF AgentRunPayload
<1>12. GoodFields(AuditKeyRotatedPayload)
  <2>1. GoodFields(Each({"key_id", "previous_key_id", "rotated_at", "rotated_by"}, Name))
    BY GoodRules, GoodEach DEF RawFields
  <2>2. GoodFields([rotation_reason |-> Maybe(OneOf),
                    effective_from_event_id |-> Maybe(AnyText),
                    key_algorithm |-> Rule(Texts, Texts, "always", 1)])
    BY GoodRules DEF GoodFields, RawFields
  <2> QED BY <2>1, <2>2, GoodTogether, Zenon DEF AuditKeyRotatedPayload
<1>13. GoodFields(AuditChainVerifiedPayload)
  <2>1. GoodFields(Each({"verified_from_event_id", "verified_to_event_id", "verified_at",
                        "verified_by"}, Name))
    BY GoodRules, GoodEach DEF RawFields
  <2>2. GoodFields([event_count |-> Count])
    BY GoodRules DEF GoodFields, RawFields
  <2> QED BY <2>1, <2>2, GoodTogether, Zenon DEF AuditChainVerifiedPayload
<1>14. GoodFields(AuditChainTamperedPayload)
  <2>1. GoodFields(Each({"first_tampered_event_id", "detected_at", "detected_by"}, Name))
    BY GoodRules, GoodEach DEF RawFields
  <2>2. GoodFields([tampered_count |-> Count, gap_count |-> Maybe(AnyNumber),
                    gap_prev_ids |-> ListIfAny, severity |-> Maybe(OneOf)])
    BY GoodRules DEF GoodFields, RawFields
  <2> QED BY <2>1, <2>2, GoodTogether, Zenon DEF AuditChainTamperedPayload
<1>15. GoodFields(CacheHitPayload)
  <2>1. GoodFields(Each({"key_hash", "namespace"}, Name))
    BY GoodRules, GoodEach DEF RawFields
  <2>2. GoodFields([similarity_score |-> Unit])
    BY GoodRules DEF GoodFields, RawFields
  <2>3. GoodFields(Each({"ttl_remaining_seconds", "lookup_duration_ms"}, Maybe(AnyNumber)))
    BY GoodRules, GoodEach DEF RawFields
  <2>4. GoodFields(Each({"cached_model", "cost_saved", "tokens_saved"}, Maybe(Part)))
    BY GoodRules, GoodEach DEF RawFields
  <2> QED BY <2>1, <2>2, <2>3, <2>4, GoodTogether, Zenon DEF CacheHitPayload
<1>16. GoodFields(CacheMissPayload)
  <2>1. GoodFields(Each({"key_hash", "namespace"}, Name))
    BY GoodRules, GoodEach DEF RawFields
  <2>2. GoodFields(Each({"best_similarity_score", "similarity_threshold",
                        "lookup_duration_ms"}, Maybe(AnyNumber)))
    BY GoodRules, GoodEach DEF RawFields
  <2> QED BY <2>1, <2>2, GoodTogether, Zenon DEF CacheMissPayload
<1>17. GoodFields(CacheEvictedPayload)
  <2>1. GoodFields(Each({"key_hash", "namespace"}, Name))
    BY GoodRules, GoodEach DEF RawFields
  <2>2. GoodFields([eviction_reason |-> OneOf, entry_age_seconds |-> Maybe(AnyNumber)])
    BY GoodRules DEF GoodFields, RawFields
  <2> QED BY <2>1, <2>2, GoodTogether, Zenon DEF CacheEvictedPayload
<1>18. GoodFields(CacheWrittenPayload)
  <2>1. GoodFields(Each({"key_hash", "namespace"}, Name))
    BY GoodRules, GoodEach DEF RawFields
  <2>2. GoodFields([ttl_seconds |-> Count, model |-> Maybe(Part)])
    BY GoodRules DEF GoodFields, RawFields
  <2>3. GoodFields(Each({"response_token_count", "write_duration_ms"}, Maybe(AnyNumber)))
    BY GoodRules, GoodEach DEF RawFields
  <2> QED BY <2>1, <2>2, <2>3, GoodTogether, Zenon DEF CacheWrittenPayload
<1>19. GoodFields(CostTokenRecordedPayload)
  <2>1. GoodFields(Each({"cost", "token_usage", "model"}, Part))
    BY GoodRules, GoodEach DEF RawFields
  <2>2. GoodFields([pricing_tier |-> Maybe(Part)])
    BY GoodRules DEF GoodFields, RawFields
  <2>3. GoodFields(Each({"span_id", "agent_run_id"}, Maybe(AnyText)))
    BY GoodRules, GoodEach DEF RawFields
  <2> QED BY <2>1, <2>2, <2>3, GoodTogether, Zenon DEF CostTokenRecordedPayload
<1>20. GoodFields(CostSessionRecordedPayload)
  <2>1. GoodFields(Each({"total_cost", "total_token_usage"}, Part))
    BY GoodRules, GoodEach DEF RawFields
  <2>2. GoodFields([call_count |-> Count, session_duration_ms |-> Maybe(Count),
                    models_used |-> ListIfAny])
    BY GoodRules DEF GoodFields, RawFields
  <2> QED BY <2>1, <2>2, GoodTogether, Zenon DEF CostSessionRecordedPayload
<1>21. GoodFields(CostAttributedPayload)
  <2>1. GoodFields([cost |-> Part, attribution_target |-> Name, attribution_type |-> OneOf,
                    source_event_ids |-> ListIfAny])
    BY GoodRules DEF GoodFields, RawFields
  <2> QED BY <2>1 DEF CostAttributedPayload
<1>22. GoodFields(DiffComputedPayload)
  <2>1. GoodFields(Each({"ref_event_id", "target_event_id"}, Name))
    BY GoodRules, GoodEach DEF RawFields
  <2>2. GoodFields([diff_type |-> OneOf, similarity_score |-> Unit,
                    diff_algorithm |-> Maybe(OneOf)])
    BY GoodRules DEF GoodFields, RawFields
  <2>3. GoodFields(Each({"added_tokens", "removed_tokens", "computation_duration_ms"},
                        Maybe(AnyNumber)))
    BY GoodRules, GoodEach DEF RawFields
  <2>4. GoodFields(Each({"ref_content_hash", "target_content_hash"}, Maybe(AnyText)))
    BY GoodRules, GoodEach DEF RawFields
  <2> QED BY <2>1, <2>2, <2>3, <2>4, GoodTogether, Zenon DEF DiffComputedPayload
<1>23. GoodFields(DiffRegressionFlaggedPayload)
  <2>1. GoodFields(Each({"ref_event_id", "target_event_id"}, Name))
    BY GoodRules, GoodEach DEF RawFields
  <2>2. GoodFields(Each({"diff_type", "severity"}, OneOf))
    BY GoodRules, GoodEach DEF RawFields
  <2>3. GoodFields(Each({"similarity_score", "threshold"}, Unit))
    BY GoodRules, GoodEach DEF RawFields
  <2>4. GoodFields(Each({"diff_event_id", "alert_target"}, Maybe(AnyText)))
    BY GoodRules, GoodEach DEF RawFields
  <2> QED BY <2>1, <2>2, <2>3, <2>4, GoodTogether, Zenon DEF DiffRegressionFlaggedPayload
<1>24. GoodFields(EvalScoreRecordedPayload)
  <2>1. GoodFields(Each({"evaluator", "metric_name"}, Name))
    BY GoodRules, GoodEach DEF RawFields
  <2>2. GoodFields([score |-> AnyNumber, passed |-> Maybe(Flag), model |-> Maybe(Part)])
    BY GoodRules DEF GoodFields, RawFields
  <2>3. GoodFields(Each({"score_min", "score_max", "threshold"}, Maybe(AnyNumber)))
    BY GoodRules, GoodEach DEF RawFields
  <2>4. GoodFields(Each({"subject_event_id", "subject_type", "eval_run_id", "rationale"},
                        Maybe(AnyText)))
    BY GoodRules, GoodEach DEF RawFields
  <2> QED BY <2>1, <2>2, <2>3, <2>4, GoodTogether, Zenon DEF EvalScoreRecordedPayload
<1>25. GoodFields(EvalRegressionDetectedPayload)
  <2>1. GoodFields([metric_name |-> Name, severity |-> Maybe(OneOf),
                    affected_model |-> Maybe(Part), eval_run_id |-> Maybe(AnyText),
                    sample_count |-> Maybe(AnyNumber)])
    BY GoodRules DEF GoodFields, RawFields
  <2>2. GoodFields(Each({"baseline_score", "current_score", "delta", "regression_pct"},
                        AnyNumber))
    BY GoodRules, GoodEach DEF RawFields
  <2> QED BY <2>1, <2>2, GoodTogether, Zenon DEF EvalRegressionDetectedPayload
<1>26. GoodFields(EvalScenarioStartedPayload)
  <2>1. GoodFields(Each({"scenario_id", "scenario_name", "evaluator"}, Name))
    BY GoodRules, GoodEach DEF RawFields
  <2>2. GoodFields([dataset_id |-> Maybe(AnyText),
                    expected_sample_count |-> Maybe(AnyNumber), metrics |-> ListIfAny])
    BY GoodRules DEF GoodFields, RawFields
  <2> QED BY <2>1, <2>2, GoodTogether, Zenon DEF EvalScenarioStartedPayload
<1>27. GoodFields(EvalScenarioCompletedPayload)
  <2>1. GoodFields([scenario_id |-> Name, status |-> OneOf, duration_ms |-> Count,
                    completed_sample_count |-> Maybe(AnyNumber)])
    BY GoodRules DEF GoodFields, RawFields
  <2>2. GoodFields(Each({"scores_summary", "errors"}, Maybe(Items)))
    BY GoodRules, GoodEach DEF RawFields
  <2> QED BY <2>1, <2>2, GoodTogether, Zenon DEF EvalScenarioCompletedPayload
<1>28. GoodFields(FenceValidatedPayload)
  <2>1. GoodFields(Each({"fence_id", "schema_name"}, Name))
    BY GoodRules, GoodEach DEF RawFields
  <2>2. GoodFields([attempt |-> Positive, output_type |-> Maybe(OneOf),
                    span_id |-> Maybe(AnyText),
                    validation_duration_ms |-> Maybe(AnyNumber)])
    BY GoodRules DEF GoodFields, RawFields
  <2> QED BY <2>1, <2>2, GoodTogether, Zenon DEF FenceValidatedPayload
<1>29. GoodFields(FenceRetryTriggeredPayload)
  <2>1. GoodFields(Each({"fence_id", "schema_name", "violation_summary"}, Name))
    BY GoodRules, GoodEach DEF RawFields
  <2>2. GoodFields(Each({"attempt", "max_attempts"}, Positive))
    BY GoodRules, GoodEach DEF RawFields
  <2>3. GoodFields([output_type |-> Maybe(OneOf), span_id |-> Maybe(AnyText)])
    BY GoodRules DEF GoodFields, RawFields
  <2> QED BY <2>1, <2>2, <2>3, GoodTogether, Zenon DEF FenceRetryTriggeredPayload
<1>30. GoodFields(FenceMaxRetriesExceededPayload)
  <2>1. GoodFields(Each({"fence_id", "schema_name", "final_violation_summary"}, Name))
    BY GoodRules, GoodEach DEF RawFields
  <2>2. GoodFields([attempts_made |-> Positive, output_type |-> Maybe(OneOf),
                    span_id |-> Maybe(AnyText), total_extra_cost |-> Maybe(Part)])
    BY GoodRules DEF GoodFields, RawFields
  <2> QED BY <2>1, <2>2, GoodTogether, Zenon DEF FenceMaxRetriesExceededPayload
<1>31. GoodFields(GuardPayload)
  <2>1. GoodFields([classifier |-> Name, direction |-> OneOf, action |-> OneOf,
                    score |-> AnyNumber, latency_ms |-> Maybe(Count)])
    BY GoodRules DEF GoodFields, RawFields
  <2>2. GoodFields(Each({"score_min", "score_max", "threshold"}, Maybe(AnyNumber)))
    BY GoodRules, GoodEach DEF RawFields
  <2>3. GoodFields(Each({"categories", "triggered_categories"}, ListIfAny))
    BY GoodRules, GoodEach DEF RawFields
  <2>4. GoodFields(Each({"span_id", "policy_id", "content_hash"}, Maybe(AnyText)))
    BY GoodRules, GoodEach DEF RawFields
  <2> QED BY <2>1, <2>2, <2>3, <2>4, GoodTogether, Zenon DEF GuardPayload
<1>32. GoodFields(PromptRenderedPayload)
  <2>1. GoodFields(Each({"template_id", "version"}, Name))
    BY GoodRules, GoodEach DEF RawFields
  <2>2. GoodFields([rendered_hash |-> OneOf, variable_names |-> ListIfAny])
    BY GoodRules DEF GoodFields, RawFields
  <2>3. GoodFields(Each({"variable_count", "char_count", "token_estimate"}, Maybe(AnyNumber)))
    BY GoodRules, GoodEach DEF RawFields
  <2>4. GoodFields(Each({"language", "span_id"}, Maybe(AnyText)))
    BY GoodRules, GoodEach DEF RawFields
  <2> QED BY <2>1, <2>2, <2>3, <2>4, GoodTogether, Zenon DEF PromptRenderedPayload
<1>33. GoodFields(PromptTemplateLoadedPayload)
  <2>1. GoodFields(Each({"template_id", "version"}, Name))
    BY GoodRules, GoodEach DEF RawFields
  <2>2. GoodFields([source |-> OneOf, template_hash |-> Maybe(OneOf),
                    load_duration_ms |-> Maybe(AnyNumber), cache_hit |-> Maybe(Flag)])
    BY GoodRules DEF GoodFields, RawFields
  <2> QED BY <2>1, <2>2, GoodTogether, Zenon DEF PromptTemplateLoadedPayload
<1>34. GoodFields(PromptVersionChangedPayload)
  <2>1. GoodFields(Each({"template_id", "previous_version", "new_version", "change_reason"},
                        Name))
    BY GoodRules, GoodEach DEF RawFields
  <2>2. GoodFields(Each({"changed_by", "previous_hash", "new_hash"}, Maybe(AnyText)))
    BY GoodRules, GoodEach DEF RawFields
  <2> QED BY <2>1, <2>2, GoodTogether, Zenon DEF PromptVersionChangedPayload
<1>35. GoodFields(RedactPiiDetectedPayload)
  <2>1. GoodFields(Each({"detected_categories", "field_names"}, SomeItems))
    BY GoodRules, GoodEach DEF RawFields
  <2>2. GoodFields([sensitivity_level |-> OneOf, detection_count |-> Maybe(AnyNumber)])
    BY GoodRules DEF GoodFields, RawFields
  <2>3. GoodFields(Each({"detector", "subject_event_id"}, Maybe(AnyText)))
    BY GoodRules, GoodEach DEF RawFields
  <2> QED BY <2>1, <2>2, <2>3, GoodTogether, Zenon DEF RedactPiiDetectedPayload
<1>36. GoodFields(RedactPhiDetectedPayload)
  <2>1. GoodFields(Each({"detected_categories", "field_names"}, SomeItems))
    BY GoodRules, GoodEach DEF RawFields
  <2>2. GoodFields([sensitivity_level |-> Rule(Texts, {1}, "always", 1),
                    detection_count |-> Maybe(AnyNumber), hipaa_covered |-> Maybe(Flag)])
    BY GoodRules DEF GoodFields, RawFields
  <2>3. GoodFields(Each({"detector", "subject_event_id"}, Maybe(AnyText)))
    BY GoodRules, GoodEach DEF RawFields
  <2> QED BY <2>1, <2>2, <2>3, GoodTogether, Zenon DEF RedactPhiDetectedPayload
<1>37. GoodFields(RedactAppliedPayload)
  <2>1. GoodFields([policy_min_sensitivity |-> OneOf, redacted_by |-> Name,
                    redacted_count |-> Count, redacted_field_names |-> ListIfAny,
                    subject_event_id |-> Maybe(AnyText), verified |-> Maybe(Flag)])
    BY GoodRules DEF GoodFields, RawFields
  <2> QED BY <2>1 DEF RedactAppliedPayload
<1>38. GoodFields(TemplateRegisteredPayload)
  <2>1. GoodFields(Each({"template_id", "version"}, Name))
    BY GoodRules, GoodEach DEF RawFields
  <2>2. GoodFields([template_hash |-> OneOf, variable_names |-> ListIfAny,
                    is_active |-> Maybe(Flag), tags |-> Maybe(Items)])
    BY GoodRules DEF GoodFields, RawFields
  <2>3. GoodFields(Each({"variable_count", "char_count"}, Maybe(AnyNumber)))
    BY GoodRules, GoodEach DEF RawFields
  <2>4. GoodFields(Each({"language", "registered_by"}, Maybe(AnyText)))
    BY GoodRules, GoodEach DEF RawFields
  <2> QED BY <2>1, <2>2, <2>3, <2>4, GoodTogether, Zenon DEF TemplateRegisteredPayload
<1>39. GoodFields(TemplateVariableBoundPayload)
  <2>1. GoodFields(Each({"template_id", "version", "variable_name"}, Name))
    BY GoodRules, GoodEach DEF RawFields
  <2>2. GoodFields(Each({"value_type", "value_hash"}, Maybe(OneOf)))
    BY GoodRules, GoodEach DEF RawFields
  <2>3. GoodFields([value_length |-> Maybe(AnyNumber), is_sensitive |-> Maybe(Flag),
                    span_id |-> Maybe(AnyText)])
    BY GoodRules DEF GoodFields, RawFields
  <2> QED BY <2>1, <2>2, <2>3, GoodTogether, Zenon DEF TemplateVariableBoundPayload
<1>40. GoodFields(TemplateValidationFailedPayload)
  <2>1. GoodFields(Each({"template_id", "version", "failure_reason"}, Name))
    BY GoodRules, GoodEach DEF RawFields
  <2>2. GoodFields([failure_type |-> Maybe(OneOf)])
    BY GoodRules DEF GoodFields, RawFields
  <2> QED BY <2>1, <2>2, GoodTogether, Zenon DEF TemplateValidationFailedPayload
<1> QED BY <1>1, <1>2, <1>3, <1>4, <1>5, <1>6, <1>7, <1>8, <1>9, <1>10, <1>11, <1>12, <1>13,
        <1>14, <1>15, <1>16, <1>17, <1>18, <1>19, <1>20, <1>21, <1>22, <1>23, <1>24, <1>25,
        <1>26, <1>27, <1>28, <1>29, <1>30, <1>31, <1>32, <1>33, <1>34, <1>35, <1>36, <1>37,
        <1>38, <1>39, <1>40

(* What a class says of a field: it is written such that it comes back, or *)
(* it is the raw input or output of a tool call.                           *)
LEMMA ClassesAreGood == \A c \in PayClasses \ {"ToolCall"} : GoodFields(Fields[c])
BY GoodClasses DEF Fields, PayClasses

ToolCallRule(f) ==
  \/ f \notin RawFields /\ GoodRule(ToolCall[f])
  \/ f \in RawFields /\ ToolCall[f] = Gated(AnyText)

LEMMA ToolCallRules == \A f \in DOMAIN ToolCall : ToolCallRule(f)
<1> DEFINE a == [tool_call_id |-> Name, function_name |-> Name, status |-> OneOf,
                 arguments_hash |-> Maybe(OneOf), duration_ms |-> Maybe(Count),
                 retry_count |-> Maybe(Count)]
           b == Each({"error_type", "external_api"}, Maybe(AnyText))
           r == Each({"arguments_raw", "result_raw"}, Gated(AnyText))
<1>1. GoodFields(a)
  BY GoodRules DEF GoodFields, RawFields
<1>2. GoodFields(b)
  BY GoodRules, GoodEach DEF RawFields
<1>3. GoodFields(a ++ b)
  BY <1>1, <1>2, GoodTogether, Zenon
<1>4. ToolCall = (a ++ b) ++ r
  BY DEF ToolCall
<1>5. DOMAIN r = RawFields /\ \A f \in RawFields : r[f] = Gated(AnyText)
  BY DEF Each, RawFields
<1>6. TAKE f \in DOMAIN ToolCall
<1> HIDE DEF a, b, r
<1> DEFINE g == a ++ b
<1>7. GoodFields(g) /\ ToolCall = g ++ r
  BY <1>3, <1>4
<1> HIDE DEF g
<1>8. CASE f \in DOMAIN g
  <2>1. ToolCall[f] = g[f]
    BY <1>7, <1>8, FieldsTogether, Zenon
  <2> QED BY <1>7, <1>8, <2>1 DEF GoodFields, ToolCallRule
<1>9. CASE f \notin DOMAIN g
  <2>1. f \in DOMAIN r
    BY <1>7, <1>9, FieldsTogether, Zenon
  <2>2. ToolCall[f] = r[f]
    <3>1. f \in DOMAIN r \ DOMAIN g
      BY <1>9, <2>1
    <3>2. \A x \in DOMAIN r \ DOMAIN g : (g ++ r)[x] = r[x]
      BY FieldsTogether, Zenon
    <3> QED BY <1>7, <3>1, <3>2
  <2> QED BY <1>5, <2>1, <2>2 DEF ToolCallRule
<1> QED BY <1>8, <1>9

LEMMA RuleOf ==
  ASSUME NEW c \in PayClasses, NEW f \in DOMAIN Fields[c]
  PROVE  \/ f \notin RawFields /\ GoodRule(Fields[c][f])
         \/ c = "ToolCall" /\ f \in RawFields /\ Fields[c][f] = Gated(AnyText)
<1>1. CASE c # "ToolCall"
  BY <1>1, ClassesAreGood DEF GoodFields
<1>2. CASE c = "ToolCall"
  <2>1. Fields[c] = ToolCall
    BY <1>2 DEF Fields
  <2> QED BY <1>2, <2>1, ToolCallRules DEF ToolCallRule
<1> QED BY <1>1, <1>2

-----------------------------------------------------------------------------
(* An object the constructor accepts, written and read back.               *)

(* A field that is read back holds what was written; if it was not         *)
(* written, its absence reads as the value it had.                         *)
LEMMA GoodValueReadsBack ==
  ASSUME NEW r, GoodRule(r), NEW v \in r.accepted, NEW raw, ~IsWritten(r, v, raw)
  PROVE  r.absent = v
<1>1. CASE r.writing = "always"
  BY <1>1 DEF IsWritten
<1>2. CASE r.writing = "ifSet" /\ r.absent = None
  BY <1>2 DEF IsWritten
<1>3. CASE r.writing = "ifTrue" /\ r.absent = 0 /\ None \notin r.accepted
  BY <1>3 DEF IsWritten
<1>4. CASE r.writing = "ifNotDefault"
  BY <1>4 DEF IsWritten
<1> QED BY <1>1, <1>2, <1>3, <1>4 DEF GoodRule

LEMMA RawValueReadsBack ==
  ASSUME NEW v \in Gated(AnyText).accepted, NEW raw
  PROVE  /\ v \in Simple
         /\ IsWritten(Gated(AnyText), v, raw) => raw = TRUE \/ raw # FALSE
         /\ Gated(AnyText).absent = None
         /\ None \in Gated(AnyText).accepted
BY DEF Gated, AnyText, Required, Rule, Texts, Simple, IsWritten

(* o is an object of class c, and again what from_dict makes of its dict.  *)
ObjectOf(c, o) == o = [f \in DOMAIN Fields[c] |-> o[f]]

SameButRaw(c, o, again) ==
  /\ ObjectOf(c, again)
  /\ \A f \in DOMAIN Fields[c] : again[f] # o[f] => f \in RawFields /\ again[f] = None

DictOf(c, o, raw) == [f \in WrittenKeys(c, o, raw) |-> o[f]]

LEMMA FieldReadsBack ==
  ASSUME NEW c \in PayClasses, NEW o, ObjectOf(c, o), Accepted(c, o), NEW raw \in BOOLEAN,
         NEW f \in DOMAIN Fields[c]
  PROVE  LET v == ReadField(c, DictOf(c, o, raw), f) IN
         /\ v \in Fields[c][f].accepted /\ v \in Simple
         /\ v # o[f] => c = "ToolCall" /\ f \in RawFields /\ v = None
<1> DEFINE d == DictOf(c, o, raw)
           v == ReadField(c, d, f)
           r == Fields[c][f]
<1>1. f \in DOMAIN o /\ o[f] \in r.accepted
  BY DEF ObjectOf, Accepted
<1>2. DOMAIN d = WrittenKeys(c, o, raw) /\ (f \in DOMAIN d => d[f] = o[f])
  BY DEF DictOf
<1>3. f \in DOMAIN d <=> IsWritten(r, o[f], raw)
  BY <1>1, <1>2 DEF WrittenKeys
<1>4. v = IF f \in DOMAIN d THEN d[f] ELSE r.absent
  BY DEF ReadField
<1> HIDE DEF d, v, r
<1>5. CASE f \notin RawFields /\ GoodRule(r)
  <2>1. v = o[f]
    BY <1>1, <1>2, <1>3, <1>4, <1>5, GoodValueReadsBack
  <2> QED BY <1>1, <1>5, <2>1 DEF GoodRule, d, v, r
<1>6. CASE c = "ToolCall" /\ f \in RawFields /\ r = Gated(AnyText)
  <2>1. o[f] \in Simple /\ r.absent = None /\ None \in r.accepted
    BY <1>1, <1>6, RawValueReadsBack
  <2>2. v = o[f] \/ v = None
    BY <1>2, <1>4, <2>1
  <2> QED BY <1>1, <1>6, <2>1, <2>2 DEF Simple, d, v, r
<1> QED BY <1>5, <1>6, RuleOf DEF r

LEMMA ObjectReadsBack ==
  ASSUME NEW c \in PayClasses, NEW o, ObjectOf(c, o), Accepted(c, o), NEW raw \in BOOLEAN
  PROVE  LET again == ReadAll(c, DictOf(c, o, raw)) IN
         /\ SameButRaw(c, o, again) /\ Accepted(c, again)
         /\ Missing \notin {again[f] : f \in DOMAIN again}
<1> DEFINE d == DictOf(c, o, raw)
           again == ReadAll(c, d)
<1>1. /\ DOMAIN again = DOMAIN Fields[c]
      /\ \A f \in DOMAIN Fields[c] : again[f] = ReadField(c, d, f)
  BY DEF ReadAll
<1>2. \A f \in DOMAIN Fields[c] :
        /\ again[f] \in Fields[c][f].accepted /\ again[f] \in Simple
        /\ again[f] # o[f] => c = "ToolCall" /\ f \in RawFields /\ again[f] = None
  BY <1>1, FieldReadsBack
<1>3. ObjectOf(c, again)
  BY DEF ObjectOf, ReadAll
<1> HIDE DEF d, again
<1>4. SameButRaw(c, o, again)
  BY <1>2, <1>3 DEF SameButRaw
<1>5. Consistent(c, again)
  <2>1. CASE c = "ToolCall"
    BY <2>1 DEF Consistent
  <2>2. CASE c # "ToolCall"
    <3>1. again = o
      BY <1>2, <1>3, <2>2 DEF ObjectOf
    <3> QED BY <3>1 DEF Accepted
  <2> QED BY <2>1, <2>2
<1>6. Missing \notin Simple
  BY PayloadsAssumption DEF Simple
<1> QED BY <1>1, <1>2, <1>4, <1>5, <1>6 DEF Accepted, d, again

(* A dict that was written while the configuration did not allow it has no *)
(* raw field.                                                              *)
LEMMA RawIsHeldBack ==
  ASSUME NEW c \in PayClasses, NEW o, ObjectOf(c, o), NEW raw \in BOOLEAN, ~raw
  PROVE  WrittenKeys(c, o, raw) \cap RawFields = {}
<1> SUFFICES ASSUME NEW f \in WrittenKeys(c, o, raw) PROVE f \notin RawFields
  OBVIOUS
<1>1. f \in DOMAIN Fields[c] /\ IsWritten(Fields[c][f], o[f], raw)
  BY DEF WrittenKeys, ObjectOf
<1>2. Gated(AnyText).writing = "ifSetAndAllowed"
  BY DEF Gated, Rule
<1>3. ~IsWritten(Gated(AnyText), o[f], raw)
  BY <1>2 DEF IsWritten
<1> QED BY <1>1, <1>3, RuleOf

-----------------------------------------------------------------------------
(* The invariant: what the constructor accepted is what to_dict writes,    *)
(* and what is read back is it, but for raw fields.                        *)
PayInv ==
  /\ payPc \in {"new", "refused", "built", "written", "reloaded", "rewritten"}
  /\ payClass \in PayClasses
  /\ rawAllowed \in BOOLEAN /\ rawAtWrite \in BOOLEAN
  /\ ObjectOf(payClass, built)
  /\ payPc \in {"built", "written", "reloaded", "rewritten"} => Accepted(payClass, built)
  /\ payPc = "written" => written = DictOf(payClass, built, rawAtWrite)
  /\ payPc \in {"reloaded", "rewritten"} => SameButRaw(payClass, built, reloaded)
  /\ RawOnlyWhenAllowed

LEMMA PayInitial == PayInit => PayInv
<1> SUFFICES ASSUME PayInit PROVE PayInv
  OBVIOUS
<1>1. ObjectOf(payClass, built)
  BY DEF PayInit, Base, ObjectOf
<1> QED BY <1>1 DEF PayInit, PayInv, RawOnlyWhenAllowed

LEMMA WrittenAsAllowed ==
  ASSUME NEW c \in PayClasses, NEW o, ObjectOf(c, o), NEW raw \in BOOLEAN
  PROVE  DOMAIN DictOf(c, o, raw) \cap RawFields # {} => raw
BY RawIsHeldBack DEF DictOf

LEMMA PayStep == PayInv /\ [PayNext]_payVars => PayInv'
<1> SUFFICES ASSUME PayInv, [PayNext]_payVars PROVE PayInv'
  OBVIOUS
<1>1. ASSUME NEW f \in DOMAIN Fields[payClass], NEW v, Pass(f, v) PROVE PayInv'
  <2>1. ObjectOf(payClass', built')
    BY <1>1 DEF PayInv, Pass, ObjectOf
  <2> QED BY <1>1, <2>1 DEF PayInv, Pass, RawOnlyWhenAllowed
<1>2. CASE Construct
  BY <1>2 DEF PayInv, Construct, RawOnlyWhenAllowed
<1>3. CASE ToDict
  <2>1. written' = DictOf(payClass', built', rawAtWrite')
    BY <1>3 DEF ToDict, DictOf
  <2>2. DOMAIN written' \cap RawFields # {} => rawAtWrite'
    BY <1>3, <2>1, WrittenAsAllowed DEF PayInv, ToDict
  <2> QED BY <1>3, <2>1, <2>2 DEF PayInv, ToDict, RawOnlyWhenAllowed
<1>4. CASE FromDict
  <2> DEFINE o == ReadAll(payClass, written)
  <2>1. written = DictOf(payClass, built, rawAtWrite) /\ Accepted(payClass, built)
    BY <1>4 DEF PayInv, FromDict
  <2>2. /\ SameButRaw(payClass, built, o) /\ Accepted(payClass, o)
        /\ Missing \notin {o[f] : f \in DOMAIN o}
    <3>1. payClass \in PayClasses /\ ObjectOf(payClass, built) /\ rawAtWrite \in BOOLEAN
      BY DEF PayInv
    <3>2. LET again == ReadAll(payClass, DictOf(payClass, built, rawAtWrite)) IN
          /\ SameButRaw(payClass, built, again) /\ Accepted(payClass, again)
          /\ Missing \notin {again[f] : f \in DOMAIN again}
      BY <2>1, <3>1, ObjectReadsBack
    <3> QED BY <2>1, <3>2
  <2>3. payPc' = "reloaded" /\ reloaded' = o
    BY <1>4, <2>2 DEF FromDict
  <2>4. UNCHANGED <<payClass, built, written, rawAllowed, rawAtWrite>>
    BY <1>4 DEF FromDict
  <2> HIDE DEF o
  <2>5. SameButRaw(payClass, built, reloaded)'
    BY <2>2, <2>3, <2>4 DEF SameButRaw, ObjectOf
  <2> QED BY <2>1, <2>3, <2>4, <2>5 DEF PayInv, RawOnlyWhenAllowed
<1>5. CASE Rewrite
  <2>1. ObjectOf(payClass, reloaded) /\ written' = DictOf(payClass, reloaded, rawAllowed)
    BY <1>5 DEF PayInv, Rewrite, DictOf, SameButRaw
  <2>2. DOMAIN written' \cap RawFields # {} => rawAtWrite'
    BY <1>5, <2>1, WrittenAsAllowed DEF PayInv, Rewrite
  <2> QED BY <1>5, <2>2 DEF PayInv, Rewrite, RawOnlyWhenAllowed
<1>6. CASE ConfigureRaw
  BY <1>6 DEF PayInv, ConfigureRaw, RawOnlyWhenAllowed
<1>7. CASE UNCHANGED payVars
  BY <1>7 DEF PayInv, payVars, RawOnlyWhenAllowed
<1> QED BY <1>1, <1>2, <1>3, <1>4, <1>5, <1>6, <1>7 DEF PayNext

LEMMA PayloadsKept == PayInv => PayloadSurvivesItsDict /\ RawOnlyWhenAllowed
BY DEF PayInv, PayloadSurvivesItsDict, SameButRaw, ObjectOf

-----------------------------------------------------------------------------
(* The prices: integrations/                                               *)

(* A name without the year that Date begins with.                          *)
NotDated(n) == Len(n) > 0 /\ \E S : n \in Seq(S) /\ "2030" \notin S

LEMMA NamesAreNotDated ==
  /\ \A a : "2030" \notin {a} => NotDated(<<a>>)
  /\ \A a, b : "2030" \notin {a, b} => NotDated(<<a, b>>)
  /\ \A a, b, c : "2030" \notin {a, b, c} => NotDated(<<a, b, c>>)
  /\ \A a, b, c, d : "2030" \notin {a, b, c, d} => NotDated(<<a, b, c, d>>)
  /\ \A a, b, c, d, e : "2030" \notin {a, b, c, d, e} => NotDated(<<a, b, c, d, e>>)
  /\ \A a, b, c, d, e, f : "2030" \notin {a, b, c, d, e, f} => NotDated(<<a, b, c, d, e, f>>)
  /\ \A a, b, c, d, e, f, g : "2030" \notin {a, b, c, d, e, f, g} =>
       NotDated(<<a, b, c, d, e, f, g>>)
<1>1. ASSUME NEW a, "2030" \notin {a}
      PROVE  NotDated(<<a>>)
  <2>1. <<a>> \in Seq({a}) /\ Len(<<a>>) > 0
    OBVIOUS
  <2> QED BY <1>1, <2>1, Zenon DEF NotDated
<1>2. ASSUME NEW a, NEW b, "2030" \notin {a, b}
      PROVE  NotDated(<<a, b>>)
  <2>1. <<a, b>> \in Seq({a, b}) /\ Len(<<a, b>>) > 0
    OBVIOUS
  <2> QED BY <1>2, <2>1, Zenon DEF NotDated
<1>3. ASSUME NEW a, NEW b, NEW c, "2030" \notin {a, b, c}
      PROVE  NotDated(<<a, b, c>>)
  <2>1. <<a, b, c>> \in Seq({a, b, c}) /\ Len(<<a, b, c>>) > 0
    OBVIOUS
  <2> QED BY <1>3, <2>1, Zenon DEF NotDated
<1>4. ASSUME NEW a, NEW b, NEW c, NEW d, "2030" \notin {a, b, c, d}
      PROVE  NotDated(<<a, b, c, d>>)
  <2>1. <<a, b, c, d>> \in Seq({a, b, c, d}) /\ Len(<<a, b, c, d>>) > 0
    OBVIOUS
  <2> QED BY <1>4, <2>1, Zenon DEF NotDated
<1>5. ASSUME NEW a, NEW b, NEW c, NEW d, NEW e, "2030" \notin {a, b, c, d, e}
      PROVE  NotDated(<<a, b, c, d, e>>)
  <2>1. <<a, b, c, d, e>> \in Seq({a, b, c, d, e}) /\ Len(<<a, b, c, d, e>>) > 0
    OBVIOUS
  <2> QED BY <1>5, <2>1, Zenon DEF NotDated
<1>6. ASSUME NEW a, NEW b, NEW c, NEW d, NEW e, NEW f, "2030" \notin {a, b, c, d, e, f}
      PROVE  NotDated(<<a, b, c, d, e, f>>)
  <2>1. <<a, b, c, d, e, f>> \in Seq({a, b, c, d, e, f}) /\ Len(<<a, b, c, d, e, f>>) > 0
    OBVIOUS
  <2> QED BY <1>6, <2>1, Zenon DEF NotDated
<1>7. ASSUME NEW a, NEW b, NEW c, NEW d, NEW e, NEW f, NEW g,
             "2030" \notin {a, b, c, d, e, f, g}
      PROVE  NotDated(<<a, b, c, d, e, f, g>>)
  <2>1. <<a, b, c, d, e, f, g>> \in Seq({a, b, c, d, e, f, g})
        /\ Len(<<a, b, c, d, e, f, g>>) > 0
    OBVIOUS
  <2> QED BY <1>7, <2>1, Zenon DEF NotDated
<1> QED BY <1>1, <1>2, <1>3, <1>4, <1>5, <1>6, <1>7

LEMMA OpenAINames == \A r \in OpenAIPricing : NotDated(r.name)
<1>1. NotDated(<<"gpt", "4o">>)
  BY NamesAreNotDated
<1>2. NotDated(<<"gpt", "4o", "2024", "11", "20">>)
  BY NamesAreNotDated
<1>3. NotDated(<<"gpt", "4o", "2024", "08", "06">>)
  BY NamesAreNotDated
<1>4. NotDated(<<"gpt", "4o", "2024", "05", "13">>)
  BY NamesAreNotDated
<1>5. NotDated(<<"gpt", "4o", "mini">>)
  BY NamesAreNotDated
<1>6. NotDated(<<"gpt", "4o", "mini", "2024", "07", "18">>)
  BY NamesAreNotDated
<1>7. NotDated(<<"gpt", "4", "turbo">>)
  BY NamesAreNotDated
<1>8. NotDated(<<"gpt", "4", "turbo", "2024", "04", "09">>)
  BY NamesAreNotDated
<1>9. NotDated(<<"gpt", "4", "0125", "preview">>)
  BY NamesAreNotDated
<1>10. NotDated(<<"gpt", "4", "1106", "preview">>)
  BY NamesAreNotDated
<1>11. NotDated(<<"gpt", "4">>)
  BY NamesAreNotDated
<1>12. NotDated(<<"gpt", "4", "0613">>)
  BY NamesAreNotDated
<1>13. NotDated(<<"gpt", "3.5", "turbo">>)
  BY NamesAreNotDated
<1>14. NotDated(<<"gpt", "3.5", "turbo", "0125">>)
  BY NamesAreNotDated
<1>15. NotDated(<<"gpt", "3.5", "turbo", "1106">>)
  BY NamesAreNotDated
<1>16. NotDated(<<"o1">>)
  BY NamesAreNotDated
<1>17. NotDated(<<"o1", "2024", "12", "17">>)
  BY NamesAreNotDated
<1>18. NotDated(<<"o1", "mini">>)
  BY NamesAreNotDated
<1>19. NotDated(<<"o1", "mini", "2024", "09", "12">>)
  BY NamesAreNotDated
<1>20. NotDated(<<"o1", "preview">>)
  BY NamesAreNotDated
<1>21. NotDated(<<"o3", "mini">>)
  BY NamesAreNotDated
<1>22. NotDated(<<"o3", "mini", "2025", "01", "31">>)
  BY NamesAreNotDated
<1>23. NotDated(<<"o3">>)
  BY NamesAreNotDated
<1>24. NotDated(<<"text", "embedding", "3", "small">>)
  BY NamesAreNotDated
<1>25. NotDated(<<"text", "embedding", "3", "large">>)
  BY NamesAreNotDated
<1>26. NotDated(<<"text", "embedding", "ada", "002">>)
  BY NamesAreNotDated
<1> QED BY <1>1, <1>2, <1>3, <1>4, <1>5, <1>6, <1>7, <1>8, <1>9, <1>10, <1>11, <1>12,
           <1>13, <1>14, <1>15, <1>16, <1>17, <1>18, <1>19, <1>20, <1>21, <1>22, <1>23,
           <1>24, <1>25, <1>26, SMTT(60) DEF OpenAIPricing, Row, Row2, Row3

LEMMA AnthropicNames == \A r \in AnthropicPricing : NotDated(r.name)
<1>1. NotDated(<<"claude", "3", "5", "sonnet", "20241022">>)
  BY NamesAreNotDated
<1>2. NotDated(<<"claude", "3", "5", "sonnet", "20240620">>)
  BY NamesAreNotDated
<1>3. NotDated(<<"claude", "3", "5", "haiku", "20241022">>)
  BY NamesAreNotDated
<1>4. NotDated(<<"claude", "3", "opus", "20240229">>)
  BY NamesAreNotDated
<1>5. NotDated(<<"claude", "3", "sonnet", "20240229">>)
  BY NamesAreNotDated
<1>6. NotDated(<<"claude", "3", "haiku", "20240307">>)
  BY NamesAreNotDated
<1>7. NotDated(<<"claude", "2.1">>)
  BY NamesAreNotDated
<1>8. NotDated(<<"claude", "2.0">>)
  BY NamesAreNotDated
<1>9. NotDated(<<"claude", "instant", "1.2">>)
  BY NamesAreNotDated
<1> QED BY <1>1, <1>2, <1>3, <1>4, <1>5, <1>6, <1>7, <1>8, <1>9 DEF AnthropicPricing, Row,
           Row2, Row3

LEMMA GroqNames == \A r \in GroqPricing : NotDated(r.name)
<1>1. NotDated(<<"llama", "3.3", "70b", "versatile">>)
  BY NamesAreNotDated
<1>2. NotDated(<<"llama", "3.3", "70b", "specdec">>)
  BY NamesAreNotDated
<1>3. NotDated(<<"llama", "3.1", "70b", "versatile">>)
  BY NamesAreNotDated
<1>4. NotDated(<<"llama", "3.1", "8b", "instant">>)
  BY NamesAreNotDated
<1>5. NotDated(<<"llama", "3.1", "405b", "reasoning">>)
  BY NamesAreNotDated
<1>6. NotDated(<<"llama", "3.2", "1b", "preview">>)
  BY NamesAreNotDated
<1>7. NotDated(<<"llama", "3.2", "3b", "preview">>)
  BY NamesAreNotDated
<1>8. NotDated(<<"llama", "3.2", "11b", "vision", "preview">>)
  BY NamesAreNotDated
<1>9. NotDated(<<"llama", "3.2", "90b", "vision", "preview">>)
  BY NamesAreNotDated
<1>10. NotDated(<<"llama3", "70b", "8192">>)
  BY NamesAreNotDated
<1>11. NotDated(<<"llama3", "8b", "8192">>)
  BY NamesAreNotDated
<1>12. NotDated(<<"llama3", "groq", "70b", "8192", "tool", "use", "preview">>)
  BY NamesAreNotDated
<1>13. NotDated(<<"llama3", "groq", "8b", "8192", "tool", "use", "preview">>)
  BY NamesAreNotDated
<1>14. NotDated(<<"mixtral", "8x7b", "32768">>)
  BY NamesAreNotDated
<1>15. NotDated(<<"gemma", "7b", "it">>)
  BY NamesAreNotDated
<1>16. NotDated(<<"gemma2", "9b", "it">>)
  BY NamesAreNotDated
<1> QED BY <1>1, <1>2, <1>3, <1>4, <1>5, <1>6, <1>7, <1>8, <1>9, <1>10, <1>11, <1>12,
           <1>13, <1>14, <1>15, <1>16 DEF GroqPricing, Row, Row2, Row3

(* What the tables are: one row of a name, and rates that are not negative *)
(* and not higher for cached tokens.                                       *)
GoodRates(r) ==
  /\ r.in \in Nat /\ r.out \in Nat
  /\ r.cached = None \/ (r.cached \in Nat /\ r.cached <= r.in)
  /\ r.reasoning = None \/ r.reasoning \in Nat

OneRowEach(table) == \A r, s \in table : r.name = s.name => r = s

LEMMA OneRow == \A v \in Vendors : OneRowEach(TableOf(v))
<1> USE DEF OneRowEach, Row, Row2, Row3
<1>1. OneRowEach(OpenAIPricing)
  BY SMTT(60) DEF OpenAIPricing
<1>2. OneRowEach(AnthropicPricing)
  BY SMTT(60) DEF AnthropicPricing
<1>3. OneRowEach(GroqPricing)
  BY SMTT(60) DEF GroqPricing
<1>4. OneRowEach(TogetherPricing)
  BY SMTT(60) DEF TogetherPricing
<1>5. OneRowEach({})
  OBVIOUS
<1> QED BY <1>1, <1>2, <1>3, <1>4, <1>5 DEF Vendors, TableOf

LEMMA Rates == \A v \in Vendors : \A r \in TableOf(v) : GoodRates(r)
<1> USE NoneAssumption DEF GoodRates, Row, Row2, Row3
<1>1. \A r \in OpenAIPricing : GoodRates(r)
  BY SMTT(60) DEF OpenAIPricing
<1>2. \A r \in AnthropicPricing : GoodRates(r)
  BY SMTT(60) DEF AnthropicPricing
<1>3. \A r \in GroqPricing : GoodRates(r)
  BY SMTT(60) DEF GroqPricing
<1>4. \A r \in TogetherPricing : GoodRates(r)
  BY SMTT(60) DEF TogetherPricing
<1> QED BY <1>1, <1>2, <1>3, <1>4 DEF Vendors, TableOf

(* Only OpenAI's tables have a rate for cached tokens.                      *)
LEMMA CachedRates == \A v \in Vendors \ {"openai"} : \A r \in TableOf(v) : r.cached = None
<1> USE DEF Row, Row2
<1>1. \A r \in AnthropicPricing : r.cached = None
  BY SMTT(60) DEF AnthropicPricing, Row3
<1>2. \A r \in GroqPricing : r.cached = None
  BY SMTT(60) DEF GroqPricing, Row3
<1>3. \A r \in TogetherPricing : r.cached = None
  BY SMTT(60) DEF TogetherPricing, Row3
<1> QED BY <1>1, <1>2, <1>3 DEF Vendors, TableOf

LEMMA MaxIs ==
  ASSUME NEW S \in SUBSET Int, NEW m \in S, \A k \in S : k <= m
  PROVE  Max(S) = m
<1>1. \A x \in S : (\A y \in S : x >= y) => x = m
  OBVIOUS
<1>2. m \in S /\ \A y \in S : m >= y
  OBVIOUS
<1> QED BY <1>1, <1>2 DEF Max

LEMMA NotNegativeIs ==
  ASSUME NEW x \in Int PROVE NotNegative(x) = IF x >= 0 THEN x ELSE 0
<1>1. CASE x >= 0
  BY <1>1, MaxIs DEF NotNegative
<1>2. CASE ~(x >= 0)
  BY <1>2, MaxIs DEF NotNegative
<1> QED BY <1>1, <1>2

(* The rows that GetPricing finds have one name, so there is at most one.  *)
LEMMA FoundIsOne ==
  ASSUME NEW v \in Vendors, NEW n, NEW r \in GetPricing(v, n)
  PROVE  r \in TableOf(v) /\ GetPricing(v, n) = {r}
<1>1. \E name : GetPricing(v, n) = {s \in TableOf(v) : s.name = name}
  <2>1. CASE v = "together"
    BY <2>1 DEF GetPricing, ByShortName, TableOf
  <2>2. CASE v # "together"
    <3>1. GetPricing(v, n) = ByPrefix(v, n)
      BY <2>2 DEF GetPricing
    <3> QED BY <3>1 DEF ByPrefix
  <2> QED BY <2>1, <2>2
<1> QED BY <1>1, OneRow DEF OneRowEach

(* A listed name, and a dated release of it, is priced by its own row.     *)
LEMMA DatedRows ==
  ASSUME NEW v \in {"openai", "anthropic", "groq"}, NEW r \in TableOf(v),
         NEW n \in {r.name, r.name \o Date}
  PROVE  GetPricing(v, n) = {r}
<1> DEFINE m == r.name
           L == Len(m)
           listed == {k \in WithoutDate(n) : SubSeq(n, 1, k) \in Listed(v)}
<1>1. \A s \in TableOf(v) : NotDated(s.name)
  BY OpenAINames, AnthropicNames, GroqNames DEF TableOf
<1>2. m \in Listed(v) /\ NotDated(m)
  BY <1>1 DEF Listed
<1>3. PICK S : m \in Seq(S)
  BY <1>2, Zenon DEF NotDated
<1>4. L \in Nat \ {0} /\ m \in Seq(S \cup {"2030", "01"}) /\ Date \in Seq(S \cup {"2030", "01"})
      /\ Len(Date) = 3 /\ Date[1] = "2030"
  <2>1. Len(m) > 0
    BY <1>2, Zenon DEF NotDated
  <2> QED BY <1>3, <2>1 DEF Date
<1> HIDE DEF m, L
<1>5. Len(n) \in {L, L + 3} /\ n \in Seq(S \cup {"2030", "01"})
  <2>1. CASE n = m
    BY <2>1, <1>4 DEF L
  <2>2. CASE n = m \o Date
    <3> DEFINE U == S \cup {"2030", "01"}
    <3>1. m \in Seq(U) /\ Date \in Seq(U) /\ Len(Date) = 3 /\ L = Len(m) /\ L \in Nat
      BY <1>4 DEF L
    <3> HIDE DEF U
    <3>2. m \o Date \in Seq(U)
      BY <3>1, ConcatProperties, Zenon
    <3>3. Len(m \o Date) = Len(m) + Len(Date)
      BY <3>1, ConcatProperties, Zenon
    <3> QED BY <2>2, <3>1, <3>2, <3>3 DEF U
  <2> QED BY <2>1, <2>2 DEF m
<1>6. L \in listed
  <2>1. L \in WithoutDate(n)
    BY <1>4, <1>5 DEF WithoutDate
  <2>2. SubSeq(n, 1, L) = m
    <3>1. CASE n = m
      BY <3>1, <1>4 DEF L
    <3>2. CASE n = m \o Date
      BY <3>2, <1>4 DEF L
    <3> QED BY <3>1, <3>2 DEF m
  <2> QED BY <1>2, <2>1, <2>2
<1>7. \A k \in listed : k <= L
  <2> SUFFICES ASSUME NEW k \in WithoutDate(n), k > L PROVE SubSeq(n, 1, k) \notin Listed(v)
    BY <1>4, <1>5 DEF WithoutDate
  <2>1. k \in Int /\ k <= Len(n) /\ Len(n) = L + 3 /\ n = m \o Date
    BY <1>4, <1>5 DEF WithoutDate, m, L
  <2>2. Len(SubSeq(n, 1, k)) = k /\ SubSeq(n, 1, k)[L + 1] = n[L + 1]
    BY <1>4, <1>5, <2>1
  <2>3. n[L + 1] = "2030"
    BY <1>4, <2>1 DEF L
  <2>4. ~NotDated(SubSeq(n, 1, k))
    <3> DEFINE x == SubSeq(n, 1, k)
    <3>1. Len(x) = k /\ x[L + 1] = "2030" /\ L + 1 \in 1..k
      BY <1>4, <2>1, <2>2, <2>3
    <3> HIDE DEF x
    <3>2. ~NotDated(x)
      BY <3>1 DEF NotDated
    <3> QED BY <3>2 DEF x
  <2> QED BY <1>1, <2>4 DEF Listed
<1>8. Preferred(listed) = L
  <2>1. listed \in SUBSET Int
    BY <1>5, <1>4 DEF WithoutDate
  <2> HIDE DEF listed
  <2> QED BY <1>6, <1>7, <2>1, MaxIs DEF Preferred
<1>9. SubSeq(n, 1, L) = m
  <2>1. CASE n = m
    BY <2>1, <1>4 DEF L
  <2>2. CASE n = m \o Date
    BY <2>2, <1>4 DEF L
  <2> QED BY <2>1, <2>2 DEF m
<1>10. GetPricing(v, n) = {s \in TableOf(v) : s.name = m}
  BY <1>6, <1>8, <1>9 DEF GetPricing, ByPrefix
<1>11. v \in Vendors
  BY DEF Vendors
<1> QED BY <1>10, <1>11, OneRow DEF OneRowEach, m


-----------------------------------------------------------------------------
(* The cost of a usage whose parts are consistent is the sum, and accepted. *)
Usage ==
  [in : Nat, out : Nat, total : Int, cached : Nat \cup {None}, reasoning : Nat \cup {None}]

Billed(v, t, r) ==
  (t.in - CachedInput(v, t)) * r.in + CachedInput(v, t) * Rate(r.cached, r.in)
  + (t.out - Counted(t.reasoning)) * r.out + Counted(t.reasoning) * Rate(r.reasoning, r.out)

LEMMA Products == \A x, y \in Nat : x * y \in Nat
OBVIOUS

LEMMA Split ==
  ASSUME NEW a \in Nat, NEW c \in Nat, c <= a, NEW p \in Nat, NEW q \in Nat, q <= p
  PROVE  /\ (a - c) * p \in Nat /\ c * q \in Nat /\ c * (p - q) \in Nat
         /\ a * p - c * (p - q) = (a - c) * p + c * q
         /\ a * p - c * p = (a - c) * p
<1>1. a - c \in Nat /\ p - q \in Nat
  OBVIOUS
<1>2. (a - c) * p \in Nat /\ c * q \in Nat /\ c * (p - q) \in Nat
  BY <1>1, Products
<1>3. a * p - c * (p - q) = (a - c) * p + c * q /\ a * p - c * p = (a - c) * p
  OBVIOUS
<1> QED BY <1>2, <1>3

LEMMA CostIsBilled ==
  ASSUME NEW v, NEW t \in Usage, WellFormed(v, t), NEW r, GoodRates(r),
         v # "openai" => r.cached = None
  PROVE  ComputeCost(t, r).total = Billed(v, t, r) /\ CostAccepted(ComputeCost(t, r))
<1> DEFINE c == CachedInput(v, t)
           g == Counted(t.reasoning)
           cost == ComputeCost(t, r)
           inputs == t.in * r.in - cost.discount
           outputs == cost.out + cost.reasoning
<1>1. /\ t.in \in Nat /\ t.out \in Nat /\ c \in Nat /\ g \in Nat /\ c <= t.in /\ g <= t.out
      /\ t.cached \in Nat \cup {None} /\ t.reasoning \in Nat \cup {None}
      /\ r.in \in Nat /\ r.out \in Nat /\ (c # 0 => c = Counted(t.cached))
  BY DEF Usage, Counted, CachedInput, WellFormed, GoodRates
<1>2. /\ cost.in = t.in * r.in
      /\ cost.discount = IF c # 0 /\ r.cached # None THEN Discount(t, r) ELSE 0
      /\ cost.out = (IF g # 0 /\ r.reasoning # None THEN RegularOutput(t) ELSE t.out) * r.out
      /\ cost.reasoning = IF g # 0 /\ r.reasoning # None THEN t.reasoning * r.reasoning ELSE 0
      /\ cost.total = NotNegative(cost.in + cost.out + cost.reasoning - cost.discount)
  BY DEF ComputeCost, CachedInput
<1> HIDE DEF cost, c
<1>3. inputs = (t.in - c) * r.in + c * Rate(r.cached, r.in) /\ inputs \in Nat
      /\ cost.discount \in Nat
  <2>1. CASE c = 0
    <3>1. cost.discount = 0
      BY <1>2, <2>1
    <3>2. (t.in - c) * r.in = t.in * r.in /\ c * Rate(r.cached, r.in) = 0 /\ t.in * r.in \in Nat
      <4>1. Rate(r.cached, r.in) \in Nat
        BY <1>1 DEF Rate, GoodRates
      <4> QED BY <1>1, <2>1, <4>1, Products
    <3> QED BY <1>1, <3>1, <3>2
  <2>2. CASE c # 0 /\ r.cached = None
    <3>1. cost.discount = 0 /\ Rate(r.cached, r.in) = r.in
      BY <1>2, <2>2 DEF Rate
    <3>2. (t.in - c) * r.in + c * r.in = t.in * r.in /\ t.in * r.in \in Nat
      BY <1>1, Products
    <3> QED BY <1>1, <3>1, <3>2
  <2>3. CASE c # 0 /\ r.cached # None
    <3>1. r.cached \in Nat /\ r.cached <= r.in /\ Rate(r.cached, r.in) = r.cached
      BY <2>3 DEF GoodRates, Rate
    <3>2. /\ (t.in - c) * r.in \in Nat /\ c * r.cached \in Nat /\ c * (r.in - r.cached) \in Nat
          /\ t.in * r.in - c * (r.in - r.cached) = (t.in - c) * r.in + c * r.cached
      BY <1>1, <3>1, Split
    <3>3. cost.discount = c * (r.in - r.cached)
      <4>1. Discount(t, r) = NotNegative(c * (r.in - r.cached))
        BY <1>1, <2>3 DEF Discount
      <4> QED BY <1>2, <2>3, <3>2, <4>1, NotNegativeIs
    <3> QED BY <3>1, <3>2, <3>3
  <2> QED BY <2>1, <2>2, <2>3
<1>4. outputs = (t.out - g) * r.out + g * Rate(r.reasoning, r.out) /\ outputs \in Nat
      /\ cost.out \in Nat /\ cost.reasoning \in Nat
  <2>1. CASE g = 0
    <3>1. cost.out = t.out * r.out /\ cost.reasoning = 0
      BY <1>2, <2>1
    <3>2. Rate(r.reasoning, r.out) \in Nat
      BY <1>1 DEF Rate, GoodRates
    <3>3. (t.out - g) * r.out = t.out * r.out /\ g * Rate(r.reasoning, r.out) = 0
          /\ t.out * r.out \in Nat
      BY <1>1, <2>1, <3>2, Products
    <3> QED BY <1>1, <3>1, <3>3
  <2>2. CASE g # 0 /\ r.reasoning = None
    <3>1. cost.out = t.out * r.out /\ cost.reasoning = 0 /\ Rate(r.reasoning, r.out) = r.out
      BY <1>2, <2>2 DEF Rate
    <3>2. (t.out - g) * r.out + g * r.out = t.out * r.out /\ t.out * r.out \in Nat
      BY <1>1, Products
    <3> QED BY <1>1, <3>1, <3>2
  <2>3. CASE g # 0 /\ r.reasoning # None
    <3>1. t.reasoning = g /\ g \in Nat /\ r.reasoning \in Nat
          /\ Rate(r.reasoning, r.out) = r.reasoning
      BY <1>1, <2>3 DEF GoodRates, Rate, Counted
    <3>2. RegularOutput(t) = t.out - g
      BY <1>1, <3>1, NotNegativeIs DEF RegularOutput
    <3>3. cost.out = (t.out - g) * r.out /\ cost.reasoning = g * r.reasoning
      BY <1>2, <2>3, <3>1, <3>2
    <3>4. (t.out - g) * r.out \in Nat /\ g * r.reasoning \in Nat
      <4>1. t.out - g \in Nat
        BY <1>1
      <4> QED BY <1>1, <3>1, <4>1, Products
    <3> QED BY <3>1, <3>3, <3>4
  <2> QED BY <2>1, <2>2, <2>3
<1>5. cost.in \in Nat
  BY <1>1, <1>2, Products
<1>6. cost.in + cost.out + cost.reasoning - cost.discount = inputs + outputs
  BY <1>2, <1>3, <1>4, <1>5
<1>7. cost.total = inputs + outputs
  <2> HIDE DEF inputs, outputs
  <2>1. inputs + outputs \in Nat
    BY <1>3, <1>4
  <2> QED BY <1>2, <1>6, <2>1, NotNegativeIs
<1>8. inputs + outputs = Billed(v, t, r)
  <2> DEFINE b == (t.in - c) * r.in
             d == c * Rate(r.cached, r.in)
             e == (t.out - g) * r.out
             f == g * Rate(r.reasoning, r.out)
  <2>1. Billed(v, t, r) = b + d + e + f
    BY DEF Billed, c
  <2>2. inputs = b + d /\ outputs = e + f
    BY <1>3, <1>4
  <2>3. b \in Int /\ d \in Int /\ e \in Int /\ f \in Int
    BY <1>1 DEF GoodRates, Rate
  <2> HIDE DEF b, d, e, f, inputs, outputs
  <2> QED BY <2>1, <2>2, <2>3
<1>9. CostAccepted(cost)
  <2>1. cost.total = cost.in + cost.out + cost.reasoning - cost.discount
    BY <1>6, <1>7
  <2>2. cost.total \in Int
    BY <1>3, <1>4, <1>7
  <2> QED BY <2>1, <2>2 DEF CostAccepted
<1> QED BY <1>7, <1>8, <1>9 DEF cost

-----------------------------------------------------------------------------
(* What the wrapper leaves on the span is the usage it found and its cost. *)
TokensFound == TokenUsageOf(vendor, response.usage)
CostFound ==
  LET rows == GetPricing(vendor, response.model)
  IN  IF rows = {} THEN Zero ELSE ComputeCost(TokensFound, CHOOSE r \in rows : TRUE)

Reported ==
  [in : Nat \cup {None}, out : Nat \cup {None}, total : Int \cup {None},
   cached : Nat \cup {None}, reasoning : Nat \cup {None}]

PriceInv ==
  /\ vendor \in Vendors /\ response.usage \in Reported
  /\ priced => IF priorUsage \/ ~CostAccepted(CostFound)
                 THEN spanTokens = None /\ spanPrice = None
                 ELSE spanTokens = TokensFound /\ spanPrice = CostFound
  /\ ~priced => spanTokens = None /\ spanPrice = None

LEMMA PriceInitial == PriceInit \/ NoPricing => PriceInv
<1>1. ASSUME PriceInit PROVE PriceInv
  <2>1. response.usage \in UsagesOf(vendor) \cup {NoUsage}
    BY <1>1 DEF PriceInit
  <2>2. UsagesOf(vendor) \subseteq Reported
    <3> SUFFICES ASSUME NEW u \in UsagesOf(vendor) PROVE u \in Reported
      OBVIOUS
    <3>1. u = [in |-> u.in, out |-> u.out, total |-> u.total, cached |-> u.cached,
               reasoning |-> u.reasoning]
      BY DEF UsagesOf
    <3>2. u.in \in Nat /\ u.out \in Nat
      BY TokensAssumption DEF UsagesOf
    <3>3. u.total \in Int \cup {None}
      <4>1. u.total \in {Absent, None} \cup Tokens
        BY DEF UsagesOf
      <4>2. Absent \in Int
        BY DEF Absent
      <4>3. Tokens \subseteq Int
        BY TokensAssumption
      <4> QED BY <4>1, <4>2, <4>3, Zenon
    <3>4. u.cached \in Nat \cup {None} /\ u.reasoning \in Nat \cup {None}
      BY TokensAssumption DEF UsagesOf
    <3> QED BY <3>1, <3>2, <3>3, <3>4 DEF Reported
  <2>3. NoUsage \in Reported
    BY DEF NoUsage, Reported, Absent
  <2> QED BY <1>1, <2>1, <2>2, <2>3 DEF PriceInit, PriceInv
<1>2. ASSUME NoPricing PROVE PriceInv
  <2>1. NoUsage \in Reported
    BY DEF NoUsage, Reported, Absent
  <2> QED BY <1>2, <2>1 DEF NoPricing, PriceInv, Vendors
<1> QED BY <1>1, <1>2

LEMMA PriceStep == PriceInv /\ [PriceNext]_priceVars => PriceInv'
<1> SUFFICES ASSUME PriceInv, [PriceNext]_priceVars PROVE PriceInv'
  OBVIOUS
<1>1. CASE PriceSpan
  <2>1. /\ ~priced /\ priced' = TRUE /\ UNCHANGED <<vendor, response, priorUsage, priorModel>>
        /\ IF priorUsage \/ ~CostAccepted(CostFound)
             THEN UNCHANGED <<spanTokens, spanPrice>>
             ELSE spanTokens' = TokensFound /\ spanPrice' = CostFound
    BY <1>1 DEF PriceSpan, TokensFound, CostFound
  <2>2. UNCHANGED TokensFound /\ UNCHANGED CostFound
    BY <2>1 DEF TokensFound, CostFound
  <2> QED BY <2>1, <2>2 DEF PriceInv
<1>2. CASE UNCHANGED priceVars
  <2>1. UNCHANGED TokensFound /\ UNCHANGED CostFound
    BY <1>2 DEF priceVars, TokensFound, CostFound
  <2> QED BY <1>2, <2>1 DEF PriceInv, priceVars
<1> QED BY <1>1, <1>2 DEF PriceNext

LEMMA FoundIsUsage ==
  ASSUME PriceInv
  PROVE  TokensFound \in Usage /\ TokensFound # None
<1> DEFINE u == response.usage
<1>1. u \in Reported
  BY DEF PriceInv
<1> HIDE DEF u
<1>2. Counted(u.in) \in Nat /\ Counted(u.out) \in Nat /\ TotalTokens(vendor, u) \in Int
  BY <1>1 DEF Reported, Counted, TotalTokens
<1>3. TokensFound \in Usage
  BY <1>1, <1>2 DEF TokensFound, TokenUsageOf, Usage, Reported, u
<1>4. None \notin Usage
  BY TokensAssumption DEF Usage
<1> QED BY <1>3, <1>4

LEMMA RowFound ==
  ASSUME PriceInv, NEW r \in GetPricing(vendor, response.model)
  PROVE  r \in TableOf(vendor) /\ CostFound = ComputeCost(TokensFound, r)
<1>1. vendor \in Vendors
  BY DEF PriceInv
<1>2. r \in TableOf(vendor) /\ GetPricing(vendor, response.model) = {r}
  BY <1>1, FoundIsOne
<1> QED BY <1>2 DEF CostFound

LEMMA TokensAtTheirRates == PriceInv => EachTokenAtItsRate
<1> SUFFICES ASSUME PriceInv PROVE EachTokenAtItsRate
  OBVIOUS
<1>1. EveryTokenBilledOnce
  <2> SUFFICES ASSUME priced, ~priorUsage, WellFormed(vendor, TokensFound)
               PROVE  /\ spanTokens # None
                      /\ GetPricing(vendor, response.model) = {} => spanPrice = Zero
                      /\ \A r \in GetPricing(vendor, response.model) :
                           spanPrice.total = Billed(vendor, spanTokens, r)
    BY DEF EveryTokenBilledOnce, TokensFound, Billed
  <2>1. CostAccepted(CostFound)
    <3>1. CASE GetPricing(vendor, response.model) = {}
      <4>1. CostFound = Zero
        BY <3>1 DEF CostFound
      <4> QED BY <4>1 DEF CostAccepted, Zero
    <3>2. ASSUME NEW r \in GetPricing(vendor, response.model) PROVE CostAccepted(CostFound)
      <4>1. GoodRates(r) /\ CostFound = ComputeCost(TokensFound, r)
            /\ (vendor # "openai" => r.cached = None)
        BY RowFound, Rates, CachedRates DEF PriceInv
      <4> QED BY <4>1, CostIsBilled, FoundIsUsage
    <3> QED BY <3>1, <3>2
  <2>2. spanTokens = TokensFound /\ spanPrice = CostFound
    BY <2>1 DEF PriceInv
  <2>3. ASSUME NEW r \in GetPricing(vendor, response.model)
        PROVE  spanPrice.total = Billed(vendor, spanTokens, r)
    <3>1. GoodRates(r) /\ CostFound = ComputeCost(TokensFound, r)
          /\ (vendor # "openai" => r.cached = None)
      BY RowFound, Rates, CachedRates DEF PriceInv
    <3> QED BY <2>2, <3>1, CostIsBilled, FoundIsUsage
  <2>4. GetPricing(vendor, response.model) = {} => spanPrice = Zero
    BY <2>2 DEF CostFound
  <2> QED BY <2>2, <2>3, <2>4, FoundIsUsage
<1>2. DatedReleaseCostsItsModel
  <2> SUFFICES ASSUME priced, spanPrice # None, vendor \in {"openai", "anthropic", "groq"},
                      NEW r \in TableOf(vendor), response.model \in {r.name, r.name \o Date}
               PROVE  /\ spanPrice.in = spanTokens.in * r.in
                      /\ Counted(spanTokens.reasoning) = 0 => spanPrice.out = spanTokens.out * r.out
    BY DEF DatedReleaseCostsItsModel
  <2>1. r \in GetPricing(vendor, response.model)
    <3>1. \A n \in {r.name, r.name \o Date} : GetPricing(vendor, n) = {r}
      BY DatedRows
    <3>2. GetPricing(vendor, response.model) = {r}
      BY <3>1, Zenon
    <3> QED BY <3>2
  <2>2. spanTokens = TokensFound /\ spanPrice = ComputeCost(TokensFound, r)
    BY <2>1, RowFound DEF PriceInv
  <2> QED BY <2>2 DEF ComputeCost
<1> QED BY <1>1, <1>2 DEF EachTokenAtItsRate

-----------------------------------------------------------------------------
(* The parts together: only the chosen one takes steps.                    *)
DataInv == PayInv /\ EnvInv /\ PriceInv

LEMMA DataStep == DataInv /\ [DataNext]_dataVars => DataInv'
<1> SUFFICES ASSUME DataInv, [DataNext]_dataVars PROVE DataInv'
  OBVIOUS
<1>1. [PayNext]_payVars
  BY DEF DataNext, Only, dataVars
<1>2. [EnvNext]_envelopeVars
  BY DEF DataNext, Only, dataVars
<1>3. [PriceNext]_priceVars
  BY DEF DataNext, Only, dataVars
<1> QED BY <1>1, <1>2, <1>3, PayStep, EnvStep, PriceStep DEF DataInv

LEMMA DataInitial == DataInit => DataInv
BY PayInitial, EnvInitial, PriceInitial DEF DataInit, DataInv

(* Whatever a constructor accepts comes back from its dict as it was, and  *)
(* an event from its JSON, with the signature it had; the checks of an     *)
(* event differ in the cases that ChecksAgree names and no others, which   *)
(* are not those the code's comments name; raw tool input and output are   *)
(* written only while the configuration allows it (namespaces/, event.py,  *)
(* signing.py, validate.py, models.py).                                    *)
THEOREM DataTravels == DataSpec => []DataSurvivesTravel
<1>1. DataInv => DataSurvivesTravel
  BY PayloadsKept, EnvelopesKept DEF DataInv, DataSurvivesTravel
<1> QED BY <1>1, DataInitial, DataStep, PTL DEF DataSpec

(* Whatever a provider reports whose parts are consistent, each input and  *)
(* output token of it is billed once, at the rate that the row found has   *)
(* for its kind; without a row nothing is billed.  The row of a listed     *)
(* model, and of a dated release of it, is its own (integrations/,         *)
(* get_pricing, _compute_cost); what Anthropic read from its cache is not  *)
(* billed.                                                                 *)
THEOREM TokensAreBilled == DataSpec => []EachTokenAtItsRate
<1>1. DataInv => EachTokenAtItsRate
  BY TokensAtTheirRates DEF DataInv
<1> QED BY <1>1, DataInitial, DataStep, PTL DEF DataSpec
=============================================================================
