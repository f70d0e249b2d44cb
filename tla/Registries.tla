----------------------------- MODULE Registries -----------------------------
(***************************************************************************)
(* governance.py and consumer.py.  The global policy is read under its     *)
(* lock and consulted outside it, in four steps, while others replace it,  *)
(* add to its sets, which have no lock, or register consumers.             *)
(***************************************************************************)
EXTENDS Callers, FiniteSets

CONSTANTS EventTypes, RegisteredTypes, MaxGovernance \* bound: changes to any registry

ASSUME RegistriesAssumption == EventTypes # {} /\ RegisteredTypes \subseteq EventTypes

VARIABLES
  policyOf,    \* the policies there are: their blocked and warned types, rules, strictness
  current,     \* _GLOBAL_POLICY, an index of policyOf, 0 for None
  govPc, govType, govPolicy, \* a thread's check_event, its event, the policy it read
  heldAll,     \* types that every global policy blocked during the call: history
  warned,      \* the types it warned about
  consumers,   \* ConsumerRegistry, in order: names and MAJOR.MINOR versions
  changes

govVars == <<policyOf, current, govPc, govType, govPolicy, heldAll, warned, consumers, changes>>

NoPolicy == [blocked |-> {}, deprecated |-> {}, vetoed |-> {}, strict |-> FALSE]

GovInit ==
  /\ policyOf = <<NoPolicy, [NoPolicy EXCEPT !.strict = TRUE]>> /\ current \in {0, 1}
  /\ govPc = [t \in Threads |-> "idle"]
  /\ govType \in [Threads -> {CHOOSE e \in EventTypes : TRUE}]
  /\ govPolicy = [t \in Threads |-> 0] /\ heldAll = [t \in Threads |-> {}]
  /\ warned = [t \in Threads |-> FALSE]
  /\ consumers = <<>> /\ changes = 0

-----------------------------------------------------------------------------
(* Governance *)

BlockedNow == IF current = 0 THEN {} ELSE policyOf[current].blocked

Changes == changes < MaxGovernance /\ changes' = changes + 1

(* Types blocked so far in each call stay held if they still are.          *)
Held(blocked) == [t \in Threads |-> heldAll[t] \cap blocked]

SetGlobalPolicy(p) ==
  /\ Changes /\ p # current /\ current' = p
  /\ heldAll' = Held(IF p = 0 THEN {} ELSE policyOf[p].blocked)
  /\ UNCHANGED <<policyOf, govPc, govType, govPolicy, warned, consumers>>

(* add_blocked_type, add_deprecated_type, add_rule: a rule vetoes a type.  *)
AddTo(p, set, e) ==
  /\ Changes /\ e \notin policyOf[p][set]
  /\ policyOf' = [policyOf EXCEPT ![p][set] = @ \cup {e}]
  /\ UNCHANGED <<current, govPc, govType, govPolicy, heldAll, warned, consumers>>

(* Mutant: a thread keeps the policy of its last call.                     *)
PolicyReadOnce(t) == IF govPolicy[t] # 0 THEN govPolicy[t] ELSE current
PolicyRead(t)     == current

ReadPolicy(t, e) ==
  /\ govPc[t] \in {"idle", "passed", "refused"}
  /\ govType' = [govType EXCEPT ![t] = e]
  /\ govPolicy' = [govPolicy EXCEPT ![t] = PolicyRead(t)]
  /\ govPc' = [govPc EXCEPT ![t] = IF PolicyRead(t) = 0 THEN "passed" ELSE "blocked?"]
  /\ heldAll' = [heldAll EXCEPT ![t] = BlockedNow]
  /\ warned' = [warned EXCEPT ![t] = FALSE]
  /\ UNCHANGED <<policyOf, current, consumers, changes>>

Policy(t) == policyOf[govPolicy[t]]

Blocks(t) == govType[t] \in Policy(t).blocked

CheckBlocked(t) ==
  /\ Moves(govPc, t, "blocked?", IF Blocks(t) THEN "refused" ELSE "deprecated?")
  /\ UNCHANGED <<policyOf, current, govType, govPolicy, heldAll, warned, consumers, changes>>

CheckDeprecated(t) ==
  /\ Moves(govPc, t, "deprecated?", "vetoed?")
  /\ warned' = [warned EXCEPT ![t] = govType[t] \in Policy(t).deprecated]
  /\ UNCHANGED <<policyOf, current, govType, govPolicy, heldAll, consumers, changes>>

CheckRules(t) ==
  /\ Moves(govPc, t, "vetoed?", IF govType[t] \in Policy(t).vetoed THEN "refused" ELSE "known?")
  /\ UNCHANGED <<policyOf, current, govType, govPolicy, heldAll, warned, consumers, changes>>

CheckRegistered(t) ==
  /\ Moves(govPc, t, "known?",
           IF Policy(t).strict /\ govType[t] \notin RegisteredTypes THEN "refused" ELSE "passed")
  /\ UNCHANGED <<policyOf, current, govType, govPolicy, heldAll, warned, consumers, changes>>

-----------------------------------------------------------------------------
(* Consumers: a tool that registers again adds a record and keeps the old. *)

RegisterConsumer(name, major, minor) ==
  /\ Changes
  /\ consumers' = Append(consumers, [name |-> name, major |-> major, minor |-> minor])
  /\ UNCHANGED <<policyOf, current, govPc, govType, govPolicy, heldAll, warned>>

ClearConsumers ==
  /\ Changes /\ consumers # <<>> /\ consumers' = <<>>
  /\ UNCHANGED <<policyOf, current, govPc, govType, govPolicy, heldAll, warned>>

(* check_compatible                                                        *)
NeedsMore(r, major, minor) == r.major # major \/ r.minor > minor
Incompatible(major, minor) == {i \in DOMAIN consumers : NeedsMore(consumers[i], major, minor)}

GovNext ==
  \/ \E p \in 0..2 : SetGlobalPolicy(p)
  \/ \E p \in 1..2, s \in {"blocked", "deprecated", "vetoed"}, e \in EventTypes : AddTo(p, s, e)
  \/ \E t \in Threads :
       \/ \E e \in EventTypes : ReadPolicy(t, e)
       \/ CheckBlocked(t) \/ CheckDeprecated(t) \/ CheckRules(t) \/ CheckRegistered(t)
  \/ \E n \in {"a", "b"}, major \in 1..2, minor \in 0..1 : RegisterConsumer(n, major, minor)
  \/ ClearConsumers

GovSpec == GovInit /\ [][GovNext]_govVars

-----------------------------------------------------------------------------
(* Properties *)

(* An event whose type the global policy blocked all the while it was      *)
(* being checked is refused, whichever policy that was at each moment.     *)
BlockedThroughoutIsRefused ==
  \A t \in Threads : govPc[t] = "passed" => govType[t] \notin heldAll[t]

(* A major version is compatible only if every record is of it, so that no *)
(* two majors are both compatible while a consumer is registered.          *)
OneMajorAtMost ==
  consumers # <<>> => \A a, b \in 1..2 : \A x, y \in 0..1 :
    Incompatible(a, x) = {} /\ Incompatible(b, y) = {} => a = b

(* Neither a policy's check nor a version's falls short of what all the    *)
(* policies, or all the records, have in common.                           *)
GovernanceHolds == BlockedThroughoutIsRefused /\ OneMajorAtMost
=============================================================================
