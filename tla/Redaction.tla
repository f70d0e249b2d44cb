----------------------------- MODULE Redaction ------------------------------
(***************************************************************************)
(* redact.py: policies applied to an event's payload, the checks that      *)
(* nothing sensitive is left, and JSON or a checksum of it.  A payload is  *)
(* a set of Redactable values, each in a container: what is nested in a    *)
(* dict, list or tuple is replaced, what is in another Mapping is only     *)
(* found, and what is in any other object is not even found.               *)
(***************************************************************************)
EXTENDS Integers, Sequences, FiniteSets

CONSTANTS Values, MaxPolicies   \* Redactables; bound: policies applied

VARIABLES
  container, sensitivity, \* of each value, fixed by Init
  masked,       \* the values replaced by a marker
  maskedCount,  \* __redaction_count, 0 if there is none
  policies,     \* min_sensitivity of the policies applied, in turn
  judged,       \* what assert_redacted said last
  text          \* what to_json made of it

redactionVars == <<container, sensitivity, masked, maskedCount, policies, judged, text>>

Containers == {"dict", "list", "tuple", "mapping", "object"}
Levels     == 0..4       \* low, medium, high, pii, phi

RedactionInit ==
  /\ container \in [Values -> Containers] /\ sensitivity \in [Values -> Levels]
  /\ masked = {} /\ maskedCount = 0 /\ policies = <<>>
  /\ judged = "not asked" /\ text = "none"

-----------------------------------------------------------------------------
(* _should_redact: the policy's own level is covered.                      *)
ShouldRedact(v, min) == sensitivity[v] >= min

(* Where _redact_value goes, and where _has_redactable and                 *)
(* _count_redactable go.  Mutant: no further than the first.               *)
Rewritten == {"dict", "list", "tuple"}
FoundWhereRewritten == Rewritten
Found     == Rewritten \cup {"mapping"}

Redactables == Values \ masked
LeftOver    == {v \in Redactables : container[v] \in Found}

(* A policy makes a new event, with the old checksum and signature; the    *)
(* count is added, or replaced, only if it masked something.               *)
ApplyPolicy(min) ==
  LET hit == {v \in Redactables : container[v] \in Rewritten /\ ShouldRedact(v, min)}
  IN  /\ Len(policies) < MaxPolicies /\ policies' = Append(policies, min)
      /\ masked' = masked \cup hit
      /\ maskedCount' = IF hit = {} THEN maskedCount ELSE Cardinality(hit)
      /\ judged' = "not asked" /\ text' = "none"
      /\ UNCHANGED <<container, sensitivity>>

AssertRedacted ==
  /\ judged' = IF LeftOver = {} THEN "clean" ELSE "sensitive"
  /\ UNCHANGED <<container, sensitivity, masked, maskedCount, policies, text>>

(* JSON knows no Redactable: it raises, in sign() too.                     *)
JsonOf == IF Redactables = {} THEN "written" ELSE "raised"

WriteJson ==
  /\ text' = JsonOf
  /\ UNCHANGED <<container, sensitivity, masked, maskedCount, policies, judged>>

RedactionNext ==
  \/ \E min \in Levels : ApplyPolicy(min)
  \/ AssertRedacted \/ WriteJson

RedactionSpec == RedactionInit /\ [][RedactionNext]_redactionVars

-----------------------------------------------------------------------------
(* Properties *)

(* What any of the policies covers is masked where policies reach, and     *)
(* later policies do not undo it.                                          *)
CoveredIsMasked ==
  \A v \in Values : \A i \in DOMAIN policies :
    container[v] \in Rewritten /\ sensitivity[v] >= policies[i] => v \in masked

(* An event that was judged clean and is left alone can be written, unless *)
(* a value sits in an object that is not searched; that one raises.        *)
CleanCanBeWritten ==
  judged = "clean" /\ text = "raised" => \E v \in Redactables : container[v] = "object"

(* Policies mask what they cover, and the judgement knows what they left.  *)
RedactionHolds == CoveredIsMasked /\ CleanCanBeWritten
=============================================================================
