------------------------------ MODULE Payloads ------------------------------
(***************************************************************************)
(* namespaces/: the payload classes, what each constructor accepts, what   *)
(* to_dict writes and what from_dict makes of it.  A class is a function   *)
(* from field names to rules.  A value is None or a number: 0 is what its  *)
(* type takes for false (0, "", [], False), 1 is a good value, 2 another   *)
(* number or a text outside the enumeration or pattern, -1 is negative.    *)
(***************************************************************************)
EXTENDS Optionals

CONSTANTS Missing, MaxFieldChanges   \* bound: fields unlike the base

ASSUME PayloadsAssumption == Missing \notin Int \cup {None}

VARIABLES
  payPc, payClass,
  built,      \* the object
  written,    \* the dict: a function on the keys it has
  reloaded,   \* what from_dict made of it
  rawAllowed, \* config.include_raw_tool_io
  rawAtWrite  \* its value in to_dict

payVars == <<payPc, payClass, built, written, reloaded, rawAllowed, rawAtWrite>>

-----------------------------------------------------------------------------
(* Rules of a field: the values callers pass, those the constructor takes, *)
(* when it is written, and what a dict without it reads as (Missing: it    *)
(* raises KeyError).                                                       *)

Rule(values, accepted, writing, absent) ==
  [values |-> values, accepted |-> accepted, writing |-> writing, absent |-> absent]
Required(values, accepted) == Rule(values, accepted, "always", Missing)

Texts   == {0, 1, 2}
Numbers == {-1, 0, 1, 2}

AnyText   == Required(Texts, Texts)
Name      == Required(Texts, {1, 2})        \* non-empty
OneOf     == Required(Texts, {1})           \* an enumeration or a pattern
AnyNumber == Required(Numbers, Numbers)
Count     == Required(Numbers, {0, 1, 2})   \* non-negative
Positive  == Required(Numbers, {1, 2})
Unit      == Required(Numbers, {0, 1})      \* within [0, 1]
Part      == Required({1}, {1})             \* an object of another class
SomeItems == Required({0, 1}, {1})          \* a non-empty list
Items     == Required({0, 1}, {0, 1})
Flag      == Required({0, 1}, {0, 1})

(* Optional, None by default.                                              *)
Maybe(r) == Rule(r.values \cup {None}, r.accepted \cup {None}, "ifSet", None)

(* A list, empty by default: always written, or if it is not empty.        *)
ListAlways == Rule({0, 1}, {0, 1}, "always", 0)
ListIfAny  == Rule({0, 1}, {0, 1}, "ifTrue", 0)

-----------------------------------------------------------------------------
(* namespaces/trace.py *)

TokenUsage ==
  Each({"input_tokens", "output_tokens", "total_tokens"}, Count) ++
  Each({"cached_tokens", "cache_creation_tokens", "reasoning_tokens", "image_tokens"},
       Maybe(Count))

(* system 2 is "_custom".                                                  *)
ModelInfo ==
  [system |-> AnyText, name |-> Name] ++
  Each({"response_model", "version", "custom_system_name"}, Maybe(AnyText))

(* currency 1 is "USD", 2 another code; 0 is no code.                      *)
CostBreakdown ==
  Each({"input_cost_usd", "output_cost_usd", "total_cost_usd"}, Count) ++
  Each({"cached_discount_usd", "reasoning_cost_usd"}, Rule(Numbers, {0, 1, 2}, "ifTrue", 0)) ++
  [currency |-> Rule(Texts, {1, 2}, "ifNotDefault", 1), pricing_date |-> Maybe(OneOf)]

PricingTier ==
  [system |-> AnyText, model |-> Name, effective_date |-> OneOf] ++
  Each({"input_per_million_usd", "output_per_million_usd"}, Count) ++
  Each({"cached_input_per_million_usd", "reasoning_per_million_usd"}, Maybe(AnyNumber))

SpanEvent == [name |-> Name, timestamp_ns |-> Count, metadata |-> ListAlways]

(* Raw input and output are written only if the configuration allows it.   *)
Gated(r) == Rule(r.values \cup {None}, r.accepted \cup {None}, "ifSetAndAllowed", None)
ToolCall ==
  [tool_call_id |-> Name, function_name |-> Name, status |-> OneOf,
   arguments_hash |-> Maybe(OneOf), duration_ms |-> Maybe(Count),
   retry_count |-> Maybe(Count)] ++
  Each({"error_type", "external_api"}, Maybe(AnyText)) ++
  Each({"arguments_raw", "result_raw"}, Gated(AnyText))

ReasoningStep ==
  [step_index |-> Count, reasoning_tokens |-> Count, duration_ms |-> Maybe(Count),
   content_hash |-> Maybe(OneOf)]

DecisionPoint ==
  [decision_id |-> Name, decision_type |-> OneOf, options_considered |-> SomeItems,
   chosen_option |-> Name, rationale |-> Maybe(AnyText)]

(* What spans and steps share.                                             *)
Timed ==
  [span_id |-> OneOf, trace_id |-> OneOf, status |-> OneOf, operation |-> AnyText,
   parent_span_id |-> Maybe(OneOf), start_time_unix_nano |-> Count,
   end_time_unix_nano |-> AnyNumber] ++
  Each({"model", "token_usage", "cost"}, Maybe(Part)) ++
  Each({"tool_calls", "reasoning_steps"}, ListAlways) ++
  Each({"error", "error_type"}, Maybe(AnyText))

SpanPayload ==
  [span_name |-> Name, span_kind |-> AnyText, duration_ms |-> Count,
   attributes |-> Maybe(Items), events |-> ListIfAny] ++
  Each({"temperature", "top_p", "max_tokens"}, Maybe(AnyNumber)) ++
  Each({"agent_run_id", "finish_reason", "error_category"}, Maybe(AnyText)) ++ Timed

AgentStepPayload ==
  [agent_run_id |-> Name, step_index |-> Count, duration_ms |-> AnyNumber,
   decision_points |-> ListAlways, step_name |-> Maybe(AnyText)] ++ Timed

AgentRunPayload ==
  [agent_run_id |-> Name, agent_name |-> Name, trace_id |-> OneOf, root_span_id |-> OneOf,
   total_token_usage |-> Part, total_cost |-> Part, status |-> OneOf,
   start_time_unix_nano |-> Count, end_time_unix_nano |-> AnyNumber,
   duration_ms |-> AnyNumber, termination_reason |-> Maybe(AnyText)] ++
  Each({"total_steps", "total_model_calls", "total_tool_calls"}, Count)

-----------------------------------------------------------------------------
(* namespaces/audit.py, cache.py, cost.py, diff.py                         *)

AuditKeyRotatedPayload ==
  Each({"key_id", "previous_key_id", "rotated_at", "rotated_by"}, Name) ++
  [rotation_reason |-> Maybe(OneOf), effective_from_event_id |-> Maybe(AnyText),
   key_algorithm |-> Rule(Texts, Texts, "always", 1)]

AuditChainVerifiedPayload ==
  Each({"verified_from_event_id", "verified_to_event_id", "verified_at", "verified_by"}, Name)
  ++ [event_count |-> Count]

AuditChainTamperedPayload ==
  Each({"first_tampered_event_id", "detected_at", "detected_by"}, Name) ++
  [tampered_count |-> Count, gap_count |-> Maybe(AnyNumber), gap_prev_ids |-> ListIfAny,
   severity |-> Maybe(OneOf)]

CacheHitPayload ==
  Each({"key_hash", "namespace"}, Name) ++ [similarity_score |-> Unit] ++
  Each({"ttl_remaining_seconds", "lookup_duration_ms"}, Maybe(AnyNumber)) ++
  Each({"cached_model", "cost_saved", "tokens_saved"}, Maybe(Part))

CacheMissPayload ==
  Each({"key_hash", "namespace"}, Name) ++
  Each({"best_similarity_score", "similarity_threshold", "lookup_duration_ms"}, Maybe(AnyNumber))

CacheEvictedPayload ==
  Each({"key_hash", "namespace"}, Name) ++
  [eviction_reason |-> OneOf, entry_age_seconds |-> Maybe(AnyNumber)]

CacheWrittenPayload ==
  Each({"key_hash", "namespace"}, Name) ++ [ttl_seconds |-> Count, model |-> Maybe(Part)] ++
  Each({"response_token_count", "write_duration_ms"}, Maybe(AnyNumber))

CostTokenRecordedPayload ==
  Each({"cost", "token_usage", "model"}, Part) ++ [pricing_tier |-> Maybe(Part)] ++
  Each({"span_id", "agent_run_id"}, Maybe(AnyText))

CostSessionRecordedPayload ==
  Each({"total_cost", "total_token_usage"}, Part) ++
  [call_count |-> Count, session_duration_ms |-> Maybe(Count), models_used |-> ListIfAny]

CostAttributedPayload ==
  [cost |-> Part, attribution_target |-> Name, attribution_type |-> OneOf,
   source_event_ids |-> ListIfAny]

DiffComputedPayload ==
  Each({"ref_event_id", "target_event_id"}, Name) ++
  [diff_type |-> OneOf, similarity_score |-> Unit, diff_algorithm |-> Maybe(OneOf)] ++
  Each({"added_tokens", "removed_tokens", "computation_duration_ms"}, Maybe(AnyNumber)) ++
  Each({"ref_content_hash", "target_content_hash"}, Maybe(AnyText))

DiffRegressionFlaggedPayload ==
  Each({"ref_event_id", "target_event_id"}, Name) ++
  Each({"diff_type", "severity"}, OneOf) ++ Each({"similarity_score", "threshold"}, Unit) ++
  Each({"diff_event_id", "alert_target"}, Maybe(AnyText))

-----------------------------------------------------------------------------
(* namespaces/eval_.py, fence.py, guard.py                                 *)

EvalScoreRecordedPayload ==
  Each({"evaluator", "metric_name"}, Name) ++
  [score |-> AnyNumber, passed |-> Maybe(Flag), model |-> Maybe(Part)] ++
  Each({"score_min", "score_max", "threshold"}, Maybe(AnyNumber)) ++
  Each({"subject_event_id", "subject_type", "eval_run_id", "rationale"}, Maybe(AnyText))

EvalRegressionDetectedPayload ==
  [metric_name |-> Name, severity |-> Maybe(OneOf), affected_model |-> Maybe(Part),
   eval_run_id |-> Maybe(AnyText), sample_count |-> Maybe(AnyNumber)] ++
  Each({"baseline_score", "current_score", "delta", "regression_pct"}, AnyNumber)

EvalScenarioStartedPayload ==
  Each({"scenario_id", "scenario_name", "evaluator"}, Name) ++
  [dataset_id |-> Maybe(AnyText), expected_sample_count |-> Maybe(AnyNumber),
   metrics |-> ListIfAny]

EvalScenarioCompletedPayload ==
  [scenario_id |-> Name, status |-> OneOf, duration_ms |-> Count,
   completed_sample_count |-> Maybe(AnyNumber)] ++
  Each({"scores_summary", "errors"}, Maybe(Items))

FenceValidatedPayload ==
  Each({"fence_id", "schema_name"}, Name) ++
  [attempt |-> Positive, output_type |-> Maybe(OneOf), span_id |-> Maybe(AnyText),
   validation_duration_ms |-> Maybe(AnyNumber)]

FenceRetryTriggeredPayload ==
  Each({"fence_id", "schema_name", "violation_summary"}, Name) ++
  Each({"attempt", "max_attempts"}, Positive) ++
  [output_type |-> Maybe(OneOf), span_id |-> Maybe(AnyText)]

FenceMaxRetriesExceededPayload ==
  Each({"fence_id", "schema_name", "final_violation_summary"}, Name) ++
  [attempts_made |-> Positive, output_type |-> Maybe(OneOf), span_id |-> Maybe(AnyText),
   total_extra_cost |-> Maybe(Part)]

GuardPayload ==
  [classifier |-> Name, direction |-> OneOf, action |-> OneOf, score |-> AnyNumber,
   latency_ms |-> Maybe(Count)] ++
  Each({"score_min", "score_max", "threshold"}, Maybe(AnyNumber)) ++
  Each({"categories", "triggered_categories"}, ListIfAny) ++
  Each({"span_id", "policy_id", "content_hash"}, Maybe(AnyText))

-----------------------------------------------------------------------------
(* namespaces/prompt.py, redact.py, template.py                            *)

PromptRenderedPayload ==
  Each({"template_id", "version"}, Name) ++
  [rendered_hash |-> OneOf, variable_names |-> ListIfAny] ++
  Each({"variable_count", "char_count", "token_estimate"}, Maybe(AnyNumber)) ++
  Each({"language", "span_id"}, Maybe(AnyText))

PromptTemplateLoadedPayload ==
  Each({"template_id", "version"}, Name) ++
  [source |-> OneOf, template_hash |-> Maybe(OneOf), load_duration_ms |-> Maybe(AnyNumber),
   cache_hit |-> Maybe(Flag)]

PromptVersionChangedPayload ==
  Each({"template_id", "previous_version", "new_version", "change_reason"}, Name) ++
  Each({"changed_by", "previous_hash", "new_hash"}, Maybe(AnyText))

RedactPiiDetectedPayload ==
  Each({"detected_categories", "field_names"}, SomeItems) ++
  [sensitivity_level |-> OneOf, detection_count |-> Maybe(AnyNumber)] ++
  Each({"detector", "subject_event_id"}, Maybe(AnyText))

(* sensitivity_level 1 is "PHI", its default and only value.               *)
RedactPhiDetectedPayload ==
  Each({"detected_categories", "field_names"}, SomeItems) ++
  [sensitivity_level |-> Rule(Texts, {1}, "always", 1), detection_count |-> Maybe(AnyNumber),
   hipaa_covered |-> Maybe(Flag)] ++
  Each({"detector", "subject_event_id"}, Maybe(AnyText))

RedactAppliedPayload ==
  [policy_min_sensitivity |-> OneOf, redacted_by |-> Name, redacted_count |-> Count,
   redacted_field_names |-> ListIfAny, subject_event_id |-> Maybe(AnyText),
   verified |-> Maybe(Flag)]

TemplateRegisteredPayload ==
  Each({"template_id", "version"}, Name) ++
  [template_hash |-> OneOf, variable_names |-> ListIfAny, is_active |-> Maybe(Flag),
   tags |-> Maybe(Items)] ++
  Each({"variable_count", "char_count"}, Maybe(AnyNumber)) ++
  Each({"language", "registered_by"}, Maybe(AnyText))

TemplateVariableBoundPayload ==
  Each({"template_id", "version", "variable_name"}, Name) ++
  Each({"value_type", "value_hash"}, Maybe(OneOf)) ++
  [value_length |-> Maybe(AnyNumber), is_sensitive |-> Maybe(Flag), span_id |-> Maybe(AnyText)]

TemplateValidationFailedPayload ==
  Each({"template_id", "version", "failure_reason"}, Name) ++
  [failure_type |-> Maybe(OneOf)]

-----------------------------------------------------------------------------
(* The classes, and the rules between fields *)

Fields ==
  [TokenUsage |-> TokenUsage, ModelInfo |-> ModelInfo, CostBreakdown |-> CostBreakdown,
   PricingTier |-> PricingTier, SpanEvent |-> SpanEvent, ToolCall |-> ToolCall,
   ReasoningStep |-> ReasoningStep, DecisionPoint |-> DecisionPoint,
   SpanPayload |-> SpanPayload, AgentStepPayload |-> AgentStepPayload,
   AgentRunPayload |-> AgentRunPayload, AuditKeyRotated |-> AuditKeyRotatedPayload,
   AuditChainVerified |-> AuditChainVerifiedPayload,
   AuditChainTampered |-> AuditChainTamperedPayload, CacheHit |-> CacheHitPayload,
   CacheMiss |-> CacheMissPayload, CacheEvicted |-> CacheEvictedPayload,
   CacheWritten |-> CacheWrittenPayload, CostTokenRecorded |-> CostTokenRecordedPayload,
   CostSessionRecorded |-> CostSessionRecordedPayload, CostAttributed |-> CostAttributedPayload,
   DiffComputed |-> DiffComputedPayload, DiffRegressionFlagged |-> DiffRegressionFlaggedPayload,
   EvalScoreRecorded |-> EvalScoreRecordedPayload,
   EvalRegressionDetected |-> EvalRegressionDetectedPayload,
   EvalScenarioStarted |-> EvalScenarioStartedPayload,
   EvalScenarioCompleted |-> EvalScenarioCompletedPayload,
   FenceValidated |-> FenceValidatedPayload, FenceRetryTriggered |-> FenceRetryTriggeredPayload,
   FenceMaxRetriesExceeded |-> FenceMaxRetriesExceededPayload, Guard |-> GuardPayload,
   PromptRendered |-> PromptRenderedPayload, PromptTemplateLoaded |-> PromptTemplateLoadedPayload,
   PromptVersionChanged |-> PromptVersionChangedPayload,
   RedactPiiDetected |-> RedactPiiDetectedPayload, RedactPhiDetected |-> RedactPhiDetectedPayload,
   RedactApplied |-> RedactAppliedPayload, TemplateRegistered |-> TemplateRegisteredPayload,
   TemplateVariableBound |-> TemplateVariableBoundPayload,
   TemplateValidationFailed |-> TemplateValidationFailedPayload]

PayClasses == DOMAIN Fields

(* total = input + output + reasoning - discount, in units of _TOLERANCE.  *)
SumsUp(o) ==
  o.total_cost_usd = o.input_cost_usd + o.output_cost_usd
                     + o.reasoning_cost_usd - o.cached_discount_usd

EndsAfterStart(o) == o.end_time_unix_nano >= o.start_time_unix_nano

(* duration_ms within 1 ms of end - start; AgentRunPayload does not check. *)
DurationFits(o) ==
  o.duration_ms - (o.end_time_unix_nano - o.start_time_unix_nano) \in -1..1

NamesCustomSystem(o) == o.system = 2 => o.custom_system_name \notin {None, 0}

Consistent(c, o) ==
  CASE c = "CostBreakdown" -> SumsUp(o)
    [] c = "ModelInfo"     -> NamesCustomSystem(o)
    [] c \in {"SpanPayload", "AgentStepPayload"} -> EndsAfterStart(o) /\ DurationFits(o)
    [] c = "AgentRunPayload" -> EndsAfterStart(o)
    [] OTHER -> TRUE

(* __post_init__                                                           *)
Accepted(c, o) == (\A f \in DOMAIN o : o[f] \in Fields[c][f].accepted) /\ Consistent(c, o)

IsWritten(r, v, raw) ==
  CASE r.writing = "always"       -> TRUE
    [] r.writing = "ifSet"        -> v # None
    [] r.writing = "ifTrue"       -> v \notin {None, 0}
    [] r.writing = "ifNotDefault" -> v # r.absent
    [] r.writing = "ifSetAndAllowed" -> v # None /\ raw

WrittenKeys(c, o, raw) == {f \in DOMAIN o : IsWritten(Fields[c][f], o[f], raw)}

ReadField(c, d, f) == IF f \in DOMAIN d THEN d[f] ELSE Fields[c][f].absent
ReadAll(c, d)      == [f \in DOMAIN Fields[c] |-> ReadField(c, d, f)]

-----------------------------------------------------------------------------
(* Operations *)

(* A class's own defaults and good values, but for a few fields.           *)
BaseValue(r) == IF r.absent = Missing THEN 1 ELSE r.absent
Base(c) ==
  [f \in DOMAIN Fields[c] |->
     IF f = "total_cost_usd" /\ c = "CostBreakdown" THEN 2
     ELSE IF f = "duration_ms" /\ f \in DOMAIN Timed THEN 0
     ELSE BaseValue(Fields[c][f])]

NoObject == <<>>

PayInit ==
  /\ payPc = "new" /\ payClass \in PayClasses
  /\ built = Base(payClass) /\ written = NoObject /\ reloaded = NoObject
  /\ rawAllowed = FALSE /\ rawAtWrite = FALSE

(* The caller's choice of an argument.                                     *)
Changed == {f \in DOMAIN built : built[f] # Base(payClass)[f]}
Pass(f, v) ==
  /\ payPc = "new" /\ Cardinality(Changed) < MaxFieldChanges /\ f \notin Changed
  /\ built' = [built EXCEPT ![f] = v]
  /\ UNCHANGED <<payPc, payClass, written, reloaded, rawAllowed, rawAtWrite>>

Construct ==
  /\ payPc = "new"
  /\ payPc' = IF Accepted(payClass, built) THEN "built" ELSE "refused"
  /\ UNCHANGED <<payClass, built, written, reloaded, rawAllowed, rawAtWrite>>

ToDict ==
  /\ payPc = "built" /\ payPc' = "written"
  /\ written' = [f \in WrittenKeys(payClass, built, rawAllowed) |-> built[f]]
  /\ rawAtWrite' = rawAllowed
  /\ UNCHANGED <<payClass, built, reloaded, rawAllowed>>

(* The object that is read back is written again, which closes the loop.   *)
FromDict ==
  LET o == ReadAll(payClass, written) IN
  /\ payPc = "written"
  /\ payPc' = IF Missing \in {o[f] : f \in DOMAIN o} \/ ~Accepted(payClass, o)
              THEN "raised" ELSE "reloaded"
  /\ reloaded' = o
  /\ UNCHANGED <<payClass, built, written, rawAllowed, rawAtWrite>>

Rewrite ==
  /\ payPc = "reloaded" /\ payPc' = "rewritten"
  /\ written' = [f \in WrittenKeys(payClass, reloaded, rawAllowed) |-> reloaded[f]]
  /\ rawAtWrite' = rawAllowed
  /\ UNCHANGED <<payClass, built, reloaded, rawAllowed>>

ConfigureRaw ==
  /\ payClass = "ToolCall" /\ payPc # "new" /\ rawAllowed' = ~rawAllowed
  /\ UNCHANGED <<payPc, payClass, built, written, reloaded, rawAtWrite>>

PayNext ==
  \/ \E f \in DOMAIN Fields[payClass] :
       \E v \in Fields[payClass][f].values \ {built[f]} : Pass(f, v)
  \/ Construct \/ ToDict \/ FromDict \/ Rewrite \/ ConfigureRaw

PaySpec == PayInit /\ [][PayNext]_payVars

-----------------------------------------------------------------------------
(* Properties *)

RawFields == {"arguments_raw", "result_raw"}

(* Whatever a constructor accepts comes back from its dict: from_dict does *)
(* not raise, and differs at most in the raw input and output of a tool.   *)
PayloadSurvivesItsDict ==
  /\ payPc # "raised"
  /\ payPc \in {"reloaded", "rewritten"} =>
       \A f \in DOMAIN built : reloaded[f] # built[f] => f \in RawFields /\ reloaded[f] = None

(* Raw input and output leave the process only while the configuration     *)
(* allows it, also on the second way out, whatever it was on the first.    *)
RawOnlyWhenAllowed ==
  payPc \in {"written", "rewritten"} =>
    (DOMAIN written \cap RawFields # {} => rawAtWrite)
=============================================================================
