------------------------------- MODULE DataMC -------------------------------
(***************************************************************************)
(* The library's data and its registries, each checked by itself: Init     *)
(* chooses a part, only that part takes steps, and the others stay in one  *)
(* initial state.                                                          *)
(***************************************************************************)
EXTENDS Payloads, Pricing, ToolRegistry, Envelope, Redaction, Registries

CONSTANTS v1, v2

VARIABLE part

Parts == {"payloads", "pricing", "tools", "envelope", "redaction", "registries"}

dataVars == <<part, payVars, priceVars, toolVars, envelopeVars, redactionVars, govVars>>

At(p, fixed) == part = p \/ fixed

NoPricing ==
  /\ vendor = "ollama" /\ response = [model |-> <<"unknown">>, usage |-> NoUsage]
  /\ priorUsage = FALSE /\ priorModel = FALSE /\ priced = FALSE
  /\ spanTokens = None /\ spanPrice = None /\ spanModel = None

DataInit ==
  /\ part \in Parts
  /\ ToolInit /\ EnvInit
  /\ PayInit       /\ At("payloads", payClass = "TokenUsage")
  /\ GovInit       /\ At("registries", current = 0)
  /\ RedactionInit /\ At("redaction", \A v \in Values : container[v] = "dict" /\ sensitivity[v] = 0)
  /\ IF part = "pricing" THEN PriceInit ELSE NoPricing

Only(p) ==
  /\ part = p /\ UNCHANGED part
  /\ p # "payloads" => UNCHANGED payVars
  /\ p # "pricing" => UNCHANGED priceVars
  /\ p # "tools" => UNCHANGED toolVars
  /\ p # "envelope" => UNCHANGED envelopeVars
  /\ p # "redaction" => UNCHANGED redactionVars
  /\ p # "registries" => UNCHANGED govVars

DataNext ==
  \/ Only("payloads") /\ PayNext
  \/ Only("pricing") /\ PriceNext
  \/ Only("tools") /\ ToolNext
  \/ Only("envelope") /\ EnvNext
  \/ Only("redaction") /\ RedactionNext
  \/ Only("registries") /\ GovNext

DataSpec == DataInit /\ [][DataNext]_dataVars

(* What is written, as a dict, as JSON or through the model, is read back  *)
(* as it was, validates as ChecksAgree says and keeps its signature; raw tool *)
(* input and output are written only if the configuration allows it.       *)
DataSurvivesTravel ==
  /\ PayloadSurvivesItsDict /\ RawOnlyWhenAllowed
  /\ EnvelopeSurvives /\ SignatureSurvivesJson /\ ChecksAgree

-----------------------------------------------------------------------------
(* Values of the constants *)

Optional(a) == Annotation("union", <<a, Plain("none")>>)
ListOf(a)   == Annotation("list", <<a>>)
StrOrInts   == Annotation("union", <<Plain("str"), ListOf(Optional(Plain("int")))>>)
IntOrStr    == Annotation("union", <<Plain("int"), Plain("str"), Plain("none")>>)

MCAnnotations ==
  {Plain(k) : k \in {"int", "str", "float", "bool", "dict", "none", "other"}} \cup
  {Optional(Plain("int")), ListOf(Optional(Plain("int"))), StrOrInts, IntOrStr}

MCJsonValues ==
  {Json(k) : k \in {"null", "boolean", "integer", "number", "string", "object", "array"}} \cup
  {[kind |-> "array", items |-> <<Json(k)>>] : k \in {"null", "integer", "string"}}

(* An optional parameter without a default, a union and **kwargs, a        *)
(* method, and a parameter that is positional only.                        *)
MCToolFunctions ==
  { {Parameter("p", "plain", FALSE, Optional(Plain("int"))),
     Parameter("q", "plain", TRUE, Plain("float"))},
    {Parameter("p", "plain", FALSE, StrOrInts), Parameter("r", "kwargs", FALSE, Plain("other"))},
    {Parameter("s", "self", FALSE, Plain("other")), Parameter("p", "plain", TRUE, Plain("bool"))},
    {Parameter("p", "positional", TRUE, Plain("dict")), Parameter("q", "plain", TRUE, IntOrStr)} }

DataSymmetry == Permutations({v1, v2})
=============================================================================
