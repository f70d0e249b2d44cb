----------------------------- MODULE RuntimeMC -----------------------------
(***************************************************************************)
(* One instance of each runtime component for TLC.  The components share   *)
(* no state and call each other only through what each model already has   *)
(* as its environment, so a behaviour runs one of them, drawn in Init, and *)
(* leaves the others in an initial state.                                  *)
(***************************************************************************)
EXTENDS SpanTimeout, CostTracking, Resilience, SemanticCache, TraceStore,
        AuditStream, Ulid, BatchDelivery, EventIngest, SpanHooks,
        ProviderPatching, CallbackHandlers, TLC

CONSTANTS m1, m2, k1, k2, A, B   \* monitors, prompts, traces

VARIABLE part   \* the component that runs

Parts == {"timeout", "cost", "resilience", "cache", "store", "audit", "ulid",
          "delivery", "ingest", "hooks", "patch", "callbacks"}

runtimeVars ==
  <<part, spanVars, costVars, resilienceVars, cacheVars, ringVars, auditVars, ulidVars,
    deliveryVars, ingestVars, hookVars, patchVars, callbackVars>>

MCEvent == [isSpan |-> TRUE, hasMetric |-> TRUE]

(* A component that does not run has one initial state.                    *)
At(p, fixed) == part = p \/ fixed

RuntimeInit ==
  /\ part \in Parts
  /\ TimeoutInit /\ ResilienceInit /\ AuditInit /\ HooksInit
  /\ CostInit     /\ At("cost", attached = <<m1>>)
  /\ CacheInit    /\ At("cache", backend = "memory")
  /\ StoreInit    /\ At("store", stores[1].max = 2)
  /\ UlidInit     /\ At("ulid", wallClock = 1)
  /\ DeliveryInit /\ At("delivery", exporterKind = "webhook" /\ batch = <<MCEvent>>)
  /\ IngestInit   /\ At("ingest", skipErrors /\ sourceKind = "file")
  /\ PatchInit    /\ At("patch", client = OpenAI /\ lacking = {})
  /\ CallbackInit /\ At("callbacks", handler = "crewai")

Only(p) ==
  /\ part = p /\ UNCHANGED part
  /\ p # "timeout" => UNCHANGED spanVars
  /\ p # "cost" => UNCHANGED costVars
  /\ p # "resilience" => UNCHANGED resilienceVars
  /\ p # "cache" => UNCHANGED cacheVars
  /\ p # "store" => UNCHANGED ringVars
  /\ p # "audit" => UNCHANGED auditVars
  /\ p # "ulid" => UNCHANGED ulidVars
  /\ p # "delivery" => UNCHANGED deliveryVars
  /\ p # "ingest" => UNCHANGED ingestVars
  /\ p # "hooks" => UNCHANGED hookVars
  /\ p # "patch" => UNCHANGED patchVars
  /\ p # "callbacks" => UNCHANGED callbackVars

RuntimeNext ==
  \/ Only("timeout") /\ TimeoutNext
  \/ Only("cost") /\ CostNext
  \/ Only("resilience") /\ ResilienceNext
  \/ Only("cache") /\ CacheNext
  \/ Only("store") /\ StoreNext
  \/ Only("audit") /\ AuditNext
  \/ Only("ulid") /\ UlidNext
  \/ Only("delivery") /\ DeliveryNext
  \/ Only("ingest") /\ IngestNext
  \/ Only("hooks") /\ HooksNext
  \/ Only("patch") /\ PatchNext
  \/ Only("callbacks") /\ CallbackNext

RuntimeSpec == RuntimeInit /\ [][RuntimeNext]_runtimeVars

(* The variables of the component that runs keep to their types.           *)
RuntimeTypeOK ==
  CASE part = "timeout"    -> TimeoutTypeOK
    [] part = "cost"       -> CostTypeOK
    [] part = "resilience" -> ResilienceTypeOK
    [] part = "cache"      -> CacheTypeOK
    [] part = "store"      -> StoreTypeOK
    [] part = "audit"      -> AuditTypeOK
    [] part = "ulid"       -> UlidTypeOK
    [] part = "delivery"   -> DeliveryTypeOK
    [] part = "ingest"     -> IngestTypeOK
    [] part = "hooks"      -> HooksTypeOK
    [] part = "patch"      -> PatchTypeOK
    [] part = "callbacks"  -> CallbackTypeOK

(* No event vanishes on its way out or in: an export that returns was      *)
(* taken whole, one that fails leaves no hole, and what a source was told  *)
(* is consumed was returned once, or its loss was raised.                  *)
NoEventVanishes ==
  SuccessMeansDelivered /\ ReceivedWithoutGap /\ ReturnedOnceInOrder /\ ConsumedIsAccountedFor

-----------------------------------------------------------------------------
(* Values of the constants *)

ThresholdOf == (m1 :> 2) @@ (m2 :> 3)

(* The two prompts are similar enough to answer for each other.            *)
MCScore == [p \in Keys \X Keys |-> IF p[1] = p[2] THEN 100 ELSE 95]

(* "search" is within "web_search", and a tool without a name that prints  *)
(* as "1" is within every key made at time 1.                              *)
MCInKey ==
  {p \in ToolNames \X CrewKeys :
     \/ p[1] = p[2].name
     \/ p[1] = "search" /\ p[2].name = "web_search"
     \/ p[1] = "1" /\ p[2].tick = 1}

(* An LLM call that mentions a tool, a registered tool, and a tool in a    *)
(* span of no type and of another trace.                                   *)
Shape5(kind, trace, tool, returns, mentions) ==
  [kind |-> kind, trace |-> trace, tool |-> tool, returns |-> returns,
   mentions |-> mentions]
MCShapes ==
  { Shape5("llm_call", A, FALSE, FALSE, TRUE), Shape5("tool_call", A, TRUE, TRUE, FALSE),
    Shape5("none", B, TRUE, TRUE, FALSE) }

RuntimeSymmetry == Permutations(Threads)
=============================================================================
