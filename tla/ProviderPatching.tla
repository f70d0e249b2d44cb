-------------------------- MODULE ProviderPatching --------------------------
(***************************************************************************)
(* integrations/{openai,anthropic,groq,ollama,together}.py and auto.py:    *)
(* client methods are replaced by wrappers, guarded by a flag on the       *)
(* client's module that is tested first and set last, and by no lock.  A   *)
(* wrapper populates the span that is current when the response arrives.   *)
(***************************************************************************)
EXTENDS Callers

CONSTANTS MaxPatchOps, MaxResponses   \* bounds: patch calls, client calls

ASSUME PatchingAssumption == MaxPatchOps \in Nat /\ MaxResponses \in Nat

(* The methods each patch() wraps, in order, and those whose ImportError   *)
(* or AttributeError it tolerates.                                         *)
OpenAI    == [methods |-> <<"sync", "async">>, tolerated |-> {"async"}]
Anthropic == [methods |-> <<"sync", "async">>, tolerated |-> {"sync", "async"}]
Groq      == [methods |-> <<"sync", "async">>, tolerated |-> {"sync", "async"}]
Together  == [methods |-> <<"sync", "async">>, tolerated |-> {"sync", "async"}]
Ollama    == [methods |-> <<"module", "sync", "async">>,
              tolerated |-> {"module", "sync", "async"}]

Methods == {"module", "sync", "async"}
NoOrig  == 99     \* no _agentobs_orig_* attribute

VARIABLES
  client,       \* the provider at hand and the methods its version lacks,
  lacking,      \* fixed by Init
  wrapped,      \* layers of wrappers on each method
  original,     \* the layers under the one that patch() saved
  flagged,      \* _agentobs_patched
  autoPatched,  \* the provider is in auto._PATCHED
  patchPc, patchAt, seenLayers, \* a thread's call, the next method, what it read
  viaAuto,      \* the call came from setup() or teardown()
  serialPatching, autoOnly, \* no two calls overlapped; all came by auto: history
  spanUsage, spanCost, \* the current span of each thread: the response they are from
  pendingLayers, answer, \* wrappers still to run, the response in hand
  responses, patchOps

patchedVars  == <<client, lacking, wrapped, original, flagged, autoPatched, patchPc, patchAt,
                  seenLayers, viaAuto, serialPatching, autoOnly>>
responseVars == <<spanUsage, spanCost, pendingLayers, answer, responses>>
patchVars    == <<patchedVars, responseVars, patchOps>>

Manual == 0       \* a usage the user set; responses count from 1
Unset  == 99

PatchTypeOK ==
  /\ wrapped \in [Methods -> Nat] /\ original \in [Methods -> Nat]
  /\ flagged \in BOOLEAN /\ autoPatched \in BOOLEAN
  /\ patchPc \in [Threads -> {"idle", "patch", "wrap", "patched", "restore", "restored"}]
  /\ patchAt \in [Threads -> 0..4] /\ seenLayers \in [Threads -> Nat]
  /\ spanUsage \in [Threads -> 0..MaxResponses \cup {Unset}]
  /\ spanCost \in [Threads -> 0..MaxResponses \cup {Unset}]
  /\ pendingLayers \in [Threads -> Nat] /\ answer \in [Threads -> 0..MaxResponses]

PatchInit ==
  /\ client \in {OpenAI, Anthropic, Groq, Together, Ollama}
  /\ lacking \in SUBSET {client.methods[i] : i \in DOMAIN client.methods}
  /\ wrapped = [m \in Methods |-> 0] /\ original = [m \in Methods |-> NoOrig]
  /\ flagged = FALSE /\ autoPatched = FALSE
  /\ patchPc = [t \in Threads |-> "idle"] /\ patchAt = [t \in Threads |-> 0]
  /\ seenLayers = [t \in Threads |-> 0] /\ viaAuto = [t \in Threads |-> FALSE]
  /\ serialPatching = TRUE /\ autoOnly = TRUE
  /\ spanUsage = [t \in Threads |-> Unset] /\ spanCost = [t \in Threads |-> Unset]
  /\ pendingLayers = [t \in Threads |-> 0] /\ answer = [t \in Threads |-> 0]
  /\ responses = 0 /\ patchOps = 0

-----------------------------------------------------------------------------
Method(t) == client.methods[patchAt[t]]
Done(t)   == patchAt[t] > Len(client.methods)

(* setup() skips what is in _PATCHED and teardown() what is not, whatever  *)
(* the flag; patch() and unpatch() return at once if the flag says so.     *)
CallPatching(t, undo, auto) ==
  /\ patchPc[t] = "idle" /\ pendingLayers[t] = 0 /\ patchOps < MaxPatchOps
  /\ patchOps' = patchOps + 1
  /\ serialPatching' = (serialPatching /\ \A u \in Threads : patchPc[u] = "idle")
  /\ autoOnly' = (autoOnly /\ auto)
  /\ IF auto /\ autoPatched # undo THEN UNCHANGED <<patchPc, patchAt, viaAuto>>
     ELSE /\ patchPc' = [patchPc EXCEPT ![t] = IF undo THEN "restore" ELSE "patch"]
          /\ patchAt' = [patchAt EXCEPT ![t] = 0]
          /\ viaAuto' = [viaAuto EXCEPT ![t] = auto]
  /\ UNCHANGED <<client, lacking, wrapped, original, flagged, autoPatched, seenLayers,
                 responseVars>>

(* What auto notes after patch() or unpatch() has returned.                *)
Registered(t, undo) == IF viaAuto[t] THEN ~undo ELSE autoPatched

AlreadyDone == flagged

TestFlag(t) ==
  /\ patchAt[t] = 0
  /\ \/ /\ patchPc[t] = "patch"
        /\ IF AlreadyDone
             THEN /\ patchPc' = [patchPc EXCEPT ![t] = "idle"]
                  /\ autoPatched' = Registered(t, FALSE) /\ UNCHANGED patchAt
             ELSE patchAt' = [patchAt EXCEPT ![t] = 1] /\ UNCHANGED <<patchPc, autoPatched>>
     \/ /\ patchPc[t] = "restore"
        /\ IF ~flagged
             THEN /\ patchPc' = [patchPc EXCEPT ![t] = "idle"]
                  /\ autoPatched' = Registered(t, TRUE) /\ UNCHANGED patchAt
             ELSE patchAt' = [patchAt EXCEPT ![t] = 1] /\ UNCHANGED <<patchPc, autoPatched>>
  /\ UNCHANGED <<client, lacking, wrapped, original, flagged, seenLayers, viaAuto,
                 serialPatching, autoOnly, responseVars, patchOps>>

(* A method the client lacks is passed over, or is an ImportError that     *)
(* ends the call before the flag is set; setup() turns it into a warning.  *)
ReadOriginal(t) ==
  /\ patchPc[t] = "patch" /\ patchAt[t] > 0 /\ ~Done(t)
  /\ IF Method(t) \notin lacking
       THEN /\ seenLayers' = [seenLayers EXCEPT ![t] = wrapped[Method(t)]]
            /\ patchPc' = [patchPc EXCEPT ![t] = "wrap"] /\ UNCHANGED patchAt
       ELSE /\ IF Method(t) \in client.tolerated
                 THEN patchAt' = [patchAt EXCEPT ![t] = @ + 1] /\ UNCHANGED patchPc
                 ELSE patchPc' = [patchPc EXCEPT ![t] = "idle"] /\ UNCHANGED patchAt
            /\ UNCHANGED seenLayers
  /\ UNCHANGED <<client, lacking, wrapped, original, flagged, autoPatched, viaAuto,
                 serialPatching, autoOnly, responseVars, patchOps>>

WrapMethod(t) ==
  /\ Moves(patchPc, t, "wrap", "patch")
  /\ wrapped' = [wrapped EXCEPT ![Method(t)] = seenLayers[t] + 1]
  /\ original' = [original EXCEPT ![Method(t)] = seenLayers[t]]
  /\ patchAt' = [patchAt EXCEPT ![t] = @ + 1]
  /\ UNCHANGED <<client, lacking, flagged, autoPatched, seenLayers, viaAuto,
                 serialPatching, autoOnly, responseVars, patchOps>>

SetFlag(t) ==
  /\ Done(t) /\ Moves(patchPc, t, "patch", "idle")
  /\ flagged' = TRUE /\ autoPatched' = Registered(t, FALSE)
  /\ UNCHANGED <<client, lacking, wrapped, original, patchAt, seenLayers, viaAuto,
                 serialPatching, autoOnly, responseVars, patchOps>>

(* An attribute that is missing is skipped.                                *)
AfterMissing(t) == patchAt[t] + 1

RestoreMethod(t) ==
  /\ patchPc[t] = "restore" /\ patchAt[t] > 0 /\ ~Done(t)
  /\ IF original[Method(t)] # NoOrig
       THEN /\ wrapped' = [wrapped EXCEPT ![Method(t)] = original[Method(t)]]
            /\ original' = [original EXCEPT ![Method(t)] = NoOrig]
            /\ patchAt' = [patchAt EXCEPT ![t] = @ + 1]
       ELSE /\ patchAt' = [patchAt EXCEPT ![t] = AfterMissing(t)]
            /\ UNCHANGED <<wrapped, original>>
  /\ UNCHANGED <<client, lacking, flagged, autoPatched, patchPc, seenLayers, viaAuto,
                 serialPatching, autoOnly, responseVars, patchOps>>

ClearFlag(t) ==
  /\ Done(t) /\ Moves(patchPc, t, "restore", "idle")
  /\ flagged' = FALSE /\ autoPatched' = Registered(t, TRUE)
  /\ UNCHANGED <<client, lacking, wrapped, original, patchAt, seenLayers, viaAuto,
                 serialPatching, autoOnly, responseVars, patchOps>>

-----------------------------------------------------------------------------
(* A call to the client runs the layers its method has; each populates the *)
(* current span, the innermost first.                                      *)
BeginSpanOfCalls(t) ==
  /\ patchPc[t] = "idle" /\ pendingLayers[t] = 0
  /\ \E usage \in {Manual, Unset} :
       spanUsage' = [spanUsage EXCEPT ![t] = usage]
  /\ spanCost' = [spanCost EXCEPT ![t] = Unset]
  /\ UNCHANGED <<patchedVars, pendingLayers, answer, responses, patchOps>>

CallClient(t, m) ==
  /\ patchPc[t] = "idle" /\ pendingLayers[t] = 0 /\ responses < MaxResponses
  /\ m \notin lacking /\ \E i \in DOMAIN client.methods : client.methods[i] = m
  /\ responses' = responses + 1
  /\ answer' = [answer EXCEPT ![t] = responses + 1]
  /\ pendingLayers' = [pendingLayers EXCEPT ![t] = wrapped[m]]
  /\ UNCHANGED <<patchedVars, spanUsage, spanCost, patchOps>>

(* _auto_populate_span: nothing if the usage is there or the response is   *)
(* malformed.  Mutant: only the usage is guarded.                          *)
CostAnyway(t, r) == [spanCost EXCEPT ![t] = r]
CostOf(t, r)     == IF spanUsage[t] = Unset THEN [spanCost EXCEPT ![t] = r] ELSE spanCost

PopulateSpan(t) ==
  /\ pendingLayers[t] > 0
  /\ pendingLayers' = [pendingLayers EXCEPT ![t] = @ - 1]
  /\ \/ /\ spanUsage' = [spanUsage EXCEPT ![t] = IF @ = Unset THEN answer[t] ELSE @]
        /\ spanCost' = CostOf(t, answer[t])
     \/ UNCHANGED <<spanUsage, spanCost>>
  /\ UNCHANGED <<patchedVars, answer, responses, patchOps>>

PatchNext ==
  \E t \in Threads :
    \/ \E undo, auto \in BOOLEAN : CallPatching(t, undo, auto)
    \/ TestFlag(t) \/ ReadOriginal(t) \/ WrapMethod(t) \/ SetFlag(t)
    \/ RestoreMethod(t) \/ ClearFlag(t)
    \/ BeginSpanOfCalls(t) \/ PopulateSpan(t) \/ \E m \in Methods : CallClient(t, m)

PatchSpec == PatchInit /\ [][PatchNext]_patchVars

-----------------------------------------------------------------------------
(* Properties *)

NoPatchingNow == \A t \in Threads : patchPc[t] = "idle"
Offered       == {client.methods[i] : i \in DOMAIN client.methods} \ lacking

(* "Idempotent": calls that do not overlap, by auto or directly, leave a   *)
(* provider either patched, each method it has wrapped once, or as it was, *)
(* and the flag tells which.                                               *)
SerialPatchingIsExact ==
  serialPatching /\ NoPatchingNow =>
    \A m \in Offered : wrapped[m] = IF flagged THEN 1 ELSE 0

(* auto's own registry is right as long as nobody goes around it.          *)
RegistryTellsFlag ==
  serialPatching /\ autoOnly /\ NoPatchingNow => (autoPatched <=> flagged)

(* However many layers run, a span's cost is of the response its usage is  *)
(* of, and a usage set by hand gets no cost from elsewhere.                *)
UsageAndCostBelongTogether ==
  \A t \in Threads :
    spanCost[t] = IF spanUsage[t] = Manual THEN Unset ELSE spanUsage[t]

(* Patching leaves one layer or none, as flag and registry say, and what   *)
(* the layers write into a span belongs together.                          *)
PatchingIsExact == SerialPatchingIsExact /\ RegistryTellsFlag /\ UsageAndCostBelongTogether
=============================================================================
