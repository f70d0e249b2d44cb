------------------------- MODULE IntegrationProofs -------------------------
(***************************************************************************)
(* The integrations: what patching a provider's client leaves behind, what *)
(* its wrappers write into a span, and what the hooks on a span and the    *)
(* inspector session behind them hear of it.                               *)
(***************************************************************************)
EXTENDS ProviderPatching, SpanHooks, Induction, FiniteSetTheorems, TLAPS

Clients == {OpenAI, Anthropic, Groq, Together, Ollama}

LEMMA TwoMethods ==
  ASSUME NEW s, s = <<"sync", "async">>
  PROVE  /\ s \in Seq(Methods) /\ Len(s) = 2 /\ DOMAIN s = 1..Len(s)
         /\ s[1] = "sync" /\ s[2] = "async"
         /\ \A i \in 1..Len(s) : i = 1 \/ i = 2
BY DEF Methods

LEMMA ThreeMethods ==
  ASSUME NEW s, s = <<"module", "sync", "async">>
  PROVE  /\ s \in Seq(Methods) /\ Len(s) = 3 /\ DOMAIN s = 1..Len(s)
         /\ s[1] = "module" /\ s[2] = "sync" /\ s[3] = "async"
         /\ \A i \in 1..Len(s) : i = 1 \/ i = 2 \/ i = 3
BY DEF Methods

(* The one method a client must have is the first that patch() looks for,  *)
(* so that an ImportError ends the call before anything is wrapped.        *)
LEMMA ClientFacts ==
  ASSUME NEW c \in Clients
  PROVE  /\ c.methods \in Seq(Methods) /\ Len(c.methods) \in 2..3
         /\ DOMAIN c.methods = 1..Len(c.methods)
         /\ \A i, j \in 1..Len(c.methods) : c.methods[i] = c.methods[j] => i = j
         /\ \A i \in 1..Len(c.methods) : c.methods[i] \notin c.tolerated => i = 1
<1>1. CASE c \in {OpenAI, Anthropic, Groq, Together}
  <2>1. c.methods = <<"sync", "async">> /\ "async" \in c.tolerated
    BY <1>1 DEF OpenAI, Anthropic, Groq, Together
  <2> QED BY <2>1, TwoMethods
<1>2. CASE c = Ollama
  <2>1. c.methods = <<"module", "sync", "async">> /\ c.tolerated = {"module", "sync", "async"}
    BY <1>2 DEF Ollama
  <2> QED BY <2>1, ThreeMethods
<1> QED BY <1>1, <1>2 DEF Clients

-----------------------------------------------------------------------------
(* What the methods look like: those of a set have one layer over the      *)
(* original, the others have neither.                                      *)
Layered(S) ==
  \A m \in Methods : /\ wrapped[m]  = IF m \in S THEN 1 ELSE 0
                     /\ original[m] = IF m \in S THEN 0 ELSE NoOrig
Reached(k) == {client.methods[i] : i \in 1..(k - 1)}
Whole      == IF flagged THEN Offered ELSE {}

(* How far the one call that is running has come.                          *)
InStep(t) ==
  /\ patchPc[t] \in {"patch", "restore"} /\ patchAt[t] = 0 => Layered(Whole)
  /\ patchPc[t] \in {"patch", "wrap"} /\ patchAt[t] > 0 =>
       ~flagged /\ Layered(Offered \cap Reached(patchAt[t]))
  /\ patchPc[t] = "wrap" =>
       patchAt[t] > 0 /\ ~Done(t) /\ Method(t) \notin lacking /\ seenLayers[t] = 0
  /\ patchPc[t] = "restore" /\ patchAt[t] > 0 =>
       flagged /\ Layered(Offered \ Reached(patchAt[t]))

OneRuns    == \A t, u \in Threads : patchPc[t] # "idle" /\ patchPc[u] # "idle" => t = u
AtRest     == NoPatchingNow => Layered(Whole)
SerialInv  == serialPatching => OneRuns /\ AtRest /\ \A t \in Threads : InStep(t)

(* As long as everything goes through auto, its registry moves with the    *)
(* flag.                                                                   *)
RegistryInv ==
  autoOnly => /\ autoPatched <=> flagged
              /\ \A t \in Threads : patchPc[t] # "idle" => viaAuto[t]

PatchTypes ==
  /\ PatchTypeOK /\ client \in Clients /\ responses \in Nat
  /\ original \in [Methods -> Nat] /\ serialPatching \in BOOLEAN /\ autoOnly \in BOOLEAN
  /\ viaAuto \in [Threads -> BOOLEAN]
  /\ \A t \in Threads : patchAt[t] \in 0..(Len(client.methods) + 1)
  /\ \A t \in Threads : patchPc[t] = "wrap" => patchAt[t] \in 1..Len(client.methods)
  /\ \A t \in Threads : pendingLayers[t] > 0 => answer[t] > 0

PatchInv == PatchTypes /\ SerialInv /\ RegistryInv /\ UsageAndCostBelongTogether

LEMMA PatchInitial == PatchInit => PatchInv
<1> SUFFICES ASSUME PatchInit PROVE PatchInv
  OBVIOUS
<1>1. client \in Clients
  BY DEF PatchInit, Clients
<1>2. Len(client.methods) \in Nat
  BY <1>1, ClientFacts
<1>3. PatchTypes
  <2>1. PatchTypeOK
    <3>1. /\ MaxResponses \in Nat /\ 0 \in 0..MaxResponses /\ NoOrig \in Nat
      BY PatchingAssumption DEF NoOrig
    <3>2. /\ wrapped = [m \in Methods |-> 0] /\ original = [m \in Methods |-> NoOrig]
          /\ flagged = FALSE /\ autoPatched = FALSE
          /\ patchPc = [t \in Threads |-> "idle"] /\ patchAt = [t \in Threads |-> 0]
          /\ seenLayers = [t \in Threads |-> 0] /\ spanUsage = [t \in Threads |-> Unset]
          /\ spanCost = [t \in Threads |-> Unset] /\ pendingLayers = [t \in Threads |-> 0]
          /\ answer = [t \in Threads |-> 0]
      BY DEF PatchInit
    <3>3. wrapped \in [Methods -> Nat] /\ original \in [Methods -> Nat]
      BY <3>1, <3>2
    <3>4. /\ patchPc \in [Threads -> {"idle", "patch", "wrap", "patched", "restore", "restored"}]
          /\ patchAt \in [Threads -> 0..4] /\ seenLayers \in [Threads -> Nat]
          /\ pendingLayers \in [Threads -> Nat] /\ answer \in [Threads -> 0..MaxResponses]
      BY <3>1, <3>2
    <3>5. /\ spanUsage \in [Threads -> 0..MaxResponses \cup {Unset}]
          /\ spanCost \in [Threads -> 0..MaxResponses \cup {Unset}]
      BY <3>2
    <3> QED BY <3>2, <3>3, <3>4, <3>5 DEF PatchTypeOK
  <2> QED BY <1>1, <1>2, <2>1 DEF PatchInit, PatchTypes, NoOrig
<1>4. SerialInv
  BY DEF PatchInit, SerialInv, OneRuns, AtRest, InStep, Layered, Whole
<1>5. RegistryInv
  BY DEF PatchInit, RegistryInv
<1>6. UsageAndCostBelongTogether
  BY DEF PatchInit, UsageAndCostBelongTogether, Unset, Manual
<1> QED BY <1>3, <1>4, <1>5, <1>6 DEF PatchInv

-----------------------------------------------------------------------------
(* Patching steps *)

LEMMA ReachedNext ==
  ASSUME client \in Clients, NEW k \in 1..Len(client.methods)
  PROVE  /\ Reached(k + 1) = Reached(k) \cup {client.methods[k]}
         /\ client.methods[k] \notin Reached(k) /\ client.methods[k] \in Methods
         /\ (client.methods[k] \notin lacking) <=> (client.methods[k] \in Offered)
<1>1. /\ client.methods \in Seq(Methods) /\ Len(client.methods) \in 2..3
      /\ DOMAIN client.methods = 1..Len(client.methods)
      /\ \A i, j \in 1..Len(client.methods) : client.methods[i] = client.methods[j] => i = j
  BY ClientFacts
<1>2. k \in Nat /\ 1..((k + 1) - 1) = (1..(k - 1)) \cup {k}
  BY <1>1
<1>3. Reached(k + 1) = Reached(k) \cup {client.methods[k]}
  BY <1>2 DEF Reached
<1>4. \A i \in 1..(k - 1) : i \in 1..Len(client.methods) /\ i # k
  BY <1>1
<1>5. client.methods[k] \notin Reached(k) /\ client.methods[k] \in Methods
  BY <1>1, <1>4 DEF Reached
<1>6. (client.methods[k] \notin lacking) <=> (client.methods[k] \in Offered)
  BY <1>1 DEF Offered
<1> QED BY <1>3, <1>5, <1>6

LEMMA ReachedEnds ==
  ASSUME client \in Clients
  PROVE  Reached(1) = {} /\ Offered \subseteq Reached(Len(client.methods) + 1)
<1>1. Len(client.methods) \in 2..3 /\ DOMAIN client.methods = 1..Len(client.methods)
  BY ClientFacts
<1>2. 1..(1 - 1) = {} /\ 1..((Len(client.methods) + 1) - 1) = 1..Len(client.methods)
  BY <1>1
<1> QED BY <1>1, <1>2 DEF Reached, Offered

(* The step of the one call that is running: it is enough to look at it.   *)
LEMMA OneStepSerial ==
  ASSUME PatchInv, PatchTypes', serialPatching' = serialPatching, NEW t \in Threads, patchPc[t] # "idle",
         NEW pc, patchPc' = [patchPc EXCEPT ![t] = pc],
         serialPatching => IF pc = "idle" THEN Layered(Whole)' ELSE InStep(t)'
  PROVE  SerialInv'
<1> SUFFICES ASSUME serialPatching PROVE OneRuns' /\ AtRest' /\ \A u \in Threads : InStep(u)'
  BY DEF SerialInv
<1>1. patchPc \in [Threads -> {"idle", "patch", "wrap", "patched", "restore", "restored"}]
  BY DEF PatchInv, PatchTypes, PatchTypeOK
<1>2. \A u \in Threads : u # t => patchPc[u] = "idle"
  BY DEF PatchInv, SerialInv, OneRuns
<1>3. patchPc'[t] = pc /\ \A u \in Threads : u # t => patchPc'[u] = "idle"
  BY <1>1, <1>2
<1>4. OneRuns'
  BY <1>3 DEF OneRuns
<1>5. AtRest'
  BY <1>3 DEF AtRest, NoPatchingNow
<1>6. ASSUME NEW u \in Threads PROVE InStep(u)'
  <2>1. CASE patchPc'[u] = "idle"
    BY <2>1 DEF InStep
  <2>2. CASE patchPc'[u] # "idle"
    BY <1>3, <2>2
  <2> QED BY <2>1, <2>2
<1> QED BY <1>4, <1>5, <1>6

LEMMA CallPatchingKeeps ==
  ASSUME PatchInv, NEW t \in Threads, NEW undo \in BOOLEAN, NEW auto \in BOOLEAN,
         CallPatching(t, undo, auto)
  PROVE  PatchInv'
<1>1. /\ patchPc[t] = "idle" /\ autoOnly' = (autoOnly /\ auto)
      /\ serialPatching' = (serialPatching /\ \A u \in Threads : patchPc[u] = "idle")
      /\ UNCHANGED <<client, lacking, wrapped, original, flagged, autoPatched, seenLayers,
                     spanUsage, spanCost, pendingLayers, answer, responses>>
  BY DEF CallPatching, responseVars
<1>2. PatchTypes /\ PatchTypeOK
  BY DEF PatchInv, PatchTypes
<1>3. UsageAndCostBelongTogether'
  BY <1>1 DEF PatchInv, UsageAndCostBelongTogether
<1>4. CASE auto /\ autoPatched # undo
  <2>1. UNCHANGED <<patchPc, patchAt, viaAuto>>
    BY <1>4 DEF CallPatching
  <2>a. PatchTypeOK'
    BY <1>1, <1>2, <2>1 DEF PatchTypeOK
  <2>2. PatchTypes'
    <3>1. autoOnly' \in BOOLEAN /\ serialPatching' \in BOOLEAN /\ viaAuto' \in [Threads -> BOOLEAN]
      BY <1>1, <1>2, <2>1 DEF PatchTypes
    <3>2. UNCHANGED <<client, responses, original, patchAt, patchPc, pendingLayers, answer>>
      BY <1>1, <2>1
    <3> QED BY <1>2, <2>a, <3>1, <3>2, ZenonT(30) DEF PatchTypes
  <2>3. SerialInv'
    BY <1>1, <2>1, ZenonT(60) DEF PatchInv, SerialInv, OneRuns, AtRest, NoPatchingNow, InStep,
       Layered, Whole, Offered, Reached, Done, Method
  <2>4. RegistryInv'
    BY <1>1, <2>1 DEF PatchInv, RegistryInv
  <2> QED BY <1>3, <2>2, <2>3, <2>4 DEF PatchInv
<1>5. CASE ~(auto /\ autoPatched # undo)
  <2>1. PICK pc \in {"patch", "restore"} :
          /\ patchPc' = [patchPc EXCEPT ![t] = pc] /\ patchAt' = [patchAt EXCEPT ![t] = 0]
          /\ viaAuto' = [viaAuto EXCEPT ![t] = auto]
    BY <1>5 DEF CallPatching
  <2>2. Len(client.methods) \in Nat
    BY <1>2, ClientFacts DEF PatchTypes
  <2>3. PatchTypeOK'
    BY <1>1, <1>2, <2>1 DEF PatchTypeOK
  <2>4. PatchTypes'
    <3>1. autoOnly' \in BOOLEAN /\ serialPatching' \in BOOLEAN /\ viaAuto' \in [Threads -> BOOLEAN]
      BY <1>1, <1>2, <2>1 DEF PatchTypes
    <3>2. \A u \in Threads : /\ patchPc'[u] = (IF u = t THEN pc ELSE patchPc[u])
                             /\ patchAt'[u] = (IF u = t THEN 0 ELSE patchAt[u])
      BY <1>2, <2>1 DEF PatchTypeOK
    <3>3. \A u \in Threads : /\ patchAt'[u] \in 0..(Len(client.methods) + 1)
                             /\ patchPc'[u] = "wrap" => patchAt'[u] \in 1..Len(client.methods)
      BY <1>2, <2>2, <3>2 DEF PatchTypes
    <3>4. client' \in Clients /\ responses' \in Nat /\ original' \in [Methods -> Nat]
      BY <1>1, <1>2 DEF PatchTypes
    <3>5. \A u \in Threads : pendingLayers'[u] > 0 => answer'[u] > 0
      BY <1>1, <1>2 DEF PatchTypes
    <3>c. client' = client
      BY <1>1
    <3>6. \A u \in Threads : patchAt'[u] \in 0..(Len(client'.methods) + 1)
      BY <3>3, <3>c
    <3>7. \A u \in Threads : patchPc'[u] = "wrap" => patchAt'[u] \in 1..Len(client'.methods)
      BY <3>3, <3>c
    <3> QED BY <2>3, <3>1, <3>4, <3>5, <3>6, <3>7, Zenon DEF PatchTypes
  <2>5. SerialInv'
    <3> SUFFICES ASSUME serialPatching, \A u \in Threads : patchPc[u] = "idle"
                 PROVE  OneRuns' /\ AtRest' /\ \A u \in Threads : InStep(u)'
      BY <1>1 DEF SerialInv
    <3>1. Layered(Whole)
      BY DEF PatchInv, SerialInv, AtRest, NoPatchingNow
    <3>2. Layered(Whole)'
      BY <1>1, <3>1 DEF Layered, Whole, Offered
    <3>3. /\ patchPc'[t] = pc /\ patchAt'[t] = 0
          /\ \A u \in Threads : u # t => patchPc'[u] = "idle"
      BY <1>2, <2>1 DEF PatchTypeOK
    <3>4. OneRuns' /\ AtRest'
      BY <3>3 DEF OneRuns, AtRest, NoPatchingNow
    <3>5. \A u \in Threads : InStep(u)'
      BY <3>2, <3>3 DEF InStep
    <3> QED BY <3>4, <3>5
  <2>6. RegistryInv'
    BY <1>1, <1>2, <2>1 DEF PatchInv, PatchTypes, RegistryInv
  <2> QED BY <1>3, <2>4, <2>5, <2>6 DEF PatchInv
<1> QED BY <1>4, <1>5

LEMMA TestFlagKeeps ==
  ASSUME PatchInv, NEW t \in Threads, TestFlag(t)
  PROVE  PatchInv'
<1>1. /\ patchAt[t] = 0 /\ patchPc[t] \in {"patch", "restore"}
      /\ UNCHANGED <<client, lacking, wrapped, original, flagged, seenLayers, viaAuto, serialPatching,
                     autoOnly, spanUsage, spanCost, pendingLayers, answer, responses>>
  BY DEF TestFlag, responseVars
<1>2. PatchTypes /\ PatchTypeOK
  BY DEF PatchInv, PatchTypes
<1>3. UsageAndCostBelongTogether'
  BY <1>1 DEF PatchInv, UsageAndCostBelongTogether
<1>4. Len(client.methods) \in 2..3
  BY <1>2, ClientFacts DEF PatchTypes
<1>5. serialPatching => Layered(Whole)
  BY <1>1 DEF PatchInv, SerialInv, InStep
<1>6. Layered(Whole)' <=> Layered(Whole)
  BY <1>1 DEF Layered, Whole, Offered
<1>7. CASE flagged # (patchPc[t] = "restore")
  <2>1. /\ patchPc' = [patchPc EXCEPT ![t] = "idle"] /\ UNCHANGED patchAt
        /\ autoPatched' = Registered(t, patchPc[t] = "restore")
    BY <1>1, <1>2, <1>7 DEF TestFlag, AlreadyDone, PatchTypeOK, Registered
  <2>2. autoPatched' \in BOOLEAN
    BY <1>2, <2>1 DEF Registered, PatchTypeOK
  <2>3. PatchTypes'
    BY <1>1, <1>2, <2>1, <2>2 DEF PatchTypes, PatchTypeOK
  <2>4. SerialInv'
    BY <1>1, <1>5, <1>6, <2>1, <2>3, OneStepSerial
  <2>5. RegistryInv'
    BY <1>1, <1>2, <1>7, <2>1 DEF PatchInv, RegistryInv, Registered, PatchTypeOK
  <2> QED BY <1>3, <2>3, <2>4, <2>5 DEF PatchInv
<1>8. CASE flagged = (patchPc[t] = "restore")
  <2>1. UNCHANGED <<patchPc, autoPatched>> /\ patchAt' = [patchAt EXCEPT ![t] = 1]
    BY <1>1, <1>2, <1>8 DEF TestFlag, AlreadyDone, PatchTypeOK
  <2>2. PatchTypes'
    BY <1>1, <1>2, <1>4, <2>1 DEF PatchTypes, PatchTypeOK
  <2>3. serialPatching => InStep(t)'
    <3> SUFFICES ASSUME serialPatching PROVE InStep(t)'
      OBVIOUS
    <3>1. patchPc'[t] = patchPc[t] /\ patchAt'[t] = 1
      BY <1>2, <2>1 DEF PatchTypeOK
    <3>2. Reached(1)' = {}
      BY <1>1, <1>2, ReachedEnds DEF PatchTypes, Reached
    <3>3. CASE patchPc[t] = "patch"
      <4>1. ~flagged /\ Layered({})
        BY <1>1, <1>2, <1>5, <1>8, <3>3 DEF Whole, PatchTypeOK
      <4>2. Layered(Offered \cap Reached(1))'
        BY <1>1, <3>2, <4>1 DEF Layered
      <4> QED BY <1>1, <3>1, <3>3, <4>1, <4>2 DEF InStep
    <3>4. CASE patchPc[t] = "restore"
      <4>1. flagged /\ Layered(Offered)
        BY <1>1, <1>2, <1>5, <1>8, <3>4 DEF Whole, PatchTypeOK
      <4>2. Layered(Offered \ Reached(1))'
        BY <1>1, <3>2, <4>1 DEF Layered, Offered
      <4> QED BY <1>1, <3>1, <3>4, <4>1, <4>2 DEF InStep
    <3> QED BY <1>1, <3>3, <3>4
  <2>4. patchPc' = [patchPc EXCEPT ![t] = patchPc[t]] /\ patchPc[t] # "idle"
    BY <1>1, <1>2, <2>1 DEF PatchTypeOK
  <2>5. SerialInv'
    BY <1>1, <2>2, <2>3, <2>4, OneStepSerial
  <2>6. RegistryInv'
    BY <1>1, <2>1 DEF PatchInv, RegistryInv
  <2> QED BY <1>3, <2>2, <2>5, <2>6 DEF PatchInv
<1> QED BY <1>2, <1>7, <1>8 DEF PatchTypeOK

(* What the running call knows at a method.                                *)
LEMMA AtMethod ==
  ASSUME PatchInv, NEW t \in Threads, patchAt[t] > 0, ~Done(t)
  PROVE  /\ patchAt[t] \in 1..Len(client.methods) /\ patchAt[t] + 1 \in 0..4
         /\ patchAt[t] + 1 \in 0..(Len(client.methods) + 1) /\ Method(t) \in Methods
         /\ Reached(patchAt[t] + 1) = Reached(patchAt[t]) \cup {Method(t)}
         /\ Method(t) \notin Reached(patchAt[t])
         /\ (Method(t) \notin lacking) <=> (Method(t) \in Offered)
         /\ Method(t) \in lacking /\ Method(t) \notin client.tolerated => patchAt[t] = 1
<1>1. client \in Clients /\ patchAt[t] \in 0..(Len(client.methods) + 1)
  BY DEF PatchInv, PatchTypes
<1>2. Len(client.methods) \in 2..3
  BY <1>1, ClientFacts
<1>3. patchAt[t] \in 1..Len(client.methods)
  BY <1>1, <1>2 DEF Done
<1>4. /\ Reached(patchAt[t] + 1) = Reached(patchAt[t]) \cup {Method(t)}
      /\ Method(t) \notin Reached(patchAt[t]) /\ Method(t) \in Methods
      /\ (Method(t) \notin lacking) <=> (Method(t) \in Offered)
  BY <1>1, <1>3, ReachedNext DEF Method
<1>5. Method(t) \notin client.tolerated => patchAt[t] = 1
  BY <1>1, <1>3, ClientFacts DEF Method
<1>6. patchAt[t] + 1 \in 0..4 /\ patchAt[t] + 1 \in 0..(Len(client.methods) + 1)
  <2>1. PICK n \in 2..3 : n = Len(client.methods)
    BY <1>2
  <2>2. PICK k \in 1..n : k = patchAt[t]
    BY <1>3, <2>1
  <2>3. k + 1 \in 0..4 /\ k + 1 \in 0..(n + 1)
    OBVIOUS
  <2> QED BY <2>1, <2>2, <2>3
<1> QED BY <1>3, <1>4, <1>5, <1>6, Zenon

LEMMA ReadOriginalKeeps ==
  ASSUME PatchInv, NEW t \in Threads, ReadOriginal(t)
  PROVE  PatchInv'
<1>1. /\ patchPc[t] = "patch" /\ patchAt[t] > 0 /\ ~Done(t)
      /\ UNCHANGED <<client, lacking, wrapped, original, flagged, autoPatched, viaAuto,
                     serialPatching, autoOnly, spanUsage, spanCost, pendingLayers, answer, responses>>
  BY DEF ReadOriginal, responseVars
<1>2. PatchTypes /\ PatchTypeOK
  BY DEF PatchInv, PatchTypes
<1>3. UsageAndCostBelongTogether'
  BY <1>1 DEF PatchInv, UsageAndCostBelongTogether
<1>4. serialPatching => ~flagged /\ Layered(Offered \cap Reached(patchAt[t]))
  BY <1>1 DEF PatchInv, SerialInv, InStep
<1>5. CASE Method(t) \notin lacking
  <2>1. /\ seenLayers' = [seenLayers EXCEPT ![t] = wrapped[Method(t)]]
        /\ patchPc' = [patchPc EXCEPT ![t] = "wrap"] /\ patchAt' = patchAt
    BY <1>5 DEF ReadOriginal
  <2>2. /\ Method(t) \in Methods /\ Method(t) \notin Reached(patchAt[t])
        /\ patchAt[t] \in 1..Len(client.methods)
    BY <1>1, AtMethod
  <2>3. wrapped[Method(t)] \in Nat
    BY <1>2, <2>2 DEF PatchTypeOK
  <2>4. PatchTypes'
    BY <1>1, <1>2, <2>1, <2>2, <2>3 DEF PatchTypes, PatchTypeOK
  <2>5. serialPatching => InStep(t)'
    <3> SUFFICES ASSUME serialPatching PROVE InStep(t)'
      OBVIOUS
    <3>1. wrapped[Method(t)] = 0
      BY <1>4, <2>2 DEF Layered
    <3>2. patchPc'[t] = "wrap" /\ patchAt'[t] = patchAt[t] /\ seenLayers'[t] = 0
      BY <1>2, <2>1, <3>1 DEF PatchTypeOK
    <3>3. Layered(Offered \cap Reached(patchAt[t]))'
      BY <1>1, <1>4, <2>1 DEF Layered, Offered, Reached
    <3>4. Method(t)' = Method(t) /\ (Done(t)' <=> Done(t))
      BY <1>1, <2>1 DEF Method, Done
    <3> QED BY <1>1, <1>4, <1>5, <2>1, <3>2, <3>3, <3>4 DEF InStep
  <2>6. SerialInv'
    BY <1>1, <2>1, <2>4, <2>5, OneStepSerial
  <2>7. RegistryInv'
    BY <1>1, <1>2, <2>1 DEF PatchInv, RegistryInv, PatchTypeOK
  <2> QED BY <1>3, <2>4, <2>6, <2>7 DEF PatchInv
<1>6. CASE Method(t) \in lacking /\ Method(t) \in client.tolerated
  <2>1. /\ patchAt' = [patchAt EXCEPT ![t] = patchAt[t] + 1] /\ UNCHANGED <<patchPc, seenLayers>>
    BY <1>6 DEF ReadOriginal
  <2>2. /\ patchAt[t] + 1 \in 0..4 /\ patchAt[t] + 1 \in 0..(Len(client.methods) + 1)
        /\ Reached(patchAt[t] + 1) = Reached(patchAt[t]) \cup {Method(t)} /\ Method(t) \notin Offered
    BY <1>1, <1>6, AtMethod
  <2>3. PatchTypes'
    BY <1>1, <1>2, <2>1, <2>2 DEF PatchTypes, PatchTypeOK
  <2>4. serialPatching => InStep(t)'
    <3> SUFFICES ASSUME serialPatching PROVE InStep(t)'
      OBVIOUS
    <3>1. patchPc'[t] = "patch" /\ patchAt'[t] = patchAt[t] + 1 /\ patchAt'[t] > 0
      BY <1>1, <1>2, <2>1 DEF PatchTypeOK
    <3>2. Offered \cap Reached(patchAt[t] + 1) = Offered \cap Reached(patchAt[t])
      BY <2>2
    <3>3. Layered(Offered \cap Reached(patchAt[t] + 1))
      BY <1>4, <3>2
    <3>4. Layered(Offered \cap Reached(patchAt[t]))'
      BY <1>1, <3>1, <3>3 DEF Layered, Offered, Reached
    <3> QED BY <1>1, <1>4, <3>1, <3>4 DEF InStep
  <2>5. patchPc' = [patchPc EXCEPT ![t] = "patch"]
    BY <1>1, <1>2, <2>1 DEF PatchTypeOK
  <2>6. SerialInv'
    BY <1>1, <2>3, <2>4, <2>5, OneStepSerial
  <2>7. RegistryInv'
    BY <1>1, <2>1 DEF PatchInv, RegistryInv
  <2> QED BY <1>3, <2>3, <2>6, <2>7 DEF PatchInv
<1>7. CASE Method(t) \in lacking /\ Method(t) \notin client.tolerated
  <2>1. /\ patchPc' = [patchPc EXCEPT ![t] = "idle"] /\ UNCHANGED <<patchAt, seenLayers>>
    BY <1>7 DEF ReadOriginal
  <2>2. PatchTypes'
    BY <1>1, <1>2, <2>1 DEF PatchTypes, PatchTypeOK
  <2>3. serialPatching => Layered(Whole)'
    <3> SUFFICES ASSUME serialPatching PROVE Layered(Whole)'
      OBVIOUS
    <3>1. patchAt[t] = 1 /\ Reached(1) = {}
      BY <1>1, <1>2, <1>7, AtMethod, ReachedEnds DEF PatchTypes
    <3>2. ~flagged /\ Layered({})
      <4>1. Offered \cap Reached(patchAt[t]) = {}
        BY <3>1
      <4> QED BY <1>4, <4>1
    <3> QED BY <1>1, <3>2 DEF Layered, Whole
  <2>4. SerialInv'
    BY <1>1, <2>1, <2>2, <2>3, OneStepSerial
  <2>5. RegistryInv'
    BY <1>1, <1>2, <2>1 DEF PatchInv, RegistryInv, PatchTypeOK
  <2> QED BY <1>3, <2>2, <2>4, <2>5 DEF PatchInv
<1> QED BY <1>5, <1>6, <1>7

LEMMA WrapMethodKeeps ==
  ASSUME PatchInv, NEW t \in Threads, WrapMethod(t)
  PROVE  PatchInv'
<1> PICK m : m = Method(t)
  OBVIOUS
<1>1. /\ patchPc[t] = "wrap" /\ patchPc' = [patchPc EXCEPT ![t] = "patch"]
      /\ wrapped' = [wrapped EXCEPT ![m] = seenLayers[t] + 1]
      /\ original' = [original EXCEPT ![m] = seenLayers[t]]
      /\ patchAt' = [patchAt EXCEPT ![t] = patchAt[t] + 1]
      /\ UNCHANGED <<client, lacking, flagged, autoPatched, seenLayers, viaAuto, serialPatching,
                     autoOnly, spanUsage, spanCost, pendingLayers, answer, responses>>
  BY DEF WrapMethod, Moves, responseVars
<1>2. PatchTypes /\ PatchTypeOK
  BY DEF PatchInv, PatchTypes
<1>3. UsageAndCostBelongTogether' /\ RegistryInv'
  BY <1>1, <1>2 DEF PatchInv, UsageAndCostBelongTogether, RegistryInv, PatchTypeOK
<1>4. patchAt[t] \in 1..Len(client.methods) /\ Len(client.methods) \in 2..3
  BY <1>1, <1>2, ClientFacts DEF PatchTypes
<1>5. patchAt[t] > 0 /\ ~Done(t)
  BY <1>4 DEF Done
<1>6. /\ patchAt[t] + 1 \in 0..4 /\ patchAt[t] + 1 \in 0..(Len(client.methods) + 1) /\ m \in Methods
      /\ Reached(patchAt[t] + 1) = Reached(patchAt[t]) \cup {m}
      /\ (m \notin lacking) <=> (m \in Offered)
  BY <1>5, AtMethod
<1>7. seenLayers[t] \in Nat /\ seenLayers[t] + 1 \in Nat
  BY <1>2 DEF PatchTypeOK
<1>8. PatchTypes'
  BY <1>1, <1>2, <1>6, <1>7 DEF PatchTypes, PatchTypeOK
<1>9. serialPatching => InStep(t)'
  <2> SUFFICES ASSUME serialPatching PROVE InStep(t)'
    OBVIOUS
  <2>1. ~flagged /\ Layered(Offered \cap Reached(patchAt[t])) /\ m \in Offered /\ seenLayers[t] = 0
    BY <1>1, <1>5, <1>6 DEF PatchInv, SerialInv, InStep
  <2>2. Offered \cap Reached(patchAt[t] + 1) = (Offered \cap Reached(patchAt[t])) \cup {m}
    BY <1>6, <2>1
  <2>3. patchPc'[t] = "patch" /\ patchAt'[t] = patchAt[t] + 1 /\ patchAt'[t] > 0
    BY <1>1, <1>2, <1>4 DEF PatchTypeOK
  <2>4. PICK S : S = Offered \cap Reached(patchAt[t] + 1)
    OBVIOUS
  <2>5. Layered(S)'
    BY <1>1, <1>2, <1>6, <2>1, <2>2, <2>4 DEF Layered, PatchTypeOK
  <2>6. S = (Offered \cap Reached(patchAt[t]))'
    BY <1>1, <2>3, <2>4 DEF Offered, Reached
  <2> QED BY <1>1, <2>1, <2>3, <2>5, <2>6 DEF InStep, Layered
<1>10. SerialInv'
  BY <1>1, <1>8, <1>9, OneStepSerial
<1> QED BY <1>3, <1>8, <1>10 DEF PatchInv

LEMMA SetFlagKeeps ==
  ASSUME PatchInv, NEW t \in Threads, SetFlag(t)
  PROVE  PatchInv'
<1>1. /\ Done(t) /\ patchPc[t] = "patch" /\ patchPc' = [patchPc EXCEPT ![t] = "idle"]
      /\ flagged' = TRUE /\ autoPatched' = Registered(t, FALSE)
      /\ UNCHANGED <<client, lacking, wrapped, original, patchAt, seenLayers, viaAuto,
                     serialPatching, autoOnly, spanUsage, spanCost, pendingLayers, answer, responses>>
  BY DEF SetFlag, Moves, responseVars
<1>2. PatchTypes /\ PatchTypeOK
  BY DEF PatchInv, PatchTypes
<1>3. UsageAndCostBelongTogether'
  BY <1>1 DEF PatchInv, UsageAndCostBelongTogether
<1>4. patchAt[t] > 0 /\ patchAt[t] = Len(client.methods) + 1
  <2>1. Len(client.methods) \in 2..3 /\ patchAt[t] \in 0..(Len(client.methods) + 1)
    BY <1>2, ClientFacts DEF PatchTypes
  <2> QED BY <1>1, <2>1 DEF Done
<1>5. autoPatched' \in BOOLEAN
  BY <1>1, <1>2 DEF Registered, PatchTypeOK
<1>6. PatchTypes'
  BY <1>1, <1>2, <1>5 DEF PatchTypes, PatchTypeOK
<1>7. serialPatching => Layered(Whole)'
  <2> SUFFICES ASSUME serialPatching PROVE Layered(Whole)'
    OBVIOUS
  <2>1. Layered(Offered \cap Reached(patchAt[t]))
    BY <1>1, <1>4 DEF PatchInv, SerialInv, InStep
  <2>2. Offered \cap Reached(patchAt[t]) = Offered
    BY <1>2, <1>4, ReachedEnds DEF PatchTypes
  <2>3. Layered(Offered)
    BY <2>1, <2>2
  <2> QED BY <1>1, <2>3 DEF Layered, Whole, Offered
<1>8. SerialInv'
  BY <1>1, <1>6, <1>7, OneStepSerial
<1>9. RegistryInv'
  BY <1>1, <1>2 DEF PatchInv, RegistryInv, Registered, PatchTypeOK
<1> QED BY <1>3, <1>6, <1>8, <1>9 DEF PatchInv

LEMMA RestoreMethodKeeps ==
  ASSUME PatchInv, NEW t \in Threads, RestoreMethod(t)
  PROVE  PatchInv'
<1> PICK m : m = Method(t)
  OBVIOUS
<1>1. /\ patchPc[t] = "restore" /\ patchAt[t] > 0 /\ ~Done(t)
      /\ UNCHANGED <<client, lacking, flagged, autoPatched, patchPc, seenLayers, viaAuto,
                     serialPatching, autoOnly, spanUsage, spanCost, pendingLayers, answer, responses>>
  BY DEF RestoreMethod, responseVars
<1>2. PatchTypes /\ PatchTypeOK
  BY DEF PatchInv, PatchTypes
<1>3. UsageAndCostBelongTogether' /\ RegistryInv'
  BY <1>1, <1>2 DEF PatchInv, UsageAndCostBelongTogether, RegistryInv, PatchTypeOK
<1>4. /\ patchAt' = [patchAt EXCEPT ![t] = patchAt[t] + 1]
      /\ IF original[m] # NoOrig
           THEN /\ wrapped' = [wrapped EXCEPT ![m] = original[m]]
                /\ original' = [original EXCEPT ![m] = NoOrig]
           ELSE UNCHANGED <<wrapped, original>>
  BY DEF RestoreMethod, AfterMissing
<1>5. /\ patchAt[t] + 1 \in 0..4 /\ patchAt[t] + 1 \in 0..(Len(client.methods) + 1) /\ m \in Methods
      /\ Reached(patchAt[t] + 1) = Reached(patchAt[t]) \cup {m} /\ m \notin Reached(patchAt[t])
  BY <1>1, AtMethod
<1>6. original[m] \in Nat /\ NoOrig \in Nat
  BY <1>2, <1>5 DEF PatchTypes, NoOrig
<1>7. wrapped' \in [Methods -> Nat] /\ original' \in [Methods -> Nat]
  BY <1>2, <1>4, <1>5, <1>6 DEF PatchTypes, PatchTypeOK
<1>8. PatchTypes'
  BY <1>1, <1>2, <1>4, <1>5, <1>7 DEF PatchTypes, PatchTypeOK
<1>9. serialPatching => InStep(t)'
  <2> SUFFICES ASSUME serialPatching PROVE InStep(t)'
    OBVIOUS
  <2>1. flagged /\ Layered(Offered \ Reached(patchAt[t]))
    BY <1>1 DEF PatchInv, SerialInv, InStep
  <2>2. PICK S : S = Offered \ Reached(patchAt[t] + 1)
    OBVIOUS
  <2>3. S = (Offered \ Reached(patchAt[t])) \ {m}
    BY <1>5, <2>2
  <2>4. patchPc'[t] = "restore" /\ patchAt'[t] = patchAt[t] + 1 /\ patchAt'[t] > 0
    <3>1. patchAt[t] \in 0..4
      BY <1>2 DEF PatchTypeOK
    <3> QED BY <1>1, <1>2, <1>4, <3>1 DEF PatchTypeOK
  <2>5. original[m] # NoOrig <=> m \in Offered
    BY <1>5, <2>1 DEF Layered, NoOrig
  <2>6. Layered(S)'
    <3>1. CASE m \in Offered
      <4>1. /\ wrapped' = [wrapped EXCEPT ![m] = 0] /\ original' = [original EXCEPT ![m] = NoOrig]
        BY <1>4, <1>5, <2>1, <2>5, <3>1 DEF Layered
      <4> QED BY <1>2, <1>5, <2>1, <2>3, <4>1 DEF Layered, PatchTypes, PatchTypeOK
    <3>2. CASE m \notin Offered
      <4>1. UNCHANGED <<wrapped, original>> /\ S = Offered \ Reached(patchAt[t])
        BY <1>4, <2>3, <2>5, <3>2
      <4> QED BY <2>1, <4>1 DEF Layered
    <3> QED BY <3>1, <3>2
  <2>7. S = (Offered \ Reached(patchAt[t]))'
    BY <1>1, <2>2, <2>4 DEF Offered, Reached
  <2> QED BY <1>1, <2>1, <2>4, <2>6, <2>7 DEF InStep, Layered
<1>10. patchPc' = [patchPc EXCEPT ![t] = "restore"]
  BY <1>1, <1>2 DEF PatchTypeOK
<1>11. SerialInv'
  BY <1>1, <1>8, <1>9, <1>10, OneStepSerial
<1> QED BY <1>3, <1>8, <1>11 DEF PatchInv

LEMMA ClearFlagKeeps ==
  ASSUME PatchInv, NEW t \in Threads, ClearFlag(t)
  PROVE  PatchInv'
<1>1. /\ Done(t) /\ patchPc[t] = "restore" /\ patchPc' = [patchPc EXCEPT ![t] = "idle"]
      /\ flagged' = FALSE /\ autoPatched' = Registered(t, TRUE)
      /\ UNCHANGED <<client, lacking, wrapped, original, patchAt, seenLayers, viaAuto,
                     serialPatching, autoOnly, spanUsage, spanCost, pendingLayers, answer, responses>>
  BY DEF ClearFlag, Moves, responseVars
<1>2. PatchTypes /\ PatchTypeOK
  BY DEF PatchInv, PatchTypes
<1>3. UsageAndCostBelongTogether'
  BY <1>1 DEF PatchInv, UsageAndCostBelongTogether
<1>4. patchAt[t] > 0 /\ patchAt[t] = Len(client.methods) + 1
  <2>1. Len(client.methods) \in 2..3 /\ patchAt[t] \in 0..(Len(client.methods) + 1)
    BY <1>2, ClientFacts DEF PatchTypes
  <2> QED BY <1>1, <2>1 DEF Done
<1>5. autoPatched' \in BOOLEAN
  BY <1>1, <1>2 DEF Registered, PatchTypeOK
<1>6. PatchTypes'
  BY <1>1, <1>2, <1>5 DEF PatchTypes, PatchTypeOK
<1>7. serialPatching => Layered(Whole)'
  <2> SUFFICES ASSUME serialPatching PROVE Layered(Whole)'
    OBVIOUS
  <2>1. Layered(Offered \ Reached(patchAt[t]))
    BY <1>1, <1>4 DEF PatchInv, SerialInv, InStep
  <2>2. Offered \ Reached(patchAt[t]) = {}
    BY <1>2, <1>4, ReachedEnds DEF PatchTypes
  <2>3. Layered({})
    BY <2>1, <2>2
  <2> QED BY <1>1, <2>3 DEF Layered, Whole
<1>8. SerialInv'
  BY <1>1, <1>6, <1>7, OneStepSerial
<1>9. RegistryInv'
  BY <1>1, <1>2 DEF PatchInv, RegistryInv, Registered, PatchTypeOK
<1> QED BY <1>3, <1>6, <1>8, <1>9 DEF PatchInv

-----------------------------------------------------------------------------
(* Calls to the client *)

LEMMA ClientKeeps ==
  ASSUME PatchInv, NEW t \in Threads,
         BeginSpanOfCalls(t) \/ PopulateSpan(t) \/ \E m \in Methods : CallClient(t, m)
  PROVE  PatchInv'
<1>1. UNCHANGED patchedVars
  BY DEF BeginSpanOfCalls, PopulateSpan, CallClient
<1>2. PatchTypes /\ PatchTypeOK
  BY DEF PatchInv, PatchTypes
<1>3. SerialInv' /\ RegistryInv'
  <2>1. UNCHANGED <<client, lacking, wrapped, original, flagged, autoPatched, patchPc, patchAt,
                    seenLayers, viaAuto, serialPatching, autoOnly>>
    BY <1>1 DEF patchedVars
  <2> QED BY <2>1 DEF PatchInv, SerialInv, RegistryInv, OneRuns, AtRest, NoPatchingNow, InStep, Layered, Whole,
       Offered, Reached, Done, Method
<1>4. /\ MaxResponses \in Nat /\ responses \in Nat
      /\ spanUsage \in [Threads -> 0..MaxResponses \cup {Unset}]
      /\ spanCost \in [Threads -> 0..MaxResponses \cup {Unset}]
      /\ pendingLayers \in [Threads -> Nat] /\ answer \in [Threads -> 0..MaxResponses]
  BY <1>2, PatchingAssumption DEF PatchTypes, PatchTypeOK
<1>5. /\ responses' \in Nat
      /\ spanUsage' \in [Threads -> 0..MaxResponses \cup {Unset}]
      /\ spanCost' \in [Threads -> 0..MaxResponses \cup {Unset}]
      /\ pendingLayers' \in [Threads -> Nat] /\ answer' \in [Threads -> 0..MaxResponses]
      /\ \A u \in Threads : pendingLayers'[u] > 0 => answer'[u] > 0
      /\ UsageAndCostBelongTogether'
  <2>0. /\ \A u \in Threads : pendingLayers[u] > 0 => answer[u] > 0
        /\ \A u \in Threads : spanCost[u] = IF spanUsage[u] = 0 THEN Unset ELSE spanUsage[u]
    BY <1>2 DEF PatchInv, PatchTypes, UsageAndCostBelongTogether, Manual
  <2>1. CASE BeginSpanOfCalls(t)
    <3>1. PICK usage \in {0, Unset} :
            /\ spanUsage' = [spanUsage EXCEPT ![t] = usage] /\ spanCost' = [spanCost EXCEPT ![t] = Unset]
            /\ UNCHANGED <<pendingLayers, answer, responses>>
      BY <2>1 DEF BeginSpanOfCalls, Manual
    <3>2. 0 \in 0..MaxResponses
      BY <1>4
    <3> QED BY <1>4, <2>0, <3>1, <3>2 DEF UsageAndCostBelongTogether, Manual
  <2>2. CASE PopulateSpan(t)
    <3>1. /\ pendingLayers[t] > 0 /\ pendingLayers' = [pendingLayers EXCEPT ![t] = pendingLayers[t] - 1]
          /\ UNCHANGED <<answer, responses>>
      BY <2>2 DEF PopulateSpan
    <3>2. /\ pendingLayers' \in [Threads -> Nat]
          /\ \A u \in Threads : pendingLayers'[u] > 0 => answer'[u] > 0
      BY <1>4, <2>0, <3>1
    <3>3. CASE UNCHANGED <<spanUsage, spanCost>>
      BY <1>4, <2>0, <3>1, <3>2, <3>3 DEF UsageAndCostBelongTogether, Manual
    <3>4. CASE /\ spanUsage' = [spanUsage EXCEPT ![t] = IF @ = Unset THEN answer[t] ELSE @]
               /\ spanCost' = CostOf(t, answer[t])
      <4>1. CASE spanUsage[t] = Unset
        <5>1. /\ spanUsage' = [spanUsage EXCEPT ![t] = answer[t]]
              /\ spanCost' = [spanCost EXCEPT ![t] = answer[t]]
          BY <3>4, <4>1 DEF CostOf
        <5>2. answer[t] > 0 /\ answer[t] \in 0..MaxResponses
          BY <1>4, <2>0, <3>1
        <5> QED BY <1>4, <2>0, <3>1, <3>2, <5>1, <5>2 DEF UsageAndCostBelongTogether, Manual
      <4>2. CASE spanUsage[t] # Unset
        <5>1. spanUsage' = spanUsage /\ spanCost' = spanCost
          BY <1>4, <3>4, <4>2 DEF CostOf
        <5> QED BY <1>4, <2>0, <3>1, <3>2, <5>1 DEF UsageAndCostBelongTogether, Manual
      <4> QED BY <4>1, <4>2
    <3> QED BY <2>2, <3>3, <3>4 DEF PopulateSpan
  <2>3. CASE \E m \in Methods : CallClient(t, m)
    <3>1. PICK m \in Methods : CallClient(t, m)
      BY <2>3
    <3>2. /\ responses < MaxResponses /\ responses' = responses + 1
          /\ answer' = [answer EXCEPT ![t] = responses + 1]
          /\ pendingLayers' = [pendingLayers EXCEPT ![t] = wrapped[m]]
          /\ UNCHANGED <<spanUsage, spanCost>> /\ wrapped[m] \in Nat
      BY <1>2, <3>1 DEF CallClient, PatchTypeOK
    <3>3. responses + 1 \in 0..MaxResponses /\ responses + 1 > 0 /\ responses' \in Nat
      BY <1>4, <3>2
    <3> QED BY <1>4, <2>0, <3>2, <3>3 DEF UsageAndCostBelongTogether, Manual
  <2> QED BY <2>1, <2>2, <2>3
<1>6. PatchTypes'
  BY <1>1, <1>2, <1>5 DEF PatchTypes, PatchTypeOK, patchedVars
<1> QED BY <1>3, <1>5, <1>6 DEF PatchInv

LEMMA PatchStep == PatchInv /\ [PatchNext]_patchVars => PatchInv'
<1> SUFFICES ASSUME PatchInv, [PatchNext]_patchVars PROVE PatchInv'
  OBVIOUS
<1>1. CASE UNCHANGED patchVars
  <2>1. UNCHANGED <<wrapped, original, flagged, autoPatched, patchPc, patchAt, viaAuto, seenLayers,
                    spanUsage, spanCost, pendingLayers, answer, responses, client, lacking,
                    serialPatching, autoOnly>>
    BY <1>1 DEF patchVars, patchedVars, responseVars
  <2>2. PatchTypes'
    BY <2>1 DEF PatchInv, PatchTypes, PatchTypeOK
  <2>3. SerialInv'
    <3>1. ASSUME NEW t \in Threads PROVE InStep(t)' <=> InStep(t)
      BY <2>1 DEF InStep, Layered, Whole, Offered, Reached, Done, Method
    <3>2. OneRuns' <=> OneRuns
      BY <2>1 DEF OneRuns
    <3>3. AtRest' <=> AtRest
      BY <2>1 DEF AtRest, NoPatchingNow, Layered, Whole, Offered
    <3> QED BY <2>1, <3>1, <3>2, <3>3 DEF PatchInv, SerialInv
  <2>4. RegistryInv' /\ UsageAndCostBelongTogether'
    BY <2>1 DEF PatchInv, RegistryInv, UsageAndCostBelongTogether
  <2> QED BY <2>2, <2>3, <2>4 DEF PatchInv
<1>2. CASE PatchNext
  BY <1>2, CallPatchingKeeps, TestFlagKeeps, ReadOriginalKeeps, WrapMethodKeeps, SetFlagKeeps,
     RestoreMethodKeeps, ClearFlagKeeps, ClientKeeps DEF PatchNext
<1> QED BY <1>1, <1>2

(* Calls that do not overlap leave each method of the client wrapped once  *)
(* or not at all, as the flag and auto's registry say; and usage and cost  *)
(* of a span belong together however many layers run, in any thread.       *)
THEOREM PatchingLeavesOneLayer == PatchSpec => []PatchingIsExact
<1>1. PatchInv => PatchingIsExact
  <2> SUFFICES ASSUME PatchInv PROVE SerialPatchingIsExact /\ RegistryTellsFlag
    BY DEF PatchingIsExact, PatchInv
  <2>1. SerialPatchingIsExact
    <3> SUFFICES ASSUME serialPatching, NoPatchingNow, NEW m \in Offered
                 PROVE  wrapped[m] = IF flagged THEN 1 ELSE 0
      BY DEF SerialPatchingIsExact
    <3>1. client \in Clients
      BY DEF PatchInv, PatchTypes
    <3>2. m \in Methods
      BY <3>1, ClientFacts DEF Offered
    <3> QED BY <3>2 DEF PatchInv, SerialInv, AtRest, Layered, Whole
  <2>2. RegistryTellsFlag
    BY DEF PatchInv, RegistryInv, RegistryTellsFlag
  <2> QED BY <2>1, <2>2
<1> QED BY <1>1, PatchInitial, PatchStep, PTL DEF PatchSpec

(* Every call stays within the methods of its client.                      *)
THEOREM PatchingTypes == PatchSpec => []PatchTypeOK
<1>1. PatchInv => PatchTypeOK
  BY DEF PatchInv, PatchTypes
<1> QED BY <1>1, PatchInitial, PatchStep, PTL DEF PatchSpec

-----------------------------------------------------------------------------
(* How often a value occurs in a sequence, as the sequence changes.        *)
LEMMA CopiesCount ==
  ASSUME NEW S, NEW seq \in Seq(S), NEW x
  PROVE  /\ IsFiniteSet({i \in DOMAIN seq : seq[i] = x})
         /\ Copies(seq, x) \in Nat /\ (Copies(seq, x) = 0 <=> x \notin ToSet(seq))
<1> DEFINE at == {i \in DOMAIN seq : seq[i] = x}
<1>1. IsFiniteSet(1..Len(seq)) /\ at \in SUBSET (1..Len(seq))
  BY FS_Interval
<1>2. IsFiniteSet(at)
  BY <1>1, FS_Subset
<1>3. x \in ToSet(seq) <=> at # {}
  BY DEF ToSet
<1> HIDE DEF at
<1>4. Cardinality(at) \in Nat /\ (Cardinality(at) = 0 <=> at = {})
  BY <1>2, FS_EmptySet, FS_CardinalityType
<1> QED BY <1>2, <1>3, <1>4 DEF Copies, at

LEMMA CopiesOfNone ==
  ASSUME NEW x
  PROVE  Copies(<<>>, x) = 0
<1>1. {i \in DOMAIN <<>> : <<>>[i] = x} = {}
  OBVIOUS
<1> QED BY <1>1, FS_EmptySet DEF Copies

LEMMA CopiesOfAppend ==
  ASSUME NEW S, NEW seq \in Seq(S), NEW y \in S, NEW x
  PROVE  Copies(Append(seq, y), x) = Copies(seq, x) + (IF y = x THEN 1 ELSE 0)
<1> DEFINE at == {i \in DOMAIN seq : seq[i] = x}
           after == {i \in DOMAIN Append(seq, y) : Append(seq, y)[i] = x}
           n == Len(seq) + 1
<1>1. /\ n \in Nat /\ DOMAIN seq = 1..(n - 1) /\ DOMAIN Append(seq, y) = 1..n
      /\ Append(seq, y)[n] = y /\ \A i \in 1..(n - 1) : Append(seq, y)[i] = seq[i]
  OBVIOUS
<1>2. IsFiniteSet(at) /\ Cardinality(at) \in Nat
  BY CopiesCount DEF Copies
<1>3. n \notin at
  BY <1>1
<1>4. CASE y = x
  <2>1. after = at \cup {n}
    BY <1>1, <1>4
  <2> QED BY <1>2, <1>3, <1>4, <2>1, FS_AddElement DEF Copies
<1>5. CASE y # x
  <2>1. after = at
    BY <1>1, <1>5
  <2>2. Copies(Append(seq, y), x) = Copies(seq, x) /\ Copies(seq, x) \in Nat
    BY <1>2, <2>1 DEF Copies
  <2> QED BY <1>5, <2>2
<1> QED BY <1>4, <1>5

LEMMA CopiesOfTail ==
  ASSUME NEW S, NEW seq \in Seq(S), seq # <<>>, NEW x
  PROVE  Copies(seq, x) = Copies(Tail(seq), x) + (IF Head(seq) = x THEN 1 ELSE 0)
<1> DEFINE at == {i \in DOMAIN seq : seq[i] = x}
           rest == {i \in DOMAIN Tail(seq) : Tail(seq)[i] = x}
           later == at \ {1}
           next == [i \in rest |-> i + 1]
<1>1. /\ Len(seq) \in Nat \ {0} /\ DOMAIN seq = 1..Len(seq) /\ Head(seq) = seq[1]
      /\ Tail(seq) \in Seq(S) /\ DOMAIN Tail(seq) = 1..(Len(seq) - 1)
      /\ \A i \in 1..(Len(seq) - 1) : Tail(seq)[i] = seq[i + 1]
  OBVIOUS
<1>2. IsFiniteSet(at) /\ Cardinality(at) \in Nat
  BY CopiesCount DEF Copies
<1>3. IsFiniteSet(rest) /\ Cardinality(rest) \in Nat
  <2>1. \A r \in Seq(S) : /\ IsFiniteSet({i \in DOMAIN r : r[i] = x})
                           /\ Cardinality({i \in DOMAIN r : r[i] = x}) \in Nat
    BY CopiesCount DEF Copies
  <2> QED BY <1>1, <2>1
<1>4. next \in Bijection(rest, later)
  <2>1. \A i \in rest : i \in Nat /\ i + 1 \in later
    BY <1>1
  <2>2. ASSUME NEW j \in later PROVE j - 1 \in rest /\ next[j - 1] = j
    BY <1>1, <2>2
  <2> HIDE DEF rest, later
  <2>3. next \in [rest -> later] /\ \A i, j \in rest : next[i] = next[j] => i = j
    BY <2>1
  <2> QED BY <2>2, <2>3 DEF Bijection, Injection, Surjection, IsInjective
<1>5. Cardinality(later) = Cardinality(rest)
  <2>1. ExistsBijection(rest, later)
    BY <1>4 DEF ExistsBijection
  <2> HIDE DEF rest, later
  <2> QED BY <1>3, <2>1, FS_Bijection
<1>6. 1 \in at <=> Head(seq) = x
  BY <1>1
<1>7. Cardinality(later) = IF 1 \in at THEN Cardinality(at) - 1 ELSE Cardinality(at)
  BY <1>2, FS_RemoveElement
<1>a. Copies(seq, x) = Cardinality(at) /\ Copies(Tail(seq), x) = Cardinality(rest)
  BY DEF Copies
<1> HIDE DEF at, rest, later, next
<1> QED BY <1>2, <1>3, <1>5, <1>6, <1>7, <1>a

-----------------------------------------------------------------------------
(* What a replay selects, as a file grows: by induction along it.          *)
UpTo(spans, wanted) ==
  CHOOSE f : f = [n \in 0..Len(spans) |->
    IF n = 0 THEN <<>>
    ELSE IF spans[n] \in wanted THEN Append(f[n - 1], spans[n]) ELSE f[n - 1]]

SelectsAlong(f, spans, wanted) ==
  /\ f[0] = <<>>
  /\ \A n \in 0..(Len(spans) - 1) :
       f[n + 1] = IF spans[n + 1] \in wanted THEN Append(f[n], spans[n + 1]) ELSE f[n]

LEMMA SelectedIsUpTo ==
  ASSUME NEW S, NEW spans \in Seq(S), NEW wanted
  PROVE  /\ Selected(spans, wanted) = UpTo(spans, wanted)[Len(spans)]
         /\ SelectsAlong(UpTo(spans, wanted), spans, wanted)
         /\ UpTo(spans, wanted) \in [0..Len(spans) -> Seq(S)]
<1> DEFINE L == Len(spans)
           next == [k \in Nat |-> [q \in Seq(S) |->
                      IF k < L /\ spans[k + 1] \in wanted THEN Append(q, spans[k + 1]) ELSE q]]
<1>1. L \in Nat /\ \A k \in Nat : k < L => spans[k + 1] \in S
  OBVIOUS
<1>2. next \in [Nat -> [Seq(S) -> Seq(S)]]
  <2>1. ASSUME NEW k \in Nat, NEW q \in Seq(S)
        PROVE  (IF k < L /\ spans[k + 1] \in wanted THEN Append(q, spans[k + 1]) ELSE q) \in Seq(S)
    BY <1>1
  <2> HIDE DEF L
  <2> QED BY <2>1
<1>3. \A k \in 0..(L - 1), q \in Seq(S) :
        next[k][q] = IF spans[k + 1] \in wanted THEN Append(q, spans[k + 1]) ELSE q
  BY <1>1
<1>4. <<>> \in Seq(S)
  OBVIOUS
<1> HIDE DEF next, L
<1>5. PICK f : IsIteration(f, Seq(S), <<>>, next)
  BY <1>2, <1>4, IterationsExist, Zenon
<1>6. /\ f \in [Nat -> Seq(S)] /\ f[0] = <<>>
      /\ \A k \in 0..(L - 1) :
           f[k + 1] = IF spans[k + 1] \in wanted THEN Append(f[k], spans[k + 1]) ELSE f[k]
  <2>1. f \in [Nat -> Seq(S)] /\ f[0] = <<>> /\ \A k \in Nat : f[k + 1] = next[k][f[k]]
    BY <1>5 DEF IsIteration
  <2>2. ASSUME NEW k \in 0..(L - 1)
        PROVE  f[k + 1] = IF spans[k + 1] \in wanted THEN Append(f[k], spans[k + 1]) ELSE f[k]
    <3>1. k \in Nat /\ f[k] \in Seq(S)
      BY <1>1, <2>1
    <3> QED BY <1>3, <2>1, <3>1, Zenon
  <2> QED BY <2>1, <2>2
<1> DEFINE g == [n \in 0..L |-> f[n]]
           body(h) == [n \in 0..L |-> IF n = 0 THEN <<>>
                        ELSE IF spans[n] \in wanted THEN Append(h[n - 1], spans[n]) ELSE h[n - 1]]
<1>7. g = body(g)
  <2> SUFFICES ASSUME NEW n \in 0..L
               PROVE  f[n] = IF n = 0 THEN <<>>
                             ELSE IF spans[n] \in wanted THEN Append(g[n - 1], spans[n]) ELSE g[n - 1]
    OBVIOUS
  <2>1. CASE n = 0
    BY <1>6, <2>1
  <2>2. CASE n # 0
    <3>1. n - 1 \in 0..(L - 1) /\ n - 1 \in 0..L /\ (n - 1) + 1 = n
      BY <1>1, <2>2
    <3>2. g[n - 1] = f[n - 1]
      BY <3>1
    <3> HIDE DEF g
    <3> QED BY <1>6, <2>2, <3>1, <3>2
  <2> QED BY <2>1, <2>2
<1> HIDE DEF g
<1>8. UpTo(spans, wanted) = body(UpTo(spans, wanted))
  BY <1>7, Zenon DEF UpTo, L
<1>9. Selected(spans, wanted) = UpTo(spans, wanted)[Len(spans)]
  BY Zenon DEF Selected, UpTo
<1> DEFINE u == UpTo(spans, wanted)
<1> HIDE DEF u
<1>a. u = body(u)
  BY <1>8 DEF u
<1>b. u[0] = <<>> /\ \A n \in 0..(L - 1) :
        u[n + 1] = IF spans[n + 1] \in wanted THEN Append(u[n], spans[n + 1]) ELSE u[n]
  <2>1. 0 \in 0..L /\ \A n \in 0..(L - 1) : n + 1 \in 0..L /\ n + 1 # 0 /\ (n + 1) - 1 = n
    BY <1>1
  <2>2. body(u)[0] = <<>>
    BY <2>1
  <2>3. ASSUME NEW n \in 0..(L - 1)
        PROVE  body(u)[n + 1] = IF spans[n + 1] \in wanted THEN Append(u[n], spans[n + 1]) ELSE u[n]
    BY <2>1
  <2> HIDE DEF body
  <2>4. \A n : u[n] = body(u)[n]
    BY <1>a, Zenon
  <2> QED BY <2>2, <2>3, <2>4, Zenon
<1>c. \A n \in 0..L : u[n] \in Seq(S)
  <2> DEFINE A == {n \in Nat : n <= L => u[n] \in Seq(S)}
  <2>1. 0 \in A
    BY <1>b, <1>4
  <2>2. ASSUME NEW n \in Nat, n \in A PROVE n + 1 \in A
    <3> SUFFICES ASSUME n + 1 <= L PROVE u[n + 1] \in Seq(S)
      OBVIOUS
    <3>1. n \in 0..(L - 1) /\ u[n] \in Seq(S) /\ spans[n + 1] \in S
      BY <1>1, <2>2
    <3>2. Append(u[n], spans[n + 1]) \in Seq(S)
      BY <3>1
    <3>3. u[n + 1] = u[n] \/ u[n + 1] = Append(u[n], spans[n + 1])
      BY <1>b, <3>1
    <3> QED BY <3>1, <3>2, <3>3, Zenon
  <2> HIDE DEF A
  <2>3. \A n \in Nat : n \in A
    BY <2>1, <2>2, Inductive
  <2> QED BY <1>1, <2>3 DEF A
<1>d. u \in [0..L -> Seq(S)]
  <2>1. DOMAIN u = 0..L /\ u = [n \in 0..L |-> u[n]]
    BY <1>a
  <2> QED BY <1>c, <2>1
<1> QED BY <1>9, <1>b, <1>d DEF SelectsAlong, u, L

LEMMA SelectionsAgree ==
  ASSUME NEW S, NEW p \in Seq(S), NEW q \in Seq(S), NEW V, NEW W, NEW f, NEW g,
         SelectsAlong(f, p, V), SelectsAlong(g, q, W), NEW m \in Nat, m <= Len(p), m <= Len(q),
         \A i \in 1..m : p[i] = q[i] /\ (p[i] \in V <=> q[i] \in W)
  PROVE  f[m] = g[m]
<1> DEFINE A == {n \in Nat : n <= m => f[n] = g[n]}
<1>1. 0 \in A
  BY DEF SelectsAlong
<1>2. ASSUME NEW n \in Nat, n \in A PROVE n + 1 \in A
  <2> SUFFICES ASSUME n + 1 <= m PROVE f[n + 1] = g[n + 1]
    OBVIOUS
  <2>1. /\ n \in 0..(Len(p) - 1) /\ n \in 0..(Len(q) - 1) /\ n + 1 \in 1..m /\ f[n] = g[n]
    BY <1>2
  <2> QED BY <2>1 DEF SelectsAlong
<1> HIDE DEF A
<1>3. m \in A
  BY <1>1, <1>2, Inductive
<1> QED BY <1>3 DEF A

LEMMA SelectedOfNone ==
  ASSUME NEW wanted
  PROVE  Selected(<<>>, wanted) = <<>>
<1>1. <<>> \in Seq({}) /\ Len(<<>>) = 0
  OBVIOUS
<1> QED BY <1>1, SelectedIsUpTo DEF SelectsAlong

LEMMA SelectedOfAppend ==
  ASSUME NEW S, NEW spans \in Seq(S), NEW s \in S, NEW wanted
  PROVE  Selected(Append(spans, s), wanted) =
           IF s \in wanted THEN Append(Selected(spans, wanted), s) ELSE Selected(spans, wanted)
<1> DEFINE longer == Append(spans, s)
           f == UpTo(spans, wanted)
           g == UpTo(longer, wanted)
           n == Len(spans)
<1>1. /\ longer \in Seq(S) /\ Len(longer) = n + 1 /\ n \in Nat /\ longer[n + 1] = s
      /\ \A i \in 1..n : longer[i] = spans[i]
  OBVIOUS
<1> HIDE DEF longer
<1>2. /\ Selected(spans, wanted) = f[n] /\ SelectsAlong(f, spans, wanted)
      /\ Selected(longer, wanted) = g[n + 1] /\ SelectsAlong(g, longer, wanted)
  BY <1>1, SelectedIsUpTo
<1> HIDE DEF f, g, n
<1>3. f[n] = g[n]
  BY <1>1, <1>2, SelectionsAgree DEF n
<1>4. g[n + 1] = IF longer[n + 1] \in wanted THEN Append(g[n], longer[n + 1]) ELSE g[n]
  BY <1>1, <1>2 DEF SelectsAlong
<1> QED BY <1>1, <1>2, <1>3, <1>4 DEF longer

LEMMA SelectedOnlyLooksAt ==
  ASSUME NEW S, NEW spans \in Seq(S), NEW V, NEW W,
         \A i \in DOMAIN spans : spans[i] \in V <=> spans[i] \in W
  PROVE  Selected(spans, V) = Selected(spans, W)
<1>1. Len(spans) \in Nat /\ DOMAIN spans = 1..Len(spans)
  OBVIOUS
<1>2. SelectsAlong(UpTo(spans, V), spans, V) /\ SelectsAlong(UpTo(spans, W), spans, W)
  BY SelectedIsUpTo
<1>3. UpTo(spans, V)[Len(spans)] = UpTo(spans, W)[Len(spans)]
  BY <1>1, <1>2, SelectionsAgree
<1> QED BY <1>3, SelectedIsUpTo

(* Two selections from a list may be made in either order.                 *)
LEMMA SelectedIsASeq ==
  ASSUME NEW S, NEW spans \in Seq(S), NEW wanted
  PROVE  Selected(spans, wanted) \in Seq(S)
BY SelectedIsUpTo DEF SelectsAlong

LEMMA SelectionsCommute ==
  ASSUME NEW S, NEW spans \in Seq(S), NEW V, NEW W
  PROVE  Selected(Selected(spans, V), W) = Selected(Selected(spans, W), V)
<1> DEFINE Commutes(p) == Selected(Selected(p, V), W) = Selected(Selected(p, W), V)
           Good == {n \in Nat : \A p \in Seq(S) : Len(p) = n => Commutes(p)}
<1>1. 0 \in Good
  <2> SUFFICES ASSUME NEW p \in Seq(S), Len(p) = 0 PROVE Commutes(p)
    OBVIOUS
  <2>1. p = <<>>
    OBVIOUS
  <2> QED BY <2>1, SelectedOfNone
<1>2. ASSUME NEW n \in Nat, n \in Good PROVE n + 1 \in Good
  <2> SUFFICES ASSUME NEW p \in Seq(S), Len(p) = n + 1 PROVE Commutes(p)
    OBVIOUS
  <2>1. PICK q \in Seq(S), x \in S : p = Append(q, x) /\ Len(q) = n
    <3>1. p # <<>>
      OBVIOUS
    <3>2. Front(p) \in Seq(S) /\ Last(p) \in S /\ Len(Front(p)) = n /\ Append(Front(p), Last(p)) = p
      BY <3>1 DEF Front, Last
    <3> QED BY <3>2
  <2>2. Commutes(q)
    BY <1>2, <2>1
  <2>3. Selected(q, V) \in Seq(S) /\ Selected(q, W) \in Seq(S)
    BY SelectedIsASeq
  <2>4. /\ Selected(p, V) = IF x \in V THEN Append(Selected(q, V), x) ELSE Selected(q, V)
        /\ Selected(p, W) = IF x \in W THEN Append(Selected(q, W), x) ELSE Selected(q, W)
    BY <2>1, SelectedOfAppend
  <2>5. \A U : /\ Selected(Append(Selected(q, V), x), U) =
                     IF x \in U THEN Append(Selected(Selected(q, V), U), x) ELSE Selected(Selected(q, V), U)
               /\ Selected(Append(Selected(q, W), x), U) =
                     IF x \in U THEN Append(Selected(Selected(q, W), U), x) ELSE Selected(Selected(q, W), U)
    BY <2>1, <2>3, SelectedOfAppend
  <2>6. CASE x \in V /\ x \in W
    BY <2>2, <2>4, <2>5, <2>6
  <2>7. CASE x \in V /\ x \notin W
    BY <2>2, <2>4, <2>5, <2>7
  <2>8. CASE x \notin V /\ x \in W
    BY <2>2, <2>4, <2>5, <2>8
  <2>9. CASE x \notin V /\ x \notin W
    BY <2>2, <2>4, <2>9
  <2> QED BY <2>6, <2>7, <2>8, <2>9
<1> HIDE DEF Good
<1>3. Len(spans) \in Good
  BY <1>1, <1>2, Inductive
<1> QED BY <1>3 DEF Good

(* What the reasoning about hooks and the inspector session rests on: the  *)
(* span of each thread is its own and not yet finished, and the callbacks  *)
(* still to call are the difference between what was heard and what is     *)
(* owed, and between what was recorded and what is to be.                  *)
InSpan(t) == firePc[t] # "out"

Bounded ==
  /\ HooksTypeOK /\ clears \in Nat /\ attachments \in Nat
  /\ Len(hookedSpans) <= MaxHookSpans /\ attachedFrom <= MaxHookSpans
  /\ \A i \in DOMAIN handedOn : handedOn[i] <= Len(hookedSpans)
  /\ \A i \in DOMAIN sessionSpans : sessionSpans[i] <= Len(hookedSpans)
  /\ \A s \in SpanIds : s > Len(hookedSpans) => heard[s] = [start |-> 0, end |-> 0]

OwnSpans ==
  /\ \A t \in Threads : InSpan(t) => openSpan[t] \in 1..Len(hookedSpans) /\ ~Finished(openSpan[t])
  /\ \A t, u \in Threads : t # u /\ InSpan(t) /\ InSpan(u) => openSpan[t] # openSpan[u]

Hears(t) ==
  LET s == openSpan[t]
      kept == expected[s].clears = clears /\ Shape(t).kind # "agent"
  IN /\ firePc[t] = "start" => heard[s].start + Hooked(firing[t]) = expected[s].calls
     /\ firePc[t] \in {"open", "end", "endAll", "record", "emit"} => heard[s].start = expected[s].calls
     /\ kept /\ firePc[t] \in {"start", "open"} =>
          Hooked(Snapshot(EndBuckets(Shape(t).kind))) >= expected[s].calls
     /\ kept /\ firePc[t] = "end" => heard[s].end + Hooked(firing[t]) >= expected[s].calls
     /\ kept /\ firePc[t] \in {"endAll", "record", "emit"} => heard[s].end >= expected[s].calls

HearingInv ==
  /\ \A s \in SpanIds : expected[s].clears <= clears
  /\ \A t \in Threads : InSpan(t) => Hears(t)
  /\ HookHearsBothEnds

Sessions(seq) == Copies(seq, "session")

Wanted(s) == sessionFilter \in {AnyTrace, hookedSpans[s].trace}

Records(t) ==
  LET s == openSpan[t] IN
  /\ firePc[t] \in {"start", "open", "end"} => Copies(sessionSpans, s) = 0
  /\ firePc[t] \in {"endAll", "record"} =>
       Copies(sessionSpans, s) + Sessions(firing[t]) <= attachments
  /\ firePc[t] = "record" => firing[t] # <<>> /\ Head(firing[t]) = "session"
  /\ firePc[t] = "emit" => firing[t] = <<>>

(* While a session stays attached, it has one callback in the registry.    *)
Attached ==
  attachedFrom # MaxHookSpans =>
    /\ sessionActive /\ attachments = 1 /\ Sessions(listeners["span_end"]) = 1
    /\ \A t \in Threads : InSpan(t) /\ openSpan[t] > attachedFrom =>
         /\ firePc[t] \in {"endAll", "record", "emit"} =>
              (openSpan[t] \in ToSet(sessionSpans) <=> Wanted(openSpan[t]) /\ Sessions(firing[t]) = 0)
         /\ firePc[t] = "record" => Wanted(openSpan[t])

RecordingInv ==
  /\ Sessions(listeners["span_end"]) <= attachments
  /\ \A s \in SpanIds : Copies(sessionSpans, s) <= attachments
  /\ \A t \in Threads : InSpan(t) => Records(t)
  /\ Attached /\ SessionIsComplete

(* As long as one span at a time is open, a session that was attached      *)
(* before the first holds what a replay would select of the spans handed   *)
(* on, and after that the open span, once it is recorded.                  *)
Held(t) == InSpan(t) /\ openSpan[t] \in ToSet(sessionSpans)
FromFile == Selected(handedOn, OfTrace(sessionFilter))

ReplayInv ==
  serialSpans =>
    /\ \A t, u \in Threads : InSpan(t) /\ InSpan(u) => t = u
    /\ attachedFrom = 0 /\ MaxHookSpans # 0 =>
         /\ \A t \in Threads : Held(t) => sessionSpans = Append(FromFile, openSpan[t])
         /\ (\A t \in Threads : ~Held(t)) => sessionSpans = FromFile

HooksInv == Bounded /\ OwnSpans /\ HearingInv /\ RecordingInv /\ ReplayInv

LEMMA HooksInitial == HooksInit => HooksInv
<1> SUFFICES ASSUME HooksInit PROVE HooksInv
  OBVIOUS
<1> USE DEF SpanIds, Finished
<1>1. MaxHookSpans \in Nat
  BY SpanHooksAssumption
<1>2. ToSet(<<>>) = {} /\ \A x : Copies(<<>>, x) = 0
  BY CopiesOfNone DEF ToSet
<1>3. Bounded
  <2>1. HooksTypeOK
    <3>1. listeners \in [Buckets -> Seq(Listeners)] /\ firing \in [Threads -> Seq(Listeners)]
          /\ hookedSpans \in Seq(SpanShapes) /\ handedOn \in Seq(SpanIds) /\ inFile \subseteq SpanIds
          /\ sessionSpans \in Seq(SpanIds)
      BY DEF HooksInit
    <3>2. heard \in [SpanIds -> [start : Nat, end : Nat]]
          /\ expected \in [SpanIds -> [calls : Nat, clears : Nat]]
      BY DEF HooksInit
    <3>3. attachedFrom \in SpanIds \cup {0}
      BY <1>1 DEF HooksInit
    <3>4. firePc \in [Threads -> {"out", "start", "open", "end", "endAll", "record", "emit"}]
          /\ openSpan \in [Threads -> 0..MaxHookSpans]
      BY <1>1 DEF HooksInit
    <3>5. sessionActive \in BOOLEAN /\ sessionFilter \in HookTraces \cup {AnyTrace}
          /\ serialSpans \in BOOLEAN
      BY DEF HooksInit
    <3> QED BY <3>1, <3>2, <3>3, <3>4, <3>5 DEF HooksTypeOK
  <2> QED BY <1>1, <2>1 DEF HooksInit, Bounded
<1>4. OwnSpans
  BY DEF HooksInit, OwnSpans, InSpan
<1>5. HearingInv
  BY <1>1 DEF HooksInit, HearingInv, InSpan, HookHearsBothEnds
<1>6. RecordingInv
  BY <1>1, <1>2 DEF HooksInit, RecordingInv, Sessions, InSpan, Attached, SessionIsComplete, Buckets
<1>7. ReplayInv
  BY SelectedOfNone DEF HooksInit, ReplayInv, Held, InSpan, FromFile
<1> QED BY <1>3, <1>4, <1>5, <1>6, <1>7 DEF HooksInv

(* What each list of callbacks and each span of a thread is.               *)
ShapeKinds == {"agent", "llm_call", "tool_call", "none"}

LEMMA SpanFacts ==
  ASSUME Bounded, OwnSpans, NEW t \in Threads, InSpan(t)
  PROVE  /\ openSpan[t] \in SpanIds /\ openSpan[t] \in 1..Len(hookedSpans)
         /\ hookedSpans[openSpan[t]] \in SpanShapes /\ Shape(t) = hookedSpans[openSpan[t]]
         /\ Shape(t).kind \in ShapeKinds
<1>1. openSpan[t] \in 1..Len(hookedSpans) /\ Len(hookedSpans) <= MaxHookSpans
      /\ hookedSpans \in Seq(SpanShapes) /\ MaxHookSpans \in Nat
  BY SpanHooksAssumption DEF Bounded, OwnSpans, HooksTypeOK
<1>2. hookedSpans[openSpan[t]] \in SpanShapes
  BY <1>1
<1>3. openSpan[t] \in SpanIds
  BY <1>1 DEF SpanIds
<1> QED BY <1>1, <1>2, <1>3, SpanHooksAssumption DEF Shape, ShapeKinds

LEMMA BucketsOfKind ==
  ASSUME NEW kind \in ShapeKinds
  PROVE  /\ kind # "agent" => StartBuckets(kind) = EndBuckets(kind)
         /\ StartBuckets(kind) = {} \/ \E b \in Buckets : StartBuckets(kind) = {b}
         /\ EndBuckets(kind) = {} \/ \E b \in Buckets : EndBuckets(kind) = {b}
BY DEF ShapeKinds, StartBuckets, EndBuckets, Buckets

LEMMA SnapshotOfOne ==
  ASSUME NEW b
  PROVE  Snapshot({b}) = listeners[b] /\ Snapshot({b})' = listeners'[b]
         /\ Snapshot({}) = <<>> /\ Snapshot({})' = <<>>
<1>1. (CHOOSE x \in {b} : TRUE) = b /\ {b} # {}
  OBVIOUS
<1> QED BY <1>1 DEF Snapshot

LEMMA SnapshotsAreLists ==
  ASSUME Bounded, NEW kind \in ShapeKinds
  PROVE  /\ Snapshot(StartBuckets(kind)) \in Seq(Listeners)
         /\ Snapshot(EndBuckets(kind)) \in Seq(Listeners)
<1>1. listeners \in [Buckets -> Seq(Listeners)] /\ <<>> \in Seq(Listeners)
  BY DEF Bounded, HooksTypeOK
<1>2. \A b \in Buckets : Snapshot({b}) \in Seq(Listeners)
  BY <1>1, SnapshotOfOne
<1>3. Snapshot({}) \in Seq(Listeners)
  BY <1>1, SnapshotOfOne
<1> QED BY <1>2, <1>3, BucketsOfKind

LEMMA BoundedFirings ==
  ASSUME Bounded, NEW t \in Threads
  PROVE  /\ firing[t] \in Seq(Listeners)
         /\ firing[t] # <<>> => Tail(firing[t]) \in Seq(Listeners) /\ Head(firing[t]) \in Listeners
BY DEF Bounded, HooksTypeOK

(* Each call leaves the types and the bounds as they are: of the variables *)
(* of a thread it changes those of its own.                                *)
LEMMA CallsKeepBounds ==
  ASSUME Bounded, Op,
         \/ \E b \in Buckets : RegisterHook(b)
         \/ \E trace \in HookTraces \cup {AnyTrace} : Attach(trace)
         \/ ClearHooks \/ Detach \/ ResetSession
  PROVE  Bounded'
<1>1. HooksTypeOK /\ UNCHANGED firingVars /\ clears \in Nat /\ attachments \in Nat
      /\ MaxHookSpans \in Nat
  BY SpanHooksAssumption DEF Bounded, Op
<1>2. listeners' \in [Buckets -> Seq(Listeners)]
  <2>1. \A b \in Buckets, l \in Listeners : 
          [listeners EXCEPT ![b] = Append(@, l)] \in [Buckets -> Seq(Listeners)]
    BY <1>1 DEF HooksTypeOK
  <2>2. [b \in Buckets |-> <<>>] \in [Buckets -> Seq(Listeners)]
    OBVIOUS
  <2>3. "hook" \in Listeners /\ "session" \in Listeners /\ "span_end" \in Buckets
    BY DEF Listeners, Buckets
  <2>4. listeners \in [Buckets -> Seq(Listeners)]
    BY <1>1 DEF HooksTypeOK
  <2>5. ASSUME NEW b \in Buckets, RegisterHook(b) PROVE listeners' \in [Buckets -> Seq(Listeners)]
    BY <2>1, <2>3, <2>5 DEF RegisterHook
  <2>6. ASSUME NEW trace, Attach(trace) PROVE listeners' \in [Buckets -> Seq(Listeners)]
    BY <2>1, <2>3, <2>6 DEF Attach
  <2>7. ASSUME ClearHooks PROVE listeners' \in [Buckets -> Seq(Listeners)]
    BY <2>2, <2>7 DEF ClearHooks
  <2>8. ASSUME Detach \/ ResetSession PROVE listeners' = listeners
    BY <2>8 DEF Detach, ResetSession, registryVars
  <2> QED BY <2>4, <2>5, <2>6, <2>7, <2>8
<1>3. sessionActive' \in BOOLEAN
  BY <1>1 DEF HooksTypeOK, RegisterHook, Attach, ClearHooks, Detach, ResetSession, sessionVars
<1>4. sessionFilter' \in HookTraces \cup {AnyTrace}
  BY <1>1 DEF HooksTypeOK, RegisterHook, Attach, ClearHooks, Detach, ResetSession, sessionVars
<1>5. clears' \in Nat /\ attachments' \in Nat
  BY <1>1 DEF RegisterHook, Attach, ClearHooks, Detach, ResetSession, sessionVars, registryVars
<1>6. sessionSpans' = sessionSpans \/ sessionSpans' = <<>>
  BY DEF RegisterHook, Attach, ClearHooks, Detach, ResetSession, sessionVars
<1>7. attachedFrom' \in {attachedFrom, MaxHookSpans, Len(hookedSpans)}
  BY DEF RegisterHook, Attach, ClearHooks, Detach, ResetSession, sessionVars
<1>8. /\ Len(hookedSpans) \in Nat /\ Len(hookedSpans) <= MaxHookSpans
      /\ attachedFrom \in SpanIds \cup {0} /\ attachedFrom <= MaxHookSpans
  BY <1>1 DEF Bounded, HooksTypeOK
<1>9. attachedFrom' \in SpanIds \cup {0} /\ attachedFrom' <= MaxHookSpans
  BY <1>1, <1>7, <1>8 DEF SpanIds
<1>10. /\ sessionSpans' \in Seq(SpanIds)
       /\ \A i \in DOMAIN sessionSpans' : sessionSpans'[i] <= Len(hookedSpans)
  <2>1. CASE sessionSpans' = sessionSpans
    BY <1>1, <2>1 DEF Bounded, HooksTypeOK
  <2>2. CASE sessionSpans' = <<>>
    BY <2>2
  <2> QED BY <1>6, <2>1, <2>2
<1>11. HooksTypeOK'
  BY <1>1, <1>2, <1>3, <1>4, <1>9, <1>10 DEF HooksTypeOK, firingVars
<1> QED BY <1>1, <1>5, <1>8, <1>9, <1>10, <1>11 DEF Bounded, firingVars

LEMMA StepsKeepBounds ==
  ASSUME Bounded, OwnSpans, NEW t \in Threads, firePc[t] = "record" => firing[t] # <<>>,
         \/ \E shape \in SpanShapes : OpenHookedSpan(t, shape)
         \/ NextList(t) \/ CloseHookedSpan(t) \/ CallHook(t)
         \/ AskSession(t) \/ RecordSpan(t) \/ EmitHookedSpan(t)
  PROVE  Bounded'
<1> USE DEF Moves
<1>1. HooksTypeOK /\ MaxHookSpans \in Nat
  BY SpanHooksAssumption DEF Bounded
<1>2. UNCHANGED <<listeners, clears, sessionActive, sessionFilter, attachments, attachedFrom>>
  BY DEF OpenHookedSpan, NextList, CloseHookedSpan, CallHook, AskSession, RecordSpan, EmitHookedSpan,
         registryVars, sessionVars
<1>3. firePc' \in [Threads -> {"out", "start", "open", "end", "endAll", "record", "emit"}]
  BY <1>1 DEF HooksTypeOK, OpenHookedSpan, NextList, CloseHookedSpan, CallHook, AskSession,
              RecordSpan, EmitHookedSpan
<1>4. \/ UNCHANGED <<hookedSpans, expected>>
      \/ \E shape \in SpanShapes : OpenHookedSpan(t, shape)
  BY DEF NextList, CloseHookedSpan, CallHook, AskSession, RecordSpan, EmitHookedSpan
<1>5. firing' \in [Threads -> Seq(Listeners)]
  <2>1. ASSUME NEW q \in Seq(Listeners), firing' = [firing EXCEPT ![t] = q]
        PROVE  firing' \in [Threads -> Seq(Listeners)]
    BY <1>1, <2>1 DEF HooksTypeOK
  <2>2. UNCHANGED firing => firing' \in [Threads -> Seq(Listeners)]
    BY <1>1 DEF HooksTypeOK
  <2>3. ASSUME firing[t] # <<>>, firing' = [firing EXCEPT ![t] = Tail(@)]
        PROVE  firing' \in [Threads -> Seq(Listeners)]
    BY <2>1, <2>3, BoundedFirings
  <2>4. ASSUME NEW shape \in SpanShapes, OpenHookedSpan(t, shape)
        PROVE  firing' \in [Threads -> Seq(Listeners)]
    <3>1. shape.kind \in ShapeKinds
      BY SpanHooksAssumption DEF ShapeKinds
    <3> QED BY <2>1, <2>4, <3>1, SnapshotsAreLists DEF OpenHookedSpan
  <2>5. ASSUME NextList(t) PROVE firing' \in [Threads -> Seq(Listeners)]
    <3>1. AllEnd(t) \in Seq(Listeners)
      BY <1>1 DEF HooksTypeOK, AllEnd, Buckets
    <3> QED BY <2>1, <2>2, <2>5, <3>1 DEF NextList
  <2>6. ASSUME CloseHookedSpan(t) PROVE firing' \in [Threads -> Seq(Listeners)]
    <3>1. InSpan(t)
      BY <2>6 DEF CloseHookedSpan, InSpan
    <3>2. Snapshot(EndBuckets(Shape(t).kind)) \in Seq(Listeners)
      BY <3>1, SpanFacts, SnapshotsAreLists
    <3> QED BY <2>1, <2>6, <3>2 DEF CloseHookedSpan
  <2>7. ASSUME CallHook(t) PROVE firing' \in [Threads -> Seq(Listeners)]
    <3>1. firing' = [firing EXCEPT ![t] = Tail(@)]
      BY <2>7 DEF CallHook, AfterRaise
    <3> QED BY <2>3, <2>7, <3>1 DEF CallHook
  <2>8. ASSUME AskSession(t) PROVE firing' \in [Threads -> Seq(Listeners)]
    BY <2>2, <2>3, <2>8 DEF AskSession
  <2>9. ASSUME RecordSpan(t) PROVE firing' \in [Threads -> Seq(Listeners)]
    BY <2>3, <2>9 DEF RecordSpan
  <2>10. ASSUME EmitHookedSpan(t) PROVE firing' \in [Threads -> Seq(Listeners)]
    BY <2>2, <2>10 DEF EmitHookedSpan
  <2> QED BY <2>4, <2>5, <2>6, <2>7, <2>8, <2>9, <2>10
<1>a. inFile' \subseteq SpanIds
  <2>1. CASE EmitHookedSpan(t)
    <3>1. inFile' \subseteq inFile \cup {openSpan[t]} /\ InSpan(t)
      BY <2>1 DEF EmitHookedSpan, InSpan
    <3> QED BY <1>1, <3>1, SpanFacts DEF HooksTypeOK
  <2>2. CASE UNCHANGED inFile
    BY <1>1, <2>2 DEF HooksTypeOK
  <2> QED BY <2>1, <2>2 DEF OpenHookedSpan, NextList, CloseHookedSpan, CallHook, AskSession, RecordSpan
<1>6. ASSUME NEW shape \in SpanShapes, OpenHookedSpan(t, shape)
      PROVE  Bounded'
  <2> DEFINE s == Len(hookedSpans) + 1
  <2>1. /\ s \in SpanIds /\ Len(hookedSpans) \in Nat
        /\ hookedSpans' = Append(hookedSpans, shape) /\ hookedSpans \in Seq(SpanShapes)
        /\ openSpan' = [openSpan EXCEPT ![t] = s]
        /\ UNCHANGED <<heard, handedOn, sessionSpans>>
    <3>1. hookedSpans \in Seq(SpanShapes) /\ Len(hookedSpans) \in Nat
      BY <1>1 DEF HooksTypeOK
    <3>2. /\ s <= MaxHookSpans /\ hookedSpans' = Append(hookedSpans, shape)
          /\ openSpan' = [openSpan EXCEPT ![t] = s]
          /\ UNCHANGED <<heard, handedOn, sessionSpans>>
      BY <1>6 DEF OpenHookedSpan, sessionVars
    <3>3. s \in SpanIds
      BY <1>1, <3>1, <3>2 DEF SpanIds
    <3> QED BY <3>1, <3>2, <3>3
  <2>2. hookedSpans' \in Seq(SpanShapes) /\ Len(hookedSpans') = s
    BY <2>1
  <2>3. Hooked(Snapshot(StartBuckets(shape.kind))) \in Nat
    <3>1. shape.kind \in ShapeKinds
      BY SpanHooksAssumption DEF ShapeKinds
    <3> QED BY <3>1, SnapshotsAreLists, CopiesCount DEF Hooked
  <2>4. expected' \in [SpanIds -> [calls : Nat, clears : Nat]]
    <3>1. \A c, d \in Nat : [calls |-> c, clears |-> d] \in [calls : Nat, clears : Nat]
      OBVIOUS
    <3>2. clears \in Nat
      BY DEF Bounded
    <3> QED BY <1>1, <1>6, <2>1, <2>3, <3>1, <3>2 DEF OpenHookedSpan, HooksTypeOK
  <2>5. openSpan' \in [Threads -> 0..MaxHookSpans]
    <3>1. s \in 0..MaxHookSpans
      BY <1>1, <2>1 DEF SpanIds
    <3> QED BY <1>1, <2>1, <3>1 DEF HooksTypeOK
  <2>6. serialSpans' \in BOOLEAN
    BY <1>1, <1>6 DEF OpenHookedSpan
  <2>7. HooksTypeOK'
    BY <1>1, <1>2, <1>3, <1>5, <1>a, <2>1, <2>2, <2>4, <2>5, <2>6 DEF HooksTypeOK
  <2>8. s <= MaxHookSpans
    BY <1>1, <2>1 DEF SpanIds
  <2>9. ASSUME NEW i \in DOMAIN handedOn PROVE handedOn[i] <= s
    <3>1. handedOn[i] \in SpanIds
      BY <1>1 DEF HooksTypeOK
    <3>2. handedOn[i] <= Len(hookedSpans)
      BY DEF Bounded
    <3> QED BY <1>1, <2>1, <3>1, <3>2 DEF SpanIds
  <2>10. ASSUME NEW i \in DOMAIN sessionSpans PROVE sessionSpans[i] <= s
    <3>1. sessionSpans[i] \in SpanIds
      BY <1>1 DEF HooksTypeOK
    <3>2. sessionSpans[i] <= Len(hookedSpans)
      BY DEF Bounded
    <3> QED BY <1>1, <2>1, <3>1, <3>2 DEF SpanIds
  <2>11. \A x \in SpanIds : x > s => heard[x] = [start |-> 0, end |-> 0]
    BY <1>1, <2>1 DEF Bounded, SpanIds
  <2> QED BY <1>2, <2>1, <2>2, <2>7, <2>8, <2>9, <2>10, <2>11 DEF Bounded
<1>7. ASSUME NextList(t) \/ CloseHookedSpan(t) \/ AskSession(t)
      PROVE  Bounded'
  <2>1. UNCHANGED <<openSpan, hookedSpans, heard, expected, serialSpans, handedOn, sessionSpans>>
    BY <1>7 DEF NextList, CloseHookedSpan, AskSession, sessionVars
  <2>2. HooksTypeOK'
    BY <1>1, <1>2, <1>3, <1>5, <1>a, <2>1 DEF HooksTypeOK
  <2> QED BY <1>2, <2>1, <2>2 DEF Bounded
<1>8. ASSUME CallHook(t) PROVE Bounded'
  <2>1. /\ UNCHANGED <<openSpan, hookedSpans, expected, serialSpans, handedOn, sessionSpans>>
        /\ \/ UNCHANGED heard
           \/ /\ firePc[t] \in {"start", "end"}
              /\ \/ heard' = [heard EXCEPT ![openSpan[t]].start = @ + 1]
                 \/ heard' = [heard EXCEPT ![openSpan[t]].end = @ + 1]
    BY <1>8 DEF CallHook, sessionVars
  <2>2. firePc[t] \in {"start", "end"} => openSpan[t] \in SpanIds /\ openSpan[t] <= Len(hookedSpans)
    BY SpanFacts DEF InSpan
  <2>3. heard \in [SpanIds -> [start : Nat, end : Nat]]
    BY <1>1 DEF HooksTypeOK
  <2>4. /\ heard' \in [SpanIds -> [start : Nat, end : Nat]]
        /\ \A x \in SpanIds : x # openSpan[t] => heard'[x] = heard[x]
        /\ openSpan[t] \notin SpanIds \/ openSpan[t] > Len(hookedSpans) => heard' = heard
    <3>1. CASE UNCHANGED heard
      BY <2>3, <3>1
    <3>2. CASE heard' # heard
      <4>1. /\ openSpan[t] \in SpanIds /\ openSpan[t] <= Len(hookedSpans)
            /\ \/ heard' = [heard EXCEPT ![openSpan[t]].start = @ + 1]
               \/ heard' = [heard EXCEPT ![openSpan[t]].end = @ + 1]
        BY <2>1, <2>2, <3>2
      <4>2. ~(openSpan[t] > Len(hookedSpans))
        BY <1>1, <4>1 DEF HooksTypeOK, SpanIds
      <4>3. \A x \in SpanIds : x # openSpan[t] => heard'[x] = heard[x]
        BY <2>3, <4>1
      <4>4. heard' \in [SpanIds -> [start : Nat, end : Nat]]
        BY <2>3, <4>1
      <4> QED BY <4>1, <4>2, <4>3, <4>4
    <3> QED BY <3>1, <3>2
  <2>5. HooksTypeOK'
    BY <1>1, <1>2, <1>3, <1>5, <1>a, <2>1, <2>4 DEF HooksTypeOK
  <2>6. \A x \in SpanIds : x > Len(hookedSpans) => heard'[x] = [start |-> 0, end |-> 0]
    BY <2>4 DEF Bounded
  <2> QED BY <1>2, <2>1, <2>5, <2>6 DEF Bounded
<1>9. ASSUME RecordSpan(t) PROVE Bounded'
  <2>1. /\ UNCHANGED <<openSpan, hookedSpans, heard, expected, serialSpans, handedOn>>
        /\ sessionSpans' = Append(sessionSpans, openSpan[t]) /\ firePc[t] = "record"
    BY <1>9 DEF RecordSpan
  <2>2. openSpan[t] \in SpanIds /\ openSpan[t] <= Len(hookedSpans)
    BY <2>1, SpanFacts DEF InSpan
  <2>3. sessionSpans \in Seq(SpanIds)
    BY <1>1 DEF HooksTypeOK
  <2>4. /\ sessionSpans' \in Seq(SpanIds)
        /\ \A i \in DOMAIN sessionSpans' : sessionSpans'[i] <= Len(hookedSpans)
    BY <2>1, <2>2, <2>3 DEF Bounded
  <2>5. HooksTypeOK'
    BY <1>1, <1>2, <1>3, <1>5, <1>a, <2>1, <2>4 DEF HooksTypeOK
  <2> QED BY <1>2, <2>1, <2>4, <2>5 DEF Bounded
<1>10. ASSUME EmitHookedSpan(t) PROVE Bounded'
  <2>1. /\ UNCHANGED <<hookedSpans, heard, expected, serialSpans, sessionSpans>>
        /\ handedOn' = Append(handedOn, openSpan[t]) /\ firePc[t] = "emit"
        /\ openSpan' = [openSpan EXCEPT ![t] = 0]
    BY <1>10 DEF EmitHookedSpan, sessionVars
  <2>2. openSpan[t] \in SpanIds /\ openSpan[t] <= Len(hookedSpans)
    BY <2>1, SpanFacts DEF InSpan
  <2>3. handedOn \in Seq(SpanIds)
    BY <1>1 DEF HooksTypeOK
  <2>4. /\ handedOn' \in Seq(SpanIds)
        /\ \A i \in DOMAIN handedOn' : handedOn'[i] <= Len(hookedSpans)
    BY <2>1, <2>2, <2>3 DEF Bounded
  <2>5. openSpan' \in [Threads -> 0..MaxHookSpans]
    BY <1>1, <2>1 DEF HooksTypeOK
  <2>6. HooksTypeOK'
    BY <1>1, <1>2, <1>3, <1>5, <1>a, <2>1, <2>4, <2>5 DEF HooksTypeOK
  <2> QED BY <1>2, <2>1, <2>4, <2>6 DEF Bounded
<1> QED BY <1>6, <1>7, <1>8, <1>9, <1>10

LEMMA NewSpanIsNew ==
  ASSUME Bounded
  PROVE  /\ Len(hookedSpans) \in Nat
         /\ ~Finished(Len(hookedSpans) + 1) /\ (Len(hookedSpans) + 1) \notin ToSet(sessionSpans)
<1>1. Len(hookedSpans) \in Nat /\ handedOn \in Seq(SpanIds) /\ sessionSpans \in Seq(SpanIds)
  BY DEF Bounded, HooksTypeOK
<1>2. ASSUME NEW i \in DOMAIN handedOn PROVE handedOn[i] # Len(hookedSpans) + 1
  <2>1. handedOn[i] \in SpanIds /\ handedOn[i] <= Len(hookedSpans)
    BY <1>1 DEF Bounded
  <2> QED BY <1>1, <2>1 DEF SpanIds
<1>3. ASSUME NEW i \in DOMAIN sessionSpans PROVE sessionSpans[i] # Len(hookedSpans) + 1
  <2>1. sessionSpans[i] \in SpanIds /\ sessionSpans[i] <= Len(hookedSpans)
    BY <1>1 DEF Bounded
  <2> QED BY <1>1, <2>1 DEF SpanIds
<1> QED BY <1>1, <1>2, <1>3 DEF Finished, ToSet

LEMMA ToSetAdds ==
  ASSUME NEW S, NEW seq \in Seq(S), NEW y \in S
  PROVE  \A x : x \in ToSet(Append(seq, y)) <=> x \in ToSet(seq) \/ x = y
<1>1. /\ Len(seq) \in Nat /\ DOMAIN seq = 1..Len(seq) /\ DOMAIN Append(seq, y) = 1..(Len(seq) + 1)
      /\ Append(seq, y)[Len(seq) + 1] = y /\ \A i \in 1..Len(seq) : Append(seq, y)[i] = seq[i]
  OBVIOUS
<1> QED BY <1>1 DEF ToSet

LEMMA SpansStayOwn ==
  ASSUME Bounded, OwnSpans, NEW t \in Threads,
         \/ \E shape \in SpanShapes : OpenHookedSpan(t, shape)
         \/ NextList(t) \/ CloseHookedSpan(t) \/ CallHook(t)
         \/ AskSession(t) \/ RecordSpan(t) \/ EmitHookedSpan(t)
  PROVE  OwnSpans'
<1> USE DEF Moves, InSpan
<1>1. HooksTypeOK
  BY DEF Bounded
<1>2. ASSUME NEW shape \in SpanShapes, OpenHookedSpan(t, shape)
      PROVE  OwnSpans'
  <2> DEFINE s == Len(hookedSpans) + 1
  <2>1. /\ Len(hookedSpans) \in Nat /\ Len(hookedSpans') = s /\ ~Finished(s) /\ handedOn' = handedOn
        /\ openSpan' = [openSpan EXCEPT ![t] = s] /\ firePc' = [firePc EXCEPT ![t] = "start"]
    BY <1>1, <1>2, NewSpanIsNew DEF OpenHookedSpan, HooksTypeOK
  <2>2. openSpan'[t] = s /\ \A u \in Threads : u # t => openSpan'[u] = openSpan[u] /\ firePc'[u] = firePc[u]
    BY <1>1, <2>1 DEF HooksTypeOK
  <2>3. \A u \in Threads : u # t /\ InSpan(u) => openSpan[u] \in 1..s /\ openSpan[u] # s
    BY <2>1 DEF OwnSpans
  <2>4. s \in 1..s
    BY <2>1
  <2>5. \A x : Finished(x)' <=> Finished(x)
    BY <2>1 DEF Finished
  <2> HIDE DEF s
  <2> QED BY <2>1, <2>2, <2>3, <2>4, <2>5 DEF OwnSpans
<1>3. ASSUME NextList(t) \/ CloseHookedSpan(t) \/ CallHook(t) \/ AskSession(t) \/ RecordSpan(t)
      PROVE  OwnSpans'
  <2>1. UNCHANGED <<openSpan, hookedSpans, handedOn>>
    BY <1>3 DEF NextList, CloseHookedSpan, CallHook, AskSession, RecordSpan
  <2>2. \A u \in Threads : firePc'[u] # "out" => firePc[u] # "out"
    BY <1>1, <1>3 DEF NextList, CloseHookedSpan, CallHook, AskSession, RecordSpan, HooksTypeOK
  <2> QED BY <2>1, <2>2 DEF OwnSpans, Finished
<1>4. ASSUME EmitHookedSpan(t) PROVE OwnSpans'
  <2>1. /\ hookedSpans' = hookedSpans /\ handedOn' = Append(handedOn, openSpan[t])
        /\ firePc[t] = "emit" /\ firePc' = [firePc EXCEPT ![t] = "out"]
        /\ openSpan' = [openSpan EXCEPT ![t] = 0]
    BY <1>4 DEF EmitHookedSpan
  <2>2. /\ firePc'[t] = "out"
        /\ \A u \in Threads : u # t => openSpan'[u] = openSpan[u] /\ firePc'[u] = firePc[u]
    BY <1>1, <2>1 DEF HooksTypeOK
  <2>3. openSpan[t] \in SpanIds /\ handedOn \in Seq(SpanIds)
    BY <1>1, <2>1, SpanFacts DEF HooksTypeOK
  <2>4. \A x : Finished(x)' <=> Finished(x) \/ x = openSpan[t]
    BY <2>1, <2>3, ToSetAdds DEF Finished
  <2>5. \A u \in Threads : u # t /\ InSpan(u) => openSpan[u] # openSpan[t]
    BY <2>1 DEF OwnSpans
  <2> QED BY <2>1, <2>2, <2>4, <2>5 DEF OwnSpans
<1> QED BY <1>2, <1>3, <1>4

(* What the other threads hear and owe does not change with a step.        *)
LEMMA HearsKept ==
  ASSUME NEW u, Hears(u), NEW s, s = openSpan[u],
         firePc'[u] = firePc[u], firing'[u] = firing[u], openSpan'[u] = s,
         hookedSpans'[s] = hookedSpans[s], heard'[s] = heard[s], expected'[s] = expected[s],
         clears' = clears, hookedSpans[s].kind \in ShapeKinds, expected[s].calls \in Nat,
         \A b \in Buckets : /\ Hooked(listeners[b]) \in Nat /\ Hooked(listeners'[b]) \in Nat
                            /\ Hooked(listeners'[b]) >= Hooked(listeners[b])
  PROVE  Hears(u)'
<1>1. Shape(u) = hookedSpans[s] /\ Shape(u)' = hookedSpans[s]
  BY DEF Shape
<1> DEFINE buckets == EndBuckets(hookedSpans[s].kind)
<1>2. /\ Hooked(Snapshot(buckets)) \in Nat /\ Hooked(Snapshot(buckets)') \in Nat
      /\ Hooked(Snapshot(buckets)') >= Hooked(Snapshot(buckets))
  <2>1. CASE buckets = {}
    <3>1. Snapshot(buckets) = <<>> /\ Snapshot(buckets)' = <<>>
      BY <2>1, SnapshotOfOne
    <3> QED BY <3>1, CopiesOfNone DEF Hooked
  <2>2. ASSUME NEW b \in Buckets, buckets = {b}
        PROVE  /\ Hooked(Snapshot(buckets)) \in Nat /\ Hooked(Snapshot(buckets)') \in Nat
               /\ Hooked(Snapshot(buckets)') >= Hooked(Snapshot(buckets))
    <3>1. Snapshot(buckets) = listeners[b] /\ Snapshot(buckets)' = listeners'[b]
      BY <2>2, SnapshotOfOne
    <3> QED BY <3>1
  <2> QED BY <2>1, <2>2, BucketsOfKind
<1>3. Hooked(Snapshot(EndBuckets(Shape(u).kind)))' = Hooked(Snapshot(buckets)')
  BY <1>1 DEF Hooked, Copies
<1> HIDE DEF buckets
<1> DEFINE kept == expected[s].clears = clears /\ hookedSpans[s].kind # "agent"
<1>4. Hears(u)' <=>
        /\ firePc[u] = "start" => heard[s].start + Hooked(firing[u]) = expected[s].calls
        /\ firePc[u] \in {"open", "end", "endAll", "record", "emit"} => heard[s].start = expected[s].calls
        /\ kept /\ firePc[u] \in {"start", "open"} => Hooked(Snapshot(buckets)') >= expected[s].calls
        /\ kept /\ firePc[u] = "end" => heard[s].end + Hooked(firing[u]) >= expected[s].calls
        /\ kept /\ firePc[u] \in {"endAll", "record", "emit"} => heard[s].end >= expected[s].calls
  BY <1>1, <1>3 DEF Hears, Hooked, Copies
<1>5. /\ firePc[u] = "start" => heard[s].start + Hooked(firing[u]) = expected[s].calls
      /\ firePc[u] \in {"open", "end", "endAll", "record", "emit"} => heard[s].start = expected[s].calls
      /\ kept /\ firePc[u] \in {"start", "open"} => Hooked(Snapshot(buckets)) >= expected[s].calls
      /\ kept /\ firePc[u] = "end" => heard[s].end + Hooked(firing[u]) >= expected[s].calls
      /\ kept /\ firePc[u] \in {"endAll", "record", "emit"} => heard[s].end >= expected[s].calls
  BY <1>1 DEF Hears, buckets
<1> HIDE DEF kept
<1> QED BY <1>2, <1>4, <1>5

LEMMA HookedIsCounted ==
  ASSUME NEW seq \in Seq(Listeners)
  PROVE  /\ Hooked(seq) \in Nat
         /\ seq # <<>> /\ Head(seq) = "hook" => Hooked(seq) = Hooked(Tail(seq)) + 1
         /\ seq # <<>> /\ Head(seq) # "hook" => Hooked(seq) = Hooked(Tail(seq))
         /\ \A l \in Listeners : Hooked(Append(seq, l)) >= Hooked(seq)
<1>1. Hooked(seq) \in Nat
  BY CopiesCount DEF Hooked
<1>2. ASSUME seq # <<>> PROVE Hooked(seq) = Hooked(Tail(seq)) + (IF Head(seq) = "hook" THEN 1 ELSE 0)
  BY <1>2, CopiesOfTail DEF Hooked
<1>3. ASSUME seq # <<>> PROVE Hooked(Tail(seq)) \in Nat
  <2>1. Tail(seq) \in Seq(Listeners)
    BY <1>3
  <2> QED BY <2>1, CopiesCount DEF Hooked
<1>4. \A l \in Listeners : Hooked(Append(seq, l)) = Hooked(seq) + (IF l = "hook" THEN 1 ELSE 0)
  BY CopiesOfAppend DEF Hooked
<1> QED BY <1>1, <1>2, <1>3, <1>4

LEMMA CallsKeepHearing ==
  ASSUME Bounded, OwnSpans, HearingInv, Op,
         \/ \E b \in Buckets : RegisterHook(b)
         \/ \E trace \in HookTraces \cup {AnyTrace} : Attach(trace)
         \/ ClearHooks \/ Detach \/ ResetSession
  PROVE  HearingInv'
<1>1. /\ HooksTypeOK /\ clears \in Nat /\ UNCHANGED firingVars /\ listeners \in [Buckets -> Seq(Listeners)]
      /\ expected \in [SpanIds -> [calls : Nat, clears : Nat]]
  BY DEF Bounded, Op, HooksTypeOK
<1>2. UNCHANGED <<firePc, firing, openSpan, hookedSpans, heard, expected, handedOn>>
  BY <1>1 DEF firingVars
<1>3. ASSUME NEW b \in Buckets PROVE Hooked(listeners[b]) \in Nat
  BY <1>1, HookedIsCounted
<1>4. CASE ClearHooks
  <2>1. clears' = clears + 1
    BY <1>4 DEF ClearHooks
  <2>2. \A s \in SpanIds : expected[s].clears \in Nat /\ expected[s].clears <= clears
    BY <1>1 DEF HearingInv
  <2>3. \A s \in SpanIds : expected[s].clears # clears' /\ expected[s].clears <= clears'
    BY <1>1, <2>1, <2>2
  <2>4. ASSUME NEW t \in Threads, InSpan(t)' PROVE Hears(t)'
    <3>1. InSpan(t) /\ openSpan[t] \in SpanIds
      BY <1>2, <2>4, SpanFacts DEF InSpan
    <3>2. Hears(t)
      BY <3>1 DEF HearingInv
    <3>3. expected'[openSpan'[t]].clears # clears'
      BY <1>2, <2>3, <3>1
    <3> QED BY <1>2, <3>2, <3>3 DEF Hears, Hooked, Copies
  <2>5. HookHearsBothEnds'
    <3>1. \A s \in 1..Len(hookedSpans) : s \in SpanIds
      BY SpanHooksAssumption DEF Bounded, HooksTypeOK, SpanIds
    <3>2. HookHearsBothEnds
      BY DEF HearingInv
    <3> QED BY <1>2, <2>3, <3>1, <3>2 DEF HookHearsBothEnds, Finished
  <2> QED BY <1>2, <2>3, <2>4, <2>5 DEF HearingInv
<1>5. CASE ~ClearHooks
  <2>1. clears' = clears
    BY <1>5 DEF RegisterHook, Attach, Detach, ResetSession, registryVars
  <2>2. ASSUME NEW b \in Buckets
        PROVE  Hooked(listeners'[b]) \in Nat /\ Hooked(listeners'[b]) >= Hooked(listeners[b])
    <3>1. \/ listeners' = listeners
          \/ \E c \in Buckets, l \in Listeners : listeners' = [listeners EXCEPT ![c] = Append(@, l)]
      BY <1>5 DEF RegisterHook, Attach, Detach, ResetSession, registryVars, Buckets, Listeners
    <3>2. \/ listeners'[b] = listeners[b]
          \/ \E l \in Listeners : listeners'[b] = Append(listeners[b], l)
      BY <1>1, <3>1
    <3>3. \A l \in Listeners : /\ Hooked(Append(listeners[b], l)) \in Nat
                               /\ Hooked(Append(listeners[b], l)) >= Hooked(listeners[b])
      <4>1. listeners[b] \in Seq(Listeners) /\ \A l \in Listeners : Append(listeners[b], l) \in Seq(Listeners)
        BY <1>1
      <4> QED BY <4>1, HookedIsCounted
    <3>4. ASSUME listeners'[b] = listeners[b]
          PROVE  Hooked(listeners'[b]) \in Nat /\ Hooked(listeners'[b]) >= Hooked(listeners[b])
      BY <1>3, <3>4
    <3>5. ASSUME NEW l \in Listeners, listeners'[b] = Append(listeners[b], l)
          PROVE  Hooked(listeners'[b]) \in Nat /\ Hooked(listeners'[b]) >= Hooked(listeners[b])
      BY <3>3, <3>5
    <3> QED BY <3>2, <3>4, <3>5
  <2>3. ASSUME NEW t \in Threads, InSpan(t)' PROVE Hears(t)'
    <3>1. InSpan(t) /\ openSpan[t] \in SpanIds /\ hookedSpans[openSpan[t]].kind \in ShapeKinds
      BY <1>2, <2>3, SpanFacts DEF InSpan
    <3>2. Hears(t) /\ expected[openSpan[t]].calls \in Nat
      BY <1>1, <3>1 DEF HearingInv
    <3> QED BY <1>2, <1>3, <2>1, <2>2, <3>1, <3>2, HearsKept
  <2>4. HookHearsBothEnds'
    BY <1>2, <2>1 DEF HearingInv, HookHearsBothEnds, Finished
  <2> QED BY <1>2, <2>1, <2>3, <2>4 DEF HearingInv
<1> QED BY <1>4, <1>5

(* A step of a thread: the others hear and owe what they did.              *)
LEMMA OthersHear ==
  ASSUME Bounded, OwnSpans, HearingInv, NEW t \in Threads, NEW u \in Threads, u # t, InSpan(u),
         \/ \E shape \in SpanShapes : OpenHookedSpan(t, shape)
         \/ NextList(t) \/ CloseHookedSpan(t) \/ CallHook(t)
         \/ AskSession(t) \/ RecordSpan(t) \/ EmitHookedSpan(t)
  PROVE  Hears(u)'
<1> DEFINE s == openSpan[u]
<1>1. /\ HooksTypeOK /\ s \in SpanIds /\ s \in 1..Len(hookedSpans) /\ hookedSpans[s].kind \in ShapeKinds
      /\ expected[s].calls \in Nat /\ Hears(u)
  BY SpanFacts DEF Bounded, HooksTypeOK, HearingInv
<1>2. UNCHANGED <<listeners, clears>>
  BY DEF OpenHookedSpan, NextList, CloseHookedSpan, CallHook, AskSession, RecordSpan, EmitHookedSpan,
         registryVars
<1>3. firePc'[u] = firePc[u]
  BY <1>1 DEF HooksTypeOK, Moves, OpenHookedSpan, NextList, CloseHookedSpan, CallHook, AskSession,
              RecordSpan, EmitHookedSpan
<1>4. firing'[u] = firing[u]
  BY <1>1 DEF HooksTypeOK, Moves, OpenHookedSpan, NextList, CloseHookedSpan, CallHook, AskSession,
              RecordSpan, EmitHookedSpan
<1>5. openSpan'[u] = s
  BY <1>1 DEF HooksTypeOK, Moves, OpenHookedSpan, NextList, CloseHookedSpan, CallHook, AskSession,
              RecordSpan, EmitHookedSpan
<1>6. hookedSpans'[s] = hookedSpans[s] /\ expected'[s] = expected[s]
  <2>1. CASE UNCHANGED <<hookedSpans, expected>>
    BY <2>1
  <2>2. ASSUME NEW shape \in SpanShapes, OpenHookedSpan(t, shape)
        PROVE  hookedSpans'[s] = hookedSpans[s] /\ expected'[s] = expected[s]
    <3>1. s # Len(hookedSpans) + 1 /\ hookedSpans \in Seq(SpanShapes)
      BY <1>1 DEF HooksTypeOK
    <3> QED BY <1>1, <2>2, <3>1 DEF OpenHookedSpan, HooksTypeOK
  <2> QED BY <2>1, <2>2 DEF NextList, CloseHookedSpan, CallHook, AskSession, RecordSpan, EmitHookedSpan
<1>7. heard'[s] = heard[s]
  <2>1. CASE UNCHANGED heard
    BY <2>1
  <2>2. CASE CallHook(t)
    <3>1. firePc[t] \in {"start", "end"} => openSpan[t] # s
      BY DEF OwnSpans, InSpan
    <3> QED BY <1>1, <2>2, <3>1 DEF CallHook, HooksTypeOK
  <2> QED BY <2>1, <2>2 DEF OpenHookedSpan, NextList, CloseHookedSpan, AskSession, RecordSpan,
                            EmitHookedSpan
<1>8. \A b \in Buckets : Hooked(listeners[b]) \in Nat
  BY <1>1, HookedIsCounted DEF HooksTypeOK
<1>9. \A b \in Buckets : /\ Hooked(listeners[b]) \in Nat /\ Hooked(listeners'[b]) \in Nat
                         /\ Hooked(listeners'[b]) >= Hooked(listeners[b])
  BY <1>2, <1>8
<1> HIDE DEF s
<1> QED BY <1>1, <1>2, <1>3, <1>4, <1>5, <1>6, <1>7, <1>9, HearsKept DEF s

(* A thread that makes a step still hears what it is owed.                 *)
LEMMA StepHears ==
  ASSUME Bounded, OwnSpans, HearingInv, NEW t \in Threads, InSpan(t),
         \/ NextList(t) \/ CloseHookedSpan(t) \/ CallHook(t) \/ AskSession(t) \/ RecordSpan(t)
  PROVE  Hears(t)'
<1> DEFINE s == openSpan[t]
           kept == expected[s].clears = clears /\ Shape(t).kind # "agent"
<1>1. /\ s \in SpanIds /\ Shape(t).kind \in ShapeKinds /\ Hears(t) /\ HooksTypeOK
      /\ firing[t] \in Seq(Listeners) /\ heard[s] \in [start : Nat, end : Nat]
      /\ expected[s].calls \in Nat
  BY SpanFacts DEF HearingInv, Bounded, HooksTypeOK
<1>2. UNCHANGED <<listeners, clears, openSpan, hookedSpans, expected>>
  BY DEF NextList, CloseHookedSpan, CallHook, AskSession, RecordSpan, registryVars
<1>3. Shape(t)' = Shape(t) /\ openSpan'[t] = s /\ \A b : Snapshot(b)' = Snapshot(b)
  BY <1>2 DEF Shape, Snapshot
<1>4. /\ firePc[t] = "start" => heard[s].start + Hooked(firing[t]) = expected[s].calls
      /\ firePc[t] \in {"open", "end", "endAll", "record", "emit"} => heard[s].start = expected[s].calls
      /\ kept /\ firePc[t] \in {"start", "open"} =>
           Hooked(Snapshot(EndBuckets(Shape(t).kind))) >= expected[s].calls
      /\ kept /\ firePc[t] = "end" => heard[s].end + Hooked(firing[t]) >= expected[s].calls
      /\ kept /\ firePc[t] \in {"endAll", "record", "emit"} => heard[s].end >= expected[s].calls
  BY <1>1 DEF Hears
<1>5. Hears(t)' <=>
        /\ firePc'[t] = "start" => heard'[s].start + Hooked(firing'[t]) = expected[s].calls
        /\ firePc'[t] \in {"open", "end", "endAll", "record", "emit"} => heard'[s].start = expected[s].calls
        /\ kept /\ firePc'[t] \in {"start", "open"} =>
             Hooked(Snapshot(EndBuckets(Shape(t).kind))) >= expected[s].calls
        /\ kept /\ firePc'[t] = "end" => heard'[s].end + Hooked(firing'[t]) >= expected[s].calls
        /\ kept /\ firePc'[t] \in {"endAll", "record", "emit"} => heard'[s].end >= expected[s].calls
  BY <1>2, <1>3 DEF Hears, Hooked, Copies
<1> HIDE DEF s, kept
<1>6. ASSUME NEW a, NEW b, Moves(firePc, t, a, b) PROVE firePc[t] = a /\ firePc'[t] = b
  BY <1>1, <1>6 DEF Moves, HooksTypeOK
<1>7. CASE NextList(t)
  <2>1. firing[t] = <<>> /\ heard' = heard /\ Hooked(firing[t]) = 0
    BY <1>7, CopiesOfNone DEF NextList, Hooked
  <2>2. \/ firePc[t] = "start" /\ firePc'[t] = "open"
        \/ firePc[t] = "end" /\ firePc'[t] = "endAll"
        \/ firePc[t] = "endAll" /\ firePc'[t] = "emit"
    BY <1>6, <1>7 DEF NextList
  <2> QED BY <1>1, <1>4, <1>5, <2>1, <2>2
<1>8. CASE CloseHookedSpan(t)
  <2>1. /\ firePc[t] = "open" /\ firePc'[t] = "end" /\ heard' = heard
        /\ firing'[t] = Snapshot(EndBuckets(Shape(t).kind))
    BY <1>1, <1>6, <1>8 DEF CloseHookedSpan, HooksTypeOK
  <2>2. Hooked(firing'[t]) \in Nat
    BY <1>1, <2>1, SnapshotsAreLists, HookedIsCounted
  <2> QED BY <1>1, <1>4, <1>5, <2>1, <2>2
<1>9. CASE CallHook(t)
  <2>1. firing'[t] = Tail(firing[t]) /\ firePc' = firePc
    BY <1>1, <1>9 DEF CallHook, AfterRaise, HooksTypeOK
  <2>2. Hooked(firing[t]) = Hooked(firing'[t]) + 1 /\ Hooked(firing'[t]) \in Nat
    <3>1. Tail(firing[t]) \in Seq(Listeners)
      BY <1>1, <1>9 DEF CallHook
    <3> QED BY <1>1, <1>9, <2>1, <3>1, HookedIsCounted DEF CallHook
  <2>3. /\ heard'[s].start = heard[s].start + (IF firePc[t] = "start" THEN 1 ELSE 0)
        /\ heard'[s].end = heard[s].end + (IF firePc[t] = "end" THEN 1 ELSE 0)
    BY <1>1, <1>9 DEF CallHook, HooksTypeOK, s
  <2>4. heard[s].start \in Nat /\ heard[s].end \in Nat
    BY <1>1
  <2>5. CASE firePc[t] = "start"
    <3>1. heard'[s].start = heard[s].start + 1
          /\ heard[s].start + Hooked(firing[t]) = expected[s].calls
      BY <1>4, <2>3, <2>5
    <3>2. heard'[s].start + Hooked(firing'[t]) = expected[s].calls
      BY <2>2, <2>4, <3>1
    <3> QED BY <1>4, <1>5, <2>1, <2>5, <3>2
  <2>6. CASE firePc[t] = "end"
    BY <1>1, <1>4, <1>5, <2>1, <2>2, <2>3, <2>4, <2>6
  <2>7. CASE firePc[t] \notin {"start", "end"}
    <3>1. heard'[s].start = heard[s].start /\ heard'[s].end = heard[s].end
      BY <2>3, <2>4, <2>7
    <3> QED BY <1>4, <1>5, <2>1, <2>7, <3>1
  <2> QED BY <2>5, <2>6, <2>7
<1>10. CASE AskSession(t)
  <2>1. firePc[t] = "endAll" /\ firePc'[t] \in {"endAll", "record"} /\ heard' = heard
    BY <1>1, <1>10 DEF AskSession, HooksTypeOK
  <2> QED BY <1>4, <1>5, <2>1
<1>11. CASE RecordSpan(t)
  <2>1. firePc[t] = "record" /\ firePc'[t] = "endAll" /\ heard' = heard
    BY <1>6, <1>11 DEF RecordSpan
  <2> QED BY <1>4, <1>5, <2>1
<1> QED BY <1>7, <1>8, <1>9, <1>10, <1>11

LEMMA OpenedHears ==
  ASSUME Bounded, OwnSpans, NEW t \in Threads, NEW shape \in SpanShapes, OpenHookedSpan(t, shape)
  PROVE  Hears(t)'
<1> DEFINE s == Len(hookedSpans) + 1
           calls == Hooked(Snapshot(StartBuckets(shape.kind)))
<1>1. /\ HooksTypeOK /\ shape.kind \in ShapeKinds /\ Len(hookedSpans) \in Nat /\ s \in SpanIds
      /\ hookedSpans \in Seq(SpanShapes)
  <2>1. HooksTypeOK /\ hookedSpans \in Seq(SpanShapes) /\ shape.kind \in ShapeKinds
    BY SpanHooksAssumption DEF Bounded, HooksTypeOK, ShapeKinds
  <2>2. Len(hookedSpans) \in Nat /\ s <= MaxHookSpans /\ MaxHookSpans \in Nat
    BY <2>1, SpanHooksAssumption DEF OpenHookedSpan
  <2>3. s \in SpanIds
    BY <2>2 DEF SpanIds
  <2> QED BY <2>1, <2>2, <2>3
<1>2. /\ openSpan'[t] = s /\ hookedSpans'[s] = shape /\ firePc'[t] = "start"
      /\ firing'[t] = Snapshot(StartBuckets(shape.kind))
      /\ expected'[s] = [calls |-> calls, clears |-> clears]
      /\ UNCHANGED <<listeners, clears, heard>>
  BY <1>1 DEF OpenHookedSpan, HooksTypeOK, registryVars
<1>3. heard[s].start = 0
  <2>1. s > Len(hookedSpans)
    BY <1>1
  <2>2. heard[s] = [start |-> 0, end |-> 0]
    BY <1>1, <2>1 DEF Bounded
  <2> QED BY <2>2
<1>4. calls \in Nat
  BY <1>1, SnapshotsAreLists, HookedIsCounted
<1>5. shape.kind # "agent" => Hooked(Snapshot(EndBuckets(shape.kind))) = calls
  BY <1>1, BucketsOfKind
<1>6. Shape(t)' = shape /\ \A b : Snapshot(b)' = Snapshot(b)
  BY <1>2 DEF Shape, Snapshot
<1> HIDE DEF calls, s
<1>7. Hears(t)' <=>
        /\ heard[s].start + Hooked(firing'[t]) = calls
        /\ shape.kind # "agent" => Hooked(Snapshot(EndBuckets(shape.kind))) >= calls
  <2>1. /\ expected'[openSpan'[t]].calls = calls /\ heard'[openSpan'[t]].start = heard[s].start
        /\ Shape(t)' = shape
    BY <1>2, <1>6
  <2>2. Hooked(firing[t])' = Hooked(firing'[t])
    BY DEF Hooked, Copies
  <2>3. Hooked(Snapshot(EndBuckets(Shape(t).kind)))' = Hooked(Snapshot(EndBuckets(shape.kind)))
    BY <1>6 DEF Hooked, Copies
  <2> QED BY <1>2, <2>1, <2>2, <2>3 DEF Hears
<1>8. Hooked(firing'[t]) = calls
  BY <1>2 DEF calls
<1> QED BY <1>3, <1>4, <1>5, <1>7, <1>8

LEMMA StepsKeepHearing ==
  ASSUME Bounded, OwnSpans, HearingInv, NEW t \in Threads,
         \/ \E shape \in SpanShapes : OpenHookedSpan(t, shape)
         \/ NextList(t) \/ CloseHookedSpan(t) \/ CallHook(t)
         \/ AskSession(t) \/ RecordSpan(t) \/ EmitHookedSpan(t)
  PROVE  HearingInv'
<1>1. /\ HooksTypeOK /\ clears' = clears /\ clears \in Nat /\ Len(hookedSpans) \in Nat
      /\ MaxHookSpans \in Nat /\ Len(hookedSpans) <= MaxHookSpans /\ hookedSpans \in Seq(SpanShapes)
  <2>1. clears' = clears
    BY DEF OpenHookedSpan, NextList, CloseHookedSpan, CallHook, AskSession, RecordSpan,
           EmitHookedSpan, registryVars
  <2>2. HooksTypeOK /\ clears \in Nat /\ Len(hookedSpans) <= MaxHookSpans /\ MaxHookSpans \in Nat
    BY SpanHooksAssumption DEF Bounded
  <2>3. hookedSpans \in Seq(SpanShapes) /\ Len(hookedSpans) \in Nat
    BY <2>2 DEF HooksTypeOK
  <2> QED BY <2>1, <2>2, <2>3
<1>2. ASSUME NEW s \in SpanIds PROVE expected'[s].clears <= clears
  <2>1. CASE UNCHANGED expected
    BY <2>1 DEF HearingInv
  <2>2. ASSUME NEW shape \in SpanShapes, OpenHookedSpan(t, shape) PROVE expected'[s].clears <= clears
    <3>1. expected'[s] = expected[s] \/ expected'[s].clears = clears
      BY <1>1, <2>2 DEF OpenHookedSpan, HooksTypeOK
    <3> QED BY <1>1, <3>1 DEF HearingInv
  <2> QED BY <2>1, <2>2 DEF NextList, CloseHookedSpan, CallHook, AskSession, RecordSpan, EmitHookedSpan
<1>3. ASSUME NEW u \in Threads, InSpan(u)' PROVE Hears(u)'
  <2>1. CASE u # t
    <3>1. firePc'[u] = firePc[u]
      BY <1>1, <2>1 DEF HooksTypeOK, Moves, OpenHookedSpan, NextList, CloseHookedSpan, CallHook,
                         AskSession, RecordSpan, EmitHookedSpan
    <3>2. InSpan(u)
      BY <1>3, <3>1 DEF InSpan
    <3> QED BY <2>1, <3>2, OthersHear
  <2>2. CASE u = t
    <3>1. ~EmitHookedSpan(t)
      BY <1>1, <1>3, <2>2 DEF EmitHookedSpan, Moves, InSpan, HooksTypeOK
    <3>2. \/ \E shape \in SpanShapes : OpenHookedSpan(t, shape)
          \/ InSpan(t) /\ (NextList(t) \/ CloseHookedSpan(t) \/ CallHook(t) \/ AskSession(t) \/ RecordSpan(t))
      BY <1>1, <1>3, <2>2, <3>1 DEF InSpan, CallHook, NextList, CloseHookedSpan, AskSession, RecordSpan, Moves
    <3> QED BY <2>2, <3>2, OpenedHears, StepHears
  <2> QED BY <2>1, <2>2
<1>4. ASSUME NEW s \in 1..Len(hookedSpans'), Finished(s)'
      PROVE  /\ heard'[s].start = expected'[s].calls
             /\ expected'[s].clears = clears => heard'[s].end >=
                  (IF hookedSpans'[s].kind = "agent" THEN 0 ELSE heard'[s].start)
  <2>1. ASSUME NEW shape \in SpanShapes, OpenHookedSpan(t, shape)
        PROVE  /\ s \in 1..Len(hookedSpans) /\ Finished(s) /\ hookedSpans'[s] = hookedSpans[s]
               /\ heard'[s] = heard[s] /\ expected'[s] = expected[s]
    <3>1. Finished(s) /\ heard' = heard /\ hookedSpans' = Append(hookedSpans, shape)
      BY <1>4, <2>1 DEF OpenHookedSpan, Finished
    <3>2. s # Len(hookedSpans) + 1
      BY <3>1, NewSpanIsNew
    <3>3. s \in 1..Len(hookedSpans) /\ hookedSpans'[s] = hookedSpans[s]
      BY <1>1, <1>4, <3>1, <3>2
    <3>4. expected'[s] = expected[s]
      BY <1>1, <2>1, <3>2, <3>3 DEF OpenHookedSpan, HooksTypeOK, SpanIds
    <3> QED BY <3>1, <3>3, <3>4
  <2>2. ASSUME NextList(t) \/ CloseHookedSpan(t) \/ CallHook(t) \/ AskSession(t) \/ RecordSpan(t)
        PROVE  /\ s \in 1..Len(hookedSpans) /\ Finished(s) /\ hookedSpans'[s] = hookedSpans[s]
               /\ heard'[s] = heard[s] /\ expected'[s] = expected[s]
    <3>1. UNCHANGED <<hookedSpans, handedOn, expected>>
      BY <2>2 DEF NextList, CloseHookedSpan, CallHook, AskSession, RecordSpan
    <3>2. s \in 1..Len(hookedSpans) /\ Finished(s) /\ s \in SpanIds
      BY <1>1, <1>4, <3>1 DEF Finished, SpanIds
    <3>3. firePc[t] \in {"start", "end"} => openSpan[t] # s
      BY <3>2 DEF OwnSpans, InSpan
    <3>4. heard'[s] = heard[s]
      BY <1>1, <2>2, <3>2, <3>3 DEF NextList, CloseHookedSpan, CallHook, AskSession, RecordSpan, HooksTypeOK
    <3> QED BY <3>1, <3>2, <3>4
  <2>3. CASE EmitHookedSpan(t)
    <3>1. /\ UNCHANGED <<hookedSpans, heard, expected>> /\ firePc[t] = "emit"
          /\ handedOn' = Append(handedOn, openSpan[t])
      BY <2>3 DEF EmitHookedSpan, Moves
    <3>2. InSpan(t) /\ openSpan[t] \in SpanIds /\ handedOn \in Seq(SpanIds)
      BY <1>1, <3>1, SpanFacts DEF InSpan, HooksTypeOK
    <3>3. Finished(s) \/ s = openSpan[t]
      BY <1>4, <3>1, <3>2, ToSetAdds DEF Finished
    <3>4. CASE Finished(s)
      BY <1>4, <3>1, <3>4 DEF HearingInv, HookHearsBothEnds
    <3>5. CASE s = openSpan[t]
      <4>1. Hears(t) /\ Shape(t) = hookedSpans[s]
        BY <3>2, <3>5 DEF HearingInv, Shape
      <4>2. heard[s].start = expected[s].calls
            /\ (expected[s].clears = clears /\ hookedSpans[s].kind # "agent" => heard[s].end >= expected[s].calls)
        BY <3>1, <3>5, <4>1 DEF Hears
      <4>3. heard[s].end \in Nat
        BY <1>1, <3>2, <3>5 DEF HooksTypeOK
      <4> QED BY <3>1, <4>2, <4>3
    <3> QED BY <3>3, <3>4, <3>5
  <2>4. ASSUME s \in 1..Len(hookedSpans), Finished(s), hookedSpans'[s] = hookedSpans[s],
               heard'[s] = heard[s], expected'[s] = expected[s]
        PROVE  /\ heard'[s].start = expected'[s].calls
               /\ expected'[s].clears = clears => heard'[s].end >=
                    (IF hookedSpans'[s].kind = "agent" THEN 0 ELSE heard'[s].start)
    BY <2>4 DEF HearingInv, HookHearsBothEnds
  <2> QED BY <2>1, <2>2, <2>3, <2>4
<1>5. HookHearsBothEnds'
  BY <1>1, <1>4 DEF HookHearsBothEnds
<1> QED BY <1>1, <1>2, <1>3, <1>5 DEF HearingInv

LEMMA SessionsAreCounted ==
  ASSUME NEW seq \in Seq(Listeners)
  PROVE  /\ Sessions(seq) \in Nat
         /\ seq # <<>> /\ Head(seq) = "session" => Sessions(seq) = Sessions(Tail(seq)) + 1
         /\ seq # <<>> /\ Head(seq) = "hook" => Sessions(seq) = Sessions(Tail(seq))
         /\ seq # <<>> => Sessions(Tail(seq)) \in Nat
         /\ Sessions(Append(seq, "session")) = Sessions(seq) + 1
         /\ Sessions(Append(seq, "hook")) = Sessions(seq)
<1>1. Sessions(seq) \in Nat
  BY CopiesCount DEF Sessions
<1>2. ASSUME seq # <<>>
      PROVE  Sessions(seq) = Sessions(Tail(seq)) + (IF Head(seq) = "session" THEN 1 ELSE 0)
  BY <1>2, CopiesOfTail DEF Sessions
<1>3. ASSUME seq # <<>> PROVE Sessions(Tail(seq)) \in Nat
  <2>1. Tail(seq) \in Seq(Listeners)
    BY <1>3
  <2> QED BY <2>1, CopiesCount DEF Sessions
<1>4. \A l \in Listeners : Sessions(Append(seq, l)) = Sessions(seq) + (IF l = "session" THEN 1 ELSE 0)
  BY CopiesOfAppend DEF Sessions
<1>5. "hook" \in Listeners /\ "session" \in Listeners /\ "hook" # "session"
  BY DEF Listeners
<1> QED BY <1>1, <1>2, <1>3, <1>4, <1>5

(* What the calls of the registry and the session leave of a recording.    *)
LEMMA CallsKeepRecording ==
  ASSUME Bounded, OwnSpans, RecordingInv, Op,
         \/ \E b \in Buckets : RegisterHook(b)
         \/ \E trace \in HookTraces \cup {AnyTrace} : Attach(trace)
         \/ ClearHooks \/ Detach \/ ResetSession
  PROVE  RecordingInv'
<1>1. /\ HooksTypeOK /\ attachments \in Nat /\ listeners \in [Buckets -> Seq(Listeners)]
      /\ Len(hookedSpans) \in Nat /\ Len(hookedSpans) <= MaxHookSpans /\ MaxHookSpans \in Nat
      /\ sessionSpans \in Seq(SpanIds) /\ "span_end" \in Buckets
      /\ listeners["span_end"] \in Seq(Listeners)
  <2>1. HooksTypeOK /\ attachments \in Nat /\ Len(hookedSpans) <= MaxHookSpans /\ MaxHookSpans \in Nat
    BY SpanHooksAssumption DEF Bounded
  <2>2. listeners \in [Buckets -> Seq(Listeners)] /\ sessionSpans \in Seq(SpanIds)
        /\ hookedSpans \in Seq(SpanShapes)
    BY <2>1 DEF HooksTypeOK
  <2>3. "span_end" \in Buckets
    BY DEF Buckets
  <2> QED BY <2>1, <2>2, <2>3
<1>2. UNCHANGED <<firePc, firing, openSpan, hookedSpans, handedOn>>
  BY DEF Op, firingVars
<1>3. attachments' \in Nat /\ attachments <= attachments'
  BY <1>1 DEF RegisterHook, Attach, ClearHooks, Detach, ResetSession, sessionVars
<1>4. Sessions(listeners["span_end"]) \in Nat /\ Sessions(listeners["span_end"]) <= attachments
  BY <1>1, SessionsAreCounted DEF RecordingInv
<1>5. Sessions(listeners'["span_end"]) <= attachments'
  <2>1. ASSUME NEW b \in Buckets, RegisterHook(b)
        PROVE  Sessions(listeners'["span_end"]) <= attachments'
    <3>1. listeners'["span_end"] = listeners["span_end"]
          \/ listeners'["span_end"] = Append(listeners["span_end"], "hook")
      BY <1>1, <2>1 DEF RegisterHook
    <3>2. Sessions(listeners'["span_end"]) = Sessions(listeners["span_end"])
      BY <1>1, <3>1, SessionsAreCounted
    <3> QED BY <1>1, <1>3, <1>4, <3>2
  <2>2. ASSUME NEW trace, Attach(trace)
        PROVE  Sessions(listeners'["span_end"]) <= attachments'
    <3>1. listeners'["span_end"] = Append(listeners["span_end"], "session") /\ attachments' = attachments + 1
      BY <1>1, <2>2 DEF Attach
    <3>2. Sessions(listeners'["span_end"]) = Sessions(listeners["span_end"]) + 1
      BY <1>1, <3>1, SessionsAreCounted
    <3> QED BY <1>1, <1>4, <3>1, <3>2
  <2>3. ASSUME ClearHooks PROVE Sessions(listeners'["span_end"]) <= attachments'
    <3>1. listeners'["span_end"] = <<>>
      BY <1>1, <2>3 DEF ClearHooks
    <3> QED BY <1>3, <3>1, CopiesOfNone DEF Sessions
  <2>4. ASSUME Detach \/ ResetSession PROVE Sessions(listeners'["span_end"]) <= attachments'
    <3>1. listeners' = listeners
      BY <2>4 DEF Detach, ResetSession, registryVars
    <3> QED BY <1>1, <1>3, <1>4, <3>1
  <2> QED BY <2>1, <2>2, <2>3, <2>4
<1>6. ASSUME NEW s
      PROVE  /\ Copies(sessionSpans, s) \in Nat /\ Copies(sessionSpans', s) \in Nat
             /\ Copies(sessionSpans', s) <= Copies(sessionSpans, s)
  <2>1. Copies(sessionSpans, s) \in Nat
    BY <1>1, CopiesCount
  <2>2. sessionSpans' = sessionSpans \/ sessionSpans' = <<>>
    BY DEF RegisterHook, Attach, ClearHooks, Detach, ResetSession, sessionVars
  <2>3. Copies(<<>>, s) = 0
    BY CopiesOfNone
  <2> QED BY <2>1, <2>2, <2>3
<1>7. ASSUME NEW s \in SpanIds PROVE Copies(sessionSpans', s) <= attachments'
  <2>1. Copies(sessionSpans, s) <= attachments
    BY DEF RecordingInv
  <2> QED BY <1>1, <1>3, <1>6, <2>1
<1>8. ASSUME NEW t \in Threads, InSpan(t)' PROVE Records(t)'
  <2>1. InSpan(t) /\ openSpan[t] \in SpanIds /\ firing[t] \in Seq(Listeners)
    BY <1>1, <1>2, <1>8, SpanFacts DEF InSpan, HooksTypeOK
  <2>2. Records(t)
    BY <2>1 DEF RecordingInv
  <2>3. Sessions(firing[t]) \in Nat
    BY <2>1, SessionsAreCounted
  <2>4. firePc[t] \in {"start", "open", "end"} => Copies(sessionSpans', openSpan[t]) = 0
    BY <1>6, <2>2 DEF Records
  <2>5. firePc[t] \in {"endAll", "record"} =>
          Copies(sessionSpans', openSpan[t]) + Sessions(firing[t]) <= attachments'
    <3>1. firePc[t] \in {"endAll", "record"} =>
            Copies(sessionSpans, openSpan[t]) + Sessions(firing[t]) <= attachments
      BY <2>2 DEF Records
    <3> QED BY <1>1, <1>3, <1>6, <2>3, <3>1
  <2>6. /\ firePc[t] = "record" => firing[t] # <<>> /\ Head(firing[t]) = "session"
        /\ firePc[t] = "emit" => firing[t] = <<>>
    BY <2>2 DEF Records
  <2>7. /\ Copies(sessionSpans, openSpan[t])' = Copies(sessionSpans', openSpan[t])
        /\ Sessions(firing[t])' = Sessions(firing[t])
    BY <1>2 DEF Copies, Sessions
  <2> QED BY <1>2, <2>4, <2>5, <2>6, <2>7 DEF Records
<1>9. Attached' /\ SessionIsComplete'
  <2>1. CASE attachedFrom' = MaxHookSpans
    BY <1>1, <1>2, <2>1 DEF Attached, SessionIsComplete
  <2>2. ASSUME NEW b \in Buckets, RegisterHook(b), attachedFrom' # MaxHookSpans
        PROVE  Attached' /\ SessionIsComplete'
    <3>1. UNCHANGED <<sessionActive, sessionFilter, sessionSpans, attachments, attachedFrom>>
      BY <2>2 DEF RegisterHook, sessionVars
    <3>2. listeners'["span_end"] = listeners["span_end"]
          \/ listeners'["span_end"] = Append(listeners["span_end"], "hook")
      BY <1>1, <2>2 DEF RegisterHook
    <3>3. Sessions(listeners'["span_end"]) = Sessions(listeners["span_end"])
      BY <1>1, <3>2, SessionsAreCounted
    <3>4. Sessions(listeners["span_end"])' = Sessions(listeners'["span_end"])
          /\ \A t \in Threads : Sessions(firing[t])' = Sessions(firing[t])
      BY <1>2 DEF Sessions, Copies
    <3>5. Attached
      BY DEF RecordingInv
    <3>6. Attached'
      BY <1>2, <3>1, <3>3, <3>4, <3>5 DEF Attached, InSpan, Wanted
    <3>7. SessionIsComplete'
      BY <1>2, <3>1 DEF RecordingInv, SessionIsComplete, Finished
    <3> QED BY <3>6, <3>7
  <2>3. ASSUME NEW trace, Attach(trace), attachedFrom' # MaxHookSpans
        PROVE  Attached' /\ SessionIsComplete'
    <3>1. /\ attachments = 0 /\ attachments' = 1 /\ sessionActive' /\ attachedFrom' = Len(hookedSpans)
          /\ listeners'["span_end"] = Append(listeners["span_end"], "session")
      BY <1>1, <2>3 DEF Attach
    <3>2. Sessions(listeners["span_end"]) = 0
      BY <1>4, <3>1
    <3>3. Sessions(listeners'["span_end"]) = 1
      BY <1>1, <3>1, <3>2, SessionsAreCounted
    <3>4. Sessions(listeners["span_end"])' = Sessions(listeners'["span_end"])
      BY DEF Sessions, Copies
    <3>5. ASSUME NEW t \in Threads, InSpan(t)' PROVE ~(openSpan'[t] > attachedFrom')
      <4>1. openSpan[t] \in 1..Len(hookedSpans)
        BY <1>2, <3>5, SpanFacts DEF InSpan
      <4> QED BY <1>1, <1>2, <3>1, <4>1
    <3>6. Attached'
      BY <3>1, <3>3, <3>4, <3>5 DEF Attached
    <3>7. SessionIsComplete'
      BY <1>1, <1>2, <3>1 DEF SessionIsComplete
    <3> QED BY <3>6, <3>7
  <2> QED BY <2>1, <2>2, <2>3 DEF ClearHooks, Detach, ResetSession
<1>10. Sessions(listeners["span_end"])' = Sessions(listeners'["span_end"])
       /\ \A s \in SpanIds : Copies(sessionSpans, s)' = Copies(sessionSpans', s)
  BY DEF Sessions, Copies
<1> QED BY <1>5, <1>7, <1>8, <1>9, <1>10 DEF RecordingInv

LEMMA StepsKeepRecording ==
  ASSUME Bounded, OwnSpans, RecordingInv, NEW t \in Threads,
         \/ \E shape \in SpanShapes : OpenHookedSpan(t, shape)
         \/ NextList(t) \/ CloseHookedSpan(t) \/ CallHook(t)
         \/ AskSession(t) \/ RecordSpan(t) \/ EmitHookedSpan(t)
  PROVE  RecordingInv'
<1>1. /\ HooksTypeOK /\ attachments \in Nat /\ Len(hookedSpans) <= MaxHookSpans /\ MaxHookSpans \in Nat
      /\ attachedFrom \in Nat
  <2>1. HooksTypeOK /\ attachments \in Nat /\ Len(hookedSpans) <= MaxHookSpans /\ MaxHookSpans \in Nat
    BY SpanHooksAssumption DEF Bounded
  <2>2. attachedFrom \in Nat
    BY <2>1 DEF HooksTypeOK, SpanIds
  <2> QED BY <2>1, <2>2
<1>2. /\ listeners \in [Buckets -> Seq(Listeners)] /\ sessionSpans \in Seq(SpanIds)
      /\ hookedSpans \in Seq(SpanShapes) /\ Len(hookedSpans) \in Nat
      /\ firePc \in [Threads -> {"out", "start", "open", "end", "endAll", "record", "emit"}]
      /\ firing \in [Threads -> Seq(Listeners)] /\ openSpan \in [Threads -> 0..MaxHookSpans]
  BY <1>1 DEF HooksTypeOK
<1>3. UNCHANGED <<listeners, attachments, attachedFrom, sessionActive, sessionFilter>>
  BY DEF OpenHookedSpan, NextList, CloseHookedSpan, CallHook, AskSession, RecordSpan, EmitHookedSpan,
         registryVars, sessionVars
<1>4. Sessions(listeners["span_end"]) \in Nat /\ Sessions(listeners["span_end"]) <= attachments
  <2>1. listeners["span_end"] \in Seq(Listeners)
    BY <1>2 DEF Buckets
  <2> QED BY <2>1, SessionsAreCounted DEF RecordingInv
<1>5. \A s : Copies(sessionSpans, s) \in Nat /\ (Copies(sessionSpans, s) = 0 <=> s \notin ToSet(sessionSpans))
  BY <1>2, CopiesCount
<1>6. sessionSpans' = sessionSpans \/ RecordSpan(t)
  BY DEF OpenHookedSpan, NextList, CloseHookedSpan, CallHook, AskSession, EmitHookedSpan, sessionVars
<1>7. ASSUME RecordSpan(t)
      PROVE  /\ InSpan(t) /\ firePc[t] = "record" /\ openSpan[t] \in SpanIds
             /\ sessionSpans' = Append(sessionSpans, openSpan[t])
             /\ Sessions(firing[t]) = Sessions(Tail(firing[t])) + 1 /\ Sessions(Tail(firing[t])) \in Nat
             /\ Copies(sessionSpans, openSpan[t]) + Sessions(firing[t]) <= attachments
  <2>1. InSpan(t) /\ firePc[t] = "record" /\ sessionSpans' = Append(sessionSpans, openSpan[t])
    BY <1>7 DEF RecordSpan, Moves, InSpan
  <2>2. Records(t) /\ openSpan[t] \in SpanIds
    BY <2>1, SpanFacts DEF RecordingInv
  <2>3. firing[t] # <<>> /\ Head(firing[t]) = "session" /\ firing[t] \in Seq(Listeners)
        /\ Copies(sessionSpans, openSpan[t]) + Sessions(firing[t]) <= attachments
    BY <1>2, <2>1, <2>2 DEF Records
  <2> QED BY <2>1, <2>2, <2>3, SessionsAreCounted
<1>8. ASSUME NEW s, s # openSpan[t] \/ ~RecordSpan(t)
      PROVE  /\ Copies(sessionSpans', s) = Copies(sessionSpans, s)
             /\ s \in ToSet(sessionSpans') <=> s \in ToSet(sessionSpans)
  <2>1. CASE RecordSpan(t)
    <3>1. sessionSpans' = Append(sessionSpans, openSpan[t]) /\ openSpan[t] \in SpanIds
      BY <1>7, <2>1
    <3>2. Copies(sessionSpans', s) = Copies(sessionSpans, s) + 0
      BY <1>2, <1>8, <2>1, <3>1, CopiesOfAppend
    <3> QED BY <1>2, <1>5, <1>8, <2>1, <3>1, <3>2, ToSetAdds
  <2>2. CASE ~RecordSpan(t)
    BY <1>6, <2>2
  <2> QED BY <2>1, <2>2
<1>9. RecordSpan(t) => /\ Copies(sessionSpans', openSpan[t]) = Copies(sessionSpans, openSpan[t]) + 1
                       /\ openSpan[t] \in ToSet(sessionSpans')
  <2> SUFFICES ASSUME RecordSpan(t)
               PROVE  /\ Copies(sessionSpans', openSpan[t]) = Copies(sessionSpans, openSpan[t]) + 1
                      /\ openSpan[t] \in ToSet(sessionSpans')
    OBVIOUS
  <2>1. sessionSpans' = Append(sessionSpans, openSpan[t]) /\ openSpan[t] \in SpanIds
    BY <1>7
  <2> QED BY <1>2, <2>1, CopiesOfAppend, ToSetAdds
<1>10. ASSUME NEW s \in SpanIds PROVE Copies(sessionSpans', s) <= attachments
  <2>1. CASE s # openSpan[t] \/ ~RecordSpan(t)
    BY <1>8, <2>1 DEF RecordingInv
  <2>2. CASE s = openSpan[t] /\ RecordSpan(t)
    BY <1>1, <1>5, <1>7, <1>9, <2>2
  <2> QED BY <2>1, <2>2
(* The primed forms of what the invariant says of the session's spans.     *)
<1>11. /\ \A s : Copies(sessionSpans, s)' = Copies(sessionSpans', s)
       /\ \A s : (s \in ToSet(sessionSpans))' <=> s \in ToSet(sessionSpans')
       /\ Sessions(listeners["span_end"])' = Sessions(listeners["span_end"])
  BY <1>3 DEF Copies, Sessions, ToSet
<1>12. ASSUME NEW u \in Threads, u # t
       PROVE  firePc'[u] = firePc[u] /\ firing'[u] = firing[u] /\ openSpan'[u] = openSpan[u]
  <2>1. firePc'[u] = firePc[u]
    BY <1>2, <1>12 DEF OpenHookedSpan, NextList, CloseHookedSpan, CallHook, AskSession, RecordSpan,
                       EmitHookedSpan, Moves
  <2>2. firing'[u] = firing[u]
    BY <1>2, <1>12 DEF OpenHookedSpan, NextList, CloseHookedSpan, CallHook, AskSession, RecordSpan,
                       EmitHookedSpan, Moves
  <2>3. openSpan'[u] = openSpan[u]
    BY <1>2, <1>12 DEF OpenHookedSpan, NextList, CloseHookedSpan, CallHook, AskSession, RecordSpan,
                       EmitHookedSpan, Moves
  <2> QED BY <2>1, <2>2, <2>3
<1>13. ASSUME NEW s \in 1..Len(hookedSpans) PROVE hookedSpans'[s] = hookedSpans[s]
  <2>1. hookedSpans' = hookedSpans \/ \E shape \in SpanShapes : hookedSpans' = Append(hookedSpans, shape)
    BY DEF OpenHookedSpan, NextList, CloseHookedSpan, CallHook, AskSession, RecordSpan, EmitHookedSpan
  <2>2. ASSUME NEW shape \in SpanShapes, hookedSpans' = Append(hookedSpans, shape)
        PROVE  hookedSpans'[s] = hookedSpans[s]
    BY <1>2, <2>2
  <2> QED BY <2>1, <2>2
<1>14. ASSUME NEW u \in Threads, u # t, InSpan(u)'
       PROVE  /\ InSpan(u) /\ openSpan[u] \in SpanIds /\ openSpan[u] \in 1..Len(hookedSpans)
              /\ Copies(sessionSpans', openSpan[u]) = Copies(sessionSpans, openSpan[u])
              /\ openSpan[u] \in ToSet(sessionSpans') <=> openSpan[u] \in ToSet(sessionSpans)
  <2>1. InSpan(u)
    BY <1>12, <1>14 DEF InSpan
  <2>2. RecordSpan(t) => openSpan[u] # openSpan[t]
    BY <1>7, <1>14, <2>1 DEF OwnSpans
  <2> QED BY <1>8, <2>1, <2>2, SpanFacts
<1>15. ASSUME NEW u \in Threads, u # t, InSpan(u)' PROVE Records(u)'
  <2>1. Records(u)
    BY <1>14, <1>15 DEF RecordingInv
  <2>2. firePc'[u] = firePc[u] /\ firing'[u] = firing[u] /\ openSpan'[u] = openSpan[u]
    BY <1>12, <1>15
  <2>3. Copies(sessionSpans', openSpan[u]) = Copies(sessionSpans, openSpan[u])
    BY <1>14, <1>15
  <2> QED BY <1>3, <2>1, <2>2, <2>3 DEF Records, Copies, Sessions
<1>16. ASSUME NEW a, NEW b, Moves(firePc, t, a, b) PROVE firePc[t] = a /\ firePc'[t] = b
  BY <1>2, <1>16 DEF Moves
<1>17. ASSUME NEW pc, NEW q, NEW s, firePc'[t] = pc, firing'[t] = q, openSpan'[t] = s,
              pc \in {"start", "open", "end"} => Copies(sessionSpans', s) = 0,
              pc \in {"endAll", "record"} => Copies(sessionSpans', s) + Sessions(q) <= attachments,
              pc = "record" => q # <<>> /\ Head(q) = "session",
              pc = "emit" => q = <<>>
       PROVE  Records(t)'
  BY <1>3, <1>17 DEF Records, Copies, Sessions
<1>18. ASSUME InSpan(t) PROVE Records(t) /\ openSpan[t] \in SpanIds /\ firing[t] \in Seq(Listeners)
  BY <1>2, <1>18, SpanFacts DEF RecordingInv
<1>19. ASSUME ~RecordSpan(t), UNCHANGED openSpan
       PROVE  openSpan'[t] = openSpan[t] /\ Copies(sessionSpans', openSpan[t]) = Copies(sessionSpans, openSpan[t])
  BY <1>8, <1>19
<1>20. ASSUME InSpan(t)' PROVE Records(t)'
  <2>1. ASSUME NEW shape \in SpanShapes, OpenHookedSpan(t, shape) PROVE Records(t)'
    <3>1. firePc'[t] = "start" /\ openSpan'[t] = Len(hookedSpans) + 1 /\ sessionSpans' = sessionSpans
      BY <1>2, <2>1 DEF OpenHookedSpan, sessionVars
    <3>2. Copies(sessionSpans', Len(hookedSpans) + 1) = 0
      BY <1>5, <3>1, NewSpanIsNew
    <3> QED BY <1>17, <3>1, <3>2
  <2>2. CASE NextList(t)
    <3>1. firing[t] = <<>> /\ UNCHANGED <<openSpan, sessionSpans>>
      BY <2>2 DEF NextList, sessionVars
    <3>2. \/ firePc[t] = "start" /\ firePc'[t] = "open" /\ firing' = firing
          \/ firePc[t] = "end" /\ firePc'[t] = "endAll" /\ firing'[t] = listeners["span_end"]
          \/ firePc[t] = "endAll" /\ firePc'[t] = "emit" /\ firing' = firing
      BY <1>2, <1>16, <2>2 DEF NextList, AllEnd
    <3>3. Records(t)
      BY <1>18, <3>2 DEF InSpan
    <3>4. firePc[t] \in {"start", "end"} => Copies(sessionSpans', openSpan[t]) = 0
      BY <3>1, <3>3 DEF Records
    <3> QED BY <1>4, <1>17, <3>1, <3>2, <3>4
  <2>3. CASE CloseHookedSpan(t)
    <3>1. firePc[t] = "open" /\ firePc'[t] = "end" /\ UNCHANGED <<openSpan, sessionSpans>>
      BY <1>16, <2>3 DEF CloseHookedSpan, sessionVars
    <3>2. Copies(sessionSpans', openSpan[t]) = 0
      BY <1>18, <3>1 DEF InSpan, Records
    <3> QED BY <1>17, <3>1, <3>2
  <2>4. CASE CallHook(t)
    <3>1. /\ firing[t] # <<>> /\ Head(firing[t]) = "hook" /\ firing'[t] = Tail(firing[t])
          /\ UNCHANGED <<firePc, openSpan, sessionSpans>>
      BY <1>2, <2>4 DEF CallHook, AfterRaise, sessionVars
    <3>2. InSpan(t) /\ Records(t) /\ firing[t] \in Seq(Listeners)
      BY <1>18, <1>20, <3>1 DEF InSpan
    <3>3. Sessions(firing[t]) = Sessions(Tail(firing[t]))
      BY <3>1, <3>2, SessionsAreCounted
    <3>4. firePc[t] # "record" /\ firePc[t] # "emit"
      BY <3>1, <3>2 DEF Records
    <3> QED BY <1>17, <3>1, <3>2, <3>3, <3>4 DEF Records
  <2>5. CASE AskSession(t)
    <3>1. /\ firing[t] # <<>> /\ Head(firing[t]) = "session" /\ firePc[t] = "endAll"
          /\ \/ firePc'[t] = "record" /\ firing'[t] = firing[t]
             \/ firePc'[t] = "endAll" /\ firing'[t] = Tail(firing[t])
          /\ UNCHANGED <<openSpan, sessionSpans>>
      BY <1>2, <2>5 DEF AskSession, sessionVars
    <3>2. Records(t) /\ firing[t] \in Seq(Listeners)
      BY <1>18, <3>1 DEF InSpan
    <3>3. Copies(sessionSpans, openSpan[t]) + Sessions(firing[t]) <= attachments
          /\ Copies(sessionSpans, openSpan[t]) \in Nat
      BY <1>5, <3>1, <3>2 DEF Records
    <3>4. Sessions(firing[t]) = Sessions(Tail(firing[t])) + 1 /\ Sessions(Tail(firing[t])) \in Nat
      BY <3>1, <3>2, SessionsAreCounted
    <3>5. Copies(sessionSpans, openSpan[t]) + Sessions(Tail(firing[t])) <= attachments
      BY <1>1, <3>3, <3>4
    <3> QED BY <1>17, <3>1, <3>3, <3>5
  <2>6. CASE RecordSpan(t)
    <3>1. firePc'[t] = "endAll" /\ firing'[t] = Tail(firing[t]) /\ openSpan' = openSpan
      BY <1>2, <1>16, <2>6 DEF RecordSpan
    <3>2. Copies(sessionSpans', openSpan[t]) + Sessions(Tail(firing[t])) <= attachments
      BY <1>1, <1>5, <1>7, <1>9, <2>6
    <3> QED BY <1>17, <3>1, <3>2
  <2>7. CASE EmitHookedSpan(t)
    BY <1>16, <1>20, <2>7 DEF EmitHookedSpan, InSpan
  <2> QED BY <2>1, <2>2, <2>3, <2>4, <2>5, <2>6, <2>7
<1>21. ASSUME attachedFrom # MaxHookSpans
       PROVE  /\ sessionActive /\ attachments = 1 /\ Sessions(listeners["span_end"]) = 1
              /\ \A u \in Threads : InSpan(u) /\ openSpan[u] > attachedFrom =>
                   /\ firePc[u] \in {"endAll", "record", "emit"} =>
                        (openSpan[u] \in ToSet(sessionSpans) <=>
                           Wanted(openSpan[u]) /\ Sessions(firing[u]) = 0)
                   /\ firePc[u] = "record" => Wanted(openSpan[u])
  BY <1>21 DEF RecordingInv, Attached
<1>22. \A s \in 1..Len(hookedSpans) : Wanted(s)' <=> Wanted(s)
  BY <1>3, <1>13 DEF Wanted
<1>23. ASSUME attachedFrom # MaxHookSpans, NEW u \in Threads, u # t, InSpan(u)', openSpan'[u] > attachedFrom
       PROVE  /\ firePc'[u] \in {"endAll", "record", "emit"} =>
                   (openSpan'[u] \in ToSet(sessionSpans') <=>
                      Wanted(openSpan[u])' /\ Sessions(firing'[u]) = 0)
              /\ firePc'[u] = "record" => Wanted(openSpan[u])'
  <2>1. firePc'[u] = firePc[u] /\ firing'[u] = firing[u] /\ openSpan'[u] = openSpan[u]
    BY <1>12, <1>23
  <2>2. /\ InSpan(u) /\ openSpan[u] \in 1..Len(hookedSpans)
        /\ openSpan[u] \in ToSet(sessionSpans') <=> openSpan[u] \in ToSet(sessionSpans)
    BY <1>14, <1>23
  <2>3. Wanted(openSpan[u])' <=> Wanted(openSpan[u])
    <3>1. Wanted(openSpan[u])' <=> sessionFilter' \in {AnyTrace, hookedSpans'[openSpan[u]].trace}
      BY <2>1 DEF Wanted
    <3> QED BY <1>3, <1>13, <2>2, <3>1 DEF Wanted
  <2> QED BY <1>21, <1>23, <2>1, <2>2, <2>3
<1>24. ASSUME attachedFrom # MaxHookSpans, InSpan(t)', openSpan'[t] > attachedFrom
       PROVE  /\ firePc'[t] \in {"endAll", "record", "emit"} =>
                   (openSpan'[t] \in ToSet(sessionSpans') <=>
                      Wanted(openSpan[t])' /\ Sessions(firing'[t]) = 0)
              /\ firePc'[t] = "record" => Wanted(openSpan[t])'
  <2>1. CASE firePc'[t] \in {"start", "open", "end"}
    BY <2>1
  <2>2. CASE firePc'[t] \in {"endAll", "record", "emit"}
    <3>0. ~EmitHookedSpan(t) /\ ~CloseHookedSpan(t) /\ ~\E shape \in SpanShapes : OpenHookedSpan(t, shape)
      <4>1. EmitHookedSpan(t) => firePc'[t] = "out"
        BY <1>16 DEF EmitHookedSpan
      <4>2. CloseHookedSpan(t) => firePc'[t] = "end"
        BY <1>16 DEF CloseHookedSpan
      <4>3. \A shape \in SpanShapes : OpenHookedSpan(t, shape) => firePc'[t] = "start"
        BY <1>2 DEF OpenHookedSpan
      <4> QED BY <2>2, <4>1, <4>2, <4>3
    <3>1. UNCHANGED openSpan /\ InSpan(t)
      <4>1. UNCHANGED openSpan
        BY <3>0 DEF NextList, CallHook, AskSession, RecordSpan
      <4>2. NextList(t) => firePc[t] # "out"
        BY <1>16 DEF NextList
      <4>3. CallHook(t) => firePc' = firePc
        BY DEF CallHook
      <4>4. AskSession(t) => firePc[t] # "out"
        BY DEF AskSession
      <4>5. RecordSpan(t) => firePc[t] # "out"
        BY <1>16 DEF RecordSpan
      <4> QED BY <1>24, <3>0, <4>1, <4>2, <4>3, <4>4, <4>5 DEF InSpan
    <3>2. /\ openSpan[t] \in 1..Len(hookedSpans) /\ openSpan[t] > attachedFrom /\ Records(t)
          /\ firing[t] \in Seq(Listeners) /\ Shape(t) = hookedSpans[openSpan[t]]
      BY <1>18, <1>24, <3>1, SpanFacts
    <3>3. Wanted(openSpan[t])' <=> Wanted(openSpan[t])
      <4>1. Wanted(openSpan[t])' <=> sessionFilter' \in {AnyTrace, hookedSpans'[openSpan[t]].trace}
        BY <3>1 DEF Wanted
      <4> QED BY <1>3, <1>13, <3>2, <4>1 DEF Wanted
    <3>4. firePc[t] \in {"endAll", "record", "emit"} =>
            (openSpan[t] \in ToSet(sessionSpans) <=> Wanted(openSpan[t]) /\ Sessions(firing[t]) = 0)
      BY <1>21, <1>24, <3>1, <3>2
    <3>5. CASE NextList(t)
      <4>1. firing[t] = <<>> /\ UNCHANGED sessionSpans
        BY <3>5 DEF NextList, sessionVars
      <4>2. \/ firePc[t] = "end" /\ firePc'[t] = "endAll" /\ firing'[t] = listeners["span_end"]
            \/ firePc[t] = "endAll" /\ firePc'[t] = "emit" /\ firing' = firing
        BY <1>2, <1>16, <2>2, <3>5 DEF NextList, AllEnd
      <4>3. CASE firePc[t] = "end"
        <5>1. openSpan[t] \notin ToSet(sessionSpans)
          BY <1>5, <3>2, <4>3 DEF Records
        <5>2. Sessions(firing'[t]) = 1 /\ firePc'[t] = "endAll"
          BY <1>21, <1>24, <4>2, <4>3
        <5> QED BY <3>1, <4>1, <5>1, <5>2
      <4>4. CASE firePc[t] = "endAll"
        BY <3>1, <3>3, <3>4, <4>1, <4>2, <4>4
      <4> QED BY <4>2, <4>3, <4>4
    <3>6. CASE CallHook(t)
      <4>1. /\ firing[t] # <<>> /\ Head(firing[t]) = "hook" /\ firing'[t] = Tail(firing[t])
            /\ UNCHANGED <<firePc, sessionSpans>>
        BY <1>2, <3>6 DEF CallHook, AfterRaise, sessionVars
      <4>2. Sessions(firing'[t]) = Sessions(firing[t])
        BY <3>2, <4>1, SessionsAreCounted
      <4>3. firePc'[t] = "endAll"
        BY <2>2, <3>2, <4>1 DEF Records
      <4> QED BY <3>1, <3>3, <3>4, <4>1, <4>2, <4>3
    <3>7. CASE AskSession(t)
      <4>1. firing[t] # <<>> /\ Head(firing[t]) = "session" /\ firePc[t] = "endAll"
            /\ UNCHANGED sessionSpans
        BY <3>7 DEF AskSession, sessionVars
      <4>2. Sessions(firing[t]) \in Nat /\ Sessions(firing[t]) # 0
        BY <3>2, <4>1, SessionsAreCounted
      <4>3. openSpan[t] \notin ToSet(sessionSpans)
        BY <3>4, <4>1, <4>2
      <4>4. Matches(t) <=> Wanted(openSpan[t])
        BY <1>21, <1>24, <3>2 DEF Matches, Wanted
      <4>5. CASE Matches(t)
        <5>1. firing' = firing
          BY <3>7, <4>5 DEF AskSession
        <5> QED BY <3>1, <3>3, <4>1, <4>2, <4>3, <4>4, <4>5, <5>1
      <4>6. CASE ~Matches(t)
        <5>1. firePc'[t] = "endAll"
          BY <3>7, <4>1, <4>6 DEF AskSession
        <5> QED BY <3>1, <3>3, <4>1, <4>3, <4>4, <4>6, <5>1
      <4> QED BY <4>5, <4>6
    <3>8. CASE RecordSpan(t)
      <4>1. firePc[t] = "record" /\ firePc'[t] = "endAll" /\ firing'[t] = Tail(firing[t])
        BY <1>2, <1>16, <3>8 DEF RecordSpan
      <4>2. Wanted(openSpan[t])
        BY <1>21, <1>24, <3>1, <3>2, <4>1
      <4>3. Sessions(firing'[t]) = 0
        BY <1>5, <1>7, <1>21, <1>24, <3>8, <4>1
      <4>4. openSpan[t] \in ToSet(sessionSpans')
        BY <1>9, <3>8
      <4> QED BY <3>1, <3>3, <4>1, <4>2, <4>3, <4>4
    <3> QED BY <3>0, <3>5, <3>6, <3>7, <3>8
  <2> QED BY <1>2, <1>24, <2>1, <2>2 DEF InSpan, HooksTypeOK, OpenHookedSpan, NextList, CloseHookedSpan,
                                     CallHook, AskSession, RecordSpan, EmitHookedSpan, Moves
<1>25. Attached'
  <2>1. \A u \in Threads : Sessions(firing[u])' = Sessions(firing'[u])
    BY DEF Sessions, Copies
  <2>2. \A u \in Threads : (openSpan[u] \in ToSet(sessionSpans))' <=> openSpan'[u] \in ToSet(sessionSpans')
    BY DEF ToSet
  <2> QED BY <1>3, <1>11, <1>21, <1>23, <1>24, <2>1, <2>2 DEF Attached
<1>26. ASSUME NEW s \in (attachedFrom + 1)..Len(hookedSpans'), Finished(s)'
       PROVE  s \in ToSet(sessionSpans') <=> sessionFilter \in {AnyTrace, hookedSpans'[s].trace}
  <2>1. ASSUME s \in 1..Len(hookedSpans), Finished(s), s # openSpan[t] \/ ~RecordSpan(t)
        PROVE  s \in ToSet(sessionSpans') <=> sessionFilter \in {AnyTrace, hookedSpans'[s].trace}
    <3>1. s \in (attachedFrom + 1)..Len(hookedSpans)
      BY <1>1, <1>2, <1>26, <2>1
    <3> QED BY <1>8, <1>13, <2>1, <3>1 DEF RecordingInv, SessionIsComplete
  <2>2. ASSUME NEW shape \in SpanShapes, OpenHookedSpan(t, shape)
        PROVE  s \in 1..Len(hookedSpans) /\ Finished(s) /\ ~RecordSpan(t)
    <3>1. Finished(s) /\ hookedSpans' = Append(hookedSpans, shape) /\ firePc[t] = "out"
      BY <1>26, <2>2 DEF OpenHookedSpan, Finished
    <3>2. s # Len(hookedSpans) + 1
      BY <3>1, NewSpanIsNew
    <3>3. s \in 1..Len(hookedSpans)
      BY <1>1, <1>2, <1>26, <3>1, <3>2
    <3> QED BY <1>7, <3>1, <3>3
  <2>3. ASSUME NextList(t) \/ CloseHookedSpan(t) \/ CallHook(t) \/ AskSession(t) \/ RecordSpan(t)
        PROVE  s \in 1..Len(hookedSpans) /\ Finished(s) /\ (s # openSpan[t] \/ ~RecordSpan(t))
    <3>1. UNCHANGED <<hookedSpans, handedOn>>
      BY <2>3 DEF NextList, CloseHookedSpan, CallHook, AskSession, RecordSpan
    <3>2. s \in 1..Len(hookedSpans) /\ Finished(s)
      BY <1>1, <1>2, <1>26, <3>1 DEF Finished
    <3> QED BY <1>7, <3>2 DEF OwnSpans
  <2>4. CASE EmitHookedSpan(t)
    <3>1. /\ UNCHANGED <<hookedSpans, sessionSpans>> /\ firePc[t] = "emit"
          /\ handedOn' = Append(handedOn, openSpan[t])
      BY <2>4 DEF EmitHookedSpan, Moves, sessionVars
    <3>2. /\ InSpan(t) /\ openSpan[t] \in SpanIds /\ handedOn \in Seq(SpanIds)
          /\ s \in 1..Len(hookedSpans)
      BY <1>1, <1>2, <1>26, <3>1, SpanFacts DEF InSpan, HooksTypeOK
    <3>3. Finished(s) \/ s = openSpan[t]
      BY <1>26, <3>1, <3>2, ToSetAdds DEF Finished
    <3>4. CASE Finished(s)
      BY <1>7, <2>1, <3>1, <3>2, <3>4
    <3>5. CASE s = openSpan[t]
      <4>1. attachedFrom # MaxHookSpans /\ openSpan[t] > attachedFrom
        BY <1>1, <1>2, <1>26, <3>1, <3>5
      <4>2. Sessions(firing[t]) = 0
        <5>1. firing[t] = <<>>
          BY <1>18, <3>1, <3>2 DEF Records
        <5> QED BY <5>1, CopiesOfNone DEF Sessions
      <4>3. openSpan[t] \in ToSet(sessionSpans) <=> Wanted(openSpan[t])
        BY <1>21, <3>1, <3>2, <4>1, <4>2
      <4> QED BY <3>1, <3>5, <4>3 DEF Wanted
    <3> QED BY <3>3, <3>4, <3>5
  <2> QED BY <2>1, <2>2, <2>3, <2>4
<1>27. SessionIsComplete'
  BY <1>3, <1>11, <1>26 DEF SessionIsComplete, ToSet
<1>28. \A s \in SpanIds : Copies(sessionSpans, s)' <= attachments'
  BY <1>3, <1>10, <1>11
<1>29. \A u \in Threads : InSpan(u)' => Records(u)'
  BY <1>15, <1>20
<1> QED BY <1>3, <1>4, <1>11, <1>25, <1>27, <1>28, <1>29 DEF RecordingInv

(* The session and the file grow in step.                                  *)
LEMMA CallsKeepReplay ==
  ASSUME Bounded, OwnSpans, ReplayInv, Op,
         \/ \E b \in Buckets : RegisterHook(b)
         \/ \E trace \in HookTraces \cup {AnyTrace} : Attach(trace)
         \/ ClearHooks \/ Detach \/ ResetSession
  PROVE  ReplayInv'
<1>1. UNCHANGED <<firePc, openSpan, hookedSpans, serialSpans, handedOn>>
  BY DEF Op, firingVars
<1>2. CASE \E b \in Buckets : RegisterHook(b)
  <2>1. UNCHANGED <<sessionFilter, sessionSpans, attachedFrom>>
    BY <1>2 DEF RegisterHook, sessionVars
  <2> QED BY <1>1, <2>1 DEF ReplayInv, Held, InSpan, FromFile, OfTrace, ToSet
<1>3. CASE attachedFrom' = MaxHookSpans
  BY <1>1, <1>3 DEF ReplayInv, InSpan
<1>4. CASE attachedFrom' # MaxHookSpans /\ \E trace \in HookTraces \cup {AnyTrace} : Attach(trace)
  <2>1. attachedFrom' = Len(hookedSpans) /\ sessionSpans' = sessionSpans
    BY <1>4 DEF Attach
  <2>2. CASE attachedFrom' # 0
    BY <1>1, <2>2 DEF ReplayInv, InSpan
  <2>3. CASE attachedFrom' = 0
    <3>1. \A u \in Threads : ~InSpan(u)
      BY <2>1, <2>3 DEF OwnSpans
    <3>2. handedOn \in Seq(SpanIds) /\ sessionSpans \in Seq(SpanIds)
          /\ \A s \in SpanIds : ~(s <= 0)
      BY SpanHooksAssumption DEF Bounded, HooksTypeOK, SpanIds
    <3>3. handedOn = <<>> /\ sessionSpans = <<>>
      <4>1. \A i \in DOMAIN handedOn : handedOn[i] \in SpanIds /\ handedOn[i] <= 0
        BY <2>1, <2>3, <3>2 DEF Bounded
      <4>2. \A i \in DOMAIN sessionSpans : sessionSpans[i] \in SpanIds /\ sessionSpans[i] <= 0
        BY <2>1, <2>3, <3>2 DEF Bounded
      <4>3. DOMAIN handedOn = {} /\ DOMAIN sessionSpans = {}
        BY <3>2, <4>1, <4>2
      <4> QED BY <3>2, <4>3
    <3> QED BY <1>1, <2>1, <3>1, <3>3, SelectedOfNone DEF ReplayInv, Held, InSpan, FromFile
  <2> QED BY <2>2, <2>3
<1> QED BY <1>2, <1>3, <1>4 DEF ClearHooks, Detach, ResetSession

LEMMA StepsKeepReplay ==
  ASSUME Bounded, OwnSpans, RecordingInv, ReplayInv, NEW t \in Threads,
         \/ \E shape \in SpanShapes : OpenHookedSpan(t, shape)
         \/ NextList(t) \/ CloseHookedSpan(t) \/ CallHook(t)
         \/ AskSession(t) \/ RecordSpan(t) \/ EmitHookedSpan(t)
  PROVE  ReplayInv'
<1> USE DEF Moves
<1>1. /\ HooksTypeOK /\ handedOn \in Seq(SpanIds) /\ sessionSpans \in Seq(SpanIds)
      /\ hookedSpans \in Seq(SpanShapes) /\ Len(hookedSpans) \in Nat
      /\ DOMAIN firePc = Threads /\ DOMAIN openSpan = Threads
  BY DEF Bounded, HooksTypeOK
<1>2. UNCHANGED <<sessionFilter, attachedFrom>>
  BY DEF OpenHookedSpan, NextList, CloseHookedSpan, CallHook, AskSession, RecordSpan,
         EmitHookedSpan, sessionVars
<1>3. CASE NextList(t) \/ CloseHookedSpan(t) \/ CallHook(t) \/ AskSession(t)
  <2>1. UNCHANGED <<openSpan, hookedSpans, serialSpans, handedOn, sessionSpans>>
    BY <1>3 DEF NextList, CloseHookedSpan, CallHook, AskSession, sessionVars
  <2>2. \A u \in Threads : InSpan(u)' <=> InSpan(u)
    BY <1>1, <1>3 DEF NextList, CloseHookedSpan, CallHook, AskSession, InSpan
  <2> QED BY <1>2, <2>1, <2>2 DEF ReplayInv, Held, FromFile, OfTrace, ToSet
<1>4. ASSUME NEW shape \in SpanShapes, OpenHookedSpan(t, shape) PROVE ReplayInv'
  <2> DEFINE s == Len(hookedSpans) + 1
  <2>1. /\ firePc' = [firePc EXCEPT ![t] = "start"] /\ openSpan' = [openSpan EXCEPT ![t] = s]
        /\ hookedSpans' = Append(hookedSpans, shape) /\ UNCHANGED <<sessionSpans, handedOn>>
        /\ serialSpans' = (serialSpans /\ \A u \in Threads : firePc[u] = "out")
    BY <1>4 DEF OpenHookedSpan, sessionVars
  <2> SUFFICES ASSUME serialSpans' PROVE ReplayInv'
    BY DEF ReplayInv
  <2>2. serialSpans /\ \A u \in Threads : ~InSpan(u) /\ ~Held(u)
    BY <2>1 DEF InSpan, Held
  <2>3. \A u \in Threads : (InSpan(u)' => u = t) /\ openSpan'[t] = s
    BY <1>1, <2>1, <2>2 DEF InSpan
  <2>4. s \notin ToSet(sessionSpans)
    BY NewSpanIsNew
  <2>5. \A u \in Threads : ~Held(u)'
    BY <2>1, <2>3, <2>4 DEF Held
  <2>6. FromFile' = FromFile
    <3>1. \A i \in DOMAIN handedOn : handedOn[i] \in 1..Len(hookedSpans)
      <4>1. \A i \in DOMAIN handedOn : handedOn[i] \in SpanIds /\ handedOn[i] <= Len(hookedSpans)
        BY <1>1 DEF Bounded
      <4> QED BY <1>1, <4>1 DEF SpanIds
    <3>2. /\ DOMAIN hookedSpans = 1..Len(hookedSpans) /\ DOMAIN hookedSpans' = 1..s
          /\ \A i \in 1..Len(hookedSpans) : i \in 1..s /\ hookedSpans'[i] = hookedSpans[i]
      BY <1>1, <2>1
    <3>3. \A i \in DOMAIN handedOn :
            handedOn[i] \in OfTrace(sessionFilter) <=> handedOn[i] \in OfTrace(sessionFilter)'
      BY <1>2, <3>1, <3>2 DEF OfTrace
    <3> QED BY <1>1, <2>1, <3>3, SelectedOnlyLooksAt DEF FromFile
  <2> QED BY <1>2, <2>1, <2>2, <2>3, <2>5, <2>6 DEF ReplayInv
<1>5. CASE RecordSpan(t)
  <2>1. /\ firePc[t] = "record" /\ firePc' = [firePc EXCEPT ![t] = "endAll"]
        /\ sessionSpans' = Append(sessionSpans, openSpan[t])
        /\ UNCHANGED <<openSpan, hookedSpans, serialSpans, handedOn>>
    BY <1>5 DEF RecordSpan
  <2>2. InSpan(t) /\ openSpan[t] \in SpanIds /\ openSpan[t] > 0
    BY <2>1, SpanFacts DEF InSpan, SpanIds
  <2>3. \A u \in Threads : InSpan(u)' <=> InSpan(u)
    BY <1>1, <2>1 DEF InSpan
  <2>4. FromFile' = FromFile
    BY <1>2, <2>1 DEF FromFile, OfTrace
  <2> SUFFICES ASSUME serialSpans, attachedFrom = 0, MaxHookSpans # 0
               PROVE  /\ \A u \in Threads : Held(u)' => sessionSpans' = Append(FromFile, openSpan[u])
                      /\ ~ \A u \in Threads : ~Held(u)'
    BY <1>2, <2>1, <2>3, <2>4 DEF ReplayInv
  <2>5. \A u \in Threads : InSpan(u) => u = t
    BY <2>2 DEF ReplayInv
  <2>6. ~Held(t)
    <3>1. Sessions(firing[t]) # 0
      <4>1. firing[t] # <<>> /\ Head(firing[t]) = "session" /\ firing[t] \in Seq(Listeners)
        BY <2>1, <2>2, BoundedFirings DEF RecordingInv, Records
      <4> QED BY <4>1, SessionsAreCounted
    <3>2. openSpan[t] \in ToSet(sessionSpans) => Sessions(firing[t]) = 0
      BY <2>1, <2>2 DEF RecordingInv, Attached
    <3> QED BY <3>1, <3>2 DEF Held
  <2>7. sessionSpans = FromFile
    BY <2>5, <2>6 DEF ReplayInv, Held
  <2>8. Held(t)'
    BY <1>1, <2>1, <2>2, <2>3, ToSetAdds DEF Held
  <2> QED BY <2>1, <2>3, <2>5, <2>7, <2>8 DEF Held
<1>6. CASE EmitHookedSpan(t)
  <2>1. /\ firePc[t] = "emit" /\ firePc' = [firePc EXCEPT ![t] = "out"]
        /\ handedOn' = Append(handedOn, openSpan[t])
        /\ UNCHANGED <<hookedSpans, serialSpans, sessionSpans>>
    BY <1>6 DEF EmitHookedSpan, sessionVars
  <2>2. /\ InSpan(t) /\ openSpan[t] \in SpanIds /\ openSpan[t] > 0
        /\ openSpan[t] \in DOMAIN hookedSpans
    BY <1>1, <2>1, SpanFacts DEF InSpan, SpanIds
  <2>3. \A u \in Threads : InSpan(u)' <=> InSpan(u) /\ u # t
    BY <1>1, <2>1 DEF InSpan
  <2> SUFFICES ASSUME serialSpans
               PROVE  /\ \A u, w \in Threads : InSpan(u)' /\ InSpan(w)' => u = w
                      /\ attachedFrom = 0 /\ MaxHookSpans # 0 =>
                           (\A u \in Threads : ~Held(u)') /\ sessionSpans = FromFile'
    BY <1>2, <2>1 DEF ReplayInv
  <2>4. \A u \in Threads : InSpan(u) => u = t
    BY <2>2 DEF ReplayInv
  <2>5. \A u \in Threads : ~InSpan(u)' /\ ~Held(u)'
    BY <2>3, <2>4 DEF Held
  <2> SUFFICES ASSUME attachedFrom = 0, MaxHookSpans # 0 PROVE sessionSpans = FromFile'
    BY <2>5
  <2>6. FromFile' = IF openSpan[t] \in OfTrace(sessionFilter)
                    THEN Append(FromFile, openSpan[t]) ELSE FromFile
    <3>1. OfTrace(sessionFilter)' = OfTrace(sessionFilter)
      BY <1>2, <2>1 DEF OfTrace
    <3> QED BY <1>1, <2>1, <2>2, <3>1, SelectedOfAppend DEF FromFile
  <2>7. openSpan[t] \in OfTrace(sessionFilter) <=> openSpan[t] \in ToSet(sessionSpans)
    <3>1. Sessions(firing[t]) = 0
      BY <2>1, <2>2, CopiesOfNone DEF RecordingInv, Records, Sessions
    <3>2. openSpan[t] \in ToSet(sessionSpans) <=> Wanted(openSpan[t]) /\ Sessions(firing[t]) = 0
      BY <2>1, <2>2 DEF RecordingInv, Attached
    <3> QED BY <2>2, <3>1, <3>2 DEF Wanted, OfTrace
  <2>8. CASE Held(t)
    BY <2>6, <2>7, <2>8 DEF ReplayInv, Held
  <2>9. CASE ~Held(t)
    <3>1. sessionSpans = FromFile
      BY <2>4, <2>9 DEF ReplayInv, Held
    <3> QED BY <2>2, <2>6, <2>7, <2>9, <3>1 DEF Held
  <2> QED BY <2>8, <2>9
<1> QED BY <1>3, <1>4, <1>5, <1>6

LEMMA HooksStep == HooksInv /\ [HooksNext]_hookVars => HooksInv'
<1> SUFFICES ASSUME HooksInv, [HooksNext]_hookVars PROVE HooksInv'
  OBVIOUS
<1>1. Bounded /\ OwnSpans /\ HearingInv /\ RecordingInv /\ ReplayInv
  BY DEF HooksInv
<1>2. ASSUME \/ \E b \in Buckets : RegisterHook(b)
             \/ \E trace \in HookTraces \cup {AnyTrace} : Attach(trace)
             \/ ClearHooks \/ Detach \/ ResetSession
      PROVE  HooksInv'
  <2>1. Op
    BY <1>2 DEF RegisterHook, Attach, ClearHooks, Detach, ResetSession
  <2>2. OwnSpans'
    BY <1>1, <2>1 DEF Op, firingVars, OwnSpans, InSpan, Finished
  <2> QED BY <1>1, <1>2, <2>1, <2>2, CallsKeepBounds, CallsKeepHearing, CallsKeepRecording,
          CallsKeepReplay DEF HooksInv
<1>3. ASSUME NEW t \in Threads,
             \/ \E shape \in SpanShapes : OpenHookedSpan(t, shape)
             \/ NextList(t) \/ CloseHookedSpan(t) \/ CallHook(t)
             \/ AskSession(t) \/ RecordSpan(t) \/ EmitHookedSpan(t)
      PROVE  HooksInv'
  <2>1. firePc[t] = "record" => firing[t] # <<>>
    BY <1>1 DEF RecordingInv, Records, InSpan
  <2> QED BY <1>1, <1>3, <2>1, StepsKeepBounds, SpansStayOwn, StepsKeepHearing, StepsKeepRecording,
          StepsKeepReplay DEF HooksInv
<1>4. CASE UNCHANGED hookVars
  <2>1. UNCHANGED <<listeners, clears, sessionActive, sessionFilter, sessionSpans, attachments,
                    attachedFrom, firePc, firing, openSpan, hookedSpans, heard, expected,
                    serialSpans, handedOn, inFile>>
    BY <1>4 DEF hookVars, registryVars, sessionVars, firingVars
  <2>2. Bounded' /\ OwnSpans'
    BY <1>1, <2>1 DEF Bounded, OwnSpans, InSpan, Finished, HooksTypeOK
  <2>3. HearingInv'
    <3>1. ASSUME NEW t \in Threads PROVE Hears(t)' <=> Hears(t)
      BY <2>1 DEF Hears, Hooked, Copies, Snapshot, Shape
    <3>2. HookHearsBothEnds' <=> HookHearsBothEnds
      BY <2>1 DEF HookHearsBothEnds, Finished
    <3> QED BY <1>1, <2>1, <3>1, <3>2 DEF HearingInv, InSpan
  <2>4. RecordingInv'
    <3>1. ASSUME NEW t \in Threads PROVE Records(t)' <=> Records(t)
      BY <2>1 DEF Records, Sessions, Copies
    <3>2. SessionIsComplete' <=> SessionIsComplete
      BY <2>1 DEF SessionIsComplete, Finished, ToSet
    <3>3. /\ Sessions(listeners["span_end"])' = Sessions(listeners["span_end"])
          /\ \A s : Copies(sessionSpans, s)' = Copies(sessionSpans, s)
          /\ \A t : Sessions(firing[t])' = Sessions(firing[t]) /\ (InSpan(t)' <=> InSpan(t))
          /\ \A t : Wanted(openSpan[t])' <=> Wanted(openSpan[t])
      BY <2>1 DEF Sessions, Copies, InSpan, Wanted
    <3>4. Attached' <=> Attached
      BY <2>1, <3>3 DEF Attached, ToSet
    <3> QED BY <1>1, <2>1, <3>1, <3>2, <3>3, <3>4 DEF RecordingInv
  <2>5. ReplayInv'
    BY <1>1, <2>1 DEF ReplayInv, Held, InSpan, FromFile, OfTrace, ToSet
  <2> QED BY <2>2, <2>3, <2>4, <2>5 DEF HooksInv
<1> QED BY <1>2, <1>3, <1>4 DEF HooksNext

(* A user's hook hears both ends of every span as often as it was          *)
(* registered, and a session that stays attached holds every span of its   *)
(* trace, each once, whatever other threads register, clear or attach and  *)
(* however many spans overlap (_hooks.py, inspect.py).                     *)
THEOREM HooksAreFaithful == HooksSpec => []SessionsAreFaithful
<1>1. HooksInv => SessionsAreFaithful
  <2> SUFFICES ASSUME HooksInv PROVE RecordedOncePerAttachment
    BY DEF HooksInv, HearingInv, RecordingInv, SessionsAreFaithful
  <2>1. \A s \in 1..Len(hookedSpans) : s \in SpanIds
    BY SpanHooksAssumption DEF HooksInv, Bounded, HooksTypeOK, SpanIds
  <2> QED BY <2>1 DEF HooksInv, RecordingInv, RecordedOncePerAttachment
<1> QED BY <1>1, HooksInitial, HooksStep, PTL DEF HooksSpec

(* The tool calls that inspect_trace finds in the file, and its verdicts   *)
(* on them, are those of a session that was attached from the start, asked *)
(* of the spans that reached the file, for every program whose spans do    *)
(* not overlap and whatever is sampled out or lost (inspect.py).           *)
THEOREM ReplaysAgree == HooksSpec => []ReplayAgrees
<1>1. HooksInv => ReplayAgrees
  <2> SUFFICES ASSUME HooksInv, serialSpans, AllOut, attachedFrom = 0, Len(hookedSpans) > 0
               PROVE  InspectTrace(sessionFilter) = Calls(Selected(sessionSpans, inFile))
    BY DEF ReplayAgrees
  <2>1. MaxHookSpans # 0
    BY SpanHooksAssumption DEF HooksInv, Bounded, HooksTypeOK
  <2>2. \A t \in Threads : ~Held(t)
    BY DEF AllOut, Held, InSpan
  <2>3. sessionSpans = FromFile
    BY <2>1, <2>2 DEF HooksInv, ReplayInv
  <2>4. Selected(TraceFile, OfTrace(sessionFilter)) = Selected(FromFile, inFile)
    BY SelectionsCommute DEF HooksInv, Bounded, HooksTypeOK, TraceFile, FromFile
  <2> QED BY <2>3, <2>4 DEF InspectTrace
<1> QED BY <1>1, HooksInitial, HooksStep, PTL DEF HooksSpec

(* The hook registry and the session keep to their types.                  *)
THEOREM HooksTypes == HooksSpec => []HooksTypeOK
<1>1. HooksInv => HooksTypeOK
  BY DEF HooksInv, Bounded
<1> QED BY <1>1, HooksInitial, HooksStep, PTL DEF HooksSpec

=============================================================================
