------------------------------ MODULE SpanHooks ------------------------------
(***************************************************************************)
(* The hook registry of _hooks.py and the inspector session of inspect.py, *)
(* which hangs on the end of every span.  A list of callbacks is copied    *)
(* under the registry's lock and called outside it, while others register, *)
(* clear, attach, detach and reset.                                        *)
(***************************************************************************)
EXTENDS Callers, SequencesExt

CONSTANTS
  SpanShapes,   \* [kind, trace, tool, returns, mentions] records
  HookTraces,   \* the trace ids of the shapes
  MaxHookSpans, MaxHookOps   \* bounds: spans, registry and session calls

ASSUME SpanHooksAssumption ==
  /\ MaxHookSpans \in Nat /\ MaxHookOps \in Nat
  /\ \A shape \in SpanShapes : shape.kind \in {"agent", "llm_call", "tool_call", "none"}

Buckets   == {"agent_start", "agent_end", "llm_call", "tool_call", "span_end"}
Listeners == {"hook", "session"}
AnyTrace  == "any"

VARIABLES
  listeners,    \* the lists of HookRegistry, bucket by bucket; its async lists
                \* follow the same path and are left out
  firePc, firing, openSpan, \* a thread's place, callbacks to call, span
  hookedSpans,  \* the shapes of the spans begun, in order
  heard,        \* how often a span's start and end reached the user's hook
  expected,     \* spans and the calls their start owes: history
  clears,       \* clear() calls, for the same
  sessionActive, sessionFilter, sessionSpans, attachments,
  attachedFrom, \* spans begun before the session was attached for good: history
  serialSpans,  \* no two spans were open at once: history
  handedOn,     \* the spans handed to emit_span, in order
  inFile,       \* those of them that a line was written of
  hookOps

registryVars == <<listeners, clears>>
sessionVars  == <<sessionActive, sessionFilter, sessionSpans, attachments, attachedFrom>>
firingVars   == <<firePc, firing, openSpan, hookedSpans, heard, expected, serialSpans, handedOn,
                 inFile>>
hookVars     == <<registryVars, sessionVars, firingVars, hookOps>>

SpanIds == 1..MaxHookSpans

HooksTypeOK ==
  /\ listeners \in [Buckets -> Seq(Listeners)]
  /\ firePc \in [Threads -> {"out", "start", "open", "end", "endAll", "record", "emit"}]
  /\ firing \in [Threads -> Seq(Listeners)]
  /\ openSpan \in [Threads -> 0..MaxHookSpans]
  /\ hookedSpans \in Seq(SpanShapes) /\ handedOn \in Seq(SpanIds) /\ inFile \subseteq SpanIds
  /\ heard \in [SpanIds -> [start : Nat, end : Nat]]
  /\ expected \in [SpanIds -> [calls : Nat, clears : Nat]]
  /\ sessionActive \in BOOLEAN /\ sessionFilter \in HookTraces \cup {AnyTrace}
  /\ sessionSpans \in Seq(SpanIds)
  /\ attachedFrom \in SpanIds \cup {0} /\ serialSpans \in BOOLEAN

HooksInit ==
  /\ listeners = [b \in Buckets |-> <<>>]
  /\ clears = 0 /\ hookOps = 0
  /\ firePc = [t \in Threads |-> "out"] /\ firing = [t \in Threads |-> <<>>]
  /\ openSpan = [t \in Threads |-> 0] /\ hookedSpans = <<>> /\ handedOn = <<>> /\ inFile = {}
  /\ heard = [s \in SpanIds |-> [start |-> 0, end |-> 0]]
  /\ expected = [s \in SpanIds |-> [calls |-> 0, clears |-> 0]]
  /\ sessionActive = FALSE /\ sessionFilter = AnyTrace /\ sessionSpans = <<>>
  /\ attachments = 0 /\ attachedFrom = MaxHookSpans /\ serialSpans = TRUE

-----------------------------------------------------------------------------
(* The registry and the session: one call each.                            *)
Op == hookOps < MaxHookOps /\ hookOps' = hookOps + 1 /\ UNCHANGED firingVars

RegisterHook(b) ==
  /\ Op
  /\ listeners' = [listeners EXCEPT ![b] = Append(@, "hook")]
  /\ UNCHANGED <<clears, sessionVars>>

ClearHooks ==
  /\ Op
  /\ listeners' = [b \in Buckets |-> <<>>]
  /\ clears' = clears + 1 /\ attachedFrom' = MaxHookSpans
  /\ UNCHANGED <<sessionActive, sessionFilter, sessionSpans, attachments>>

(* attach adds the callback once more each time it is called; attach(None) *)
(* keeps the filter of an earlier run.                                     *)
Attach(trace) ==
  /\ Op
  /\ sessionActive' = TRUE
  /\ sessionFilter' = IF trace = AnyTrace THEN sessionFilter ELSE trace
  /\ listeners' = [listeners EXCEPT !["span_end"] = Append(@, "session")]
  /\ attachments' = attachments + 1
  /\ attachedFrom' = IF attachments = 0 THEN Len(hookedSpans) ELSE MaxHookSpans
  /\ UNCHANGED <<clears, sessionSpans>>

Detach ==
  /\ Op /\ sessionActive' = FALSE /\ attachedFrom' = MaxHookSpans
  /\ UNCHANGED <<registryVars, sessionFilter, sessionSpans, attachments>>

(* reset() re-enables recording and leaves the registration as it is.      *)

ResetSession ==
  /\ Op
  /\ sessionActive' = TRUE /\ sessionFilter' = AnyTrace /\ sessionSpans' = <<>>
  /\ attachedFrom' = MaxHookSpans
  /\ UNCHANGED <<registryVars, attachments>>

-----------------------------------------------------------------------------
(* _classify_span: the buckets of a span's start and end, or none.         *)
StartBuckets(kind) ==
  CASE kind = "agent" -> {"agent_start"} [] kind = "none" -> {} [] OTHER -> {kind}
EndBuckets(kind) ==
  CASE kind = "agent" -> {"agent_end"} [] kind = "none" -> {} [] OTHER -> {kind}

Snapshot(buckets) == IF buckets = {} THEN <<>> ELSE listeners[CHOOSE b \in buckets : TRUE]
Copies(seq, x)    == Cardinality({i \in DOMAIN seq : seq[i] = x})
Hooked(seq)       == Copies(seq, "hook")

OpenHookedSpan(t, shape) ==
  LET s == Len(hookedSpans) + 1 IN
  /\ firePc[t] = "out" /\ s <= MaxHookSpans
  /\ hookedSpans' = Append(hookedSpans, shape)
  /\ openSpan' = [openSpan EXCEPT ![t] = s]
  /\ firePc' = [firePc EXCEPT ![t] = "start"]
  /\ firing' = [firing EXCEPT ![t] = Snapshot(StartBuckets(shape.kind))]
  /\ expected' = [expected EXCEPT ![s] =
       [calls |-> Hooked(Snapshot(StartBuckets(shape.kind))), clears |-> clears]]
  /\ serialSpans' = (serialSpans /\ \A u \in Threads : firePc[u] = "out")
  /\ UNCHANGED <<registryVars, sessionVars, heard, handedOn, inFile, hookOps>>

Shape(t) == hookedSpans[openSpan[t]]

(* An unclassified span does not stop here, as it does in _fire_start.     *)
AllEnd(t) == listeners["span_end"]

(* The next list is copied when the one before it is done.                 *)
NextList(t) ==
  /\ firing[t] = <<>>
  /\ \/ /\ Moves(firePc, t, "start", "open") /\ UNCHANGED firing
     \/ /\ Moves(firePc, t, "end", "endAll")
        /\ firing' = [firing EXCEPT ![t] = AllEnd(t)]
     \/ /\ Moves(firePc, t, "endAll", "emit") /\ UNCHANGED firing
  /\ UNCHANGED <<registryVars, sessionVars, openSpan, hookedSpans, heard, expected, serialSpans,
                 handedOn, inFile, hookOps>>

CloseHookedSpan(t) ==
  /\ Moves(firePc, t, "open", "end")
  /\ firing' = [firing EXCEPT ![t] = Snapshot(EndBuckets(Shape(t).kind))]
  /\ UNCHANGED <<registryVars, sessionVars, openSpan, hookedSpans, heard, expected, serialSpans,
                 handedOn, inFile, hookOps>>

(* A callback that raises is warned about and the next one is called.      *)
(* Mutant: the rest is dropped.                                            *)
AfterRaiseNone(rest) == <<>>
AfterRaise(rest)     == rest

CallHook(t) ==
  /\ firing[t] # <<>> /\ Head(firing[t]) = "hook"
  /\ \E raised \in BOOLEAN :
       firing' = [firing EXCEPT ![t] = IF raised THEN AfterRaise(Tail(@)) ELSE Tail(@)]
  /\ heard' = CASE firePc[t] = "start" -> [heard EXCEPT ![openSpan[t]].start = @ + 1]
                [] firePc[t] = "end"   -> [heard EXCEPT ![openSpan[t]].end = @ + 1]
                [] OTHER               -> heard
  /\ UNCHANGED <<registryVars, sessionVars, firePc, openSpan, hookedSpans, expected, serialSpans,
                 handedOn, inFile, hookOps>>

(* _on_span_end tests the flag and the filter without the session's lock.  *)
Matches(t) == sessionActive /\ sessionFilter \in {AnyTrace, Shape(t).trace}

AskSession(t) ==
  /\ firing[t] # <<>> /\ Head(firing[t]) = "session" /\ firePc[t] = "endAll"
  /\ IF Matches(t) THEN firePc' = [firePc EXCEPT ![t] = "record"] /\ UNCHANGED firing
     ELSE firing' = [firing EXCEPT ![t] = Tail(@)] /\ UNCHANGED firePc
  /\ UNCHANGED <<registryVars, sessionVars, openSpan, hookedSpans, heard, expected, serialSpans,
                 handedOn, inFile, hookOps>>

RecordSpan(t) ==
  /\ Moves(firePc, t, "record", "endAll")
  /\ sessionSpans' = Append(sessionSpans, openSpan[t])
  /\ firing' = [firing EXCEPT ![t] = Tail(@)]
  /\ UNCHANGED <<registryVars, sessionActive, sessionFilter, attachments, attachedFrom,
                 openSpan, hookedSpans, heard, expected, serialSpans, handedOn, inFile, hookOps>>

(* emit_span, after the hooks: the event may be sampled out or filtered,   *)
(* and the export may fail, whatever the hooks have seen.                  *)
EmitHookedSpan(t) ==
  /\ Moves(firePc, t, "emit", "out")
  /\ handedOn' = Append(handedOn, openSpan[t])
  /\ \E written \in BOOLEAN :
       inFile' = IF written THEN inFile \cup {openSpan[t]} ELSE inFile
  /\ openSpan' = [openSpan EXCEPT ![t] = 0]
  /\ UNCHANGED <<registryVars, sessionVars, firing, hookedSpans, heard, expected,
                 serialSpans, hookOps>>

HooksNext ==
  \/ \E b \in Buckets : RegisterHook(b)
  \/ \E trace \in HookTraces \cup {AnyTrace} : Attach(trace)
  \/ ClearHooks \/ Detach \/ ResetSession
  \/ \E t \in Threads, shape \in SpanShapes : OpenHookedSpan(t, shape)
  \/ \E t \in Threads : NextList(t) \/ CloseHookedSpan(t) \/ CallHook(t)
                        \/ AskSession(t) \/ RecordSpan(t) \/ EmitHookedSpan(t)

HooksSpec == HooksInit /\ [][HooksNext]_hookVars
-----------------------------------------------------------------------------
(* tool_calls and inspect_trace: the tool spans of a list, each with the   *)
(* verdict of _check_result_used on the spans that follow it.              *)
Subsequent(spans, i) == SubSeq(spans, i + 1, Len(spans))

WasUsed(spans, i, later) ==
  CASE ~hookedSpans[spans[i]].returns \/ later = <<>> -> "unknown"
    [] \E s \in ToSet(later) : hookedSpans[s].returns \/ hookedSpans[s].mentions -> "used"
    [] OTHER -> "discarded"

Calls(spans) ==
  LET tools == SelectSeq([i \in DOMAIN spans |-> i], LAMBDA i : hookedSpans[spans[i]].tool)
  IN [n \in DOMAIN tools |->
        [span |-> spans[tools[n]], used |-> WasUsed(spans, tools[n], Subsequent(spans, tools[n]))]]

ToolCalls == Calls(sessionSpans)

(* Those of a list of spans that are wanted, in their order.               *)
OfTrace(trace) == {s \in DOMAIN hookedSpans : trace \in {AnyTrace, hookedSpans[s].trace}}
Selected(spans, wanted) ==
  LET upTo[n \in 0..Len(spans)] ==
        IF n = 0 THEN <<>>
        ELSE IF spans[n] \in wanted THEN Append(upTo[n - 1], spans[n]) ELSE upTo[n - 1]
  IN  upTo[Len(spans)]

TraceFile == Selected(handedOn, inFile)

(* Mutant: the replay looks at every trace of the file.                    *)
InspectFile(trace)  == Calls(TraceFile)
InspectTrace(trace) == Calls(Selected(TraceFile, OfTrace(trace)))

-----------------------------------------------------------------------------
(* Properties *)

Finished(s) == s \in ToSet(handedOn)
AllOut      == \A t \in Threads : firePc[t] = "out"

(* A user's hook hears the start of a span as often as it was registered   *)
(* then, and its end at least as often unless the registry was cleared in  *)
(* between, whichever hooks raise.                                         *)
HookHearsBothEnds ==
  \A s \in 1..Len(hookedSpans) : Finished(s) =>
    /\ heard[s].start = expected[s].calls
    /\ expected[s].clears = clears => heard[s].end >=
         (IF hookedSpans[s].kind = "agent" THEN 0 ELSE heard[s].start)

(* "The hook remains registered": detach and reset, in any order, leave a  *)
(* session attached once recording a span once.                            *)
RecordedOncePerAttachment ==
  \A s \in 1..Len(hookedSpans) : Copies(sessionSpans, s) <= attachments

(* A session that stays attached holds every span of its trace that began  *)
(* after attach() and ended, whatever its operation, and no other such.    *)
SessionIsComplete ==
  \A s \in (attachedFrom + 1)..Len(hookedSpans) : Finished(s) =>
    (s \in ToSet(sessionSpans) <=> sessionFilter \in {AnyTrace, hookedSpans[s].trace})

(* The JSONL replay finds the tool calls that the live session finds among *)
(* those of its spans that reached the file, with the same verdicts, as    *)
(* long as spans do not overlap: all of them, if none was sampled out or   *)
(* lost.  (A verdict may differ when a span that used a result was.)       *)
ReplayAgrees ==
  serialSpans /\ AllOut /\ attachedFrom = 0 /\ Len(hookedSpans) > 0 =>
    InspectTrace(sessionFilter) = Calls(Selected(sessionSpans, inFile))

(* A hook hears what it was registered for, and a session built on hooks   *)
(* holds the spans of its trace, each as often as it is attached.          *)
SessionsAreFaithful ==
  HookHearsBothEnds /\ RecordedOncePerAttachment /\ SessionIsComplete

(* inspect.py: "The was_result_used heuristic is applied against all other *)
(* span events in the same file" (those that follow, to take it kindly),   *)
(* "trace_id: when provided, only records whose trace_id matches are       *)
(* returned".  Not so: the code drops the other traces before it applies   *)
(* it, which is why ReplayAgrees compares one trace at a time.             *)
JudgedByTheFile ==
  AllOut =>
    \A trace \in HookTraces, i \in DOMAIN TraceFile :
      LET s == TraceFile[i] IN
      \A call \in ToSet(InspectTrace(trace)) :
        call.span = s => call.used = WasUsed(TraceFile, i, Subsequent(TraceFile, i))
=============================================================================
