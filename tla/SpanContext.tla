---------------------------- MODULE SpanContext ----------------------------
(***************************************************************************)
(* Spans, agent steps and agent runs (traces) and the two context          *)
(* variables that nest them: _span_stack_var and _run_stack_var            *)
(* (_span.py), the Trace that collects spans (_trace.py) and what an exit  *)
(* hands to the emit path (_stream.emit_span and its siblings).            *)
(*                                                                         *)
(* A task is one contextvars.Context: the main thread, an asyncio task, or *)
(* a thread running copy_context().run.  Asyncio switches tasks between    *)
(* two calls of this API, preemptive threads also inside one.              *)
(***************************************************************************)
EXTENDS Integers, Sequences, FiniteSets

CONSTANTS
  Tasks, Main,   \* contexts, and the one the program starts in
  MaxObjects,    \* bound on the spans, steps and runs ever opened
  Blocks,        \* TRUE: every manager is a with block of one task;
                 \* FALSE: managers are kept and exited in any order, by any
                 \* task (Trace.end, the CrewAI callback handler)
  Preemptive,    \* TRUE: the tasks are threads
  Raising        \* TRUE: a dispatch may raise (on_export_error="raise")

ASSUME SpanAssumption ==
  /\ Main \in Tasks
  /\ MaxObjects \in Nat
  /\ Blocks \in BOOLEAN /\ Preemptive \in BOOLEAN /\ Raising \in BOOLEAN

VARIABLES
  objs,       \* every span, step and run ever opened; an id is an index
  spanStack, runStack,  \* the context variables of each task
  nest,       \* the open with blocks of each task, outermost first
  base,       \* the context each task was started in
  alive,      \* tasks started
  count,      \* AgentRunContext._step_count
  recorded,   \* AgentRunContext._steps
  collected,  \* Trace._spans of the trace that is the run's collector
  emitted, lost,        \* ids whose event was dispatched; whose dispatch raised
  pc, index, loaded     \* a task inside next_step_index

stacks == <<spanStack, runStack>>
runs   == <<count, recorded, collected>>
events == <<emitted, lost>>
local  == <<pc, index, loaded>>
vars   == <<objs, stacks, nest, base, alive, runs, events, local>>

Ids   == 1..MaxObjects
Known == DOMAIN objs
Stack == Seq(Known)

(* "at" is the context in which the manager was entered.  Its component    *)
(* for the variable a manager sets is what the manager's token restores.   *)
Context == [spans : Stack, runs : Stack]
Object  == [kind : {"span", "step", "run"}, trace : Known,
            parent : Known \cup {0}, run : Known \cup {0}, index : Nat,
            task : Tasks, at : Context, open : BOOLEAN]

TypeOK ==
  /\ objs \in Seq(Object) /\ Len(objs) <= MaxObjects
  /\ spanStack \in [Tasks -> Stack] /\ runStack \in [Tasks -> Stack]
  /\ nest \in [Tasks -> Stack]
  /\ base \in [Tasks -> Context]
  /\ alive \in SUBSET Tasks
  /\ count \in [Ids -> Nat]
  /\ recorded \in [Ids -> Stack] /\ collected \in [Ids -> Stack]
  /\ emitted \in SUBSET Known /\ lost \in SUBSET Known
  /\ pc \in [Tasks -> {"run", "load", "store"}]
  /\ index \in [Tasks -> Nat] /\ loaded \in [Tasks -> Nat]

Empty == [spans |-> <<>>, runs |-> <<>>]

Init ==
  /\ objs = <<>>
  /\ spanStack = [t \in Tasks |-> <<>>] /\ runStack = [t \in Tasks |-> <<>>]
  /\ nest = [t \in Tasks |-> <<>>] /\ base = [t \in Tasks |-> Empty]
  /\ alive = {Main}
  /\ count = [r \in Ids |-> 0]
  /\ recorded = [r \in Ids |-> <<>>] /\ collected = [r \in Ids |-> <<>>]
  /\ emitted = {} /\ lost = {}
  /\ pc = [t \in Tasks |-> "run"]
  /\ index = [t \in Tasks |-> 0] /\ loaded = [t \in Tasks |-> 0]

(* stack[-1], 0 for an empty stack.                                        *)
Top(q) == IF q = <<>> THEN 0 ELSE q[Len(q)]

(* A task may call the API: asyncio never switches inside next_step_index. *)
Ready(t) ==
  /\ t \in alive /\ pc[t] = "run"
  /\ Preemptive \/ \A u \in Tasks : pc[u] = "run"

New == Len(objs) + 1
HasRoom == Len(objs) < MaxObjects

(* What __enter__ reads of the context: the enclosing span and run.        *)
Here(t) == [spans |-> spanStack[t], runs |-> runStack[t]]

(* The trace_id of a span or step: the enclosing span's, else the run's,   *)
(* else a fresh one, named by the object that drew it.                     *)
(* Mutant: the fallbacks are forgotten.                                    *)
InheritedParent(t) == Top(spanStack[t])
Inherited(t) ==
  IF spanStack[t] # <<>> THEN objs[Top(spanStack[t])].trace
  ELSE IF runStack[t] # <<>> THEN objs[Top(runStack[t])].trace
  ELSE New

Opened(t, kind, trace, idx) ==
  [kind |-> kind, trace |-> trace, parent |-> Top(spanStack[t]),
   run |-> Top(runStack[t]), index |-> idx, task |-> t, at |-> Here(t),
   open |-> TRUE]

Enter(t, o) ==
  /\ objs' = Append(objs, o)
  /\ nest' = IF Blocks THEN [nest EXCEPT ![t] = Append(@, New)] ELSE nest

-----------------------------------------------------------------------------
(* __enter__ *)

EnterSpan(t) ==
  /\ Ready(t) /\ HasRoom
  /\ Enter(t, Opened(t, "span", Inherited(t), 0))
  /\ spanStack' = [spanStack EXCEPT ![t] = Append(@, New)]
  /\ UNCHANGED <<runStack, base, alive, runs, events, local>>

(* agent_run() and start_trace().                                          *)
EnterRun(t) ==
  /\ Ready(t) /\ HasRoom
  /\ Enter(t, Opened(t, "run", New, 0))
  /\ runStack' = [runStack EXCEPT ![t] = Append(@, New)]
  /\ UNCHANGED <<spanStack, base, alive, runs, events, local>>

(* agent_step() needs a run.  next_step_index is "idx = self._step_count"  *)
(* and "self._step_count += 1": a read, a read and a write.                *)
ReadIndex(t) ==
  /\ Ready(t) /\ HasRoom /\ runStack[t] # <<>>
  /\ pc' = [pc EXCEPT ![t] = "load"]
  /\ index' = [index EXCEPT ![t] = count[Top(runStack[t])]]
  /\ UNCHANGED <<objs, stacks, nest, base, alive, runs, events, loaded>>

LoadCount(t) ==
  /\ pc[t] = "load"
  /\ pc' = [pc EXCEPT ![t] = "store"]
  /\ loaded' = [loaded EXCEPT ![t] = count[Top(runStack[t])]]
  /\ UNCHANGED <<objs, stacks, nest, base, alive, runs, events, index>>

(* Mutant: the counter is not advanced.                                    *)
NextCountStuck(t) == loaded[t]
NextCount(t)      == loaded[t] + 1

EnterStep(t) ==
  /\ pc[t] = "store" /\ HasRoom
  /\ count' = [count EXCEPT ![Top(runStack[t])] = NextCount(t)]
  /\ Enter(t, Opened(t, "step", Inherited(t), index[t]))
  /\ pc' = [pc EXCEPT ![t] = "run"]
  /\ UNCHANGED <<stacks, base, alive, recorded, collected, events, index,
                 loaded>>

-----------------------------------------------------------------------------
(* __exit__ *)

(* Which managers a task may exit: its innermost with block, or any.       *)
MayExit(t, s) ==
  /\ Ready(t) /\ s \in DOMAIN objs /\ objs[s].open
  /\ Blocks => s = Top(nest[t])

Leave(t, s) ==
  /\ objs' = [objs EXCEPT ![s].open = FALSE]
  /\ nest' = IF Blocks THEN [nest EXCEPT ![t] = SubSeq(@, 1, Len(@) - 1)] ELSE nest

(* ContextVar.reset puts back what the token holds; a token of another     *)
(* context is a ValueError.  Mutant: any token is taken.                   *)
OwnTokenAny(t, s) == TRUE
OwnToken(t, s) == objs[s].task = t

(* Mutant: nothing is reset.                                               *)
RestoredKept(s, was)  == was
RestoredSpans(s, was) == objs[s].at.spans
RestoredRuns(s, was)  == objs[s].at.runs

(* The event of s is dispatched; under "raise" the dispatch may raise.     *)
(* Mutant: only roots are emitted.                                         *)
DispatchedRoots(s) ==
  emitted' = (IF objs[s].parent = 0 THEN emitted \cup {s} ELSE emitted) /\ lost' = lost
Dispatched(s) == emitted' = emitted \cup {s} /\ lost' = lost
DispatchRaised(s) == Raising /\ lost' = lost \cup {s} /\ emitted' = emitted

(* emit_span tells the innermost run's Trace, if the dispatch returned.    *)
(* Mutant: the outermost run is told.                                      *)
CollectorOutermost(t) == IF runStack[t] = <<>> THEN 0 ELSE runStack[t][1]
Collector(t)          == Top(runStack[t])

ExitSpan(t, s) ==
  /\ MayExit(t, s) /\ objs[s].kind = "span" /\ OwnToken(t, s)
  /\ Leave(t, s)
  /\ spanStack' = [spanStack EXCEPT ![t] = RestoredSpans(s, @)]
  /\ \/ /\ Dispatched(s)
        /\ collected' = [r \in Ids |->
             IF r = Collector(t) THEN Append(collected[r], s) ELSE collected[r]]
     \/ DispatchRaised(s) /\ UNCHANGED collected
  /\ UNCHANGED <<runStack, base, alive, count, recorded, local>>

(* Mutant: the step is registered with the outermost run.                  *)
StepOwnerOutermost(t) == IF runStack[t] = <<>> THEN 0 ELSE runStack[t][1]
StepOwner(t)          == Top(runStack[t])

ExitStep(t, s) ==
  /\ MayExit(t, s) /\ objs[s].kind = "step"
  /\ Leave(t, s)
  /\ recorded' = [r \in Ids |->
       IF r = StepOwner(t) THEN Append(recorded[r], s) ELSE recorded[r]]
  /\ Dispatched(s) \/ DispatchRaised(s)
  /\ UNCHANGED <<stacks, base, alive, count, collected, local>>

ExitRun(t, s) ==
  /\ MayExit(t, s) /\ objs[s].kind = "run" /\ OwnToken(t, s)
  /\ Leave(t, s)
  /\ runStack' = [runStack EXCEPT ![t] = RestoredRuns(s, @)]
  /\ Dispatched(s) \/ DispatchRaised(s)
  /\ UNCHANGED <<spanStack, base, alive, runs, local>>

(* end() has run when reset() refuses the token: the manager is finished,  *)
(* nothing is restored and nothing is emitted.                             *)
ExitElsewhere(t, s) ==
  /\ MayExit(t, s) /\ objs[s].kind # "step" /\ ~OwnToken(t, s)
  /\ Leave(t, s)
  /\ UNCHANGED <<stacks, base, alive, runs, events, local>>

-----------------------------------------------------------------------------

(* create_task() or copy_context(): the child starts in a copy of the      *)
(* parent's context.  Mutant: in an empty one.                             *)
InheritedContextEmpty(t) == Empty
InheritedContext(t)      == Here(t)

Spawn(t, u) ==
  /\ Ready(t) /\ u \notin alive
  /\ alive' = alive \cup {u}
  /\ spanStack' = [spanStack EXCEPT ![u] = InheritedContext(t).spans]
  /\ runStack' = [runStack EXCEPT ![u] = InheritedContext(t).runs]
  /\ base' = [base EXCEPT ![u] = Here(t)]
  /\ UNCHANGED <<objs, nest, runs, events, local>>

(* The bound is reached: everything is closed, or a step finds no room.    *)
Done ==
  /\ ~HasRoom
  /\ \/ \A i \in DOMAIN objs : ~objs[i].open
     \/ \E t \in Tasks : pc[t] = "store"
  /\ UNCHANGED vars

Next ==
  \/ \E t \in Tasks :
       \/ EnterSpan(t) \/ EnterRun(t)
       \/ ReadIndex(t) \/ LoadCount(t) \/ EnterStep(t)
  \/ \E t \in Tasks, s \in Ids :
       ExitSpan(t, s) \/ ExitStep(t, s) \/ ExitRun(t, s) \/ ExitElsewhere(t, s)
  \/ \E t, u \in Tasks : Spawn(t, u)
  \/ Done

Spec == Init /\ [][Next]_vars

-----------------------------------------------------------------------------
(* Properties *)

(* The context right after the manager of s was entered.                   *)
AfterOf(o, s) ==
  [spans |-> IF o.kind = "span" THEN Append(o.at.spans, s) ELSE o.at.spans,
   runs  |-> IF o.kind = "run" THEN Append(o.at.runs, s) ELSE o.at.runs]
After(s) == AfterOf(objs[s], s)

(* The context variables follow the with blocks: what a task sees is what  *)
(* it inherited plus its own open blocks, whatever other tasks enter, exit *)
(* or outlive ("cannot bleed into each other", _span.py).                  *)
ContextFollowsBlocks ==
  \A t \in alive :
    /\ Here(t) = IF nest[t] = <<>> THEN base[t] ELSE After(Top(nest[t]))
    /\ \A k \in DOMAIN nest[t] :
         objs[nest[t][k]].at = IF k = 1 THEN base[t] ELSE After(nest[t][k - 1])

(* A Trace collects only the spans opened under its own run: emit_span     *)
(* looks the collector up at exit, the span carries the run of its entry.  *)
CollectedByItsRun ==
  \A r \in Ids : \A i \in DOMAIN collected[r] : objs[collected[r][i]].run = r

(* A run's completion event counts only its own steps: record_step looks   *)
(* the run up at exit, the step carries the agent_run_id of its entry.     *)
StepRecordedInItsRun ==
  \A r \in Ids : \A i \in DOMAIN recorded[r] : objs[recorded[r][i]].run = r

(* The steps of a run are numbered 0, 1, 2... without a repetition.        *)
StepsOf(r) == {s \in DOMAIN objs : objs[s].kind = "step" /\ objs[s].run = r}
StepIndexesDense ==
  \A r \in Ids :
    {objs[s].index : s \in StepsOf(r)} = 0..(Cardinality(StepsOf(r)) - 1)

(* Whatever was exited has had its event dispatched: nothing is ended and  *)
(* then forgotten.                                                         *)
EndedWasEmitted ==
  \A s \in DOMAIN objs : ~objs[s].open => s \in emitted \cup lost

(* The same of a Trace alone, whose end() a program may call anywhere      *)
(* ("close the trace and emit the agent-run completion event").            *)
EndedTraceWasEmitted ==
  \A s \in DOMAIN objs : objs[s].kind = "run" /\ ~objs[s].open => s \in emitted \cup lost

(* What a closed Trace holds is all the spans opened under its run that    *)
(* have been exited ("accumulates all child spans").                       *)
TraceHoldsItsSpans ==
  \A s \in DOMAIN objs :
    objs[s].kind = "span" /\ ~objs[s].open /\ objs[s].run # 0
      => \E i \in DOMAIN collected[objs[s].run] : collected[objs[s].run][i] = s

(* A task that has exited all it opened sees the context it started with.  *)
NothingLeftBehind ==
  \A t \in alive :
    (\A s \in DOMAIN objs : objs[s].task = t => ~objs[s].open) => Here(t) = base[t]

(* Even when managers are exited in any order by any task, a task only     *)
(* ever sees what it opened itself or inherited ("concurrent tasks each    *)
(* see their own stack slice and cannot bleed into each other").           *)
OwnOrInherited(t, stack, inherited) ==
  \A i \in DOMAIN stack :
    objs[stack[i]].task = t \/ \E j \in DOMAIN inherited : inherited[j] = stack[i]
CannotBleed ==
  \A t \in alive : /\ OwnOrInherited(t, spanStack[t], base[t].spans)
                   /\ OwnOrInherited(t, runStack[t], base[t].runs)

(* Handles exited in any order keep tasks apart, in what they see and in   *)
(* how their steps are numbered.                                           *)
HandlesKeepApart == CannotBleed /\ StepIndexesDense
=============================================================================
