-------------------------- MODULE CallbackHandlers --------------------------
(***************************************************************************)
(* The handlers that frameworks call back: integrations/crewai.py, whose   *)
(* dictionaries pair the callbacks that open a span with those that close  *)
(* it; llamaindex.py, which keeps the start times of event ids; and        *)
(* langchain.py, which keeps nothing but its events.  The frameworks call  *)
(* in any order, and again for the same tool, task or event id.            *)
(***************************************************************************)
EXTENDS Naturals, FiniteSetsExt, SequencesExt

CONSTANTS
  ToolNames,
  Agents, Tools, \* objects, as the id() that a key holds
  Ticks,        \* readings of time.time_ns(), which may repeat and go back
  InKey,        \* <<name, key>>: the name is a substring of the key
  Tasks,        \* tasks, and event ids of LlamaIndex
  MaxCallbacks  \* bound

(* A key of crewai._tool_spans is "id/name/time": a name is in its own     *)
(* keys, and maybe in those of longer names, of an id or of a time.        *)
CrewKeys == [of : Agents \cup Tools, name : ToolNames, tick : Ticks]

ASSUME CallbackAssumption ==
  /\ \A k \in CrewKeys : <<k.name, k>> \in InKey
  /\ MaxCallbacks \in Nat

VARIABLES
  handler,      \* the framework at hand, fixed by Init
  toolSpans,    \* crewai._tool_spans, in insertion order: [key, span]
  taskSpans,    \* crewai._task_spans: task |-> span, 0 for none
  crewOpen,     \* spans entered and not exited
  crewExits,    \* exits of each span
  startTimes,   \* llamaindex._start_times: 0 for none
  handlerEvents,\* events of the handler, since clear_events
  exportTasks,  \* exports scheduled on a running loop
  callbacks     \* callbacks so far; it numbers spans, starts and events

crewVars     == <<toolSpans, taskSpans, crewOpen, crewExits>>
callbackVars == <<handler, crewVars, startTimes, handlerEvents, exportTasks, callbacks>>

Numbers == 1..MaxCallbacks

CallbackTypeOK ==
  /\ handler \in {"crewai", "llamaindex", "langchain"}
  /\ toolSpans \in Seq([key : CrewKeys, span : Numbers])
  /\ taskSpans \in [Tasks -> Numbers \cup {0}] /\ crewOpen \subseteq Numbers
  /\ crewExits \in [Numbers -> Nat] /\ startTimes \in [Tasks -> Numbers \cup {0}]
  /\ exportTasks \subseteq Numbers /\ callbacks \in 0..MaxCallbacks

CallbackInit ==
  /\ handler \in {"crewai", "llamaindex", "langchain"}
  /\ toolSpans = <<>> /\ taskSpans = [k \in Tasks |-> 0]
  /\ crewOpen = {} /\ crewExits = [s \in Numbers |-> 0]
  /\ startTimes = [k \in Tasks |-> 0] /\ handlerEvents = <<>> /\ exportTasks = {}
  /\ callbacks = 0

Called(h) ==
  /\ handler = h /\ callbacks < MaxCallbacks /\ callbacks' = callbacks + 1
  /\ UNCHANGED handler
New == callbacks + 1

-----------------------------------------------------------------------------
(* CrewAI.  on_agent_action and on_tool_start both open a span for a tool  *)
(* and keep it by its key.  An equal key (the clock has not moved) keeps   *)
(* its place and loses its span, which stays open for good.  on_agent_     *)
(* finish changes nothing: no callback fills the dictionary it looks in.   *)
KeptTool(key, span) ==
  IF \E i \in DOMAIN toolSpans : toolSpans[i].key = key
    THEN [i \in DOMAIN toolSpans |->
            IF toolSpans[i].key = key THEN [key |-> key, span |-> span] ELSE toolSpans[i]]
    ELSE Append(toolSpans, [key |-> key, span |-> span])

OpenToolSpan(of, name, tick) ==
  /\ Called("crewai")
  /\ toolSpans' = KeptTool([of |-> of, name |-> name, tick |-> tick], New)
  /\ crewOpen' = crewOpen \cup {New}
  /\ UNCHANGED <<taskSpans, crewExits, startTimes, handlerEvents, exportTasks>>

OnAgentAction(agent, name, tick) == agent \in Agents /\ OpenToolSpan(agent, name, tick)
OnToolStart(tool, name, tick)    == tool \in Tools /\ OpenToolSpan(tool, name, tick)

(* The output is put on the span first: if str(output) raises, the span    *)
(* has left the dictionary and is never exited.                            *)
ExitCrewSpan(s) ==
  \/ /\ crewOpen' = crewOpen \ {s}
     /\ crewExits' = [crewExits EXCEPT ![s] = @ + 1]
  \/ UNCHANGED <<crewOpen, crewExits>>

(* on_tool_end takes the last entry whose key holds the tool's name,       *)
(* wherever in the key.  Mutant: the first one.                            *)
PickedOldest(matching) == Min(matching)
Picked(matching)       == Max(matching)
Popped(i) == RemoveAt(toolSpans, i)
Holding(name) == {i \in DOMAIN toolSpans : <<name, toolSpans[i].key>> \in InKey}

OnToolEnd(name) ==
  LET matching == Holding(name)
      i == Picked(matching)
  IN /\ Called("crewai")
     /\ IF matching = {} THEN UNCHANGED <<toolSpans, crewOpen, crewExits>>
        ELSE toolSpans' = Popped(i) /\ ExitCrewSpan(toolSpans[i].span)
     /\ UNCHANGED <<taskSpans, startTimes, handlerEvents, exportTasks>>

(* A second start of one task replaces its entry.                          *)
OnTaskStart(k) ==
  /\ Called("crewai")
  /\ taskSpans' = [taskSpans EXCEPT ![k] = New]
  /\ crewOpen' = crewOpen \cup {New}
  /\ UNCHANGED <<toolSpans, crewExits, startTimes, handlerEvents, exportTasks>>

OnTaskEnd(k) ==
  /\ Called("crewai")
  /\ IF taskSpans[k] = 0 THEN UNCHANGED <<taskSpans, crewOpen, crewExits>>
     ELSE taskSpans' = [taskSpans EXCEPT ![k] = 0] /\ ExitCrewSpan(taskSpans[k])
  /\ UNCHANGED <<toolSpans, startTimes, handlerEvents, exportTasks>>

-----------------------------------------------------------------------------
(* LlamaIndex and LangChain: an event is kept, and its export scheduled if *)
(* a loop is running.                                                      *)
MakeEvent(e) ==
  /\ handlerEvents' = Append(handlerEvents, e)
  /\ \E running \in BOOLEAN :
       exportTasks' = IF running THEN exportTasks \cup {New} ELSE exportTasks

Quiet == UNCHANGED <<handlerEvents, exportTasks>>

(* An event type outside _CB_TYPE_MAP is timed and not reported.           *)
OnEventStart(k, known) ==
  /\ Called("llamaindex")
  /\ startTimes' = [startTimes EXCEPT ![k] = New]
  /\ IF known THEN MakeEvent([kind |-> "started", id |-> k, at |-> New, since |-> 0]) ELSE Quiet
  /\ UNCHANGED crewVars

(* _duration_ms pops the start time; None if there is none.                *)
PoppedTime(k) == [startTimes EXCEPT ![k] = 0]

OnEventEnd(k, known) ==
  /\ Called("llamaindex")
  /\ startTimes' = PoppedTime(k)
  /\ IF known
       THEN MakeEvent([kind |-> "completed", id |-> k, at |-> New, since |-> startTimes[k]])
       ELSE Quiet
  /\ UNCHANGED crewVars

OnLangChain(kind, k) ==
  /\ Called("langchain")
  /\ MakeEvent([kind |-> kind, id |-> k, at |-> New, since |-> 0])
  /\ UNCHANGED <<crewVars, startTimes>>

ClearEvents ==
  /\ Called(handler) /\ handler # "crewai"
  /\ handlerEvents' = <<>>
  /\ UNCHANGED <<crewVars, startTimes, exportTasks>>

CallbackNext ==
  \/ \E of \in Agents \cup Tools, name \in ToolNames, tick \in Ticks :
       OnAgentAction(of, name, tick) \/ OnToolStart(of, name, tick)
  \/ \E name \in ToolNames : OnToolEnd(name)
  \/ \E k \in Tasks :
       \/ OnTaskStart(k) \/ OnTaskEnd(k)
       \/ \E known \in BOOLEAN : OnEventStart(k, known) \/ OnEventEnd(k, known)
       \/ \E kind \in {"started", "completed", "error"} : OnLangChain(kind, k)
  \/ ClearEvents

CallbackSpec == CallbackInit /\ [][CallbackNext]_callbackVars

-----------------------------------------------------------------------------
(* Properties *)

(* Whatever the callbacks: a CrewAI span is exited at most once, and never *)
(* while the handler could still find it.                                  *)
CrewSpansExitOnce ==
  \A s \in Numbers :
    /\ crewExits[s] <= 1
    /\ s \in crewOpen => crewExits[s] = 0
    /\ (\E i \in DOMAIN toolSpans : toolSpans[i].span = s) => s \in crewOpen

(* No entry is closed over the head of a later one, unless for a name that *)
(* is in its own key and not in the later one's: the most that holds of    *)
(* the comment "find the most recent open span for this tool name": the    *)
(* end of "search" closes a newer "web_search", whose key holds that name. *)
LaterEntriesCloseFirst ==
  [][\A i, j \in DOMAIN toolSpans :
       i < j /\ toolSpans[i].span \notin crewOpen' /\ toolSpans[j].span \in crewOpen' =>
         \E name \in ToolNames : i \in Holding(name) /\ j \notin Holding(name)]_callbackVars

(* A LlamaIndex duration runs from a start of its own event id, and no two *)
(* ends share a start.                                                     *)
EachStartTimesOneEnd ==
  \A i, j \in DOMAIN handlerEvents :
    handlerEvents[i].since # 0 =>
      /\ handlerEvents[i].since < handlerEvents[i].at
      /\ i # j => handlerEvents[i].since # handlerEvents[j].since

(* Whatever the callbacks: no span and no start is ended twice, and what   *)
(* an end takes is the last entry it matches.  (Not: the entry of its own  *)
(* tool, and not that every span is ended.)                                *)
CallbacksAreMatchedOnce ==
  [](CrewSpansExitOnce /\ EachStartTimesOneEnd) /\ LaterEntriesCloseFirst
=============================================================================
