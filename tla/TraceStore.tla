----------------------------- MODULE TraceStore -----------------------------
(***************************************************************************)
(* _store.py: the ring buffer of recent traces, the global one and those   *)
(* that trace_store() blocks and configure() put in its place.  A dispatch *)
(* takes the global store and then records under that store's own lock.    *)
(* Every store keeps a log of what it was given, which the code does not.  *)
(***************************************************************************)
EXTENDS Callers, FiniteSetsExt, SequencesExt

CONSTANTS
  TraceIds, MaxTraces,     \* traces of the application, sizes configured
  MaxRecorded, MaxStores   \* bounds: events, stores created

ASSUME StoreAssumption ==
  /\ TraceIds \subseteq Nat \ {0} /\ MaxTraces \subseteq Nat \ {0}
  /\ MaxRecorded \in Nat /\ MaxStores \in Nat \ {0}

VARIABLES
  stores,       \* every TraceStore created, in order
  theStore,     \* _store, the global one
  storePc,      \* per thread
  target,       \* the store a dispatch has taken
  blocks        \* per thread: the previous store of each open block

ringVars == <<stores, theStore, storePc, target, blocks>>

Kinds      == {"agent", "other"}
Fresh(max) == [max |-> max, traces |-> <<>>, last |-> 0, log |-> <<>>]

StoreTypeOK ==
  /\ \A i \in DOMAIN stores :
       /\ stores[i].max \in MaxTraces
       /\ stores[i].last \in TraceIds \cup {0}
       /\ \A j \in DOMAIN stores[i].traces : stores[i].traces[j].id \in TraceIds
       /\ stores[i].log \in Seq([trace : TraceIds, kind : Kinds])
  /\ theStore \in DOMAIN stores
  /\ storePc \in [Threads -> {"run", "record", "enter"}]
  /\ target \in [Threads -> Nat]
  /\ blocks \in [Threads -> Seq(DOMAIN stores)]

StoreInit ==
  /\ \E max \in MaxTraces : stores = <<Fresh(max)>>
  /\ theStore = 1
  /\ storePc = [t \in Threads |-> "run"]
  /\ target = [t \in Threads |-> 0]
  /\ blocks = [t \in Threads |-> <<>>]

-----------------------------------------------------------------------------
(* TraceStore *)

Ids(s) == [i \in DOMAIN s.traces |-> s.traces[i].id]

(* popitem(last=False)                                                     *)
Evicted(s) == IF Len(s.traces) >= s.max THEN Tail(s.traces) ELSE s.traces

(* move_to_end.  Mutant: an active trace keeps its place.                  *)
MovedNot(s, id) == s.traces
Moved(s, id) ==
  LET i == SelectInSeq(s.traces, LAMBDA r : r.id = id)
  IN  Append(RemoveAt(s.traces, i), s.traces[i])

(* A copy of the event list, <<>> for None.                                *)
GetTrace(s, id) ==
  LET i == SelectInSeq(s.traces, LAMBDA r : r.id = id)
  IN  IF i = 0 THEN <<>> ELSE s.traces[i].events

GetLastAgentRun(s) == IF s.last = 0 THEN <<>> ELSE GetTrace(s, s.last)

Recorded(s, id, kind) ==
  LET n    == Len(s.log) + 1
      ring == IF Contains(Ids(s), id) THEN Moved(s, id)
              ELSE Append(Evicted(s), [id |-> id, events |-> <<>>])
  IN  [s EXCEPT
         !.traces = [i \in DOMAIN ring |->
                       IF ring[i].id = id THEN [ring[i] EXCEPT !.events = Append(@, n)]
                                          ELSE ring[i]],
         !.last   = IF kind = "agent" THEN id ELSE @,
         !.log    = Append(@, [trace |-> id, kind |-> kind])]

Events == MapThenSumSet(LAMBDA i : Len(stores[i].log), DOMAIN stores)

-----------------------------------------------------------------------------
(* Dispatch, configure() and trace_store() *)

(* get_store(), at the end of a dispatch.                                  *)
TakeStore(t) ==
  /\ Moves(storePc, t, "run", "record")
  /\ target' = [target EXCEPT ![t] = theStore]
  /\ UNCHANGED <<stores, theStore, blocks>>

(* A trace's number says when it first appears: names carry no meaning.    *)
Known == UNION {{s.log[n].trace : n \in DOMAIN s.log} : s \in ToSet(stores)}
InTurn(id) == \A other \in TraceIds : other < id => other \in Known

RecordEvent(t, id, kind) ==
  /\ Events < MaxRecorded /\ InTurn(id)
  /\ Moves(storePc, t, "record", "run")
  /\ stores' = [stores EXCEPT ![target[t]] = Recorded(@, id, kind)]
  /\ target' = [target EXCEPT ![t] = 0]
  /\ UNCHANGED <<theStore, blocks>>

(* _reset_store, by configure(): a new global store, also inside a block.  *)
ResetStore(t, max) ==
  /\ storePc[t] = "run" /\ Len(stores) < MaxStores
  /\ stores' = Append(stores, Fresh(max))
  /\ theStore' = Len(stores')
  /\ UNCHANGED <<storePc, target, blocks>>

(* previous = _store ...                                                   *)
EnterStoreBlock(t) ==
  /\ Len(stores) < MaxStores
  /\ Moves(storePc, t, "run", "enter")
  /\ blocks' = [blocks EXCEPT ![t] = Append(@, theStore)]
  /\ UNCHANGED <<stores, theStore, target>>

(* ... and _store = fresh.                                                 *)
InstallStore(t, max) ==
  /\ Moves(storePc, t, "enter", "run")
  /\ stores' = Append(stores, Fresh(max))
  /\ theStore' = Len(stores')
  /\ UNCHANGED <<target, blocks>>

(* The end of the block, an exception's included.                          *)
ExitStoreBlock(t) ==
  /\ storePc[t] = "run" /\ blocks[t] # <<>>
  /\ theStore' = Last(blocks[t])
  /\ blocks' = [blocks EXCEPT ![t] = Front(@)]
  /\ UNCHANGED <<stores, storePc, target>>

Clear(t) ==
  /\ storePc[t] = "run" /\ stores[theStore].log # <<>>
  /\ stores' = [stores EXCEPT ![theStore] = Fresh(@.max)]
  /\ UNCHANGED <<theStore, storePc, target, blocks>>

StoreNext ==
  \E t \in Threads :
    \/ TakeStore(t)
    \/ \E id \in TraceIds, kind \in Kinds : RecordEvent(t, id, kind)
    \/ \E max \in MaxTraces : ResetStore(t, max) \/ InstallStore(t, max)
    \/ EnterStoreBlock(t) \/ ExitStoreBlock(t) \/ Clear(t)

StoreSpec == StoreInit /\ [][StoreNext]_ringVars

-----------------------------------------------------------------------------
(* Properties *)

LatestOf(s, id) == Max({n \in DOMAIN s.log : s.log[n].trace = id})
Logged(s)       == {s.log[n].trace : n \in DOMAIN s.log}

(* The numbers, in order, of the events of the trace from one of them on.  *)
EndsGapless(s, id, got) ==
  /\ got # <<>> /\ \A a, b \in DOMAIN got : a < b => got[a] < got[b]
  /\ ToSet(got) = {n \in DOMAIN s.log : s.log[n].trace = id /\ n >= got[1]}

(* Every store, replaced or not, holds the most recently active traces, as *)
(* many as max_traces allows, and of each a gapless end of its events.     *)
RingHoldsMostRecent ==
  \A i \in DOMAIN stores :
    LET s == stores[i] IN
    /\ Len(s.traces) = Min({s.max, Cardinality(Logged(s))})
    /\ \A id \in ToSet(Ids(s)) :
         /\ \A other \in Logged(s) \ ToSet(Ids(s)) : LatestOf(s, id) > LatestOf(s, other)
         /\ EndsGapless(s, id, GetTrace(s, id))

(* The latest agent run is found, its completion included, as long as      *)
(* fewer than max_traces other traces have been active since.              *)
LatestAgentRunFound ==
  \A i \in DOMAIN stores :
    LET s    == stores[i]
        runs == {n \in DOMAIN s.log : s.log[n].kind = "agent"}
        n    == Max(runs)
        since == {s.log[m].trace : m \in {j \in DOMAIN s.log : j > n}} \ {s.log[n].trace}
    IN  runs # {} /\ Cardinality(since) < s.max => Contains(GetLastAgentRun(s), n)

(* What the ring drops is what has been quiet longest, and the latest      *)
(* agent run, remembered apart from it, is found while it is in it.        *)
RingIsRecent == RingHoldsMostRecent /\ LatestAgentRunFound
=============================================================================
