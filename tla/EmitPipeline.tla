---------------------------- MODULE EmitPipeline ----------------------------
(***************************************************************************)
(* The synchronous emit path of AgentOBS: what a thread does between a     *)
(* span, step or run exit and the event reaching its exporter              *)
(* (_stream._dispatch and everything it calls), and what configure() does  *)
(* to the state that path shares (config.configure,                        *)
(* _stream._reset_exporter).                                               *)
(*                                                                         *)
(* Threads interleave between two reads or writes of shared state.  A      *)
(* section the code runs under _sign_lock, under an exporter's file lock   *)
(* or under _export_error_lock is one step, since nobody observes its      *)
(* inside; _config_lock and _exporter_lock are variables, since configure  *)
(* holds them while unlocked readers look at what it is changing.          *)
(***************************************************************************)
EXTENDS Integers, Sequences, FiniteSets

CONSTANTS
  Threads,        \* application threads
  Events,         \* events that will be dispatched, each once
  SampledOut,     \* the events _should_emit rejects
  Endpoints,      \* the sinks config.exporter/endpoint can name
  Files,          \* those of them written by a SyncJSONLExporter
  Injected,       \* sink of an exporter installed by the application
  Keys,           \* signing keys
  Policies,       \* on_export_error values in use
  Outcomes,       \* failures the environment can cause
  Updates,        \* the argument sets configure() may be called with
  MaxRetries,     \* config.export_max_retries
  MaxConfigures,  \* bound on the calls of configure()
  NoKey, NoEvent, NoThread

(* configure()'s keyword arguments.  "unknown" stands for a keyword that   *)
(* is no attribute of AgentOBSConfig.                                      *)
Assignments ==
  ({"endpoint"} \X Endpoints) \cup ({"key"} \X (Keys \cup {NoKey}))
    \cup ({"policy"} \X Policies) \cup ({"store"} \X BOOLEAN)

Unknown == <<"unknown", 0>>

ASSUME PipelineAssumption ==
  /\ SampledOut \subseteq Events
  /\ Files \subseteq Endpoints
  /\ Injected \notin Endpoints
  /\ NoKey \notin Keys /\ NoEvent \notin Events /\ NoThread \notin Threads
  /\ Policies \subseteq {"raise", "warn", "drop"}
  /\ Outcomes \subseteq {"ExportError", "OSError", "RedactionError", "StoreError", "CloseError"}
  /\ Updates \subseteq SUBSET (Assignments \cup {Unknown})
  /\ MaxRetries \in Nat /\ MaxConfigures \in Nat

VARIABLES
  config,      \* the live AgentOBSConfig singleton
  configLock,  \* owner of config._config_lock
  exporterLock,\* owner of _stream._exporter_lock
  cached,      \* _cached_exporter: an index into made, 0 for None
  made,        \* every exporter object ever built
  prevSigned,  \* _prev_signed_event
  signed,      \* history: what was signed, in signing order
  lines,       \* what each sink has received, in order
  stored,      \* events in the current TraceStore singleton
  storeGen,    \* which TraceStore object is the singleton
  errors,      \* _export_error_count
  todo,        \* events not yet dispatched
  failures,    \* history: every exception that met an error handler
  calls,       \* configure() calls begun
  torn,        \* history: a configure() left before it had reset anything
  pc, cur, exp, tries, gen, level, pending   \* locals of each thread

conf   == <<config, configLock, calls, torn>>
exps   == <<exporterLock, cached, made>>
chain  == <<prevSigned, signed>>
store  == <<stored, storeGen>>
output == <<lines, errors, todo>>
shared == <<conf, exps, chain, store, output>>
locals == <<cur, exp, tries, gen, level, pending>>
vars   == <<shared, pc, failures, locals>>

(* held: lines a failed write() or flush() left in the file object's       *)
(* buffer, first in first out.                                             *)
Exporter == [target : Endpoints \cup {Injected}, closed : BOOLEAN, open : BOOLEAN,
             held : Seq(Events)]
Fresh(s) == [target |-> s, closed |-> FALSE, open |-> FALSE, held |-> <<>>]
Signature == [ev : Events, key : Keys, prev : Events \cup {NoEvent}]

DispatchLabels == {"checkKey", "sign", "resolve", "acquire", "load", "export",
                   "write", "record", "put", "error", "policy", "again"}
ConfigLabels   == {"assign", "closeError", "closePolicy", "discard", "rechain",
                   "restore"}

ConfigTyped ==
  /\ config \in [endpoint : Endpoints, key : Keys \cup {NoKey},
                 policy : Policies, store : BOOLEAN]
  /\ configLock \in Threads \cup {NoThread}
  /\ calls \in Nat /\ torn \in BOOLEAN

ExportersTyped ==
  /\ exporterLock \in Threads \cup {NoThread}
  /\ made \in Seq(Exporter)
  /\ cached \in 0..Len(made)
  /\ exp \in [Threads -> 0..Len(made)]

EventsTyped ==
  /\ prevSigned \in Events \cup {NoEvent}
  /\ signed \in Seq(Signature)
  /\ lines \in [Endpoints \cup {Injected} -> Seq(Events)]
  /\ stored \in SUBSET Events /\ todo \in SUBSET Events
  /\ storeGen \in Nat /\ errors \in Nat
  /\ failures \subseteq ({"dispatch", "store"} \X Events) \cup ({"close"} \X Nat)

ThreadsTyped ==
  /\ pc \in [Threads -> {"idle"} \cup DispatchLabels \cup ConfigLabels]
  /\ cur \in [Threads -> Events \cup {NoEvent}]
  /\ tries \in [Threads -> Nat] /\ gen \in [Threads -> Nat]
  /\ level \in [Threads -> {"store", "dispatch", "exit"}]
  /\ pending \in [Threads -> SUBSET (Assignments \cup {Unknown})]

TypeOK == ConfigTyped /\ ExportersTyped /\ EventsTyped /\ ThreadsTyped

(* The process starts with an empty pipeline, or with an exporter object   *)
(* that testing.MockExporter.installed() or user code put in the cache.    *)
Init ==
  /\ config \in [endpoint : Endpoints, key : Keys \cup {NoKey},
                 policy : Policies, store : BOOLEAN]
  /\ configLock = NoThread /\ exporterLock = NoThread
  /\ \/ made = <<>> /\ cached = 0
     \/ /\ Outcomes \cap {"ExportError", "CloseError"} # {}
        /\ made = <<Fresh(Injected)>> /\ cached = 1
  /\ prevSigned = NoEvent /\ signed = <<>>
  /\ lines = [s \in Endpoints \cup {Injected} |-> <<>>]
  /\ stored = {} /\ storeGen = 0 /\ errors = 0
  /\ todo = Events /\ failures = {} /\ calls = 0 /\ torn = FALSE
  /\ pc = [t \in Threads |-> "idle"]
  /\ cur = [t \in Threads |-> NoEvent]
  /\ exp = [t \in Threads |-> 0]
  /\ tries = [t \in Threads |-> 0]
  /\ gen = [t \in Threads |-> 0]
  /\ level = [t \in Threads |-> "dispatch"]
  /\ pending = [t \in Threads |-> {}]

Moves(t, from, to) == pc[t] = from /\ pc' = [pc EXCEPT ![t] = to]
Goto(t, from, to)  == Moves(t, from, to) /\ UNCHANGED failures

(* A stage raises: the exception is one of its own until it was handled.   *)
Fails(t, from, to, f) == Moves(t, from, to) /\ failures' = failures \cup {f}

-----------------------------------------------------------------------------
(* _dispatch *)

(* Stage 0 and 1: the sampler drops the event, or the redaction policy     *)
(* runs.  A policy that raises ends the dispatch before signing.           *)
Begin(t, e) ==
  /\ e \in todo
  /\ todo' = todo \ {e}
  /\ \/ /\ e \in SampledOut
        /\ pc[t] = "idle" /\ UNCHANGED <<pc, failures, cur>>
     \/ /\ e \notin SampledOut
        /\ Goto(t, "idle", "checkKey")
        /\ cur' = [cur EXCEPT ![t] = e]
     \/ /\ e \notin SampledOut /\ "RedactionError" \in Outcomes
        /\ Fails(t, "idle", "error", <<"dispatch", e>>)
        /\ cur' = [cur EXCEPT ![t] = e]
  /\ tries' = [tries EXCEPT ![t] = 0]
  /\ level' = [level EXCEPT ![t] = "dispatch"]
  /\ UNCHANGED <<conf, exps, chain, store, lines, errors, exp, gen, pending>>

(* Stage 2, outside the lock: "if cfg.signing_key".                        *)
CheckKey(t) ==
  /\ Goto(t, "checkKey", IF config.key # NoKey THEN "sign" ELSE "resolve")
  /\ UNCHANGED <<shared, locals>>

(* Under _sign_lock the key is read again; sign() refuses None.            *)
SignRejected(t) ==
  /\ config.key = NoKey
  /\ Fails(t, "sign", "error", <<"dispatch", cur[t]>>)
  /\ UNCHANGED <<shared, locals>>

(* signing.sign: the event's key and its link to the end of the chain.     *)
(* Mutant: prev_id is taken from the first event ever signed.              *)
SignatureToFirst(t) ==
  [ev |-> cur[t], key |-> config.key,
   prev |-> IF signed = <<>> THEN NoEvent ELSE signed[1].ev]
NewSignature(t) == [ev |-> cur[t], key |-> config.key, prev |-> prevSigned]

Sign(t) ==
  /\ config.key # NoKey
  /\ Goto(t, "sign", "resolve")
  /\ signed' = Append(signed, NewSignature(t))
  /\ prevSigned' = cur[t]
  /\ UNCHANGED <<conf, exps, store, output, locals>>

(* _active_exporter.  Both the fast path and the last line read the global *)
(* again after the test, without the lock.                                 *)
Resolve(t) ==
  /\ Goto(t, "resolve", IF cached # 0 THEN "load" ELSE "acquire")
  /\ UNCHANGED <<shared, locals>>

ResolveLocked(t) ==
  /\ exporterLock = NoThread /\ cached # 0
  /\ Goto(t, "acquire", "export")
  /\ exp' = [exp EXCEPT ![t] = cached]
  /\ UNCHANGED <<shared, cur, tries, gen, level, pending>>

Build(t) ==
  /\ exporterLock = NoThread /\ cached = 0
  /\ Goto(t, "acquire", "load")
  /\ made' = Append(made, Fresh(config.endpoint))
  /\ cached' = Len(made) + 1
  /\ UNCHANGED <<conf, chain, store, output, locals, exporterLock>>

Load(t) ==
  /\ Goto(t, "load", "export")
  /\ exp' = [exp EXCEPT ![t] = cached]
  /\ UNCHANGED <<shared, cur, tries, gen, level, pending>>

-----------------------------------------------------------------------------
(* Stage 3: exporter.export(event) and the retry loop around it *)

IsJsonl(x) == made[x].target \in Files

(* None has no export attribute; a closed SyncJSONLExporter raises          *)
(* RuntimeError.  Neither is an ExportError, so there is no retry.         *)
ExportRefused(t) ==
  /\ \/ exp[t] = 0
     \/ exp[t] # 0 /\ IsJsonl(exp[t]) /\ made[exp[t]].closed
  /\ Fails(t, "export", "error", <<"dispatch", cur[t]>>)
  /\ UNCHANGED <<shared, locals>>

(* SyncJSONLExporter.export tests _closed before it takes its lock.        *)
PassClosedCheck(t) ==
  /\ exp[t] # 0 /\ IsJsonl(exp[t]) /\ ~made[exp[t]].closed
  /\ Goto(t, "export", "write")
  /\ UNCHANGED <<shared, locals>>

(* The first n of the lines in buf reach the file of x, those up to m stay *)
(* in its buffer.                                                          *)
Drain(x, buf, n, m, opened) ==
  /\ lines' = [lines EXCEPT ![made[x].target] = @ \o SubSeq(buf, 1, n)]
  /\ made' = [made EXCEPT ![x].held = SubSeq(buf, n + 1, m), ![x].open = opened]

(* Under the lock: _ensure_open (re)opens the file, then write and flush,  *)
(* which takes along what an earlier failure left in the buffer.           *)
WriteLine(t) ==
  LET buf == Append(made[exp[t]].held, cur[t]) IN
  /\ Goto(t, "write", "record")
  /\ Drain(exp[t], buf, Len(buf), Len(buf), TRUE)
  /\ UNCHANGED <<conf, chain, store, locals, exporterLock, cached, errors,
                 todo>>

(* mkdir() or open() raises OSError, and nothing has happened; or write()  *)
(* or flush() does: some of the older lines have reached the file and the  *)
(* line of this event is still in the buffer, or was lost with write().    *)
WriteFails(t) ==
  LET x == exp[t]
      buf == Append(made[x].held, cur[t])
  IN
  /\ "OSError" \in Outcomes
  /\ Fails(t, "write", "error", <<"dispatch", cur[t]>>)
  /\ \/ ~made[x].open /\ UNCHANGED <<made, lines>>
     \/ \E n \in 0..Len(made[x].held), m \in {Len(buf) - 1, Len(buf)} :
          Drain(x, buf, n, m, TRUE)
  /\ UNCHANGED <<conf, chain, store, locals, exporterLock, cached, errors, todo>>

(* The console exporter and an injected one take the event in one step,    *)
(* then the loop is left.  Mutant: the break is missing.                   *)
AfterDeliveryAgain(t) == IF tries[t] < MaxRetries THEN "export" ELSE "record"
AfterDelivery(t)      == "record"

Deliver(t) ==
  /\ exp[t] # 0 /\ ~IsJsonl(exp[t])
  /\ Goto(t, "export", AfterDelivery(t))
  /\ lines' = [lines EXCEPT ![made[exp[t]].target] = Append(@, cur[t])]
  /\ UNCHANGED <<conf, exps, chain, store, locals, errors, todo>>

(* ExportError: after the sleep the same exporter object is called again,  *)
(* or the last attempt's error is re-raised.                               *)
(* Mutants: the loop falls through when it is exhausted; the error is      *)
(* swallowed; every failure is retried, from the exporter's resolution on, *)
(* without end; a retry starts at stage 2.                                 *)
AfterExportErrorThrough(t) == IF tries[t] < MaxRetries THEN "export" ELSE "record"
AfterExportErrorQuiet(t)   == IF tries[t] < MaxRetries THEN "export" ELSE "idle"
AfterExportErrorForever(t) == "resolve"
AfterExportErrorResign(t)  == IF tries[t] < MaxRetries THEN "checkKey" ELSE "error"
AfterExportError(t)        == IF tries[t] < MaxRetries THEN "export" ELSE "error"

DeliverFails(t) ==
  /\ "ExportError" \in Outcomes
  /\ exp[t] # 0 /\ made[exp[t]].target = Injected
  /\ Moves(t, "export", AfterExportError(t))
  /\ failures' = IF AfterExportError(t) = "error"
                   THEN failures \cup {<<"dispatch", cur[t]>>} ELSE failures
  /\ tries' = [tries EXCEPT ![t] = IF @ < MaxRetries THEN @ + 1 ELSE @]
  /\ UNCHANGED <<shared, cur, exp, gen, level, pending>>

-----------------------------------------------------------------------------
(* Stage 4 and the end of the dispatch *)

Finish(t) == cur' = [cur EXCEPT ![t] = NoEvent]

(* "if cfg.enable_trace_store: get_store()..."                             *)
FetchStore(t) ==
  /\ config.store
  /\ Goto(t, "record", "put")
  /\ gen' = [gen EXCEPT ![t] = storeGen]
  /\ UNCHANGED <<shared, cur, exp, tries, level, pending>>

SkipStore(t) ==
  /\ ~config.store
  /\ Goto(t, "record", "idle")
  /\ Finish(t)
  /\ UNCHANGED <<shared, exp, tries, gen, level, pending>>

(* "....record(event)": into the object fetched, current or replaced.      *)
RecordInStore(t) ==
  /\ Goto(t, "put", "idle")
  /\ Finish(t)
  /\ stored' = IF gen[t] = storeGen THEN stored \cup {cur[t]} ELSE stored
  /\ UNCHANGED <<conf, exps, chain, output, storeGen, exp, tries, gen, level,
                 pending>>

(* record() raises, before or after it has stored the event: the exception *)
(* has a handler of its own inside the dispatch.                           *)
RecordFails(t) ==
  /\ "StoreError" \in Outcomes
  /\ Fails(t, "put", "error", <<"store", cur[t]>>)
  /\ stored' \in {stored, IF gen[t] = storeGen THEN stored \cup {cur[t]} ELSE stored}
  /\ level' = [level EXCEPT ![t] = "store"]
  /\ UNCHANGED <<conf, exps, chain, output, storeGen, cur, exp, tries, gen, pending>>

-----------------------------------------------------------------------------
(* _handle_export_error, called by the handler the exception meets first,  *)
(* and again by each one around it when the policy re-raised: that of the  *)
(* store inside _dispatch, that of _dispatch, and that of the context      *)
(* manager's __exit__.                                                     *)

CountError(t) ==
  /\ \/ Goto(t, "error", "policy")
     \/ Goto(t, "again", "policy")
  /\ errors' = errors + 1
  /\ UNCHANGED <<conf, exps, chain, store, locals, lines, todo>>

Raises == config.policy = "raise"

Reraise(t) ==
  /\ Raises /\ level[t] # "exit"
  /\ Goto(t, "policy", "again")
  /\ level' = [level EXCEPT ![t] = IF @ = "store" THEN "dispatch" ELSE "exit"]
  /\ UNCHANGED <<shared, cur, exp, tries, gen, pending>>

(* Warned, dropped, or raised out of __exit__ into the application.        *)
EndError(t) ==
  /\ ~Raises \/ level[t] = "exit"
  /\ Goto(t, "policy", "idle")
  /\ Finish(t)
  /\ UNCHANGED <<shared, exp, tries, gen, level, pending>>

-----------------------------------------------------------------------------
(* configure() and _reset_exporter *)

Configure(t, u) ==
  /\ configLock = NoThread /\ calls < MaxConfigures
  /\ u # {}
  /\ Goto(t, "idle", "assign")
  /\ configLock' = t
  /\ calls' = calls + 1
  /\ pending' = [pending EXCEPT ![t] = u]
  /\ UNCHANGED <<exps, chain, store, output, config, torn, cur, exp, tries,
                 gen, level>>

(* One setattr.  The keyword order is the caller's, so any order.          *)
AssignField(t) ==
  /\ pc[t] = "assign"
  /\ \E a \in pending[t] \ {Unknown} :
       /\ config' = [config EXCEPT ![a[1]] = a[2]]
       /\ pending' = [pending EXCEPT ![t] = @ \ {a}]
  /\ UNCHANGED <<exps, chain, store, output, pc, failures, configLock, calls,
                 torn, cur, exp, tries, gen, level>>

(* hasattr fails: ValueError, leaving what was assigned and resetting      *)
(* nothing.                                                                *)
RejectField(t) ==
  /\ Unknown \in pending[t]
  /\ Goto(t, "assign", "idle")
  /\ configLock' = NoThread
  /\ pending' = [pending EXCEPT ![t] = {}]
  /\ torn' = TRUE
  /\ UNCHANGED <<exps, chain, store, output, config, calls, cur, exp, tries,
                 gen, level>>

(* Mutant: the exporter is discarded without being closed.                 *)
CloseNothing(x) == UNCHANGED <<made, lines>>

(* SyncJSONLExporter.close delivers what the buffer holds; an OSError on   *)
(* the way is swallowed and the rest is lost.                              *)
Shut(x, n) ==
  /\ lines' = [lines EXCEPT ![made[x].target] = @ \o SubSeq(made[x].held, 1, n)]
  /\ made' = [made EXCEPT ![x].closed = TRUE, ![x].open = FALSE, ![x].held = <<>>]
Close(x) ==
  IF x # 0 /\ IsJsonl(x) /\ ~made[x].closed
    THEN \E n \in 0..Len(made[x].held) :
           /\ n = Len(made[x].held) \/ "OSError" \in Outcomes
           /\ Shut(x, n)
    ELSE UNCHANGED <<made, lines>>

(* _reset_exporter takes _exporter_lock and closes the cached exporter.    *)
CloseExporter(t) ==
  /\ pending[t] = {}
  /\ exporterLock = NoThread
  /\ Goto(t, "assign", "discard")
  /\ exporterLock' = t
  /\ Close(cached)
  /\ UNCHANGED <<conf, chain, store, locals, cached, errors, todo>>

(* The close() of an application's exporter raises, and the error is       *)
(* handled with both locks held.                                           *)
CloseFails(t) ==
  /\ "CloseError" \in Outcomes
  /\ pending[t] = {}
  /\ exporterLock = NoThread
  /\ cached # 0 /\ made[cached].target = Injected
  /\ Fails(t, "assign", "closeError", <<"close", calls>>)
  /\ exporterLock' = t
  /\ UNCHANGED <<conf, chain, store, output, locals, cached, made>>

CountCloseError(t) ==
  /\ Goto(t, "closeError", "closePolicy")
  /\ errors' = errors + 1
  /\ UNCHANGED <<conf, exps, chain, store, locals, lines, todo>>

ForgiveClose(t) ==
  /\ ~Raises
  /\ Goto(t, "closePolicy", "discard")
  /\ UNCHANGED <<shared, locals>>

(* Under "raise" it leaves configure(): exporter, chain and store stay.    *)
ReraiseClose(t) ==
  /\ Raises
  /\ Goto(t, "closePolicy", "idle")
  /\ exporterLock' = NoThread /\ configLock' = NoThread
  /\ torn' = TRUE
  /\ UNCHANGED <<chain, store, output, locals, cached, made, config, calls>>

(* Mutant: the cache keeps the closed exporter.                            *)
DiscardedCacheKept == cached
DiscardedCache     == 0

DiscardExporter(t) ==
  /\ Goto(t, "discard", "rechain")
  /\ cached' = DiscardedCache
  /\ exporterLock' = NoThread
  /\ UNCHANGED <<conf, chain, store, output, locals, made>>

(* Mutants: the chain is not restarted; it is reset to a wrong sentinel.   *)
RestartedChainKept  == prevSigned
RestartedChainWrong == NoKey
RestartedChain      == NoEvent

ResetChain(t) ==
  /\ Goto(t, "rechain", "restore")
  /\ prevSigned' = RestartedChain
  /\ UNCHANGED <<conf, exps, store, output, locals, signed>>

(* A store that cannot be rebuilt stays as it is, and nobody is told.      *)
ResetStore(t) ==
  /\ Goto(t, "restore", "idle")
  /\ \/ stored' = {} /\ storeGen' = storeGen + 1
     \/ "StoreError" \in Outcomes /\ UNCHANGED store
  /\ configLock' = NoThread
  /\ torn' = FALSE
  /\ UNCHANGED <<exps, chain, output, locals, config, calls>>

-----------------------------------------------------------------------------

(* What a thread does next once it is inside _dispatch or configure().     *)
Step(t) ==
  \/ CheckKey(t) \/ SignRejected(t) \/ Sign(t)
  \/ Resolve(t) \/ ResolveLocked(t) \/ Build(t) \/ Load(t)
  \/ ExportRefused(t) \/ PassClosedCheck(t) \/ WriteLine(t) \/ WriteFails(t)
  \/ Deliver(t) \/ DeliverFails(t)
  \/ FetchStore(t) \/ SkipStore(t) \/ RecordInStore(t) \/ RecordFails(t)
  \/ CountError(t) \/ Reraise(t) \/ EndError(t)
  \/ AssignField(t) \/ RejectField(t) \/ CloseExporter(t)
  \/ CloseFails(t) \/ CountCloseError(t) \/ ForgiveClose(t) \/ ReraiseClose(t)
  \/ DiscardExporter(t) \/ ResetChain(t) \/ ResetStore(t)

(* The program may stop once every event has been dispatched.              *)
Quiescent ==
  /\ todo = {} /\ \A t \in Threads : pc[t] = "idle"
  /\ UNCHANGED vars

Next ==
  \/ \E t \in Threads, e \in Events : Begin(t, e)
  \/ \E t \in Threads, u \in Updates : Configure(t, u)
  \/ \E t \in Threads : Step(t)
  \/ Quiescent

Spec == Init /\ [][Next]_vars

(* The operating system schedules every runnable thread.  The number of    *)
(* lock holders is finite, so weak fairness is enough to be served.        *)
FairSpec == Spec /\ \A t \in Threads : WF_vars(Step(t))

-----------------------------------------------------------------------------
(* Properties *)

Written(e) == \E s \in DOMAIN lines : \E i \in DOMAIN lines[s] : lines[s][i] = e

Finished(e) == e \notin todo /\ \A t \in Threads : cur[t] = e => pc[t] = "idle"

(* A dispatch that ended without its event reaching a sink.                *)
Failed == {e \in Events : Finished(e) /\ e \notin SampledOut /\ ~Written(e)}

Chain == INSTANCE AuditChain WITH log <- signed, head <- prevSigned

(* The pipeline implements the abstract audit chain: every step of every   *)
(* thread is a signature, a restart or nothing to the chain.               *)
ImplementsAuditChain == Chain!ChainSpec

(* The audit chain never forks: a signed event is the head of a chain, or  *)
(* its prev_id names the event signed immediately before it, and no event  *)
(* is signed twice, whatever threads and configure() calls interleave.     *)
ChainIsLinear == Chain!Linear

(* The inductive invariant behind ChainIsLinear: a thread inside _dispatch *)
(* works on an event it has taken from the application, and up to the      *)
(* signing stage that event is its own and has never been signed.          *)
BeforeSigning == {"checkKey", "sign"}
DispatchOwnsEvent ==
  \A t \in Threads :
    /\ pc[t] \in DispatchLabels => cur[t] \in Events \ todo
    /\ pc[t] = "write" => exp[t] # 0
UnsignedIsUnshared ==
  /\ Chain!LogEvents \cap todo = {}
  /\ \A t \in Threads : pc[t] \in BeforeSigning => cur[t] \notin Chain!LogEvents
  /\ \A t, u \in Threads :
       pc[t] \in BeforeSigning /\ pc[u] \in BeforeSigning /\ cur[t] = cur[u] => t = u
PipelineInv == TypeOK /\ DispatchOwnsEvent /\ UnsignedIsUnshared

(* The inductive invariant behind the delivery properties below: an event  *)
(* is in the hands of one thread from the moment it is taken until its     *)
(* dispatch ends ...                                                       *)
EventsHaveOneOwner ==
  /\ \A t \in Threads : cur[t] = NoEvent <=> pc[t] \notin DispatchLabels
  /\ \A t, u \in Threads : cur[t] = cur[u] /\ cur[t] # NoEvent => t = u

(* ... and no sink has it, in the file or in the buffer before it, while   *)
(* it waits, if it was sampled out, or before the write; a sink has        *)
(* received it from stage 4 on.                                            *)
HeldBack(e) == \E x \in DOMAIN made : \E i \in DOMAIN made[x].held : made[x].held[i] = e
InSink(e) == Written(e) \/ HeldBack(e)
Undelivered == {"checkKey", "sign", "resolve", "acquire", "load", "export", "write"}
LinesFollowStages ==
  /\ \A e \in todo \cup SampledOut : ~InSink(e)
  /\ \A t \in Threads :
       /\ pc[t] \in Undelivered => ~InSink(cur[t])
       /\ pc[t] \in {"record", "put"} => Written(cur[t])
       /\ pc[t] \in DispatchLabels => cur[t] \notin SampledOut

(* ... each line once, among all files and all buffers: what a buffer      *)
(* holds may still be written.                                             *)
LinesApart ==
  /\ \A x, y \in DOMAIN made : \A i \in DOMAIN made[x].held, j \in DOMAIN made[y].held :
       made[x].held[i] = made[y].held[j] => x = y /\ i = j
  /\ \A e \in Events : ~(Written(e) /\ HeldBack(e))

(* No event vanishes: one that is neither sampled out nor in a sink has    *)
(* been counted by get_export_error_count(), whichever stage failed.       *)
NoSilentLoss == Cardinality(Failed) <= errors

(* No event is delivered twice, and one the sampler rejects is never       *)
(* delivered: retries, races with configure() and stale exporters never    *)
(* duplicate a line.                                                       *)
DeliveredAtMostOnce ==
  \A s1, s2 \in DOMAIN lines : \A i \in DOMAIN lines[s1], j \in DOMAIN lines[s2] :
    /\ lines[s1][i] \notin SampledOut
    /\ lines[s1][i] = lines[s2][j] => s1 = s2 /\ i = j

(* Once a configure() has returned, the cached exporter is the one its     *)
(* endpoint asks for: no thread caches an exporter built from the old      *)
(* configuration, except after a configure() that failed half way.         *)
CachedExporterIsCurrent ==
  configLock = NoThread /\ ~torn /\ cached # 0 /\ made[cached].target # Injected
    => made[cached].target = config.endpoint /\ ~made[cached].closed

(* The trace store only ever holds events that some sink has received      *)
(* (stage 4 runs after stage 3 succeeded).                                 *)
StoredWasExported == \A e \in stored : Written(e)

(* Each failure is counted once, not more: the comment of _dispatch is     *)
(* "let outer except call _handle_export_error once".  A failure is a      *)
(* dispatch that reached no sink, an event the trace store refused, or an  *)
(* exporter that could not be closed.  It holds unless the policy is       *)
(* "raise": then the handlers around the first one count the error again.  *)
ErrorsCountedOnce == errors <= Cardinality(failures)

(* The error count misses no loss and counts no failure twice.             *)
LossesAreTold == NoSilentLoss /\ ErrorsCountedOnce

(* The inductive invariant behind LossesAreTold: what a handler is about   *)
(* to count for the first time, ...                                        *)
Facing(t) == pc[t] \in {"error", "closeError"}
FailureOf(t) ==
  IF pc[t] = "closeError" THEN <<"close", calls>>
  ELSE IF level[t] = "store" THEN <<"store", cur[t]>>
  ELSE <<"dispatch", cur[t]>>
Counted == failures \ {FailureOf(t) : t \in {u \in Threads : Facing(u)}}

(* ... that a failure is one of what has been begun, that each loss has    *)
(* its failure, ...                                                        *)
FailuresFollowStages ==
  /\ \A e \in todo : <<"dispatch", e>> \notin failures /\ <<"store", e>> \notin failures
  /\ \A f \in failures : f[1] = "close" => f[2] <= calls
  /\ \A t \in Threads :
       /\ pc[t] \in Undelivered =>
            /\ <<"dispatch", cur[t]>> \notin failures /\ <<"store", cur[t]>> \notin failures
            /\ level[t] = "dispatch"
       /\ pc[t] \in {"record", "put"} => <<"store", cur[t]>> \notin failures
       /\ pc[t] = "assign" => <<"close", calls>> \notin failures
       /\ Facing(t) => FailureOf(t) \in failures
  /\ \A e \in Events \ (todo \cup SampledOut) :
       \/ Written(e) \/ <<"dispatch", e>> \in failures
       \/ \E t \in Threads : cur[t] = e /\ pc[t] \in Undelivered

(* ... and that errors has counted every failure but those, and nothing    *)
(* else as long as no policy raises.                                       *)
ErrorsFollowCounted ==
  /\ IsFiniteSet(failures)
  /\ Cardinality(Counted) <= errors
  /\ "raise" \notin Policies =>
       errors <= Cardinality(Counted) /\ \A t \in Threads : pc[t] # "again"

(* The inductive invariant behind CachedExporterIsCurrent: who holds the   *)
(* two locks, and that the cache is current again as soon as configure()   *)
(* has discarded the old exporter.                                         *)
LocksAreHeld ==
  \A t \in Threads :
    /\ configLock = t <=> pc[t] \in ConfigLabels
    /\ exporterLock = t <=> pc[t] \in {"closeError", "closePolicy", "discard"}
Settled ==
  (configLock = NoThread /\ ~torn) \/ \E t \in Threads : pc[t] \in {"rechain", "restore"}
CacheFollowsConfig ==
  Settled /\ cached # 0 /\ made[cached].target # Injected
    => made[cached].target = config.endpoint /\ ~made[cached].closed

(* All of what the proofs about any number of threads rest on.             *)
DispatchInv ==
  /\ PipelineInv /\ EventsHaveOneOwner /\ LinesFollowStages /\ LinesApart
  /\ FailuresFollowStages /\ ErrorsFollowCounted /\ LocksAreHeld /\ CacheFollowsConfig

(* A discarded exporter holds no open file (_reset_exporter: "flush +      *)
(* close any open file handles before discarding the exporter").           *)
DiscardedExporterIsShut ==
  \A x \in DOMAIN made : made[x].open => x = cached /\ ~made[x].closed

(* A change of signing key starts a new chain: two linked events were      *)
(* signed with the same key, so that one key verifies each chain.          *)
KeyChangeStartsNewChain ==
  \A i \in DOMAIN signed :
    signed[i].prev # NoEvent => signed[i].key = signed[i - 1].key

(* The signature of an event, and what verify_chain compares its prev_id   *)
(* with: the line above it in the file.                                    *)
IsSigned(e) == \E k \in DOMAIN signed : signed[k].ev = e
PrevOf(e) == signed[CHOOSE k \in DOMAIN signed : signed[k].ev = e].prev
LineAbove(f, i) == IF i = 1 THEN NoEvent ELSE lines[f][i - 1]

(* "agentobs audit-chain" finds no linkage gap in a file nobody tampered   *)
(* with (docs/cli.md: a gap means a missing link).                         *)
FileVerifies ==
  \A f \in Files : \A i \in DOMAIN lines[f] :
    IsSigned(lines[f][i]) => PrevOf(lines[f][i]) = LineAbove(f, i)

(* With a single thread and no failed write the only gaps are the restarts *)
(* configure() makes: between two of them the lines of a file verify.      *)
FileSegmentsVerify ==
  \A f \in Files : \A i \in DOMAIN lines[f] :
    IsSigned(lines[f][i]) => PrevOf(lines[f][i]) \in {NoEvent, LineAbove(f, i)}

(* The inductive invariants behind the three properties of one thread.     *)
(* The exporter in the cache is the one in use, and open only while it may *)
(* be written to; ...                                                      *)
UsesTheCached ==
  /\ \A x \in DOMAIN made : made[x].open => IsJsonl(x)
  /\ \A t \in Threads :
       /\ pc[t] = "load" => cached # 0
       /\ pc[t] \in {"export", "write"} => exp[t] = cached /\ cached # 0
       /\ pc[t] = "write" => IsJsonl(cached)
       /\ pc[t] \in {"closeError", "closePolicy"} =>
            cached # 0 /\ ~IsJsonl(cached) /\ "CloseError" \in Outcomes
       /\ cached # 0 => IF pc[t] = "discard" THEN ~made[cached].open
                                           ELSE ~made[cached].closed
  /\ "OSError" \notin Outcomes => \A x \in DOMAIN made : made[x].held = <<>>

(* ... the head of the chain carries the key in force unless a configure() *)
(* is at work that will restart the chain; ...                             *)
Rekeying(t) ==
  pc[t] \in {"assign", "closeError", "closePolicy", "discard", "rechain"} /\ Unknown \notin pending[t]
HeadHasTheKey ==
  /\ prevSigned # NoEvent /\ (\A t \in Threads : ~Rekeying(t)) =>
       signed[Len(signed)].key = config.key
  /\ \A t \in Threads : pc[t] = "assign" /\ Unknown \in pending[t] =>
       \A a \in pending[t] : a[1] # "key"

(* ... and the event the next line has to name is the last one of the      *)
(* file, where that of an event signed but not yet written comes before.   *)
AfterSigning == {"resolve", "acquire", "load", "export", "write"}
LinkAhead(t) ==
  IF pc[t] \in AfterSigning /\ prevSigned = cur[t]
    THEN signed[Len(signed)].prev ELSE prevSigned
LinkIsLastLine ==
  \A t \in Threads :
    /\ pc[t] \in AfterSigning =>
         prevSigned = cur[t] \/ (prevSigned = NoEvent /\ cur[t] \notin Chain!LogEvents)
    /\ LinkAhead(t) # NoEvent /\ pc[t] # "rechain" =>
         /\ cached # 0
         /\ LET file == lines[made[cached].target] IN
            made[cached].target \in Files => file # <<>> /\ file[Len(file)] = LinkAhead(t)

(* Every dispatch and every configure() returns, whatever fails: retries   *)
(* are bounded and no lock is left held.                                   *)
EveryCallReturns == \A t \in Threads : pc[t] # "idle" ~> pc[t] = "idle"

=============================================================================
