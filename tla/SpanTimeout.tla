---------------------------- MODULE SpanTimeout ----------------------------
(***************************************************************************)
(* One span, the thread that owns it and the threading.Timer objects of    *)
(* set_timeout_deadline (_span.py).  A timer's callback takes no lock      *)
(* between its test and its three writes, so other threads may run there:  *)
(* CPython since 3.10 gives up the GIL only at calls and at jumps back,    *)
(* and the callback has none, but 3.9, which the package supports, does so *)
(* between any two bytecodes.  record_error, end and __exit__ make calls,  *)
(* and a timer may run at each of them.                                    *)
(***************************************************************************)
EXTENDS Naturals, FiniteSets

CONSTANT MaxTimers  \* bound: set_timeout_deadline calls

ASSUME TimeoutAssumption == MaxTimers \in Nat

VARIABLES
  spanStatus, spanError, spanErrorType, spanCategory, spanEnded,
  timers,       \* "new" | "armed" | "cancelled" | "fired", or where the callback is
  timeoutTimer, \* Span._timeout_timer, 0 for None
  spanPc,       \* where the owner is
  spanPayload,  \* what to_span_payload gave, NoPayload before __exit__
  crossed       \* history: the owner used the fields between a callback's test and last write

spanFields == <<spanStatus, spanError, spanErrorType, spanCategory>>
spanVars   == <<spanFields, spanEnded, timers, timeoutTimer, spanPc, spanPayload, crossed>>

Timers    == 1..MaxTimers
Midway    == {"tested", "statusSet", "errorSet"}   \* _timeout_fn, past its test
TimerAt   == {"new", "armed", "cancelled", "fired"} \cup Midway
NoPayload == [status |-> "none"]
Verdict   == [status : {"ok", "error", "timeout"}, error : {"none", "exc", "deadline"},
              type : {"none", "exc"}, category : {"none", "timeout_error", "other"}]

TimeoutTypeOK ==
  /\ [status |-> spanStatus, error |-> spanError, type |-> spanErrorType,
      category |-> spanCategory] \in Verdict
  /\ spanEnded \in BOOLEAN
  /\ timers \in [Timers -> TimerAt]
  /\ timeoutTimer \in Timers \cup {0}
  /\ spanPc \in {"body", "recording", "recordingExit", "recordedExit", "ending", "endingExit",
                 "leaving", "emit", "left"}
  /\ spanPayload \in Verdict \cup {NoPayload}
  /\ crossed \in BOOLEAN

TimeoutInit ==
  /\ spanStatus = "ok" /\ spanError = "none"
  /\ spanErrorType = "none" /\ spanCategory = "none"
  /\ spanEnded = FALSE
  /\ timers = [i \in Timers |-> "new"] /\ timeoutTimer = 0
  /\ spanPc = "body" /\ spanPayload = NoPayload /\ crossed = FALSE

-----------------------------------------------------------------------------
(* The owner: set_timeout_deadline, record_error, end                      *)

Unused == {i \in Timers : timers[i] = "new"}

(* Timer.cancel() sets an event the timer's thread waits on: a callback    *)
(* that has run is not undone.                                             *)
Cancelled(i) ==
  [j \in Timers |-> IF j = i /\ timers[j] = "armed" THEN "cancelled" ELSE timers[j]]

(* A use of the fields by the owner: is a callback between its writes?     *)
OwnerUsesFields == crossed' = (crossed \/ \E i \in Timers : timers[i] \in Midway)

(* "double-calling would orphan the first timer"                           *)
PreviousStopped == Cancelled(timeoutTimer)

SetTimeoutDeadline ==
  /\ spanPc \in {"body", "left"}
  /\ \E i \in Unused :
       /\ \A j \in Unused : i <= j
       /\ timers' = [PreviousStopped EXCEPT ![i] = "armed"]
       /\ timeoutTimer' = i
  /\ UNCHANGED <<spanFields, spanEnded, spanPc, spanPayload, crossed>>

(* status is set, then str(exc) and the rest are calls away.  __exit__     *)
(* comes here only when it has seen status = "ok".                         *)
RecordError(from, to) ==
  /\ spanPc = from /\ OwnerUsesFields
  /\ spanStatus' = "error"
  /\ spanPc' = to
  /\ UNCHANGED <<spanError, spanErrorType, spanCategory, spanEnded, timers,
                 timeoutTimer, spanPayload>>

FinishRecording(from, to) ==
  /\ spanPc = from /\ OwnerUsesFields
  /\ spanError' = "exc" /\ spanErrorType' = "exc"
  /\ \E exc \in {"other", "timeout_error"} : spanCategory' = exc
  /\ spanPc' = to
  /\ UNCHANGED <<spanStatus, spanEnded, timers, timeoutTimer, spanPayload>>

(* end(): a second call does nothing, not even to a timer set since.       *)
End(from, to, done) ==
  /\ spanPc = from
  /\ spanEnded' = TRUE
  /\ spanPc' = IF spanEnded THEN done ELSE to
  /\ UNCHANGED <<spanFields, timers, timeoutTimer, spanPayload, crossed>>

CancelAtEnd(from, done) ==
  /\ spanPc = from
  /\ timers' = Cancelled(timeoutTimer)
  /\ timeoutTimer' = 0
  /\ spanPc' = done
  /\ UNCHANGED <<spanFields, spanEnded, spanPayload, crossed>>

-----------------------------------------------------------------------------
(* __exit__: with or without an exception of the block                     *)

ExitBlock ==
  /\ spanPc = "body"
  /\ \/ spanPc' = "leaving"
     \/ spanStatus = "ok" /\ spanPc' = "recordingExit"
  /\ UNCHANGED <<spanFields, spanEnded, timers, timeoutTimer, spanPayload, crossed>>

ToSpanPayload ==
  /\ spanPc = "emit" /\ OwnerUsesFields
  /\ spanPayload' = [status |-> spanStatus, error |-> spanError,
                     type |-> spanErrorType, category |-> spanCategory]
  /\ spanPc' = "left"
  /\ UNCHANGED <<spanFields, spanEnded, timers, timeoutTimer>>

-----------------------------------------------------------------------------
(* _timeout_fn: the double guard.  Mutant: one half of it.                 *)
StillOpenOnly == ~spanEnded
StillRunning  == ~spanEnded /\ spanStatus = "ok"

(* end_ns and status are read one after the other; a status that is still  *)
(* "ok" was so a moment ago, so the test counts from its first half.       *)

Callback(i, from, to) ==
  /\ timers[i] = from
  /\ timers' = [timers EXCEPT ![i] = to]
  /\ UNCHANGED <<spanErrorType, spanEnded, timeoutTimer, spanPc, spanPayload, crossed>>

TimerTests(i) ==
  /\ Callback(i, "armed", IF StillRunning THEN "tested" ELSE "fired")
  /\ UNCHANGED spanFields

SetStatus(i) ==
  /\ Callback(i, "tested", "statusSet")
  /\ spanStatus' = "timeout" /\ UNCHANGED <<spanError, spanCategory>>

SetError(i) ==
  /\ Callback(i, "statusSet", "errorSet")
  /\ spanError' = "deadline" /\ UNCHANGED <<spanStatus, spanCategory>>

SetCategory(i) ==
  /\ Callback(i, "errorSet", "fired")
  /\ spanCategory' = "timeout_error" /\ UNCHANGED <<spanStatus, spanError>>

TimerFires(i) == TimerTests(i) \/ SetStatus(i) \/ SetError(i) \/ SetCategory(i)

OwnerRuns ==
  \/ SetTimeoutDeadline
  \/ RecordError("body", "recording") \/ FinishRecording("recording", "body")
  \/ End("body", "ending", "body")    \/ CancelAtEnd("ending", "body")
  \/ ExitBlock
  \/ RecordError("recordingExit", "recordedExit")
  \/ FinishRecording("recordedExit", "leaving")
  \/ End("leaving", "endingExit", "emit") \/ CancelAtEnd("endingExit", "emit")
  \/ ToSpanPayload

TimeoutNext ==
  \/ OwnerRuns
  \/ \E i \in Timers : TimerFires(i)

TimeoutSpec == TimeoutInit /\ [][TimeoutNext]_spanVars

-----------------------------------------------------------------------------
(* Properties *)

(* The emitted payload tells one story, whoever wrote last: a timeout has  *)
(* the deadline's message and category and no exception type, an error has *)
(* all of its exception's fields, a success none.                          *)
OneStory(p) ==
  CASE p.status = "ok"      -> p.error = "none" /\ p.type = "none" /\ p.category = "none"
    [] p.status = "timeout" -> p.error = "deadline" /\ p.type = "none"
                               /\ p.category = "timeout_error"
    [] OTHER                -> p.error = "exc" /\ p.type = "exc"
PayloadTellsOneStory == spanPayload # NoPayload => OneStory(spanPayload)

(* What was emitted is what the span still says: no timer, however late or *)
(* re-armed, changes a span that has been closed.                          *)
EmittedIsFinal ==
  spanPc = "left" =>
    spanPayload = [status |-> spanStatus, error |-> spanError,
                   type |-> spanErrorType, category |-> spanCategory]

(* At most one deadline is armed, and it is the one the span can cancel.   *)
OneDeadline == \A i \in Timers : timers[i] = "armed" => i = timeoutTimer

(* A span's deadline, its end and its errors, in any order, leave no timer *)
(* out of reach, and one account of how it ended, the emitted one, unless  *)
(* an error was recorded or the payload built while a callback was between *)
(* its test and its last write.  The comment in _timeout_fn, that a span   *)
(* which "has already errored or finished is never overwritten", has no    *)
(* such exception: there neither of the two holds.                         *)
DeadlineIsSafe == OneDeadline /\ (crossed \/ (PayloadTellsOneStory /\ EmittedIsFinal))
=============================================================================
