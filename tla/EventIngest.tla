---------------------------- MODULE EventIngest ----------------------------
(***************************************************************************)
(* stream.py: EventStream.from_file, from_queue, from_async_queue and      *)
(* from_kafka, called again and again on a source that others fill.  A     *)
(* Kafka consumer group keeps its offset at the broker.                    *)
(***************************************************************************)
EXTENDS Naturals, FiniteSets, SequencesExt

CONSTANTS MaxMessages, MaxProduced, MaxReads   \* max_messages, 0 for None; bounds

ASSUME IngestAssumption == {MaxMessages, MaxProduced, MaxReads} \subseteq Nat

VARIABLES
  sourceKind,   \* fixed by Init, with skip_errors
  skipErrors,
  produced,     \* the source: events, malformed messages and sentinels
  position, committed,
  ingestPc, collected, \* the call in progress and its list
  returned,     \* the streams handed to the caller, one after the other
  discarded,    \* events of calls that raised or died
  reads

ingestVars == <<sourceKind, skipErrors, produced, position, committed, ingestPc,
                collected, returned, discarded, reads>>

Sources1 == {"file", "queue", "asyncQueue", "kafka", "kafkaGroup"}
Kafka    == sourceKind \in {"kafka", "kafkaGroup"}
Queue    == sourceKind \in {"queue", "asyncQueue"}

IngestTypeOK ==
  /\ sourceKind \in Sources1 /\ skipErrors \in BOOLEAN
  /\ produced \in Seq({"event", "malformed", "sentinel"})
  /\ position \in 0..MaxProduced /\ committed \in 0..MaxProduced
  /\ ingestPc \in {"idle", "reading"}
  /\ collected \in Seq(1..MaxProduced) /\ returned \in Seq(1..MaxProduced)
  /\ discarded \subseteq 1..MaxProduced /\ reads \in 0..MaxReads

IngestInit ==
  /\ sourceKind \in Sources1 /\ skipErrors \in BOOLEAN
  /\ produced = <<>> /\ position = 0 /\ committed = 0
  /\ ingestPc = "idle" /\ collected = <<>> /\ returned = <<>>
  /\ discarded = {} /\ reads = 0

(* A queue holds Event objects: nothing there is malformed.                *)
Produce(m) ==
  /\ Len(produced) < MaxProduced
  /\ Queue => m # "malformed"
  /\ produced' = Append(produced, m)
  /\ UNCHANGED <<sourceKind, skipErrors, position, committed, ingestPc, collected,
                 returned, discarded, reads>>

-----------------------------------------------------------------------------
(* A file, and a topic without a group, are read from the beginning.       *)
StartAt ==
  CASE sourceKind = "kafkaGroup" -> committed
    [] Queue                     -> position
    [] OTHER                     -> 0

StartRead ==
  /\ ingestPc = "idle" /\ reads < MaxReads
  /\ ingestPc' = "reading" /\ reads' = reads + 1
  /\ position' = StartAt /\ collected' = <<>>
  /\ UNCHANGED <<sourceKind, skipErrors, produced, committed, returned, discarded>>

(* consumer.close() commits the position.                                  *)
Closed(at) == IF sourceKind = "kafkaGroup" THEN at ELSE committed

Return(events, at) ==
  /\ ingestPc' = "idle" /\ returned' = returned \o events /\ collected' = <<>>
  /\ committed' = Closed(at)
  /\ UNCHANGED discarded

Raise(at) ==
  /\ ingestPc' = "idle" /\ discarded' = discarded \cup ToSet(collected)
  /\ collected' = <<>>
  /\ committed' = Closed(at)
  /\ UNCHANGED returned

Continue(events) ==
  /\ collected' = events
  /\ UNCHANGED <<ingestPc, returned, committed, discarded>>

(* max_messages, tested after the event was taken.                         *)
Full(events) == Kafka /\ MaxMessages > 0 /\ Len(events) >= MaxMessages

(* In a file the sentinel is a line like any other that does not parse.    *)
TakeOne ==
  LET m == produced[position + 1]
      more == Append(collected, position + 1) IN
  /\ ingestPc = "reading" /\ position < Len(produced)
  /\ position' = position + 1
  /\ IF m = "sentinel" /\ sourceKind # "file" THEN Return(collected, position')
     ELSE IF m = "event"
       THEN IF Full(more) THEN Return(more, position') ELSE Continue(more)
     ELSE IF skipErrors THEN Continue(collected)
     ELSE Raise(position')
  /\ UNCHANGED <<sourceKind, skipErrors, produced, reads>>

(* queue.Empty, the end of the file, no message within poll_timeout_ms.    *)
(* An asyncio queue is awaited.                                            *)
EndOfInput ==
  /\ ingestPc = "reading" /\ sourceKind # "asyncQueue"
  /\ position < Len(produced) => Kafka
  /\ Return(collected, position)
  /\ UNCHANGED <<sourceKind, skipErrors, produced, position, reads>>

(* enable_auto_commit, and a process that dies in the middle of a call.    *)
AutoCommit ==
  /\ ingestPc = "reading" /\ sourceKind = "kafkaGroup"
  /\ committed' = position
  /\ UNCHANGED <<sourceKind, skipErrors, produced, position, ingestPc, collected,
                 returned, discarded, reads>>

CrashWhileReading ==
  /\ ingestPc = "reading" /\ Kafka
  /\ ingestPc' = "idle" /\ discarded' = discarded \cup ToSet(collected)
  /\ collected' = <<>> /\ position' = 0
  /\ UNCHANGED <<sourceKind, skipErrors, produced, committed, returned, reads>>

IngestNext ==
  \/ \E m \in {"event", "malformed", "sentinel"} : Produce(m)
  \/ StartRead \/ TakeOne \/ EndOfInput \/ AutoCommit \/ CrashWhileReading

IngestSpec == IngestInit /\ [][IngestNext]_ingestVars

-----------------------------------------------------------------------------
(* Properties *)

Resumes  == Queue \/ sourceKind = "kafkaGroup"
Consumed == IF sourceKind = "kafkaGroup" THEN committed ELSE position

(* A queue or a consumer group hands every event out at most once, and in  *)
(* the order of the source, over any number of calls, sentinels, errors    *)
(* and crashes.                                                            *)
ReturnedOnceInOrder ==
  Resumes => \A i, j \in DOMAIN returned : i < j => returned[i] < returned[j]

(* What the source will not offer again was returned, is being collected,  *)
(* or was in the list of a call that raised or died: no event goes missing *)
(* at a sentinel, a limit or a malformed neighbour.                        *)
ConsumedIsAccountedFor ==
  Resumes =>
    \A i \in 1..Consumed : produced[i] = "event" =>
      i \in ToSet(returned) \cup ToSet(collected) \cup discarded
=============================================================================
