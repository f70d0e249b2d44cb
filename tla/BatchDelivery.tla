--------------------------- MODULE BatchDelivery ---------------------------
(***************************************************************************)
(* One export of a batch by the HTTP exporters (webhook, OTLP, Datadog,    *)
(* Grafana Loki): the requests it is split into, posted from an executor   *)
(* thread that nothing can recall, over a network that loses, delays and   *)
(* answers too late.                                                       *)
(***************************************************************************)
EXTENDS Naturals, FiniteSetsExt, SequencesExt

CONSTANTS BatchSize, MaxRetries, MaxBatch   \* bound: events in the batch

ASSUME DeliveryAssumption ==
  BatchSize \in Nat \ {0} /\ MaxRetries \in Nat /\ MaxBatch \in Nat

VARIABLES
  exporterKind, batch,   \* fixed by Init; an event is told apart by its place
  dlPc, cursor, tries,   \* the request to send and the attempt at it
  waiting,               \* requests the task awaits
  inFlight,              \* posts in an executor thread: <<request, attempt>>
  received,              \* posts the server has taken, in order
  result

deliveryVars == <<exporterKind, batch, dlPc, cursor, tries, waiting, inFlight,
                  received, result>>

(* trace_id set; carrying a numeric metric field.                          *)
BatchEvent == [isSpan : BOOLEAN, hasMetric : BOOLEAN]
Exporters1 == {"webhook", "otlp", "datadog", "datadogOne", "loki"}

-----------------------------------------------------------------------------
(* The requests of an export.  Within a request the order of its events,   *)
(* that of the batch or of Loki's streams, is left out.                    *)

Where(P(_)) == {i \in DOMAIN batch : P(batch[i])}
Spans       == Where(LAMBDA e : e.isSpan)
NotSpans    == Where(LAMBDA e : ~e.isSpan)
Measured    == Where(LAMBDA e : e.hasMetric)

(* range(0, len, batch_size): a chunk holds the next batch_size events.    *)
Rank(ids, i) == Cardinality({j \in ids : j <= i})
Chunks(ids, to) ==
  [k \in 1..((Cardinality(ids) + BatchSize - 1) \div BatchSize) |->
     [to |-> to, ids |-> {i \in ids : Rank(ids, i) \in ((k - 1) * BatchSize + 1)..(k * BatchSize)}]]

OneRequest(ids, to) == IF ids = {} THEN <<>> ELSE <<[to |-> to, ids |-> ids]>>

Requests ==
  CASE exporterKind = "webhook" -> OneRequest(DOMAIN batch, "hook")
    [] exporterKind = "loki"    -> OneRequest(DOMAIN batch, "loki")
    [] exporterKind = "otlp"    -> Chunks(Spans, "spans") \o Chunks(NotSpans, "logs")
    [] OTHER -> OneRequest(Spans, "traces") \o OneRequest(Measured, "metrics")

Parallel == exporterKind = "datadogOne"   \* asyncio.gather

DeliveryTypeOK ==
  /\ exporterKind \in Exporters1 /\ batch \in Seq(BatchEvent)
  /\ dlPc \in {"post", "wait", "backoff", "done"}
  /\ cursor \in 1..(MaxBatch + 1) /\ tries \in 1..(MaxRetries + 1)
  /\ waiting \subseteq DOMAIN Requests
  /\ inFlight \subseteq (DOMAIN Requests) \X (1..(MaxRetries + 1))
  /\ received \in Seq((DOMAIN Requests) \X (1..(MaxRetries + 1)))
  /\ result \in {"none", "ok", "raised", "cancelled"}

DeliveryInit ==
  /\ exporterKind \in Exporters1
  /\ batch \in UNION {[1..n -> BatchEvent] : n \in 1..(IF Parallel THEN 1 ELSE MaxBatch)}
  /\ cursor = 1 /\ tries = 1
  /\ waiting = {} /\ inFlight = {} /\ received = <<>>
  /\ IF Requests = <<>> THEN dlPc = "done" /\ result = "ok"
                        ELSE dlPc = "post" /\ result = "none"

-----------------------------------------------------------------------------
(* The task *)

Post ==
  /\ dlPc = "post" /\ dlPc' = "wait"
  /\ waiting' = IF Parallel THEN DOMAIN Requests ELSE {cursor}
  /\ inFlight' = inFlight \cup (waiting' \X {tries})
  /\ UNCHANGED <<exporterKind, batch, cursor, tries, received, result>>

Succeeded(r) ==
  /\ dlPc = "wait" /\ r \in waiting
  /\ Contains(received, <<r, tries>>)
  /\ waiting' = waiting \ {r}
  /\ IF waiting' # {} THEN UNCHANGED <<dlPc, cursor, tries, result>>
     ELSE IF Parallel \/ cursor = Len(Requests)
       THEN dlPc' = "done" /\ result' = "ok" /\ UNCHANGED <<cursor, tries>>
       ELSE dlPc' = "post" /\ cursor' = cursor + 1 /\ tries' = 1 /\ UNCHANGED result
  /\ UNCHANGED <<exporterKind, batch, inFlight, received>>

Raises ==
  /\ dlPc' = "done" /\ result' = "raised" /\ waiting' = {}
  /\ UNCHANGED <<cursor, tries>>

(* Only the webhook exporter tries again.                                  *)
BackOff ==
  /\ exporterKind = "webhook" /\ tries <= MaxRetries
  /\ dlPc' = "backoff" /\ waiting' = {} /\ tries' = tries + 1
  /\ UNCHANGED <<cursor, result>>

(* Mutant: a failed request is passed over.                                *)
PassOver ==
  /\ cursor < Len(Requests) /\ dlPc' = "post" /\ cursor' = cursor + 1
  /\ waiting' = {} /\ UNCHANGED <<tries, result>>
OnFailure == IF exporterKind = "webhook" /\ tries <= MaxRetries THEN BackOff ELSE Raises

(* A 5xx, a network error or a timeout: the post may have been taken, or   *)
(* may yet be.                                                             *)
Failed(r) ==
  /\ dlPc = "wait" /\ r \in waiting
  /\ OnFailure
  /\ UNCHANGED <<exporterKind, batch, inFlight, received>>

(* A 4xx: the server has refused the post, and it is not repeated.         *)
Refused(r) ==
  /\ dlPc = "wait" /\ r \in waiting /\ <<r, tries>> \in inFlight
  /\ inFlight' = inFlight \ {<<r, tries>>}
  /\ Raises
  /\ UNCHANGED <<exporterKind, batch, received>>

BackOffOver ==
  /\ dlPc = "backoff" /\ dlPc' = "post"
  /\ UNCHANGED <<exporterKind, batch, cursor, tries, waiting, inFlight, received, result>>

(* The awaiting task is cancelled; the executor's thread is not.           *)
Cancel ==
  /\ dlPc \in {"wait", "backoff"} /\ dlPc' = "done"
  /\ result' = "cancelled" /\ waiting' = {}
  /\ UNCHANGED <<exporterKind, batch, cursor, tries, inFlight, received>>

-----------------------------------------------------------------------------
(* The network *)

Arrive(p) ==
  /\ p \in inFlight
  /\ inFlight' = inFlight \ {p} /\ received' = Append(received, p)
  /\ UNCHANGED <<exporterKind, batch, dlPc, cursor, tries, waiting, result>>

Lose(p) ==
  /\ p \in inFlight /\ inFlight' = inFlight \ {p}
  /\ UNCHANGED <<exporterKind, batch, dlPc, cursor, tries, waiting, received, result>>

DeliveryNext ==
  \/ Post \/ BackOffOver \/ Cancel
  \/ \E r \in waiting : Succeeded(r) \/ Failed(r) \/ Refused(r)
  \/ \E p \in inFlight : Arrive(p) \/ Lose(p)

DeliverySpec == DeliveryInit /\ [][DeliveryNext]_deliveryVars

-----------------------------------------------------------------------------
(* Properties *)

ReceivedAt(to) ==
  {i \in DOMAIN batch : \E n \in DOMAIN received :
     LET request == Requests[received[n][1]] IN request.to = to /\ i \in request.ids}

(* What a return without an exception means: the server has taken every    *)
(* event of the batch, at every endpoint it is for.                        *)
SuccessMeansDelivered ==
  result = "ok" =>
    CASE exporterKind = "webhook" -> ReceivedAt("hook") = DOMAIN batch
      [] exporterKind = "loki"    -> ReceivedAt("loki") = DOMAIN batch
      [] exporterKind = "otlp"    ->
           \A i \in DOMAIN batch : i \in ReceivedAt(IF batch[i].isSpan THEN "spans" ELSE "logs")
      [] OTHER ->
           \A i \in DOMAIN batch : /\ batch[i].isSpan => i \in ReceivedAt("traces")
                                   /\ batch[i].hasMetric => i \in ReceivedAt("metrics")

(* However late posts arrive, after failures and cancellations, the        *)
(* requests of a batch that is not sent in parallel reach the server in    *)
(* order, without a hole: a caller may resume after the last one taken.    *)
ReceivedWithoutGap ==
  ~Parallel =>
    \A n \in DOMAIN received :
      received[n][1] = 1 \/ \E m \in 1..(n - 1) : received[m][1] = received[n][1] - 1
=============================================================================
