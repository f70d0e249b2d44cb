------------------------- MODULE EmitPipelineProofs -------------------------
(***************************************************************************)
(* Proofs about EmitPipeline for any number of threads, events, keys,      *)
(* sinks, retries and configure() calls.                                   *)
(***************************************************************************)
EXTENDS EmitPipeline, FiniteSetTheorems, SequenceTheorems, TLAPS

USE DEF DispatchLabels, ConfigLabels, Moves

-----------------------------------------------------------------------------
(* Type correctness *)

(* Assigning one keyword argument keeps the configuration well typed.      *)
LEMMA AssignTyped ==
  ASSUME TypeOK, NEW t \in Threads, NEW a \in pending[t] \ {Unknown}
  PROVE  [config EXCEPT ![a[1]] = a[2]] \in
           [endpoint : Endpoints, key : Keys \cup {NoKey},
            policy : Policies, store : BOOLEAN]
<1>1. a \in Assignments
  BY DEF TypeOK, ThreadsTyped
<1>2. CASE a \in {"endpoint"} \X Endpoints
  BY <1>2 DEF TypeOK, ConfigTyped
<1>3. CASE a \in {"key"} \X (Keys \cup {NoKey})
  BY <1>3 DEF TypeOK, ConfigTyped
<1>4. CASE a \in {"policy"} \X Policies
  BY <1>4 DEF TypeOK, ConfigTyped
<1>5. CASE a \in {"store"} \X BOOLEAN
  BY <1>5 DEF TypeOK, ConfigTyped
<1>6. QED BY <1>1, <1>2, <1>3, <1>4, <1>5 DEF Assignments

(* Replacing one member of a sequence keeps it a sequence of that length.  *)
LEMMA ReplaceTyped ==
  ASSUME NEW S, NEW q \in Seq(S), NEW x \in DOMAIN q, NEW v \in S
  PROVE  /\ [q EXCEPT ![x] = v] \in Seq(S)
         /\ Len([q EXCEPT ![x] = v]) = Len(q)
  OBVIOUS

(* What drains from a buffer: the first lines reach the file, the next     *)
(* ones stay.                                                              *)
LEMMA Drained ==
  ASSUME NEW S, NEW buf \in Seq(S), NEW file \in Seq(S),
         NEW n \in 0..Len(buf), NEW m \in n..Len(buf)
  PROVE  /\ file \o SubSeq(buf, 1, n) \in Seq(S)
         /\ Len(file \o SubSeq(buf, 1, n)) = Len(file) + n
         /\ \A i \in 1..Len(file) : (file \o SubSeq(buf, 1, n))[i] = file[i]
         /\ \A i \in Len(file) + 1..Len(file) + n :
              (file \o SubSeq(buf, 1, n))[i] = buf[i - Len(file)]
         /\ SubSeq(buf, n + 1, m) \in Seq(S)
         /\ Len(SubSeq(buf, n + 1, m)) = m - n
         /\ \A i \in 1..m - n : SubSeq(buf, n + 1, m)[i] = buf[n + i]
<1>1. /\ n \in Int /\ m \in Int /\ n + 1 \in Int /\ Len(buf) \in Nat /\ n >= 0
      /\ n <= m /\ m <= Len(buf)
  OBVIOUS
<1>1a. (\A i \in 1..n : buf[i] \in S) /\ \A i \in n + 1..m : buf[i] \in S
  <2>1. \A i \in 1..Len(buf) : buf[i] \in S
    OBVIOUS
  <2>2. QED BY <1>1, <2>1
<1>2. /\ SubSeq(buf, 1, n) \in Seq(S) /\ Len(SubSeq(buf, 1, n)) = n
      /\ \A i \in 1..n : SubSeq(buf, 1, n)[i] = buf[i]
  <2>1. /\ SubSeq(buf, 1, n) \in Seq(S)
        /\ Len(SubSeq(buf, 1, n)) = IF 1 <= n THEN n - 1 + 1 ELSE 0
        /\ \A i \in 1..n - 1 + 1 : SubSeq(buf, 1, n)[i] = buf[1 + i - 1]
    BY <1>1, <1>1a, SubSeqProperties
  <2>2. QED BY <1>1, <2>1
<1>3. /\ SubSeq(buf, n + 1, m) \in Seq(S) /\ Len(SubSeq(buf, n + 1, m)) = m - n
      /\ \A i \in 1..m - n : SubSeq(buf, n + 1, m)[i] = buf[n + i]
  <2>1. /\ SubSeq(buf, n + 1, m) \in Seq(S)
        /\ Len(SubSeq(buf, n + 1, m)) = IF n + 1 <= m THEN m - (n + 1) + 1 ELSE 0
        /\ \A i \in 1..m - (n + 1) + 1 : SubSeq(buf, n + 1, m)[i] = buf[(n + 1) + i - 1]
    BY <1>1, <1>1a, SubSeqProperties
  <2>2. QED BY <1>1, <2>1
<1>4. /\ file \o SubSeq(buf, 1, n) \in Seq(S)
      /\ Len(file \o SubSeq(buf, 1, n)) = Len(file) + Len(SubSeq(buf, 1, n))
      /\ \A i \in 1..Len(file) + Len(SubSeq(buf, 1, n)) :
           (file \o SubSeq(buf, 1, n))[i]
             = IF i <= Len(file) THEN file[i] ELSE SubSeq(buf, 1, n)[i - Len(file)]
  BY <1>2, ConcatProperties
<1>5. /\ \A i \in 1..Len(file) : (file \o SubSeq(buf, 1, n))[i] = file[i]
      /\ \A i \in Len(file) + 1..Len(file) + n :
           (file \o SubSeq(buf, 1, n))[i] = buf[i - Len(file)]
  <2>0. Len(file) \in Nat
    OBVIOUS
  <2>1. ASSUME NEW i \in 1..Len(file) PROVE (file \o SubSeq(buf, 1, n))[i] = file[i]
    BY <1>1, <1>2, <1>4, <2>0
  <2>2. ASSUME NEW i \in Len(file) + 1..Len(file) + n
        PROVE  (file \o SubSeq(buf, 1, n))[i] = buf[i - Len(file)]
    <3>1. i \in 1..Len(file) + n /\ ~(i <= Len(file)) /\ i - Len(file) \in 1..n
      BY <1>1, <2>0
    <3>2. QED BY <1>2, <1>4, <3>1
  <2>3. QED BY <2>1, <2>2
<1>6. QED BY <1>2, <1>3, <1>4, <1>5

(* Draining a buffer keeps exporters and sinks typed, and the list of      *)
(* exporter objects of its length.                                         *)
LEMMA DrainTyped ==
  ASSUME TypeOK, NEW x \in DOMAIN made, NEW buf \in Seq(Events),
         NEW n \in 0..Len(buf), NEW m \in n..Len(buf), NEW o \in BOOLEAN,
         Drain(x, buf, n, m, o)
  PROVE  /\ made' \in Seq(Exporter) /\ Len(made') = Len(made)
         /\ lines' \in [Endpoints \cup {Injected} -> Seq(Events)]
<1>1. made \in Seq(Exporter) /\ made[x] \in Exporter
  BY DEF TypeOK, ExportersTyped
<1>2. made[x].target \in Endpoints \cup {Injected}
  BY <1>1 DEF Exporter
<1>3. lines[made[x].target] \in Seq(Events)
  BY <1>2 DEF TypeOK, EventsTyped
<1> DEFINE rest == SubSeq(buf, n + 1, m)
           file == lines[made[x].target] \o SubSeq(buf, 1, n)
<1>4. rest \in Seq(Events) /\ file \in Seq(Events)
  BY <1>3, Drained
<1>5. lines' = [lines EXCEPT ![made[x].target] = file]
  BY <1>2 DEF Drain, TypeOK, EventsTyped
<1>6. made' = [made EXCEPT ![x] = [made[x] EXCEPT !.held = rest, !.open = o]]
  BY <1>1 DEF Drain
<1> HIDE DEF rest, file
<1>7. [made[x] EXCEPT !.held = rest, !.open = o] \in Exporter
  BY <1>1, <1>4 DEF Exporter
<1>8. made' \in Seq(Exporter) /\ Len(made') = Len(made)
  BY <1>1, <1>6, <1>7, ReplaceTyped
<1>9. QED BY <1>2, <1>4, <1>5, <1>8 DEF TypeOK, EventsTyped

(* So does close(), which leaves the buffer empty.                         *)
LEMMA ShutTyped ==
  ASSUME TypeOK, NEW x \in DOMAIN made, NEW n \in 0..Len(made[x].held), Shut(x, n)
  PROVE  /\ made' \in Seq(Exporter) /\ Len(made') = Len(made)
         /\ lines' \in [Endpoints \cup {Injected} -> Seq(Events)]
<1>1. made \in Seq(Exporter) /\ made[x] \in Exporter
  BY DEF TypeOK, ExportersTyped
<1>2. made[x].target \in Endpoints \cup {Injected} /\ made[x].held \in Seq(Events)
  BY <1>1 DEF Exporter
<1>3. lines[made[x].target] \in Seq(Events) /\ n \in n..Len(made[x].held)
  BY <1>2 DEF TypeOK, EventsTyped
<1> DEFINE file == lines[made[x].target] \o SubSeq(made[x].held, 1, n)
           shut == [made[x] EXCEPT !.closed = TRUE, !.open = FALSE, !.held = <<>>]
<1>4. file \in Seq(Events)
  BY <1>2, <1>3, Drained
<1>5. lines' = [lines EXCEPT ![made[x].target] = file]
  BY <1>2 DEF Shut, TypeOK, EventsTyped
<1>6. made' = [made EXCEPT ![x] = shut]
  BY <1>1 DEF Shut
<1>7. shut \in Exporter
  <2>1. <<>> \in Seq(Events)
    OBVIOUS
  <2>2. QED BY <1>1, <2>1 DEF Exporter
<1> HIDE DEF shut, file
<1>8. made' \in Seq(Exporter) /\ Len(made') = Len(made)
  BY <1>1, <1>6, <1>7, ReplaceTyped
<1>9. QED BY <1>2, <1>4, <1>5, <1>8 DEF TypeOK, EventsTyped

(* Appending an event to the sink of an existing exporter object.          *)
LEMMA DeliveryTyped ==
  ASSUME TypeOK, NEW x \in DOMAIN made, NEW e \in Events
  PROVE  [lines EXCEPT ![made[x].target] = Append(@, e)] \in
           [Endpoints \cup {Injected} -> Seq(Events)]
<1>1. made[x] \in Exporter
  BY DEF TypeOK, ExportersTyped
<1>2. made[x].target \in Endpoints \cup {Injected}
  BY <1>1 DEF Exporter
<1>3. Append(lines[made[x].target], e) \in Seq(Events)
  BY <1>2 DEF TypeOK, EventsTyped
<1>4. QED BY <1>2, <1>3 DEF TypeOK, EventsTyped

-----------------------------------------------------------------------------
(* The invariant: one lemma per action, one step per conjunct.             *)

USE DEF Goto, Fails, Finish, shared, locals, conf, exps, chain, store, output, vars,
        BeforeSigning, Chain!LogEvents

LEMMA StepCheckKey ==
  ASSUME PipelineInv, NEW t \in Threads, CheckKey(t)
  PROVE  PipelineInv'
<1> USE DEF PipelineInv, TypeOK, CheckKey
<1>1. ConfigTyped'          BY DEF ConfigTyped, ThreadsTyped
<1>2. ExportersTyped'       BY DEF ExportersTyped, ConfigTyped
<1>3. EventsTyped'          BY DEF EventsTyped, DispatchOwnsEvent, ConfigTyped
<1>4. ThreadsTyped'         BY DEF ThreadsTyped
<1>5. DispatchOwnsEvent'    BY DEF DispatchOwnsEvent, ThreadsTyped
<1>6. UnsignedIsUnshared'   BY DEF UnsignedIsUnshared, DispatchOwnsEvent, ThreadsTyped, EventsTyped
<1>7. QED BY <1>1, <1>2, <1>3, <1>4, <1>5, <1>6

LEMMA StepSignRejected ==
  ASSUME PipelineInv, NEW t \in Threads, SignRejected(t)
  PROVE  PipelineInv'
<1> USE DEF PipelineInv, TypeOK, SignRejected
<1>1. ConfigTyped'          BY DEF ConfigTyped, ThreadsTyped
<1>2. ExportersTyped'       BY DEF ExportersTyped, ConfigTyped
<1>3. EventsTyped'          BY DEF EventsTyped, DispatchOwnsEvent, ConfigTyped
<1>4. ThreadsTyped'         BY DEF ThreadsTyped
<1>5. DispatchOwnsEvent'    BY DEF DispatchOwnsEvent, ThreadsTyped
<1>6. UnsignedIsUnshared'   BY DEF UnsignedIsUnshared, DispatchOwnsEvent, ThreadsTyped, EventsTyped
<1>7. QED BY <1>1, <1>2, <1>3, <1>4, <1>5, <1>6

LEMMA StepSign ==
  ASSUME PipelineInv, NEW t \in Threads, Sign(t)
  PROVE  PipelineInv'
<1> USE DEF PipelineInv, TypeOK, Sign, NewSignature, Signature
<1>1. ConfigTyped'          BY DEF ConfigTyped, ThreadsTyped
<1>2. ExportersTyped'       BY DEF ExportersTyped, ConfigTyped
<1>3. EventsTyped'          BY DEF EventsTyped, DispatchOwnsEvent, ConfigTyped
<1>4. ThreadsTyped'         BY DEF ThreadsTyped
<1>5. DispatchOwnsEvent'    BY DEF DispatchOwnsEvent, ThreadsTyped
<1>6. UnsignedIsUnshared'   BY DEF UnsignedIsUnshared, DispatchOwnsEvent, ThreadsTyped, EventsTyped
<1>7. QED BY <1>1, <1>2, <1>3, <1>4, <1>5, <1>6

LEMMA StepResolve ==
  ASSUME PipelineInv, NEW t \in Threads, Resolve(t)
  PROVE  PipelineInv'
<1> USE DEF PipelineInv, TypeOK, Resolve
<1>1. ConfigTyped'          BY DEF ConfigTyped, ThreadsTyped
<1>2. ExportersTyped'       BY DEF ExportersTyped, ConfigTyped
<1>3. EventsTyped'          BY DEF EventsTyped, DispatchOwnsEvent, ConfigTyped
<1>4. ThreadsTyped'         BY DEF ThreadsTyped
<1>5. DispatchOwnsEvent'    BY DEF DispatchOwnsEvent, ThreadsTyped
<1>6. UnsignedIsUnshared'   BY DEF UnsignedIsUnshared, DispatchOwnsEvent, ThreadsTyped, EventsTyped
<1>7. QED BY <1>1, <1>2, <1>3, <1>4, <1>5, <1>6

LEMMA StepResolveLocked ==
  ASSUME PipelineInv, NEW t \in Threads, ResolveLocked(t)
  PROVE  PipelineInv'
<1> USE DEF PipelineInv, TypeOK, ResolveLocked
<1>1. ConfigTyped'          BY DEF ConfigTyped, ThreadsTyped
<1>2. ExportersTyped'       BY DEF ExportersTyped, ConfigTyped
<1>3. EventsTyped'          BY DEF EventsTyped, DispatchOwnsEvent, ConfigTyped
<1>4. ThreadsTyped'         BY DEF ThreadsTyped
<1>5. DispatchOwnsEvent'    BY DEF DispatchOwnsEvent, ThreadsTyped
<1>6. UnsignedIsUnshared'   BY DEF UnsignedIsUnshared, DispatchOwnsEvent, ThreadsTyped, EventsTyped
<1>7. QED BY <1>1, <1>2, <1>3, <1>4, <1>5, <1>6

LEMMA StepBuild ==
  ASSUME PipelineInv, NEW t \in Threads, Build(t)
  PROVE  PipelineInv'
<1> USE DEF PipelineInv, TypeOK, Build, Fresh, Exporter
<1>1. ConfigTyped'          BY DEF ConfigTyped, ThreadsTyped
<1>2. ExportersTyped'
  <2>1. Fresh(config.endpoint) \in Exporter
    <3>1. <<>> \in Seq(Events) /\ config.endpoint \in Endpoints
      BY DEF ConfigTyped
    <3>2. QED BY <3>1
  <2> HIDE DEF Fresh, Exporter
  <2>2. QED BY <2>1 DEF ExportersTyped, ConfigTyped
<1>3. EventsTyped'          BY DEF EventsTyped, DispatchOwnsEvent, ConfigTyped
<1>4. ThreadsTyped'         BY DEF ThreadsTyped
<1>5. DispatchOwnsEvent'    BY DEF DispatchOwnsEvent, ThreadsTyped
<1>6. UnsignedIsUnshared'   BY DEF UnsignedIsUnshared, DispatchOwnsEvent, ThreadsTyped, EventsTyped
<1>7. QED BY <1>1, <1>2, <1>3, <1>4, <1>5, <1>6

LEMMA StepLoad ==
  ASSUME PipelineInv, NEW t \in Threads, Load(t)
  PROVE  PipelineInv'
<1> USE DEF PipelineInv, TypeOK, Load
<1>1. ConfigTyped'          BY DEF ConfigTyped, ThreadsTyped
<1>2. ExportersTyped'       BY DEF ExportersTyped, ConfigTyped
<1>3. EventsTyped'          BY DEF EventsTyped, DispatchOwnsEvent, ConfigTyped
<1>4. ThreadsTyped'         BY DEF ThreadsTyped
<1>5. DispatchOwnsEvent'    BY DEF DispatchOwnsEvent, ThreadsTyped
<1>6. UnsignedIsUnshared'   BY DEF UnsignedIsUnshared, DispatchOwnsEvent, ThreadsTyped, EventsTyped
<1>7. QED BY <1>1, <1>2, <1>3, <1>4, <1>5, <1>6

LEMMA StepExportRefused ==
  ASSUME PipelineInv, NEW t \in Threads, ExportRefused(t)
  PROVE  PipelineInv'
<1> USE DEF PipelineInv, TypeOK, ExportRefused
<1>1. ConfigTyped'          BY DEF ConfigTyped, ThreadsTyped
<1>2. ExportersTyped'       BY DEF ExportersTyped, ConfigTyped
<1>3. EventsTyped'          BY DEF EventsTyped, DispatchOwnsEvent, ConfigTyped
<1>4. ThreadsTyped'         BY DEF ThreadsTyped
<1>5. DispatchOwnsEvent'    BY DEF DispatchOwnsEvent, ThreadsTyped
<1>6. UnsignedIsUnshared'   BY DEF UnsignedIsUnshared, DispatchOwnsEvent, ThreadsTyped, EventsTyped
<1>7. QED BY <1>1, <1>2, <1>3, <1>4, <1>5, <1>6

LEMMA StepPassClosedCheck ==
  ASSUME PipelineInv, NEW t \in Threads, PassClosedCheck(t)
  PROVE  PipelineInv'
<1> USE DEF PipelineInv, TypeOK, PassClosedCheck
<1>1. ConfigTyped'          BY DEF ConfigTyped, ThreadsTyped
<1>2. ExportersTyped'       BY DEF ExportersTyped, ConfigTyped
<1>3. EventsTyped'          BY DEF EventsTyped, DispatchOwnsEvent, ConfigTyped
<1>4. ThreadsTyped'         BY DEF ThreadsTyped
<1>5. DispatchOwnsEvent'    BY DEF DispatchOwnsEvent, ThreadsTyped
<1>6. UnsignedIsUnshared'   BY DEF UnsignedIsUnshared, DispatchOwnsEvent, ThreadsTyped, EventsTyped
<1>7. QED BY <1>1, <1>2, <1>3, <1>4, <1>5, <1>6

LEMMA StepWriteLine ==
  ASSUME PipelineInv, NEW t \in Threads, WriteLine(t)
  PROVE  PipelineInv'
<1> USE DEF PipelineInv, TypeOK, WriteLine
<1>1. ConfigTyped'          BY DEF ConfigTyped, ThreadsTyped
<1>2. /\ made' \in Seq(Exporter) /\ Len(made') = Len(made)
      /\ lines' \in [Endpoints \cup {Injected} -> Seq(Events)]
  <2> DEFINE buf == Append(made[exp[t]].held, cur[t])
  <2>1. exp[t] \in DOMAIN made /\ made[exp[t]] \in Exporter /\ cur[t] \in Events
    BY DEF DispatchOwnsEvent, ExportersTyped
  <2>2. made[exp[t]].held \in Seq(Events)
    BY <2>1 DEF Exporter
  <2>3. buf \in Seq(Events) /\ Len(buf) \in 0..Len(buf) /\ Len(buf) \in Len(buf)..Len(buf)
    BY <2>1, <2>2
  <2>4. Drain(exp[t], buf, Len(buf), Len(buf), TRUE)
    OBVIOUS
  <2> HIDE DEF buf
  <2>5. QED BY <2>1, <2>3, <2>4, DrainTyped
<1>2a. ExportersTyped'      BY <1>2 DEF ExportersTyped
<1>3. EventsTyped'          BY <1>2 DEF EventsTyped
<1>4. ThreadsTyped'         BY DEF ThreadsTyped
<1>5. DispatchOwnsEvent'    BY DEF DispatchOwnsEvent, ThreadsTyped
<1>6. UnsignedIsUnshared'   BY DEF UnsignedIsUnshared, DispatchOwnsEvent, ThreadsTyped, EventsTyped
<1>7. QED BY <1>1, <1>2a, <1>3, <1>4, <1>5, <1>6

LEMMA StepWriteFails ==
  ASSUME PipelineInv, NEW t \in Threads, WriteFails(t)
  PROVE  PipelineInv'
<1> USE DEF PipelineInv, TypeOK, WriteFails
<1>1. ConfigTyped'          BY DEF ConfigTyped, ThreadsTyped
<1>2. /\ made' \in Seq(Exporter) /\ Len(made') = Len(made)
      /\ lines' \in [Endpoints \cup {Injected} -> Seq(Events)]
  <2> DEFINE held == made[exp[t]].held
             buf  == Append(held, cur[t])
  <2>1. exp[t] \in DOMAIN made /\ made[exp[t]] \in Exporter /\ cur[t] \in Events
    BY DEF DispatchOwnsEvent, ExportersTyped
  <2>2. held \in Seq(Events)
    BY <2>1 DEF Exporter
  <2>3. buf \in Seq(Events) /\ Len(buf) = Len(held) + 1 /\ Len(held) \in Nat
    BY <2>1, <2>2
  <2>4. \/ UNCHANGED <<made, lines>>
        \/ \E n \in 0..Len(held), m \in {Len(buf) - 1, Len(buf)} :
             Drain(exp[t], buf, n, m, TRUE)
    OBVIOUS
  <2> HIDE DEF buf, held
  <2>5. \A n \in 0..Len(held), m \in {Len(buf) - 1, Len(buf)} :
          n \in 0..Len(buf) /\ m \in n..Len(buf)
    BY <2>3
  <2>6. ASSUME UNCHANGED <<made, lines>>
        PROVE  /\ made' \in Seq(Exporter) /\ Len(made') = Len(made)
               /\ lines' \in [Endpoints \cup {Injected} -> Seq(Events)]
    BY <2>6 DEF ExportersTyped, EventsTyped
  <2>7. ASSUME NEW n \in 0..Len(held), NEW m \in {Len(buf) - 1, Len(buf)},
               Drain(exp[t], buf, n, m, TRUE)
        PROVE  /\ made' \in Seq(Exporter) /\ Len(made') = Len(made)
               /\ lines' \in [Endpoints \cup {Injected} -> Seq(Events)]
    BY <2>1, <2>3, <2>5, <2>7, DrainTyped
  <2>8. QED BY <2>4, <2>6, <2>7
<1>2a. ExportersTyped'      BY <1>2 DEF ExportersTyped
<1>3. EventsTyped'
  <2>1. cur[t] \in Events
    BY DEF DispatchOwnsEvent
  <2>2. QED BY <1>2, <2>1 DEF EventsTyped
<1>4. ThreadsTyped'         BY DEF ThreadsTyped
<1>5. DispatchOwnsEvent'    BY DEF DispatchOwnsEvent, ThreadsTyped
<1>6. UnsignedIsUnshared'   BY DEF UnsignedIsUnshared, DispatchOwnsEvent, ThreadsTyped, EventsTyped
<1>7. QED BY <1>1, <1>2a, <1>3, <1>4, <1>5, <1>6

LEMMA StepDeliver ==
  ASSUME PipelineInv, NEW t \in Threads, Deliver(t)
  PROVE  PipelineInv'
<1> USE DEF PipelineInv, TypeOK, Deliver, AfterDelivery
<1>1. ConfigTyped'          BY DEF ConfigTyped, ThreadsTyped
<1>2. ExportersTyped'       BY DEF ExportersTyped, ConfigTyped
<1>3. EventsTyped'
  <2>1. exp[t] \in DOMAIN made /\ cur[t] \in Events
    BY DEF DispatchOwnsEvent, ExportersTyped
  <2>2. lines' \in [Endpoints \cup {Injected} -> Seq(Events)]
    BY <2>1, DeliveryTyped
  <2>3. QED BY <2>2 DEF EventsTyped
<1>4. ThreadsTyped'         BY DEF ThreadsTyped
<1>5. DispatchOwnsEvent'    BY DEF DispatchOwnsEvent, ThreadsTyped
<1>6. UnsignedIsUnshared'   BY DEF UnsignedIsUnshared, DispatchOwnsEvent, ThreadsTyped, EventsTyped
<1>7. QED BY <1>1, <1>2, <1>3, <1>4, <1>5, <1>6

LEMMA StepDeliverFails ==
  ASSUME PipelineInv, NEW t \in Threads, DeliverFails(t)
  PROVE  PipelineInv'
<1> USE DEF PipelineInv, TypeOK, DeliverFails, AfterExportError
<1>1. ConfigTyped'          BY DEF ConfigTyped, ThreadsTyped
<1>2. ExportersTyped'       BY DEF ExportersTyped, ConfigTyped
<1>3. EventsTyped'          BY DEF EventsTyped, DispatchOwnsEvent, ConfigTyped
<1>4. ThreadsTyped'         BY DEF ThreadsTyped
<1>5. DispatchOwnsEvent'    BY DEF DispatchOwnsEvent, ThreadsTyped
<1>6. UnsignedIsUnshared'   BY DEF UnsignedIsUnshared, DispatchOwnsEvent, ThreadsTyped, EventsTyped
<1>7. QED BY <1>1, <1>2, <1>3, <1>4, <1>5, <1>6

LEMMA StepFetchStore ==
  ASSUME PipelineInv, NEW t \in Threads, FetchStore(t)
  PROVE  PipelineInv'
<1> USE DEF PipelineInv, TypeOK, FetchStore
<1>1. ConfigTyped'          BY DEF ConfigTyped, ThreadsTyped
<1>2. ExportersTyped'       BY DEF ExportersTyped, ConfigTyped
<1>3. EventsTyped'          BY DEF EventsTyped, DispatchOwnsEvent, ConfigTyped
<1>4. ThreadsTyped'  BY DEF ThreadsTyped, EventsTyped
<1>5. DispatchOwnsEvent'    BY DEF DispatchOwnsEvent, ThreadsTyped
<1>6. UnsignedIsUnshared'   BY DEF UnsignedIsUnshared, DispatchOwnsEvent, ThreadsTyped, EventsTyped
<1>7. QED BY <1>1, <1>2, <1>3, <1>4, <1>5, <1>6

LEMMA StepSkipStore ==
  ASSUME PipelineInv, NEW t \in Threads, SkipStore(t)
  PROVE  PipelineInv'
<1> USE DEF PipelineInv, TypeOK, SkipStore
<1>1. ConfigTyped'          BY DEF ConfigTyped, ThreadsTyped
<1>2. ExportersTyped'       BY DEF ExportersTyped, ConfigTyped
<1>3. EventsTyped'          BY DEF EventsTyped, DispatchOwnsEvent, ConfigTyped
<1>4. ThreadsTyped'         BY DEF ThreadsTyped
<1>5. DispatchOwnsEvent'    BY DEF DispatchOwnsEvent, ThreadsTyped
<1>6. UnsignedIsUnshared'   BY DEF UnsignedIsUnshared, DispatchOwnsEvent, ThreadsTyped, EventsTyped
<1>7. QED BY <1>1, <1>2, <1>3, <1>4, <1>5, <1>6

LEMMA StepRecordInStore ==
  ASSUME PipelineInv, NEW t \in Threads, RecordInStore(t)
  PROVE  PipelineInv'
<1> USE DEF PipelineInv, TypeOK, RecordInStore
<1>1. ConfigTyped'          BY DEF ConfigTyped, ThreadsTyped
<1>2. ExportersTyped'       BY DEF ExportersTyped, ConfigTyped
<1>3. EventsTyped'          BY DEF EventsTyped, DispatchOwnsEvent, ConfigTyped
<1>4. ThreadsTyped'         BY DEF ThreadsTyped
<1>5. DispatchOwnsEvent'    BY DEF DispatchOwnsEvent, ThreadsTyped
<1>6. UnsignedIsUnshared'   BY DEF UnsignedIsUnshared, DispatchOwnsEvent, ThreadsTyped, EventsTyped
<1>7. QED BY <1>1, <1>2, <1>3, <1>4, <1>5, <1>6

LEMMA StepRecordFails ==
  ASSUME PipelineInv, NEW t \in Threads, RecordFails(t)
  PROVE  PipelineInv'
<1> USE DEF PipelineInv, TypeOK, RecordFails
<1>1. ConfigTyped'          BY DEF ConfigTyped, ThreadsTyped
<1>2. ExportersTyped'       BY DEF ExportersTyped, ConfigTyped
<1>3. EventsTyped'          BY DEF EventsTyped, DispatchOwnsEvent, ConfigTyped
<1>4. ThreadsTyped'         BY DEF ThreadsTyped
<1>5. DispatchOwnsEvent'    BY DEF DispatchOwnsEvent, ThreadsTyped
<1>6. UnsignedIsUnshared'   BY DEF UnsignedIsUnshared, DispatchOwnsEvent, ThreadsTyped, EventsTyped
<1>7. QED BY <1>1, <1>2, <1>3, <1>4, <1>5, <1>6

LEMMA StepCountError ==
  ASSUME PipelineInv, NEW t \in Threads, CountError(t)
  PROVE  PipelineInv'
<1> USE DEF PipelineInv, TypeOK, CountError
<1>1. ConfigTyped'          BY DEF ConfigTyped, ThreadsTyped
<1>2. ExportersTyped'       BY DEF ExportersTyped, ConfigTyped
<1>3. EventsTyped'          BY DEF EventsTyped, DispatchOwnsEvent, ConfigTyped
<1>4. ThreadsTyped'         BY DEF ThreadsTyped
<1>5. DispatchOwnsEvent'    BY DEF DispatchOwnsEvent, ThreadsTyped
<1>6. UnsignedIsUnshared'
  <2>1. \A u \in Threads : pc'[u] \in BeforeSigning => pc[u] \in BeforeSigning
    BY DEF ThreadsTyped
  <2>2. signed' = signed /\ todo' = todo /\ cur' = cur
    OBVIOUS
  <2>3. QED BY <2>1, <2>2 DEF UnsignedIsUnshared
<1>7. QED BY <1>1, <1>2, <1>3, <1>4, <1>5, <1>6

LEMMA StepReraise ==
  ASSUME PipelineInv, NEW t \in Threads, Reraise(t)
  PROVE  PipelineInv'
<1> USE DEF PipelineInv, TypeOK, Reraise
<1>1. ConfigTyped'          BY DEF ConfigTyped, ThreadsTyped
<1>2. ExportersTyped'       BY DEF ExportersTyped, ConfigTyped
<1>3. EventsTyped'          BY DEF EventsTyped, DispatchOwnsEvent, ConfigTyped
<1>4. ThreadsTyped'         BY DEF ThreadsTyped
<1>5. DispatchOwnsEvent'    BY DEF DispatchOwnsEvent, ThreadsTyped
<1>6. UnsignedIsUnshared'   BY DEF UnsignedIsUnshared, DispatchOwnsEvent, ThreadsTyped, EventsTyped
<1>7. QED BY <1>1, <1>2, <1>3, <1>4, <1>5, <1>6

LEMMA StepEndError ==
  ASSUME PipelineInv, NEW t \in Threads, EndError(t)
  PROVE  PipelineInv'
<1> USE DEF PipelineInv, TypeOK, EndError
<1>1. ConfigTyped'          BY DEF ConfigTyped, ThreadsTyped
<1>2. ExportersTyped'       BY DEF ExportersTyped, ConfigTyped
<1>3. EventsTyped'          BY DEF EventsTyped, DispatchOwnsEvent, ConfigTyped
<1>4. ThreadsTyped'         BY DEF ThreadsTyped
<1>5. DispatchOwnsEvent'    BY DEF DispatchOwnsEvent, ThreadsTyped
<1>6. UnsignedIsUnshared'   BY DEF UnsignedIsUnshared, DispatchOwnsEvent, ThreadsTyped, EventsTyped
<1>7. QED BY <1>1, <1>2, <1>3, <1>4, <1>5, <1>6

LEMMA StepAssignField ==
  ASSUME PipelineInv, NEW t \in Threads, AssignField(t)
  PROVE  PipelineInv'
<1> USE DEF PipelineInv, TypeOK, AssignField
<1>1. ConfigTyped'
  <2>1. PICK a \in pending[t] \ {Unknown} : config' = [config EXCEPT ![a[1]] = a[2]]
    OBVIOUS
  <2>2. config' \in [endpoint : Endpoints, key : Keys \cup {NoKey},
                    policy : Policies, store : BOOLEAN]
    BY <2>1, AssignTyped
  <2>3. QED BY <2>2 DEF ConfigTyped
<1>2. ExportersTyped'       BY DEF ExportersTyped, ConfigTyped
<1>3. EventsTyped'          BY DEF EventsTyped, DispatchOwnsEvent, ConfigTyped
<1>4. ThreadsTyped'         BY DEF ThreadsTyped
<1>5. DispatchOwnsEvent'    BY DEF DispatchOwnsEvent, ThreadsTyped
<1>6. UnsignedIsUnshared'   BY DEF UnsignedIsUnshared, DispatchOwnsEvent, ThreadsTyped, EventsTyped
<1>7. QED BY <1>1, <1>2, <1>3, <1>4, <1>5, <1>6

LEMMA StepRejectField ==
  ASSUME PipelineInv, NEW t \in Threads, RejectField(t)
  PROVE  PipelineInv'
<1> USE DEF PipelineInv, TypeOK, RejectField
<1>1. ConfigTyped'          BY DEF ConfigTyped, ThreadsTyped
<1>2. ExportersTyped'       BY DEF ExportersTyped, ConfigTyped
<1>3. EventsTyped'          BY DEF EventsTyped, DispatchOwnsEvent, ConfigTyped
<1>4. ThreadsTyped'         BY DEF ThreadsTyped
<1>5. DispatchOwnsEvent'    BY DEF DispatchOwnsEvent, ThreadsTyped
<1>6. UnsignedIsUnshared'   BY DEF UnsignedIsUnshared, DispatchOwnsEvent, ThreadsTyped, EventsTyped
<1>7. QED BY <1>1, <1>2, <1>3, <1>4, <1>5, <1>6

LEMMA StepCloseExporter ==
  ASSUME PipelineInv, NEW t \in Threads, CloseExporter(t)
  PROVE  PipelineInv'
<1> USE DEF PipelineInv, TypeOK, CloseExporter
<1>1. ConfigTyped'          BY DEF ConfigTyped, ThreadsTyped
<1>2. /\ made' \in Seq(Exporter) /\ Len(made') = Len(made)
      /\ lines' \in [Endpoints \cup {Injected} -> Seq(Events)]
  <2>1. ASSUME cached # 0, NEW n \in 0..Len(made[cached].held), Shut(cached, n)
        PROVE  /\ made' \in Seq(Exporter) /\ Len(made') = Len(made)
               /\ lines' \in [Endpoints \cup {Injected} -> Seq(Events)]
    <3>1. cached \in DOMAIN made
      BY <2>1 DEF ExportersTyped
    <3>2. QED BY <2>1, <3>1, ShutTyped
  <2>2. ASSUME UNCHANGED <<made, lines>>
        PROVE  /\ made' \in Seq(Exporter) /\ Len(made') = Len(made)
               /\ lines' \in [Endpoints \cup {Injected} -> Seq(Events)]
    BY <2>2 DEF ExportersTyped, EventsTyped
  <2>3. QED BY <2>1, <2>2 DEF Close
<1>2a. ExportersTyped'      BY <1>2 DEF ExportersTyped
<1>3. EventsTyped'          BY <1>2 DEF EventsTyped
<1>4. ThreadsTyped'         BY DEF ThreadsTyped
<1>5. DispatchOwnsEvent'    BY DEF DispatchOwnsEvent, ThreadsTyped
<1>6. UnsignedIsUnshared'   BY DEF UnsignedIsUnshared, DispatchOwnsEvent, ThreadsTyped, EventsTyped
<1>7. QED BY <1>1, <1>2a, <1>3, <1>4, <1>5, <1>6

LEMMA StepCloseFails ==
  ASSUME PipelineInv, NEW t \in Threads, CloseFails(t)
  PROVE  PipelineInv'
<1> USE DEF PipelineInv, TypeOK, CloseFails
<1>1. ConfigTyped'          BY DEF ConfigTyped, ThreadsTyped
<1>2. ExportersTyped'       BY DEF ExportersTyped, ConfigTyped
<1>3. EventsTyped'          BY DEF EventsTyped, DispatchOwnsEvent, ConfigTyped
<1>4. ThreadsTyped'         BY DEF ThreadsTyped
<1>5. DispatchOwnsEvent'    BY DEF DispatchOwnsEvent, ThreadsTyped
<1>6. UnsignedIsUnshared'   BY DEF UnsignedIsUnshared, DispatchOwnsEvent, ThreadsTyped, EventsTyped
<1>7. QED BY <1>1, <1>2, <1>3, <1>4, <1>5, <1>6

LEMMA StepCountCloseError ==
  ASSUME PipelineInv, NEW t \in Threads, CountCloseError(t)
  PROVE  PipelineInv'
<1> USE DEF PipelineInv, TypeOK, CountCloseError
<1>1. ConfigTyped'          BY DEF ConfigTyped, ThreadsTyped
<1>2. ExportersTyped'       BY DEF ExportersTyped, ConfigTyped
<1>3. EventsTyped'          BY DEF EventsTyped, DispatchOwnsEvent, ConfigTyped
<1>4. ThreadsTyped'         BY DEF ThreadsTyped
<1>5. DispatchOwnsEvent'    BY DEF DispatchOwnsEvent, ThreadsTyped
<1>6. UnsignedIsUnshared'   BY DEF UnsignedIsUnshared, DispatchOwnsEvent, ThreadsTyped, EventsTyped
<1>7. QED BY <1>1, <1>2, <1>3, <1>4, <1>5, <1>6

LEMMA StepForgiveClose ==
  ASSUME PipelineInv, NEW t \in Threads, ForgiveClose(t)
  PROVE  PipelineInv'
<1> USE DEF PipelineInv, TypeOK, ForgiveClose
<1>1. ConfigTyped'          BY DEF ConfigTyped, ThreadsTyped
<1>2. ExportersTyped'       BY DEF ExportersTyped, ConfigTyped
<1>3. EventsTyped'          BY DEF EventsTyped, DispatchOwnsEvent, ConfigTyped
<1>4. ThreadsTyped'         BY DEF ThreadsTyped
<1>5. DispatchOwnsEvent'    BY DEF DispatchOwnsEvent, ThreadsTyped
<1>6. UnsignedIsUnshared'   BY DEF UnsignedIsUnshared, DispatchOwnsEvent, ThreadsTyped, EventsTyped
<1>7. QED BY <1>1, <1>2, <1>3, <1>4, <1>5, <1>6

LEMMA StepReraiseClose ==
  ASSUME PipelineInv, NEW t \in Threads, ReraiseClose(t)
  PROVE  PipelineInv'
<1> USE DEF PipelineInv, TypeOK, ReraiseClose
<1>1. ConfigTyped'          BY DEF ConfigTyped, ThreadsTyped
<1>2. ExportersTyped'       BY DEF ExportersTyped, ConfigTyped
<1>3. EventsTyped'          BY DEF EventsTyped, DispatchOwnsEvent, ConfigTyped
<1>4. ThreadsTyped'         BY DEF ThreadsTyped
<1>5. DispatchOwnsEvent'    BY DEF DispatchOwnsEvent, ThreadsTyped
<1>6. UnsignedIsUnshared'   BY DEF UnsignedIsUnshared, DispatchOwnsEvent, ThreadsTyped, EventsTyped
<1>7. QED BY <1>1, <1>2, <1>3, <1>4, <1>5, <1>6

LEMMA StepDiscardExporter ==
  ASSUME PipelineInv, NEW t \in Threads, DiscardExporter(t)
  PROVE  PipelineInv'
<1> USE DEF PipelineInv, TypeOK, DiscardExporter, DiscardedCache
<1>1. ConfigTyped'          BY DEF ConfigTyped, ThreadsTyped
<1>2. ExportersTyped'       BY DEF ExportersTyped, ConfigTyped
<1>3. EventsTyped'          BY DEF EventsTyped, DispatchOwnsEvent, ConfigTyped
<1>4. ThreadsTyped'         BY DEF ThreadsTyped
<1>5. DispatchOwnsEvent'    BY DEF DispatchOwnsEvent, ThreadsTyped
<1>6. UnsignedIsUnshared'   BY DEF UnsignedIsUnshared, DispatchOwnsEvent, ThreadsTyped, EventsTyped
<1>7. QED BY <1>1, <1>2, <1>3, <1>4, <1>5, <1>6

LEMMA StepResetChain ==
  ASSUME PipelineInv, NEW t \in Threads, ResetChain(t)
  PROVE  PipelineInv'
<1> USE DEF PipelineInv, TypeOK, ResetChain, RestartedChain
<1>1. ConfigTyped'          BY DEF ConfigTyped, ThreadsTyped
<1>2. ExportersTyped'       BY DEF ExportersTyped, ConfigTyped
<1>3. EventsTyped'          BY DEF EventsTyped, DispatchOwnsEvent, ConfigTyped
<1>4. ThreadsTyped'         BY DEF ThreadsTyped
<1>5. DispatchOwnsEvent'    BY DEF DispatchOwnsEvent, ThreadsTyped
<1>6. UnsignedIsUnshared'   BY DEF UnsignedIsUnshared, DispatchOwnsEvent, ThreadsTyped, EventsTyped
<1>7. QED BY <1>1, <1>2, <1>3, <1>4, <1>5, <1>6

LEMMA StepResetStore ==
  ASSUME PipelineInv, NEW t \in Threads, ResetStore(t)
  PROVE  PipelineInv'
<1> USE DEF PipelineInv, TypeOK, ResetStore
<1>1. ConfigTyped'          BY DEF ConfigTyped, ThreadsTyped
<1>2. ExportersTyped'       BY DEF ExportersTyped, ConfigTyped
<1>3. EventsTyped'          BY DEF EventsTyped, DispatchOwnsEvent, ConfigTyped
<1>4. ThreadsTyped'         BY DEF ThreadsTyped
<1>5. DispatchOwnsEvent'    BY DEF DispatchOwnsEvent, ThreadsTyped
<1>6. UnsignedIsUnshared'   BY DEF UnsignedIsUnshared, DispatchOwnsEvent, ThreadsTyped, EventsTyped
<1>7. QED BY <1>1, <1>2, <1>3, <1>4, <1>5, <1>6

LEMMA StepBegin ==
  ASSUME PipelineInv, NEW t \in Threads, NEW e \in Events, Begin(t, e)
  PROVE  PipelineInv'
<1> USE DEF PipelineInv, TypeOK, Begin
<1>1. ConfigTyped'          BY DEF ConfigTyped, ThreadsTyped
<1>2. ExportersTyped'       BY DEF ExportersTyped, ConfigTyped
<1>3. EventsTyped'          BY DEF EventsTyped, DispatchOwnsEvent, ConfigTyped
<1>4. ThreadsTyped'         BY DEF ThreadsTyped
<1>5. DispatchOwnsEvent'    BY DEF DispatchOwnsEvent, ThreadsTyped
<1>6. UnsignedIsUnshared'
  <2>1. signed' = signed /\ todo' = todo \ {e} /\ e \in todo
    OBVIOUS
  <2>2. \A u \in Threads : pc'[u] \in BeforeSigning =>
          \/ u = t /\ cur'[u] = e
          \/ u # t /\ cur'[u] = cur[u] /\ pc[u] \in BeforeSigning
          \/ pc' = pc /\ cur' = cur
    BY DEF ThreadsTyped
  <2>3. \A u \in Threads : pc[u] \in BeforeSigning => cur[u] # e
    BY DEF DispatchOwnsEvent
  <2>4. \A u \in Threads : pc'[u] \in BeforeSigning => cur'[u] \notin Chain!LogEvents'
    BY <2>1, <2>2 DEF UnsignedIsUnshared
  <2>5. QED BY <2>1, <2>2, <2>3, <2>4 DEF UnsignedIsUnshared
<1>7. QED BY <1>1, <1>2, <1>3, <1>4, <1>5, <1>6

LEMMA StepConfigure ==
  ASSUME PipelineInv, NEW t \in Threads, NEW u \in Updates, Configure(t, u)
  PROVE  PipelineInv'
<1> USE DEF PipelineInv, TypeOK, Configure
<1>1. ConfigTyped'          BY DEF ConfigTyped, ThreadsTyped
<1>2. ExportersTyped'       BY DEF ExportersTyped, ConfigTyped
<1>3. EventsTyped'          BY DEF EventsTyped, DispatchOwnsEvent, ConfigTyped
<1>4. ThreadsTyped'  BY PipelineAssumption DEF ThreadsTyped
<1>5. DispatchOwnsEvent'    BY DEF DispatchOwnsEvent, ThreadsTyped
<1>6. UnsignedIsUnshared'   BY DEF UnsignedIsUnshared, DispatchOwnsEvent, ThreadsTyped, EventsTyped
<1>7. QED BY <1>1, <1>2, <1>3, <1>4, <1>5, <1>6

LEMMA InitInv == Init => PipelineInv
<1> SUFFICES ASSUME Init PROVE PipelineInv
  OBVIOUS
<1>1. ConfigTyped /\ ThreadsTyped
  BY DEF Init, ConfigTyped, ThreadsTyped
<1>2. EventsTyped
  BY DEF Init, EventsTyped
<1>3. made \in Seq(Exporter) /\ cached \in 0..Len(made)
  <2>1. CASE made = <<>> /\ cached = 0
    BY <2>1
  <2>2. CASE /\ made = <<Fresh(Injected)>> /\ cached = 1
    <3>1. Fresh(Injected) \in Exporter
      <4>1. <<>> \in Seq(Events)
        OBVIOUS
      <4>2. QED BY <4>1 DEF Fresh, Exporter
    <3>2. QED BY <2>2, <3>1
  <2>3. QED BY <2>1, <2>2 DEF Init
<1>4. ExportersTyped
  BY <1>3 DEF Init, ExportersTyped
<1>5. DispatchOwnsEvent /\ UnsignedIsUnshared
  BY DEF Init, DispatchOwnsEvent, UnsignedIsUnshared
<1>6. QED BY <1>1, <1>2, <1>4, <1>5 DEF PipelineInv, TypeOK

LEMMA NextInv == PipelineInv /\ [Next]_vars => PipelineInv'
<1> SUFFICES ASSUME PipelineInv, [Next]_vars PROVE PipelineInv'
  OBVIOUS
<1>1. ASSUME NEW t \in Threads, NEW e \in Events, Begin(t, e) PROVE PipelineInv'
  BY <1>1, StepBegin
<1>2. ASSUME NEW t \in Threads, NEW u \in Updates, Configure(t, u) PROVE PipelineInv'
  BY <1>2, StepConfigure
<1>3. ASSUME NEW t \in Threads, Step(t) PROVE PipelineInv'
  BY <1>3, StepCheckKey, StepSignRejected, StepSign, StepResolve, StepResolveLocked, StepBuild,
     StepLoad, StepExportRefused, StepPassClosedCheck, StepWriteLine, StepWriteFails, StepDeliver,
     StepDeliverFails, StepFetchStore, StepSkipStore, StepRecordInStore, StepRecordFails,
     StepCountError, StepReraise, StepEndError, StepAssignField, StepRejectField, StepCloseExporter,
     StepCloseFails, StepCountCloseError, StepForgiveClose, StepReraiseClose, StepDiscardExporter,
     StepResetChain, StepResetStore DEF Step
<1>4. CASE UNCHANGED vars
  BY <1>4 DEF PipelineInv, TypeOK, ConfigTyped, ExportersTyped, EventsTyped,
              ThreadsTyped, DispatchOwnsEvent, UnsignedIsUnshared
<1>5. QED BY <1>1, <1>2, <1>3, <1>4 DEF Next, Quiescent

(* Type correctness and the ownership facts of the dispatch hold for ever, *)
(* for any number of threads, events, sinks and configure() calls.         *)
THEOREM PipelineInvariant == Spec => []PipelineInv
BY InitInv, NextInv, PTL DEF Spec

(* The type invariant the runs check.                                      *)
THEOREM TypeCorrect == Spec => []TypeOK
<1>1. PipelineInv => TypeOK
  BY DEF PipelineInv
<1>2. QED BY <1>1, PipelineInvariant, PTL

-----------------------------------------------------------------------------
(* The audit chain *)

LEMMA ChainStep == PipelineInv /\ [Next]_vars => [Chain!ChainNext]_(Chain!cvars)
<1> SUFFICES ASSUME PipelineInv, [Next]_vars PROVE [Chain!ChainNext]_(Chain!cvars)
  OBVIOUS
<1> USE DEF Chain!ChainNext, Chain!SignEvent, Chain!Restart, Chain!cvars
<1>1. ASSUME NEW t \in Threads, NEW e \in Events, Begin(t, e)
      PROVE  [Chain!ChainNext]_(Chain!cvars)
  BY <1>1 DEF Begin
<1>2. ASSUME NEW t \in Threads, NEW u \in Updates, Configure(t, u)
      PROVE  [Chain!ChainNext]_(Chain!cvars)
  BY <1>2 DEF Configure
<1>3. ASSUME NEW t \in Threads, Sign(t) PROVE [Chain!ChainNext]_(Chain!cvars)
  <2>1. cur[t] \in Events /\ cur[t] \notin Chain!LogEvents
    BY <1>3 DEF Sign, PipelineInv, DispatchOwnsEvent, UnsignedIsUnshared
  <2>2. config.key \in Keys
    BY <1>3 DEF Sign, PipelineInv, TypeOK, ConfigTyped
  <2>3. Chain!SignEvent(cur[t], config.key)
    BY <1>3, <2>1 DEF Sign, NewSignature
  <2>4. QED BY <2>1, <2>2, <2>3
<1>4. ASSUME NEW t \in Threads, ResetChain(t) PROVE [Chain!ChainNext]_(Chain!cvars)
  BY <1>4 DEF ResetChain, RestartedChain
<1>5. ASSUME NEW t \in Threads, Step(t), ~Sign(t), ~ResetChain(t)
      PROVE  UNCHANGED <<signed, prevSigned>>
  BY <1>5 DEF Step, CheckKey, SignRejected, Resolve, ResolveLocked, Build, Load, ExportRefused,
     PassClosedCheck, WriteLine, WriteFails, Deliver, DeliverFails, FetchStore, SkipStore,
     RecordInStore, RecordFails, CountError, Reraise, EndError, AssignField, RejectField,
     CloseExporter, CloseFails, CountCloseError, ForgiveClose, ReraiseClose, DiscardExporter,
     ResetStore
<1>6. CASE UNCHANGED vars
  BY <1>6
<1>7. QED BY <1>1, <1>2, <1>3, <1>4, <1>5, <1>6 DEF Next, Quiescent

(* The pipeline implements the abstract audit chain: every step of any     *)
(* thread is a signature linked to the last one, a restart, or a stutter.  *)
THEOREM PipelineImplementsChain == Spec => ImplementsAuditChain
<1>1. Init => Chain!ChainInit
  BY DEF Init, Chain!ChainInit
<1>2. QED BY <1>1, ChainStep, PipelineInvariant, PTL
          DEF Spec, ImplementsAuditChain, Chain!ChainSpec
-----------------------------------------------------------------------------
(* No fork *)

CP == INSTANCE AuditChainProofs WITH log <- signed, head <- prevSigned

(* The inductive invariant of the abstract chain carries over the          *)
(* refinement.                                                             *)
LEMMA ChainHolds == Spec => []CP!ChainInv
<1>1. Init => CP!ChainInv
  BY CP!ChainInductive DEF Init, CP!ChainInit
<1>2. PipelineInv /\ [Next]_vars /\ CP!ChainInv => CP!ChainInv'
  <2>1. [Chain!ChainNext]_(Chain!cvars) => [CP!ChainNext]_(CP!cvars)
    BY DEF Chain!ChainNext, Chain!SignEvent, Chain!Restart, Chain!cvars,
           CP!ChainNext, CP!SignEvent, CP!Restart, CP!cvars, CP!LogEvents
  <2>2. QED BY <2>1, ChainStep, CP!ChainInductive
<1>3. QED BY <1>1, <1>2, PipelineInvariant, PTL DEF Spec

(* ChainIsLinear, the property of the safety run, for every instance.      *)
THEOREM PipelineChainLinear == Spec => []ChainIsLinear
<1>1. CP!ChainInv => ChainIsLinear
  BY DEF CP!ChainInv, CP!Linear, CP!Linked, CP!SignedOnce, ChainIsLinear,
         Chain!Linear, Chain!Linked, Chain!SignedOnce
<1>2. QED BY <1>1, ChainHolds, PTL

-----------------------------------------------------------------------------
(* The cached exporter *)

(* A step inside the dispatch takes no lock that outlives it and leaves    *)
(* sink and closed flag of every exporter object alone.                    *)
InDispatch(t) ==
  /\ UNCHANGED <<config, configLock, torn, exporterLock>>
  /\ pc[t] \notin ConfigLabels
  /\ \E l \in {"idle"} \cup DispatchLabels : pc' = [pc EXCEPT ![t] = l]
SameExporters ==
  /\ cached' = cached /\ Len(made') = Len(made)
  /\ \A x \in DOMAIN made : made'[x].target = made[x].target /\ made'[x].closed = made[x].closed

(* All of the dispatch but Begin, Build and the file write leaves the      *)
(* cache and the exporter objects alone.                                   *)
LEMMA DispatchStep ==
  ASSUME PipelineInv, NEW t \in Threads,
         \/ CheckKey(t) \/ SignRejected(t) \/ Sign(t) \/ Resolve(t)
         \/ ResolveLocked(t) \/ Load(t) \/ ExportRefused(t) \/ PassClosedCheck(t)
         \/ Deliver(t) \/ DeliverFails(t) \/ FetchStore(t) \/ SkipStore(t)
         \/ RecordInStore(t) \/ RecordFails(t) \/ CountError(t) \/ Reraise(t)
         \/ EndError(t)
  PROVE  InDispatch(t) /\ UNCHANGED <<cached, made>>
<1>1. CASE CheckKey(t) \/ SignRejected(t) \/ Sign(t) \/ Resolve(t) \/ ResolveLocked(t)
             \/ Load(t) \/ ExportRefused(t) \/ PassClosedCheck(t)
  BY <1>1 DEF CheckKey, SignRejected, Sign, Resolve, ResolveLocked, Load,
       ExportRefused, PassClosedCheck, InDispatch
<1>2. CASE Deliver(t) \/ DeliverFails(t) \/ FetchStore(t) \/ SkipStore(t)
             \/ RecordInStore(t) \/ RecordFails(t) \/ CountError(t) \/ Reraise(t)
             \/ EndError(t)
  BY <1>2 DEF Deliver, AfterDelivery, DeliverFails, AfterExportError, FetchStore,
       SkipStore, RecordInStore, RecordFails, CountError, Reraise, EndError, InDispatch
<1>3. QED BY <1>1, <1>2

LEMMA BeginStep ==
  ASSUME PipelineInv, NEW t \in Threads, NEW e \in Events, Begin(t, e)
  PROVE  InDispatch(t) /\ UNCHANGED <<cached, made>>
<1>1. pc \in [Threads -> {"idle"} \cup DispatchLabels \cup ConfigLabels]
  BY DEF PipelineInv, TypeOK, ThreadsTyped
<1>2. pc[t] = "idle" /\ pc' \in {pc, [pc EXCEPT ![t] = "checkKey"], [pc EXCEPT ![t] = "error"]}
  BY DEF Begin
<1>3. pc = [pc EXCEPT ![t] = "idle"]
  BY <1>1, <1>2
<1>4. QED BY <1>2, <1>3 DEF Begin, InDispatch

(* A write only opens the file of its exporter and changes its buffer.     *)
LEMMA WriteStep ==
  ASSUME PipelineInv, NEW t \in Threads, WriteLine(t) \/ WriteFails(t)
  PROVE  InDispatch(t) /\ SameExporters
<1> USE DEF PipelineInv, TypeOK
<1>1. InDispatch(t) /\ cached' = cached
  BY DEF WriteLine, WriteFails, InDispatch
<1>2. \/ made' = made
      \/ \E h, o : made' = [made EXCEPT ![exp[t]].held = h, ![exp[t]].open = o]
  BY DEF WriteLine, WriteFails, Drain
<1>3. made \in Seq(Exporter) /\ \A x \in DOMAIN made : made[x] \in Exporter
  BY DEF ExportersTyped
<1>4. ASSUME NEW h, NEW o, made' = [made EXCEPT ![exp[t]].held = h, ![exp[t]].open = o]
      PROVE  SameExporters
  <2>1. made' = [made EXCEPT ![exp[t]] = [made[exp[t]] EXCEPT !.held = h, !.open = o]]
    BY <1>4
  <2>2. \A x \in DOMAIN made :
          made'[x] = made[x] \/ made'[x] = [made[x] EXCEPT !.held = h, !.open = o]
    BY <2>1
  <2>3. \A x \in DOMAIN made :
          made'[x].target = made[x].target /\ made'[x].closed = made[x].closed
    BY <1>3, <2>2 DEF Exporter
  <2>4. Len(made') = Len(made)
    BY <1>3, <2>1
  <2>5. QED BY <1>1, <2>3, <2>4 DEF SameExporters
<1>5. ASSUME made' = made PROVE SameExporters
  BY <1>1, <1>5 DEF SameExporters
<1>6. QED BY <1>1, <1>2, <1>4, <1>5

(* An exporter is built from the configuration in force.                   *)
LEMMA BuildStep ==
  ASSUME PipelineInv, NEW t \in Threads, Build(t)
  PROVE  /\ InDispatch(t) /\ exporterLock = NoThread
         /\ made'[cached'].target = config.endpoint /\ ~made'[cached'].closed
<1>1. InDispatch(t) /\ exporterLock = NoThread
  BY DEF Build, InDispatch
<1>2. made \in Seq(Exporter)
  BY DEF PipelineInv, TypeOK, ExportersTyped
<1>3. made'[cached'] = Fresh(config.endpoint)
  BY <1>2 DEF Build
<1>4. QED BY <1>1, <1>3 DEF Fresh

CacheInv == LocksAreHeld /\ CacheFollowsConfig

(* Dispatching threads neither take nor free the two locks.                *)
LEMMA LocksInDispatch ==
  ASSUME PipelineInv, LocksAreHeld, NEW t \in Threads, InDispatch(t)
  PROVE  LocksAreHeld' /\ (Settled' <=> Settled)
<1>1. \A u \in Threads : \A l \in ConfigLabels : pc'[u] = l <=> pc[u] = l
  BY DEF InDispatch, PipelineInv, TypeOK, ThreadsTyped
<1>2. LocksAreHeld'
  BY <1>1 DEF InDispatch, LocksAreHeld
<1>3. Settled' <=> Settled
  BY <1>1 DEF InDispatch, Settled
<1>4. QED BY <1>2, <1>3

(* Locks and cache: only a thread that holds the configuration lock        *)
(* assigns fields, and it discards the exporter before it frees the lock.  *)
LEMMA CacheStep == PipelineInv /\ CacheInv /\ [Next]_vars => CacheInv'
<1> SUFFICES ASSUME PipelineInv, CacheInv, [Next]_vars PROVE CacheInv'
  OBVIOUS
<1> USE DEF CacheInv
<1>0. /\ pc \in [Threads -> {"idle"} \cup DispatchLabels \cup ConfigLabels]
      /\ NoThread \notin Threads /\ cached \in 0..Len(made)
      /\ made \in Seq(Exporter)
  BY PipelineAssumption DEF PipelineInv, TypeOK, ThreadsTyped, ExportersTyped
<1>1. ASSUME NEW t \in Threads, InDispatch(t), UNCHANGED <<cached, made>> PROVE CacheInv'
  BY <1>1, LocksInDispatch DEF InDispatch, CacheFollowsConfig
<1>2. ASSUME NEW t \in Threads, WriteLine(t) \/ WriteFails(t) PROVE CacheInv'
  <2>1. InDispatch(t) /\ SameExporters
    BY <1>2, WriteStep
  <2>2. LocksAreHeld' /\ (Settled' <=> Settled)
    BY <2>1, LocksInDispatch
  <2>3. CacheFollowsConfig'
    BY <1>0, <2>1, <2>2 DEF InDispatch, SameExporters, CacheFollowsConfig
  <2>4. QED BY <2>2, <2>3
<1>3. ASSUME NEW t \in Threads, Build(t) PROVE CacheInv'
  <2>1. /\ InDispatch(t)
        /\ made'[cached'].target = config.endpoint /\ ~made'[cached'].closed
    BY <1>3, BuildStep
  <2>2. LocksAreHeld'
    BY <2>1, LocksInDispatch
  <2>3. CacheFollowsConfig'
    BY <2>1 DEF InDispatch, CacheFollowsConfig
  <2>4. QED BY <2>2, <2>3
<1>4. ASSUME NEW t \in Threads, NEW u \in Updates, Configure(t, u) PROVE CacheInv'
  <2>1. \A v \in Threads : pc[v] \notin ConfigLabels
    BY <1>0, <1>4 DEF Configure, LocksAreHeld
  <2>2. LocksAreHeld'
    BY <1>0, <1>4, <2>1 DEF Configure, LocksAreHeld
  <2>3. ~Settled'
    BY <1>0, <1>4, <2>1 DEF Configure, Settled
  <2>4. QED BY <2>2, <2>3 DEF CacheFollowsConfig
<1>5. ASSUME NEW t \in Threads, AssignField(t) PROVE CacheInv'
  <2>1. LocksAreHeld'
    BY <1>5 DEF AssignField, LocksAreHeld
  <2>2. ~Settled'
    BY <1>0, <1>5 DEF AssignField, Settled, LocksAreHeld
  <2>3. QED BY <2>1, <2>2 DEF CacheFollowsConfig
<1>6. ASSUME NEW t \in Threads, RejectField(t) PROVE CacheInv'
  <2>1. \A v \in Threads \ {t} : pc[v] \notin ConfigLabels
    BY <1>0, <1>6 DEF RejectField, LocksAreHeld
  <2>2. LocksAreHeld'
    BY <1>0, <1>6, <2>1 DEF RejectField, LocksAreHeld
  <2>3. ~Settled'
    BY <1>0, <1>6, <2>1 DEF RejectField, Settled
  <2>4. QED BY <2>2, <2>3 DEF CacheFollowsConfig
<1>7. ASSUME NEW t \in Threads, CloseExporter(t) PROVE CacheInv'
  <2>1. LocksAreHeld'
    BY <1>0, <1>7 DEF CloseExporter, LocksAreHeld
  <2>2. ~Settled'
    BY <1>0, <1>7 DEF CloseExporter, Settled, LocksAreHeld
  <2>3. QED BY <2>1, <2>2 DEF CacheFollowsConfig
<1>7a. ASSUME NEW t \in Threads, CloseFails(t) PROVE CacheInv'
  <2>1. LocksAreHeld'
    BY <1>0, <1>7a DEF CloseFails, LocksAreHeld
  <2>2. ~Settled'
    BY <1>0, <1>7a DEF CloseFails, Settled, LocksAreHeld
  <2>3. QED BY <2>1, <2>2 DEF CacheFollowsConfig
<1>7b. ASSUME NEW t \in Threads, CountCloseError(t) \/ ForgiveClose(t) PROVE CacheInv'
  <2>1. LocksAreHeld'
    BY <1>0, <1>7b DEF CountCloseError, ForgiveClose, LocksAreHeld
  <2>2. ~Settled'
    BY <1>0, <1>7b DEF CountCloseError, ForgiveClose, Settled, LocksAreHeld
  <2>3. QED BY <2>1, <2>2 DEF CacheFollowsConfig
<1>7c. ASSUME NEW t \in Threads, ReraiseClose(t) PROVE CacheInv'
  <2>1. \A v \in Threads \ {t} : pc[v] \notin ConfigLabels
    BY <1>0, <1>7c DEF ReraiseClose, LocksAreHeld
  <2>2. LocksAreHeld'
    BY <1>0, <1>7c, <2>1 DEF ReraiseClose, LocksAreHeld
  <2>3. ~Settled'
    BY <1>0, <1>7c, <2>1 DEF ReraiseClose, Settled
  <2>4. QED BY <2>2, <2>3 DEF CacheFollowsConfig
<1>8. ASSUME NEW t \in Threads, DiscardExporter(t) PROVE CacheInv'
  <2>1. LocksAreHeld'
    BY <1>0, <1>8 DEF DiscardExporter, LocksAreHeld
  <2>2. QED BY <1>8, <2>1 DEF DiscardExporter, DiscardedCache, CacheFollowsConfig
<1>9. ASSUME NEW t \in Threads, ResetChain(t) PROVE CacheInv'
  <2>1. LocksAreHeld'
    BY <1>0, <1>9 DEF ResetChain, LocksAreHeld
  <2>2. Settled
    BY <1>9 DEF ResetChain, Settled
  <2>3. QED BY <1>9, <2>1, <2>2 DEF ResetChain, CacheFollowsConfig
<1>10. ASSUME NEW t \in Threads, ResetStore(t) PROVE CacheInv'
  <2>1. LocksAreHeld'
    BY <1>0, <1>10 DEF ResetStore, LocksAreHeld
  <2>2. Settled
    BY <1>10 DEF ResetStore, Settled
  <2>3. QED BY <1>10, <2>1, <2>2 DEF ResetStore, CacheFollowsConfig
<1>11. CASE UNCHANGED vars
  BY <1>11 DEF LocksAreHeld, CacheFollowsConfig, Settled
<1>12. ASSUME NEW t \in Threads, Step(t) PROVE CacheInv'
  BY <1>12, <1>1, <1>2, <1>3, <1>5, <1>6, <1>7, <1>7a, <1>7b,
     <1>7c, <1>8, <1>9, <1>10, DispatchStep DEF Step
<1>13. ASSUME NEW t \in Threads, NEW e \in Events, Begin(t, e) PROVE CacheInv'
  BY <1>13, <1>1, BeginStep
<1>14. QED BY <1>4, <1>11, <1>12, <1>13 DEF Next, Quiescent

LEMMA CacheInit == Init => CacheInv
<1> SUFFICES ASSUME Init PROVE CacheInv
  OBVIOUS
<1>1. LocksAreHeld
  BY PipelineAssumption DEF Init, LocksAreHeld
<1>2. cached = 0 \/ made[cached].target = Injected
  BY DEF Init, Fresh
<1>3. QED BY <1>1, <1>2 DEF CacheInv, CacheFollowsConfig

LEMMA CacheHolds == Spec => []CacheInv
BY CacheInit, CacheStep, PipelineInvariant, PTL DEF Spec

(* CachedExporterIsCurrent: between two configure() calls the cached       *)
(* exporter is open to writes and of the endpoint configured, unless the   *)
(* last call failed half-way.                                              *)
THEOREM CacheIsFresh == Spec => []CachedExporterIsCurrent
<1>1. CacheInv => CachedExporterIsCurrent
  BY DEF CacheInv, CacheFollowsConfig, Settled, CachedExporterIsCurrent
<1>2. QED BY <1>1, CacheHolds, PTL

-----------------------------------------------------------------------------
(* Delivery *)

(* What a step does to the events in hand and to the sinks.  A buffer      *)
(* drains: its first lines go to the file, the next ones stay.             *)
SameSinks ==
  /\ lines' = lines /\ DOMAIN made \subseteq DOMAIN made'
  /\ \A x \in DOMAIN made' :
       made'[x].held = IF x \in DOMAIN made THEN made[x].held ELSE <<>>
Drains(x, buf, n, m) ==
  /\ lines' = [lines EXCEPT ![made[x].target] = @ \o SubSeq(buf, 1, n)]
  /\ DOMAIN made' = DOMAIN made
  /\ made'[x].held = SubSeq(buf, n + 1, m)
  /\ \A y \in DOMAIN made : y # x => made'[y].held = made[y].held
Buffered(t) == Append(made[exp[t]].held, cur[t])

(* A thread moves within a stage or handles an error; takes an event;      *)
(* hands its own to a sink, or to a file; closes an exporter; ends.        *)
Within(t) ==
  /\ SameSinks /\ UNCHANGED <<todo, cur>>
  /\ \E l \in {"idle"} \cup DispatchLabels \cup ConfigLabels :
       /\ pc' = [pc EXCEPT ![t] = l]
       /\ \/ pc[t] \in Undelivered /\ l \in Undelivered \cup {"error"}
          \/ pc[t] = "record" /\ l = "put"
          \/ pc[t] \in {"put", "error", "policy", "again"} /\ l \in {"error", "policy", "again"}
          \/ pc[t] \notin DispatchLabels /\ l \notin DispatchLabels
Takes(t, e) ==
  /\ SameSinks /\ e \in todo /\ todo' = todo \ {e} /\ pc[t] = "idle"
  /\ \/ e \in SampledOut /\ UNCHANGED <<pc, cur>>
     \/ /\ e \notin SampledOut
        /\ \E l \in {"checkKey", "error"} : pc' = [pc EXCEPT ![t] = l]
        /\ cur' = [cur EXCEPT ![t] = e]
Delivers(t) ==
  /\ pc[t] = "export" /\ pc' = [pc EXCEPT ![t] = "record"]
  /\ \E s \in DOMAIN lines : lines' = [lines EXCEPT ![s] = Append(@, cur[t])]
  /\ UNCHANGED <<made, todo, cur>>
Writes(t) ==
  /\ pc[t] = "write" /\ exp[t] \in DOMAIN made
  /\ \E n \in 0..Len(Buffered(t)) : \E m \in n..Len(Buffered(t)) :
       /\ Drains(exp[t], Buffered(t), n, m)
       /\ \/ n = Len(Buffered(t)) /\ pc' = [pc EXCEPT ![t] = "record"]
          \/ pc' = [pc EXCEPT ![t] = "error"]
  /\ UNCHANGED <<todo, cur>>
Closes(t) ==
  /\ pc[t] = "assign" /\ pc' = [pc EXCEPT ![t] = "discard"]
  /\ cached \in DOMAIN made
  /\ \E n \in 0..Len(made[cached].held) : Drains(cached, made[cached].held, n, n)
  /\ UNCHANGED <<todo, cur>>
Ends(t) ==
  /\ pc[t] \in {"record", "put", "policy"} /\ pc' = [pc EXCEPT ![t] = "idle"]
  /\ cur' = [cur EXCEPT ![t] = NoEvent]
  /\ SameSinks /\ UNCHANGED todo

LEMMA SameMade ==
  ASSUME TypeOK, UNCHANGED <<lines, made>>
  PROVE  SameSinks
BY DEF TypeOK, ExportersTyped, SameSinks

LEMMA DrainIsDrains ==
  ASSUME TypeOK, NEW x \in DOMAIN made, NEW buf, NEW n, NEW m, NEW o,
         Drain(x, buf, n, m, o)
  PROVE  Drains(x, buf, n, m)
<1>1. made \in Seq(Exporter) /\ \A y \in DOMAIN made : made[y] \in Exporter
  BY DEF TypeOK, ExportersTyped
<1> DEFINE rest == SubSeq(buf, n + 1, m)
<1>2. made' = [made EXCEPT ![x] = [made[x] EXCEPT !.held = rest, !.open = o]]
  BY <1>1 DEF Drain
<1> HIDE DEF rest
<1>3. /\ DOMAIN made' = DOMAIN made
      /\ \A y \in DOMAIN made : y # x => made'[y] = made[y]
      /\ made'[x] = [made[x] EXCEPT !.held = rest, !.open = o]
  BY <1>1, <1>2
<1>4. [made[x] EXCEPT !.held = rest, !.open = o].held = rest
  BY <1>1 DEF Exporter
<1>5. QED BY <1>3, <1>4 DEF Drain, Drains, rest

LEMMA ShutIsDrains ==
  ASSUME TypeOK, NEW x \in DOMAIN made, NEW n \in 0..Len(made[x].held), Shut(x, n)
  PROVE  Drains(x, made[x].held, n, n)
<1>1. made \in Seq(Exporter) /\ \A y \in DOMAIN made : made[y] \in Exporter
  BY DEF TypeOK, ExportersTyped
<1> DEFINE shut == [made[x] EXCEPT !.closed = TRUE, !.open = FALSE, !.held = <<>>]
<1>2. made' = [made EXCEPT ![x] = shut]
  BY <1>1 DEF Shut
<1>3. shut.held = <<>>
  BY <1>1 DEF Exporter
<1> HIDE DEF shut
<1>4. /\ DOMAIN made' = DOMAIN made /\ made'[x] = shut
      /\ \A y \in DOMAIN made : y # x => made'[y] = made[y]
  BY <1>1, <1>2
<1>5. SubSeq(made[x].held, n + 1, n) = <<>>
  <2>1. n + 1 \in Int /\ n \in Int /\ n < n + 1
    BY <1>1 DEF Exporter
  <2>2. QED BY <2>1, SubSeqEmpty
<1>6. QED BY <1>3, <1>4, <1>5 DEF Shut, Drains

(* Every step of the pipeline is of one of these kinds, or none of them to *)
(* the events and the sinks.                                               *)
LEMMA DeliveryKinds ==
  ASSUME PipelineInv, [Next]_vars
  PROVE  \/ SameSinks /\ UNCHANGED <<todo, cur, pc>>
         \/ \E t \in Threads : Within(t) \/ Delivers(t) \/ Writes(t) \/ Closes(t) \/ Ends(t)
         \/ \E t \in Threads, e \in Events : Takes(t, e)
<1> USE DEF PipelineInv, TypeOK
<1>0. UNCHANGED <<lines, made>> => SameSinks
  BY SameMade
<1>1. ASSUME NEW t \in Threads, NEW e \in Events, Begin(t, e) PROVE Takes(t, e)
  BY <1>0, <1>1 DEF Begin, Takes
<1>2. ASSUME NEW t \in Threads, NEW u \in Updates, Configure(t, u) PROVE Within(t)
  BY <1>0, <1>2 DEF Configure, Within
<1>3. ASSUME NEW t \in Threads,
             CheckKey(t) \/ SignRejected(t) \/ Sign(t) \/ Resolve(t) \/ ResolveLocked(t)
               \/ Load(t) \/ ExportRefused(t) \/ PassClosedCheck(t) \/ DeliverFails(t)
      PROVE  Within(t)
  BY <1>0, <1>3 DEF CheckKey, SignRejected, Sign, Resolve, ResolveLocked, Load,
       ExportRefused, PassClosedCheck, DeliverFails, AfterExportError, Within, Undelivered
<1>4. ASSUME NEW t \in Threads, Build(t) PROVE Within(t)
  <2>1. made' = Append(made, Fresh(config.endpoint)) /\ made \in Seq(Exporter)
    BY <1>4 DEF Build, ExportersTyped
  <2>2. /\ DOMAIN made' = DOMAIN made \cup {Len(made) + 1}
        /\ \A x \in DOMAIN made : made'[x] = made[x]
        /\ made'[Len(made) + 1] = Fresh(config.endpoint)
    BY <2>1
  <2>3. SameSinks
    BY <1>4, <2>1, <2>2 DEF Build, SameSinks, Fresh
  <2>4. QED BY <1>4, <2>3 DEF Build, Within, Undelivered
<1>5. ASSUME NEW t \in Threads, FetchStore(t) \/ RecordFails(t) \/ CountError(t) \/ Reraise(t)
      PROVE  Within(t)
  BY <1>0, <1>5 DEF FetchStore, RecordFails, CountError, Reraise, Within
<1>6. ASSUME NEW t \in Threads, AssignField(t)
      PROVE  SameSinks /\ UNCHANGED <<todo, cur, pc>>
  BY <1>0, <1>6 DEF AssignField
<1>7. ASSUME NEW t \in Threads,
             RejectField(t) \/ CloseFails(t) \/ CountCloseError(t) \/ ForgiveClose(t)
               \/ ReraiseClose(t) \/ DiscardExporter(t) \/ ResetChain(t) \/ ResetStore(t)
      PROVE  Within(t)
  BY <1>0, <1>7 DEF RejectField, CloseFails, CountCloseError, ForgiveClose, ReraiseClose,
       DiscardExporter, ResetChain, ResetStore, Within
<1>8. ASSUME NEW t \in Threads, CloseExporter(t) PROVE Within(t) \/ Closes(t)
  <2>1. CASE cached # 0 /\ IsJsonl(cached) /\ ~made[cached].closed
    <3>1. cached \in DOMAIN made
      BY <2>1 DEF ExportersTyped
    <3>2. PICK n \in 0..Len(made[cached].held) : Shut(cached, n)
      BY <1>8, <2>1 DEF CloseExporter, Close
    <3>3. Drains(cached, made[cached].held, n, n)
      BY <3>1, <3>2, ShutIsDrains
    <3>4. QED BY <1>8, <3>1, <3>3 DEF CloseExporter, Closes
  <2>2. CASE ~(cached # 0 /\ IsJsonl(cached) /\ ~made[cached].closed)
    <3>1. UNCHANGED <<made, lines>>
      BY <1>8, <2>2 DEF CloseExporter, Close
    <3>2. QED BY <1>0, <1>8, <3>1 DEF CloseExporter, Within
  <2>3. QED BY <2>1, <2>2
<1>9. ASSUME NEW t \in Threads, Deliver(t) PROVE Delivers(t)
  <2>1. made[exp[t]] \in Exporter
    BY <1>9 DEF Deliver, ExportersTyped
  <2>2. made[exp[t]].target \in DOMAIN lines
    BY <2>1 DEF Exporter, EventsTyped
  <2>3. QED BY <1>9, <2>2 DEF Deliver, AfterDelivery, Delivers
<1>10. ASSUME NEW t \in Threads, WriteLine(t) \/ WriteFails(t) PROVE Within(t) \/ Writes(t)
  <2>0. /\ pc[t] = "write" /\ exp[t] # 0 /\ cur[t] \in Events /\ UNCHANGED <<todo, cur>>
    BY <1>10 DEF WriteLine, WriteFails, DispatchOwnsEvent, DispatchLabels
  <2>1. /\ pc[t] = "write" /\ exp[t] \in DOMAIN made /\ made[exp[t]] \in Exporter
        /\ cur[t] \in Events /\ UNCHANGED <<todo, cur>>
    BY <2>0 DEF ExportersTyped
  <2>2. made[exp[t]].held \in Seq(Events)
    BY <2>1 DEF Exporter
  <2>3. /\ Buffered(t) \in Seq(Events) /\ Len(made[exp[t]].held) \in Nat
        /\ Len(Buffered(t)) = Len(made[exp[t]].held) + 1
    BY <2>1, <2>2 DEF Buffered
  <2>4. CASE WriteLine(t)
    <3>1. Drain(exp[t], Buffered(t), Len(Buffered(t)), Len(Buffered(t)), TRUE)
      BY <2>4 DEF WriteLine, Buffered
    <3>2. Drains(exp[t], Buffered(t), Len(Buffered(t)), Len(Buffered(t)))
      BY <2>1, <3>1, DrainIsDrains
    <3>3. Len(Buffered(t)) \in 0..Len(Buffered(t)) /\ Len(Buffered(t)) \in Len(Buffered(t))..Len(Buffered(t))
      BY <2>3
    <3>4. pc' = [pc EXCEPT ![t] = "record"]
      BY <2>4 DEF WriteLine
    <3>5. QED BY <2>1, <3>2, <3>3, <3>4 DEF Writes
  <2>5. CASE WriteFails(t) /\ UNCHANGED <<made, lines>>
    BY <1>0, <2>1, <2>5 DEF WriteFails, Within, Undelivered
  <2>6. CASE WriteFails(t) /\ ~UNCHANGED <<made, lines>>
    <3>1. PICK n \in 0..Len(made[exp[t]].held),
               m \in {Len(Buffered(t)) - 1, Len(Buffered(t))} :
            Drain(exp[t], Buffered(t), n, m, TRUE)
      BY <2>6 DEF WriteFails, Buffered
    <3>2. Drains(exp[t], Buffered(t), n, m)
      BY <2>1, <3>1, DrainIsDrains
    <3>3. n \in 0..Len(Buffered(t)) /\ m \in n..Len(Buffered(t))
      BY <2>3
    <3>4. pc' = [pc EXCEPT ![t] = "error"]
      BY <2>6 DEF WriteFails
    <3>5. QED BY <2>1, <3>2, <3>3, <3>4 DEF Writes
  <2>7. QED BY <1>10, <2>4, <2>5, <2>6
<1>11. ASSUME NEW t \in Threads, SkipStore(t) \/ RecordInStore(t) \/ EndError(t)
       PROVE  Ends(t)
  BY <1>0, <1>11 DEF SkipStore, RecordInStore, EndError, Ends
<1>12. UNCHANGED vars => SameSinks /\ UNCHANGED <<todo, cur, pc>>
  BY <1>0
<1>13. QED BY <1>1, <1>2, <1>3, <1>4, <1>5, <1>6, <1>7, <1>8, <1>9, <1>10, <1>11, <1>12
           DEF Next, Step, Quiescent

(* A line adds its event to what is written, and nothing else.             *)
LEMMA WrittenAfterLine ==
  ASSUME EventsTyped, NEW s \in DOMAIN lines, NEW d,
         lines' = [lines EXCEPT ![s] = Append(@, d)]
  PROVE  \A e : Written(e)' <=> Written(e) \/ e = d
<1>1. /\ lines[s] \in Seq(Events) /\ DOMAIN lines' = DOMAIN lines
      /\ lines'[s] = Append(lines[s], d)
      /\ \A r \in DOMAIN lines : r # s => lines'[r] = lines[r]
  BY DEF EventsTyped
<1>2. /\ DOMAIN lines'[s] = DOMAIN lines[s] \cup {Len(lines[s]) + 1}
      /\ lines'[s][Len(lines[s]) + 1] = d
      /\ \A i \in DOMAIN lines[s] : lines'[s][i] = lines[s][i]
  BY <1>1
<1>3. ASSUME NEW e PROVE Written(e)' <=> Written(e) \/ e = d
  BY <1>1, <1>2 DEF Written
<1>4. QED BY <1>3

(* A buffer that is apart from every file and every other buffer may drain *)
(* as far as it likes: no line is there twice.                             *)
LEMMA DrainsApart ==
  ASSUME TypeOK, LinesApart, DeliveredAtMostOnce, NEW x \in DOMAIN made,
         NEW buf \in Seq(Events), NEW n \in 0..Len(buf), NEW m \in n..Len(buf),
         Drains(x, buf, n, m),
         \A i, j \in 1..Len(buf) : buf[i] = buf[j] => i = j,
         \A i \in 1..Len(buf) : ~Written(buf[i]) /\ buf[i] \notin SampledOut,
         \A y \in DOMAIN made, i \in 1..Len(buf) : y # x =>
           \A j \in DOMAIN made[y].held : made[y].held[j] # buf[i]
  PROVE  /\ LinesApart' /\ DeliveredAtMostOnce'
         /\ \A e : Written(e)' <=> Written(e) \/ \E i \in 1..n : e = buf[i]
         /\ \A e : HeldBack(e)' => HeldBack(e) \/ \E i \in 1..Len(buf) : e = buf[i]
<1> DEFINE s == made[x].target
           L == Len(lines[s])
<1>1. made \in Seq(Exporter) /\ made[x] \in Exporter
  BY DEF TypeOK, ExportersTyped
<1>2. s \in DOMAIN lines /\ lines[s] \in Seq(Events) /\ L \in Nat
  BY <1>1 DEF Exporter, TypeOK, EventsTyped
<1>3. /\ DOMAIN lines' = DOMAIN lines
      /\ lines'[s] = lines[s] \o SubSeq(buf, 1, n)
      /\ \A r \in DOMAIN lines : r # s => lines'[r] = lines[r]
  BY <1>2 DEF Drains, TypeOK, EventsTyped
<1> HIDE DEF s
<1>4a. n \in Nat /\ m \in Nat /\ Len(buf) \in Nat /\ n <= m /\ m <= Len(buf)
  OBVIOUS
<1>4b. /\ lines[s] \o SubSeq(buf, 1, n) \in Seq(Events)
       /\ Len(lines[s] \o SubSeq(buf, 1, n)) = Len(lines[s]) + n
       /\ \A i \in 1..Len(lines[s]) : (lines[s] \o SubSeq(buf, 1, n))[i] = lines[s][i]
       /\ \A i \in Len(lines[s]) + 1..Len(lines[s]) + n :
            (lines[s] \o SubSeq(buf, 1, n))[i] = buf[i - Len(lines[s])]
       /\ SubSeq(buf, n + 1, m) \in Seq(Events)
       /\ Len(SubSeq(buf, n + 1, m)) = m - n
       /\ \A i \in 1..m - n : SubSeq(buf, n + 1, m)[i] = buf[n + i]
  BY <1>2, Drained
<1>4c. made'[x].held = SubSeq(buf, n + 1, m)
  BY DEF Drains
<1>4. /\ n \in Nat /\ m \in Nat /\ Len(buf) \in Nat /\ n <= m /\ m <= Len(buf)
      /\ lines'[s] \in Seq(Events) /\ Len(lines'[s]) = L + n
      /\ \A i \in 1..L : lines'[s][i] = lines[s][i]
      /\ \A i \in L + 1..L + n : lines'[s][i] = buf[i - L]
      /\ made'[x].held \in Seq(Events) /\ Len(made'[x].held) = m - n
      /\ \A i \in 1..m - n : made'[x].held[i] = buf[n + i]
  BY <1>3, <1>4a, <1>4b, <1>4c
<1>5. /\ DOMAIN made' = DOMAIN made
      /\ \A y \in DOMAIN made : y # x => made'[y].held = made[y].held
  BY DEF Drains
<1>6. /\ DOMAIN lines[s] = 1..L /\ DOMAIN lines'[s] = 1..L + n
      /\ DOMAIN made'[x].held = 1..m - n
  BY <1>2, <1>4
<1> HIDE DEF L
(* Where a line comes from. *)
<1>7. ASSUME NEW r \in DOMAIN lines', NEW i \in DOMAIN lines'[r]
      PROVE  \/ i \in DOMAIN lines[r] /\ lines'[r][i] = lines[r][i]
             \/ r = s /\ i - L \in 1..n /\ lines'[r][i] = buf[i - L]
  <2>1. CASE r # s
    BY <1>3, <2>1
  <2>2. CASE r = s /\ i \in 1..L
    BY <1>4, <1>6, <2>2
  <2>3. CASE r = s /\ i \notin 1..L
    <3>1. i \in L + 1..L + n /\ i - L \in 1..n
      BY <1>2, <1>4, <1>6, <2>3
    <3>2. QED BY <1>4, <2>3, <3>1
  <2>4. QED BY <2>1, <2>2, <2>3
<1>8. ASSUME NEW y \in DOMAIN made', NEW i \in DOMAIN made'[y].held
      PROVE  \/ y # x /\ i \in DOMAIN made[y].held /\ made'[y].held[i] = made[y].held[i]
             \/ y = x /\ n + i \in n + 1..Len(buf) /\ made'[y].held[i] = buf[n + i]
  <2>1. CASE y # x
    BY <1>5, <2>1
  <2>2. CASE y = x
    <3>1. i \in 1..m - n
      BY <1>6, <2>2
    <3>2. made'[x].held[i] = buf[n + i]
      BY <1>4, <3>1
    <3>3. n + i \in n + 1..Len(buf)
      BY <1>4a, <3>1
    <3>4. QED BY <2>2, <3>2, <3>3
  <2>3. QED BY <2>1, <2>2
<1>9. \A e : Written(e)' <=> Written(e) \/ \E i \in 1..n : e = buf[i]
  <2>1. ASSUME NEW e, Written(e)' PROVE Written(e) \/ \E i \in 1..n : e = buf[i]
    <3>1. PICK r \in DOMAIN lines' : \E i \in DOMAIN lines'[r] : lines'[r][i] = e
      BY <2>1 DEF Written
    <3>2. PICK i \in DOMAIN lines'[r] : lines'[r][i] = e
      BY <3>1
    <3>3. r \in DOMAIN lines
      BY <1>3
    <3>4. QED BY <1>7, <3>2, <3>3 DEF Written
  <2>2. ASSUME NEW e, Written(e) PROVE Written(e)'
    <3>0. PICK r \in DOMAIN lines : \E i \in DOMAIN lines[r] : lines[r][i] = e
      BY <2>2 DEF Written
    <3>1. PICK i \in DOMAIN lines[r] : lines[r][i] = e
      BY <3>0
    <3>2. CASE r = s
      <4>1. i \in DOMAIN lines'[s] /\ lines'[s][i] = e
        BY <1>2, <1>4, <1>6, <3>1, <3>2
      <4>2. QED BY <1>2, <1>3, <4>1 DEF Written
    <3>3. CASE r # s
      BY <1>3, <3>1, <3>3 DEF Written
    <3>4. QED BY <3>2, <3>3
  <2>3. ASSUME NEW i \in 1..n PROVE Written(buf[i])'
    <3>1. L + i \in L + 1..L + n /\ (L + i) - L = i /\ L + i \in DOMAIN lines'[s]
      BY <1>2, <1>4, <1>6
    <3>2. lines'[s][L + i] = buf[i]
      BY <1>4, <3>1
    <3>3. QED BY <1>2, <1>3, <3>1, <3>2 DEF Written
  <2>4. QED BY <2>1, <2>2, <2>3
<1>10. \A e : HeldBack(e)' => HeldBack(e) \/ \E i \in n + 1..Len(buf) : e = buf[i]
  BY <1>5, <1>8 DEF HeldBack
<1>11. DeliveredAtMostOnce'
  <2> SUFFICES ASSUME NEW s1 \in DOMAIN lines', NEW s2 \in DOMAIN lines',
                      NEW i \in DOMAIN lines'[s1], NEW j \in DOMAIN lines'[s2]
               PROVE  /\ lines'[s1][i] \notin SampledOut
                      /\ lines'[s1][i] = lines'[s2][j] => s1 = s2 /\ i = j
    BY DEF DeliveredAtMostOnce
  <2>1. CASE i \in DOMAIN lines[s1] /\ lines'[s1][i] = lines[s1][i]
    <3>1. CASE j \in DOMAIN lines[s2] /\ lines'[s2][j] = lines[s2][j]
      BY <1>3, <2>1, <3>1 DEF DeliveredAtMostOnce
    <3>2. CASE s2 = s /\ j - L \in 1..n /\ lines'[s2][j] = buf[j - L]
      <4>1. j - L \in 1..Len(buf) /\ Written(lines[s1][i])
        BY <1>3, <1>4, <2>1, <3>2 DEF Written
      <4>2. lines[s1][i] # buf[j - L]
        BY <4>1
      <4>3. lines[s1][i] \notin SampledOut
        BY <1>3, <2>1 DEF DeliveredAtMostOnce
      <4>4. QED BY <2>1, <3>2, <4>2, <4>3
    <3>3. QED BY <1>7, <3>1, <3>2
  <2>2. CASE s1 = s /\ i - L \in 1..n /\ lines'[s1][i] = buf[i - L]
    <3>0. i - L \in 1..Len(buf)
      BY <1>4, <2>2
    <3>1. CASE j \in DOMAIN lines[s2] /\ lines'[s2][j] = lines[s2][j]
      <4>1. Written(lines[s2][j])
        BY <1>3, <3>1 DEF Written
      <4>2. QED BY <2>2, <3>0, <3>1, <4>1
    <3>2. CASE s2 = s /\ j - L \in 1..n /\ lines'[s2][j] = buf[j - L]
      <4>1. j - L \in 1..Len(buf)
        BY <1>4, <3>2
      <4>2. buf[i - L] = buf[j - L] => i - L = j - L
        BY <3>0, <4>1
      <4>3. i \in Int /\ j \in Int
        BY <1>4, <1>6, <2>2, <3>2
      <4>4. QED BY <1>2, <2>2, <3>0, <3>2, <4>2, <4>3
    <3>3. QED BY <1>7, <3>1, <3>2
  <2>3. QED BY <1>7, <2>1, <2>2
<1>12. ASSUME NEW y \in DOMAIN made', NEW z \in DOMAIN made', NEW i \in DOMAIN made'[y].held,
              NEW j \in DOMAIN made'[z].held, made'[y].held[i] = made'[z].held[j]
       PROVE  y = z /\ i = j
  <2>1. CASE y = x /\ z = x
    <3>1. /\ n + i \in 1..Len(buf) /\ n + j \in 1..Len(buf) /\ buf[n + i] = buf[n + j]
          /\ i \in Int /\ j \in Int
      <4>1. i \in 1..m - n /\ j \in 1..m - n
        BY <1>6, <2>1
      <4>2. /\ n + i \in n + 1..Len(buf) /\ made'[y].held[i] = buf[n + i]
            /\ n + j \in n + 1..Len(buf) /\ made'[z].held[j] = buf[n + j]
        BY <1>8, <2>1
      <4>3. n + i \in 1..Len(buf) /\ n + j \in 1..Len(buf)
        BY <1>4a, <4>2
      <4>4. buf[n + i] = buf[n + j]
        BY <1>12, <4>2
      <4>5. i \in Int /\ j \in Int
        BY <4>1
      <4>6. QED BY <4>3, <4>4, <4>5
    <3>2. n + i = n + j
      BY <3>1
    <3>3. QED BY <1>4, <2>1, <3>1, <3>2
  <2>2. CASE y # x /\ z # x
    BY <1>5, <1>12, <2>2 DEF LinesApart
  <2>3. CASE y = x /\ z # x
    <3>1. n + i \in 1..Len(buf) /\ made[z].held[j] = buf[n + i] /\ j \in DOMAIN made[z].held
      BY <1>4, <1>5, <1>8, <1>12, <2>3
    <3>2. QED BY <1>5, <2>3, <3>1
  <2>4. CASE y # x /\ z = x
    <3>1. n + j \in 1..Len(buf) /\ made[y].held[i] = buf[n + j] /\ i \in DOMAIN made[y].held
      BY <1>4, <1>5, <1>8, <1>12, <2>4
    <3>2. QED BY <1>5, <2>4, <3>1
  <2>5. QED BY <2>1, <2>2, <2>3, <2>4
<1>13. ASSUME NEW e \in Events, Written(e)', HeldBack(e)' PROVE FALSE
  <2>0. PICK y \in DOMAIN made' : \E i \in DOMAIN made'[y].held : made'[y].held[i] = e
    BY <1>13 DEF HeldBack
  <2>1. PICK i \in DOMAIN made'[y].held : made'[y].held[i] = e
    BY <2>0
  <2>2. CASE y = x
    <3>1. n + i \in 1..Len(buf) /\ e = buf[n + i] /\ n + i > n
      BY <1>4, <1>6, <1>8, <2>1, <2>2
    <3>2. ~Written(e)
      BY <3>1
    <3>3. PICK j \in 1..n : e = buf[j]
      BY <1>9, <1>13, <3>2
    <3>3a. j \in 1..Len(buf)
      BY <1>4a
    <3>4. j = n + i
      BY <3>1, <3>3, <3>3a
    <3>5. QED BY <1>4, <3>1, <3>4
  <2>3. CASE y # x
    <3>1. i \in DOMAIN made[y].held /\ made[y].held[i] = e
      BY <1>5, <2>1, <2>3
    <3>2. HeldBack(e)
      BY <1>5, <3>1 DEF HeldBack
    <3>3. PICK j \in 1..n : e = buf[j]
      BY <1>9, <1>13, <3>2 DEF LinesApart
    <3>4. j \in 1..Len(buf)
      BY <1>4
    <3>5. QED BY <1>5, <2>3, <3>1, <3>3, <3>4
  <2>4. QED BY <2>2, <2>3
<1>14. LinesApart'
  BY <1>12, <1>13 DEF LinesApart
<1>15. \A e : HeldBack(e)' => HeldBack(e) \/ \E i \in 1..Len(buf) : e = buf[i]
  BY <1>4, <1>10
<1>16. QED BY <1>9, <1>11, <1>14, <1>15

DeliveryInv ==
  /\ EventsHaveOneOwner /\ LinesFollowStages /\ LinesApart
  /\ DeliveredAtMostOnce /\ StoredWasExported

(* What the steps that leave files and buffers alone preserve.             *)
LEMMA SinksStay ==
  ASSUME TypeOK, SameSinks
  PROVE  /\ \A e : Written(e)' <=> Written(e)
         /\ \A e : HeldBack(e)' <=> HeldBack(e)
         /\ DeliveredAtMostOnce => DeliveredAtMostOnce'
         /\ LinesApart => LinesApart'
<1>1. \A e : Written(e)' <=> Written(e)
  BY DEF SameSinks, Written
<1>2. \A x \in DOMAIN made' :
        \/ x \in DOMAIN made /\ made'[x].held = made[x].held
        \/ x \notin DOMAIN made /\ DOMAIN made'[x].held = {}
  BY DEF SameSinks
<1>3. \A e : HeldBack(e)' <=> HeldBack(e)
  BY <1>2 DEF HeldBack, SameSinks
<1>4. DeliveredAtMostOnce => DeliveredAtMostOnce'
  BY DEF SameSinks, DeliveredAtMostOnce
<1>5. LinesApart => LinesApart'
  BY <1>1, <1>2, <1>3 DEF LinesApart
<1>6. QED BY <1>1, <1>3, <1>4, <1>5

(* One lemma per kind: the ownership of events, the stages against the     *)
(* lines, and the lines among themselves.                                  *)
LEMMA WithinDelivery ==
  ASSUME PipelineInv, DeliveryInv, NEW t \in Threads, Within(t)
  PROVE  EventsHaveOneOwner' /\ LinesFollowStages' /\ LinesApart' /\ DeliveredAtMostOnce'
<1> USE DEF PipelineInv, TypeOK, DeliveryInv, Within
<1>1. EventsHaveOneOwner'
  BY DEF EventsHaveOneOwner, ThreadsTyped, Undelivered
<1>2. /\ \A e : (Written(e)' <=> Written(e)) /\ (HeldBack(e)' <=> HeldBack(e))
      /\ DeliveredAtMostOnce' /\ LinesApart'
  BY SinksStay
<1>3. LinesFollowStages'
  BY <1>2 DEF LinesFollowStages, InSink, ThreadsTyped, Undelivered
<1>4. QED BY <1>1, <1>2, <1>3

LEMMA TakesDelivery ==
  ASSUME PipelineInv, DeliveryInv, NEW t \in Threads, NEW e \in Events, Takes(t, e)
  PROVE  EventsHaveOneOwner' /\ LinesFollowStages' /\ LinesApart' /\ DeliveredAtMostOnce'
<1> USE DEF PipelineInv, TypeOK, DeliveryInv, Takes
<1>1. EventsHaveOneOwner'
  <2>1. \A u \in Threads : cur[u] # e
    BY PipelineAssumption DEF EventsHaveOneOwner, DispatchOwnsEvent
  <2>2. QED BY <2>1, PipelineAssumption DEF EventsHaveOneOwner, ThreadsTyped
<1>2. /\ \A d : (Written(d)' <=> Written(d)) /\ (HeldBack(d)' <=> HeldBack(d))
      /\ DeliveredAtMostOnce' /\ LinesApart'
  BY SinksStay
<1>3. LinesFollowStages'
  BY <1>2 DEF LinesFollowStages, InSink, ThreadsTyped, Undelivered
<1>4. QED BY <1>1, <1>2, <1>3

(* The event of a thread that has not delivered it is nowhere.             *)
LEMMA NewToSinks ==
  ASSUME PipelineInv, DeliveryInv, NEW t \in Threads, pc[t] \in Undelivered
  PROVE  /\ cur[t] \in Events /\ ~Written(cur[t]) /\ ~HeldBack(cur[t])
         /\ cur[t] \notin SampledOut /\ cur[t] \notin todo
         /\ \A u \in Threads : u # t => cur[u] # cur[t]
BY PipelineAssumption DEF PipelineInv, TypeOK, DeliveryInv, LinesFollowStages, InSink,
   EventsHaveOneOwner, DispatchOwnsEvent,
   Undelivered

(* The line written is new to every sink, since its event was unwritten.   *)
LEMMA DeliversDelivery ==
  ASSUME PipelineInv, DeliveryInv, NEW t \in Threads, Delivers(t)
  PROVE  EventsHaveOneOwner' /\ LinesFollowStages' /\ LinesApart' /\ DeliveredAtMostOnce'
<1> USE DEF PipelineInv, TypeOK, DeliveryInv, Delivers
<1>1. EventsHaveOneOwner'
  BY DEF EventsHaveOneOwner, ThreadsTyped
<1>2. PICK s \in DOMAIN lines : lines' = [lines EXCEPT ![s] = Append(@, cur[t])]
  OBVIOUS
<1>3. \A e : Written(e)' <=> Written(e) \/ e = cur[t]
  BY <1>2, WrittenAfterLine
<1>4. /\ ~Written(cur[t]) /\ ~HeldBack(cur[t]) /\ cur[t] \notin SampledOut
      /\ cur[t] \notin todo /\ \A u \in Threads : u # t => cur[u] # cur[t]
  BY NewToSinks DEF Undelivered
<1>4a. \A e : HeldBack(e)' <=> HeldBack(e)
  BY DEF HeldBack
<1>5. LinesFollowStages'
  BY <1>3, <1>4, <1>4a DEF LinesFollowStages, InSink, ThreadsTyped, Undelivered
<1>6. /\ lines[s] \in Seq(Events) /\ DOMAIN lines' = DOMAIN lines
      /\ lines'[s] = Append(lines[s], cur[t])
      /\ \A r \in DOMAIN lines : r # s => lines'[r] = lines[r]
  BY <1>2 DEF EventsTyped
<1>7. /\ DOMAIN lines'[s] = DOMAIN lines[s] \cup {Len(lines[s]) + 1}
      /\ lines'[s][Len(lines[s]) + 1] = cur[t]
      /\ \A i \in DOMAIN lines[s] : lines'[s][i] = lines[s][i]
  BY <1>6
<1>8. \A r \in DOMAIN lines : \A i \in DOMAIN lines[r] : lines[r][i] # cur[t]
  BY <1>4 DEF Written
<1>9. DeliveredAtMostOnce'
  BY <1>4, <1>6, <1>7, <1>8 DEF DeliveredAtMostOnce
<1>10. LinesApart'
  BY <1>3, <1>4, <1>4a DEF LinesApart
<1>11. QED BY <1>1, <1>5, <1>9, <1>10

(* What a buffer holds is in no file, in no other buffer, and there once.  *)
LEMMA HeldApart ==
  ASSUME PipelineInv, DeliveryInv, NEW x \in DOMAIN made
  PROVE  /\ made[x].held \in Seq(Events)
         /\ \A i, j \in 1..Len(made[x].held) : made[x].held[i] = made[x].held[j] => i = j
         /\ \A i \in 1..Len(made[x].held) :
              ~Written(made[x].held[i]) /\ made[x].held[i] \notin SampledOut
         /\ \A y \in DOMAIN made, i \in 1..Len(made[x].held) : y # x =>
              \A j \in DOMAIN made[y].held : made[y].held[j] # made[x].held[i]
<1>0. made[x] \in Exporter
  BY DEF PipelineInv, TypeOK, ExportersTyped
<1>1. made[x].held \in Seq(Events)
  BY <1>0 DEF Exporter
<1>2. \A i \in 1..Len(made[x].held) : made[x].held[i] \in Events /\ HeldBack(made[x].held[i])
  BY <1>1 DEF HeldBack
<1>3. \A i \in 1..Len(made[x].held) :
        ~Written(made[x].held[i]) /\ made[x].held[i] \notin SampledOut
  BY <1>2 DEF DeliveryInv, LinesApart, LinesFollowStages, InSink
<1>4. \A y \in DOMAIN made, i \in 1..Len(made[x].held) : \A j \in DOMAIN made[y].held :
        made[y].held[j] = made[x].held[i] => y = x /\ i = j
  BY <1>1 DEF DeliveryInv, LinesApart
<1>5. DOMAIN made[x].held = 1..Len(made[x].held)
  BY <1>1
<1>6. QED BY <1>1, <1>3, <1>4, <1>5

(* Nor is the line about to be written.                                    *)
LEMMA WritesDelivery ==
  ASSUME PipelineInv, DeliveryInv, NEW t \in Threads, Writes(t)
  PROVE  /\ EventsHaveOneOwner' /\ LinesFollowStages' /\ LinesApart' /\ DeliveredAtMostOnce'
         /\ \A e : Written(e) => Written(e)'
<1> USE DEF PipelineInv, TypeOK, DeliveryInv
<1> DEFINE buf == Buffered(t)
           held == made[exp[t]].held
<1>1. EventsHaveOneOwner'
  BY DEF Writes, EventsHaveOneOwner, ThreadsTyped
<1>2. PICK n \in 0..Len(buf) : \E k \in n..Len(buf) :
        /\ Drains(exp[t], buf, n, k)
        /\ \/ n = Len(buf) /\ pc' = [pc EXCEPT ![t] = "record"]
           \/ pc' = [pc EXCEPT ![t] = "error"]
  BY DEF Writes
<1>3. PICK m \in n..Len(buf) :
        /\ Drains(exp[t], buf, n, m)
        /\ \/ n = Len(buf) /\ pc' = [pc EXCEPT ![t] = "record"]
           \/ pc' = [pc EXCEPT ![t] = "error"]
  BY <1>2
<1>4. /\ pc[t] = "write" /\ exp[t] \in DOMAIN made /\ UNCHANGED <<todo, cur>>
  BY DEF Writes
<1>5. /\ cur[t] \in Events /\ ~Written(cur[t]) /\ ~HeldBack(cur[t])
      /\ cur[t] \notin SampledOut /\ cur[t] \notin todo
      /\ \A u \in Threads : u # t => cur[u] # cur[t]
  BY <1>4, NewToSinks DEF Undelivered
<1>6. /\ held \in Seq(Events)
      /\ \A i, j \in 1..Len(held) : held[i] = held[j] => i = j
      /\ \A i \in 1..Len(held) : ~Written(held[i]) /\ held[i] \notin SampledOut
      /\ \A y \in DOMAIN made, i \in 1..Len(held) : y # exp[t] =>
           \A j \in DOMAIN made[y].held : made[y].held[j] # held[i]
  BY <1>4, HeldApart
<1>7. /\ buf \in Seq(Events) /\ Len(held) \in Nat /\ Len(buf) = Len(held) + 1
      /\ buf[Len(held) + 1] = cur[t]
      /\ \A i \in 1..Len(held) : buf[i] = held[i]
  BY <1>5, <1>6 DEF Buffered
<1>8. \A i \in 1..Len(held) : held[i] # cur[t] /\ HeldBack(held[i])
  BY <1>4, <1>5, <1>6 DEF HeldBack
<1>9. \A y \in DOMAIN made : \A j \in DOMAIN made[y].held : made[y].held[j] # cur[t]
  BY <1>5 DEF HeldBack
<1> HIDE DEF buf, held
<1>10. \A i \in 1..Len(buf) : i \in 1..Len(held) \/ i = Len(held) + 1
  BY <1>7
<1>11. /\ \A i, j \in 1..Len(buf) : buf[i] = buf[j] => i = j
       /\ \A i \in 1..Len(buf) : ~Written(buf[i]) /\ buf[i] \notin SampledOut
       /\ \A y \in DOMAIN made, i \in 1..Len(buf) : y # exp[t] =>
            \A j \in DOMAIN made[y].held : made[y].held[j] # buf[i]
  <2>1. ASSUME NEW i \in 1..Len(buf), NEW j \in 1..Len(buf), buf[i] = buf[j] PROVE i = j
    BY <1>6, <1>7, <1>8, <1>10, <2>1
  <2>2. ASSUME NEW i \in 1..Len(buf) PROVE ~Written(buf[i]) /\ buf[i] \notin SampledOut
    BY <1>5, <1>6, <1>7, <1>10
  <2>3. ASSUME NEW y \in DOMAIN made, NEW i \in 1..Len(buf), y # exp[t],
               NEW j \in DOMAIN made[y].held
        PROVE  made[y].held[j] # buf[i]
    BY <1>6, <1>7, <1>9, <1>10, <2>3
  <2>4. QED BY <2>1, <2>2, <2>3
<1>12. /\ LinesApart' /\ DeliveredAtMostOnce'
       /\ \A e : Written(e)' <=> Written(e) \/ \E i \in 1..n : e = buf[i]
       /\ \A e : HeldBack(e)' => HeldBack(e) \/ \E i \in 1..Len(buf) : e = buf[i]
  BY <1>3, <1>4, <1>7, <1>11, DrainsApart
<1>13. \A i \in 1..Len(buf) : buf[i] = cur[t] \/ HeldBack(buf[i])
  BY <1>7, <1>8, <1>10
<1>14. \A e : InSink(e)' => InSink(e) \/ e = cur[t]
  <2>1. \A i \in 1..n : i \in 1..Len(buf)
    BY <1>7
  <2>2. QED BY <1>12, <1>13, <2>1 DEF InSink
<1>15. pc'[t] = "record" => Written(cur[t])'
  <2>1. ASSUME pc'[t] = "record" PROVE n = Len(buf)
    BY <1>3, <2>1 DEF ThreadsTyped
  <2>2. Len(held) + 1 \in 1..Len(buf)
    BY <1>7
  <2>3. Len(buf) = Len(held) + 1
    BY <1>7
  <2>4. QED BY <1>4, <1>7, <1>12, <2>1, <2>2, <2>3
<1>16. LinesFollowStages'
  <2>1. \A u \in Threads : u # t => pc'[u] = pc[u]
    BY <1>3 DEF ThreadsTyped
  <2>2. pc'[t] \in {"record", "error"}
    BY <1>3 DEF ThreadsTyped
  <2>3. cur' = cur /\ todo' = todo /\ \A e : Written(e) => Written(e)'
    BY <1>4, <1>12
  <2>4. \A e \in todo' \cup SampledOut : ~InSink(e)'
    BY <1>5, <1>14, <2>3 DEF LinesFollowStages
  <2>5. ASSUME NEW u \in Threads
        PROVE  /\ pc'[u] \in Undelivered => ~InSink(cur[u])'
               /\ pc'[u] \in {"record", "put"} => Written(cur[u])'
               /\ pc'[u] \in DispatchLabels => cur'[u] \notin SampledOut
    <3>1. CASE u = t
      BY <1>5, <1>15, <2>2, <2>3, <3>1 DEF Undelivered
    <3>2. CASE u # t
      <4>1. pc[u] \in Undelivered => ~InSink(cur[u])'
        BY <1>5, <1>14, <2>3, <3>2 DEF LinesFollowStages
      <4>2. pc[u] \in {"record", "put"} => Written(cur[u])'
        BY <2>3 DEF LinesFollowStages
      <4>3. QED BY <2>1, <2>3, <3>2, <4>1, <4>2 DEF LinesFollowStages
    <3>3. QED BY <3>1, <3>2
  <2>6. QED BY <2>4, <2>5 DEF LinesFollowStages
<1>17. QED BY <1>1, <1>12, <1>16

(* close() delivers what is held, and nothing else.                        *)
LEMMA ClosesDelivery ==
  ASSUME PipelineInv, DeliveryInv, NEW t \in Threads, Closes(t)
  PROVE  /\ EventsHaveOneOwner' /\ LinesFollowStages' /\ LinesApart' /\ DeliveredAtMostOnce'
         /\ \A e : Written(e) => Written(e)'
<1> USE DEF PipelineInv, TypeOK, DeliveryInv
<1> DEFINE held == made[cached].held
<1>1. EventsHaveOneOwner'
  BY DEF Closes, EventsHaveOneOwner, ThreadsTyped
<1>2. PICK n \in 0..Len(held) : Drains(cached, held, n, n)
  BY DEF Closes
<1>3. /\ cached \in DOMAIN made /\ UNCHANGED <<todo, cur>>
      /\ pc[t] = "assign" /\ pc' = [pc EXCEPT ![t] = "discard"]
  BY DEF Closes
<1>4. /\ held \in Seq(Events)
      /\ \A i, j \in 1..Len(held) : held[i] = held[j] => i = j
      /\ \A i \in 1..Len(held) : ~Written(held[i]) /\ held[i] \notin SampledOut
      /\ \A y \in DOMAIN made, i \in 1..Len(held) : y # cached =>
           \A j \in DOMAIN made[y].held : made[y].held[j] # held[i]
  BY <1>3, HeldApart
<1>5. \A i \in 1..Len(held) : HeldBack(held[i])
  BY <1>3, <1>4 DEF HeldBack
<1> HIDE DEF held
<1>6. n \in n..Len(held) /\ \A i \in 1..n : i \in 1..Len(held)
  BY <1>4
<1>7. /\ LinesApart' /\ DeliveredAtMostOnce'
      /\ \A e : Written(e)' <=> Written(e) \/ \E i \in 1..n : e = held[i]
      /\ \A e : HeldBack(e)' => HeldBack(e) \/ \E i \in 1..Len(held) : e = held[i]
  BY <1>2, <1>3, <1>4, <1>6, DrainsApart
<1>8. \A e : (InSink(e)' => InSink(e)) /\ (Written(e) => Written(e)')
  BY <1>5, <1>6, <1>7 DEF InSink
<1>9. LinesFollowStages'
  BY <1>3, <1>8 DEF LinesFollowStages, ThreadsTyped, Undelivered
<1>10. QED BY <1>1, <1>7, <1>8, <1>9

LEMMA EndsDelivery ==
  ASSUME PipelineInv, DeliveryInv, NEW t \in Threads, Ends(t)
  PROVE  EventsHaveOneOwner' /\ LinesFollowStages' /\ LinesApart' /\ DeliveredAtMostOnce'
<1> USE DEF PipelineInv, TypeOK, DeliveryInv, Ends
<1>1. EventsHaveOneOwner'
  BY DEF EventsHaveOneOwner, ThreadsTyped
<1>2. /\ \A e : (Written(e)' <=> Written(e)) /\ (HeldBack(e)' <=> HeldBack(e))
      /\ DeliveredAtMostOnce' /\ LinesApart'
  BY SinksStay
<1>3. LinesFollowStages'
  BY <1>2 DEF LinesFollowStages, InSink, ThreadsTyped, Undelivered
<1>4. QED BY <1>1, <1>2, <1>3

(* No step takes a line back.                                              *)
LEMMA WrittenStays ==
  ASSUME PipelineInv, DeliveryInv, [Next]_vars
  PROVE  \A e : Written(e) => Written(e)'
<1>1. ASSUME NEW t \in Threads, Delivers(t) PROVE \A e : Written(e) => Written(e)'
  BY <1>1, WrittenAfterLine DEF Delivers, PipelineInv, TypeOK
<1>2. ASSUME SameSinks PROVE \A e : Written(e) => Written(e)'
  BY <1>2 DEF Written, SameSinks
<1>3. QED BY <1>1, <1>2, DeliveryKinds, WritesDelivery, ClosesDelivery
      DEF Within, Ends, Takes

(* The store only gains the event of a thread in stage 4.                  *)
LEMMA StoreStep ==
  ASSUME PipelineInv, DeliveryInv, [Next]_vars
  PROVE  StoredWasExported'
<1> USE DEF DeliveryInv, StoredWasExported
<1>0. \A e : Written(e) => Written(e)'
  BY WrittenStays
<1>1. ASSUME NEW t \in Threads, RecordInStore(t) \/ RecordFails(t) PROVE StoredWasExported'
  <2>1. Written(cur[t])
    BY <1>1 DEF RecordInStore, RecordFails, LinesFollowStages
  <2>2. stored' \subseteq stored \cup {cur[t]}
    BY <1>1 DEF RecordInStore, RecordFails
  <2>3. QED BY <1>0, <2>1, <2>2
<1>2. ASSUME NEW t \in Threads, ResetStore(t) PROVE StoredWasExported'
  BY <1>0, <1>2 DEF ResetStore
<1>3. ASSUME NEW t \in Threads, Step(t), ~RecordInStore(t), ~RecordFails(t), ~ResetStore(t)
      PROVE  stored' = stored
  BY <1>3 DEF Step, CheckKey, SignRejected, Sign, Resolve, ResolveLocked, Build, Load,
     ExportRefused, PassClosedCheck, WriteLine, WriteFails, Deliver, DeliverFails, FetchStore,
     SkipStore, CountError, Reraise, EndError, AssignField, RejectField, CloseExporter, CloseFails,
     CountCloseError, ForgiveClose, ReraiseClose, DiscardExporter, ResetChain
<1>4. QED BY <1>0, <1>1, <1>2, <1>3 DEF Next, Quiescent, Begin, Configure

(* DeliveryInv is inductive relative to PipelineInv.                       *)
LEMMA DeliveryStep == PipelineInv /\ DeliveryInv /\ [Next]_vars => DeliveryInv'
<1> SUFFICES ASSUME PipelineInv, DeliveryInv, [Next]_vars PROVE DeliveryInv'
  OBVIOUS
<1>1. EventsHaveOneOwner' /\ LinesFollowStages' /\ LinesApart' /\ DeliveredAtMostOnce'
  <2>1. CASE SameSinks /\ UNCHANGED <<todo, cur, pc>>
    <3>1. /\ \A e : (Written(e)' <=> Written(e)) /\ (HeldBack(e)' <=> HeldBack(e))
          /\ DeliveredAtMostOnce' /\ LinesApart'
      BY <2>1, SinksStay DEF PipelineInv, DeliveryInv
    <3>2. QED BY <2>1, <3>1 DEF DeliveryInv, EventsHaveOneOwner, LinesFollowStages, InSink
  <2>2. QED BY <2>1, DeliveryKinds, WithinDelivery, TakesDelivery, DeliversDelivery,
              WritesDelivery, ClosesDelivery, EndsDelivery
<1>2. QED BY <1>1, StoreStep DEF DeliveryInv

LEMMA DeliveryInit == Init => DeliveryInv
<1> SUFFICES ASSUME Init PROVE DeliveryInv
  OBVIOUS
<1>1. \A x \in DOMAIN made : DOMAIN made[x].held = {}
  BY DEF Init, Fresh
<1>2. \A e : ~Written(e) /\ ~HeldBack(e)
  BY <1>1 DEF Init, Written, HeldBack
<1>3. QED BY <1>1, <1>2 DEF Init, DeliveryInv, EventsHaveOneOwner, LinesFollowStages, InSink,
             LinesApart, Undelivered, DeliveredAtMostOnce, StoredWasExported

(* The facts below, with the two properties of the safety run among them,  *)
(* hold for any threads, events, sinks, retries and configure() calls.     *)
THEOREM DeliveryHolds == Spec => []DeliveryInv
BY DeliveryInit, DeliveryStep, PipelineInvariant, PTL DEF Spec

(* DeliveredAtMostOnce: no retry, race, stale exporter or buffer flushed   *)
(* late duplicates a line, and no rejected event has one.                  *)
THEOREM NoDuplicates == Spec => []DeliveredAtMostOnce
<1>1. DeliveryInv => DeliveredAtMostOnce
  BY DEF DeliveryInv
<1>2. QED BY <1>1, DeliveryHolds, PTL

(* StoredWasExported: whatever is replaced meanwhile, the trace store      *)
(* holds no event that no sink has received.                               *)
THEOREM StoreIsExported == Spec => []StoredWasExported
<1>1. DeliveryInv => StoredWasExported
  BY DEF DeliveryInv
<1>2. QED BY <1>1, DeliveryHolds, PTL

-----------------------------------------------------------------------------
(* The error count *)

(* What a step does to the failures: a thread moves on without one, begins *)
(* a configure(), meets a failure, or counts one it has met.               *)
Alone(t, l) ==
  /\ pc' = [pc EXCEPT ![t] = l]
  /\ \A u \in Threads : u # t => cur'[u] = cur[u] /\ level'[u] = level[u]
MovesOn(t) ==
  /\ UNCHANGED <<failures, todo, calls>> /\ ~Facing(t)
  /\ \E l \in ({"idle"} \cup DispatchLabels \cup ConfigLabels) \ {"error", "closeError", "assign"} :
       /\ Alone(t, l) /\ (l = "again" => Raises)
       /\ \/ /\ pc[t] \in Undelivered /\ l \in Undelivered \cup {"record"}
             /\ UNCHANGED <<cur, level>>
          \/ pc[t] = "record" /\ l = "put" /\ cur' = cur
          \/ pc[t] \notin Undelivered /\ l \notin Undelivered \cup {"record", "put"}
Opens(t) ==
  /\ pc[t] = "idle" /\ Alone(t, "assign") /\ configLock = NoThread
  /\ calls' = calls + 1 /\ UNCHANGED <<failures, errors, todo, cur>>
Begins(t, e) ==
  /\ pc[t] = "idle" /\ e \in todo /\ todo' = todo \ {e} /\ UNCHANGED <<errors, calls>>
  /\ level'[t] = "dispatch"
  /\ \/ e \in SampledOut /\ Alone(t, "idle") /\ cur' = cur /\ failures' = failures
     \/ e \notin SampledOut /\ Alone(t, "checkKey") /\ cur'[t] = e /\ failures' = failures
     \/ /\ e \notin SampledOut /\ Alone(t, "error") /\ cur'[t] = e
        /\ failures' = failures \cup {<<"dispatch", e>>}
Meets(t) ==
  /\ UNCHANGED <<todo, calls, errors, cur>>
  /\ \/ /\ pc[t] \in Undelivered /\ Alone(t, "error") /\ level' = level
        /\ failures' = failures \cup {<<"dispatch", cur[t]>>}
     \/ /\ pc[t] = "put" /\ Alone(t, "error") /\ level'[t] = "store"
        /\ failures' = failures \cup {<<"store", cur[t]>>}
     \/ /\ pc[t] = "assign" /\ Alone(t, "closeError")
        /\ failures' = failures \cup {<<"close", calls>>}
Counts(t) ==
  /\ \/ pc[t] = "error" /\ Alone(t, "policy")
     \/ pc[t] = "closeError" /\ Alone(t, "closePolicy")
  /\ errors' = errors + 1 /\ UNCHANGED <<failures, todo, calls, cur, level>>

(* MovesOn leaves the count alone, unless the error was met before.        *)
Repeats(t) == pc[t] = "again" /\ pc'[t] = "policy" /\ errors' = errors + 1

LEMMA CountKinds ==
  ASSUME PipelineInv, [Next]_vars
  PROVE  \/ UNCHANGED <<failures, errors, todo, calls, cur, level, pc>>
         \/ \E t \in Threads :
              \/ MovesOn(t) /\ (errors' = errors \/ Repeats(t))
              \/ Opens(t) \/ Meets(t) \/ Counts(t)
         \/ \E t \in Threads, e \in Events : Begins(t, e)
<1> USE DEF PipelineInv, TypeOK, ThreadsTyped, Goto, Moves, Fails, Alone
<1>1. ASSUME NEW t \in Threads, NEW e \in Events, Begin(t, e) PROVE Begins(t, e)
  <2>1. CASE e \in SampledOut
    <3>1. pc' = [pc EXCEPT ![t] = "idle"]
      BY <1>1, <2>1 DEF Begin
    <3>2. QED BY <1>1, <2>1, <3>1 DEF Begin, Begins
  <2>2. CASE e \notin SampledOut
    BY <1>1, <2>2 DEF Begin, Begins
  <2>3. QED BY <2>1, <2>2
<1>2. ASSUME NEW t \in Threads, NEW u \in Updates, Configure(t, u) PROVE Opens(t)
  BY <1>2 DEF Configure, Opens
<1>3. ASSUME NEW t \in Threads,
             CheckKey(t) \/ Sign(t) \/ Resolve(t) \/ ResolveLocked(t) \/ Build(t) \/ Load(t)
               \/ PassClosedCheck(t) \/ WriteLine(t) \/ Deliver(t)
      PROVE  MovesOn(t) /\ errors' = errors
  BY <1>3 DEF CheckKey, Sign, Resolve, ResolveLocked, Build, Load, PassClosedCheck, WriteLine,
       Deliver, AfterDelivery, MovesOn, Facing, Undelivered, DispatchLabels
<1>4. ASSUME NEW t \in Threads, SignRejected(t) \/ ExportRefused(t) \/ WriteFails(t)
                                  \/ RecordFails(t) \/ CloseFails(t)
      PROVE  Meets(t)
  BY <1>4 DEF SignRejected, ExportRefused, WriteFails, RecordFails, CloseFails, Meets, Undelivered
<1>5. ASSUME NEW t \in Threads, DeliverFails(t)
      PROVE  Meets(t) \/ (MovesOn(t) /\ errors' = errors)
  <2>1. CASE tries[t] < MaxRetries
    BY <1>5, <2>1 DEF DeliverFails, AfterExportError, MovesOn, Facing, Undelivered, DispatchLabels
  <2>2. CASE ~(tries[t] < MaxRetries)
    BY <1>5, <2>2 DEF DeliverFails, AfterExportError, Meets, Undelivered
  <2>3. QED BY <2>1, <2>2
<1>6. ASSUME NEW t \in Threads,
             FetchStore(t) \/ SkipStore(t) \/ RecordInStore(t) \/ Reraise(t) \/ EndError(t)
      PROVE  MovesOn(t) /\ errors' = errors
  BY <1>6 DEF FetchStore, SkipStore, RecordInStore, Reraise, EndError, Finish, MovesOn, Facing,
       Undelivered, DispatchLabels
<1>7. ASSUME NEW t \in Threads, CountError(t) PROVE Counts(t) \/ (MovesOn(t) /\ Repeats(t))
  BY <1>7 DEF CountError, Counts, MovesOn, Repeats, Facing, Undelivered, DispatchLabels
<1>8. ASSUME NEW t \in Threads, CountCloseError(t) PROVE Counts(t)
  BY <1>8 DEF CountCloseError, Counts
<1>9. ASSUME NEW t \in Threads, AssignField(t)
      PROVE  UNCHANGED <<failures, errors, todo, calls, cur, level, pc>>
  BY <1>9 DEF AssignField
<1>10. ASSUME NEW t \in Threads,
              RejectField(t) \/ CloseExporter(t) \/ ForgiveClose(t) \/ ReraiseClose(t)
                \/ DiscardExporter(t) \/ ResetChain(t) \/ ResetStore(t)
       PROVE  MovesOn(t) /\ errors' = errors
  BY <1>10 DEF RejectField, CloseExporter, ForgiveClose, ReraiseClose, DiscardExporter, ResetChain,
       ResetStore, MovesOn, Facing, Undelivered, ConfigLabels
<1>11. UNCHANGED vars => UNCHANGED <<failures, errors, todo, calls, cur, level, pc>>
  OBVIOUS
<1>12. QED BY <1>1, <1>2, <1>3, <1>4, <1>5, <1>6, <1>7, <1>8, <1>9, <1>10, <1>11
           DEF Next, Step, Quiescent

(* Two threads never face the same failure: an event has one owner, and    *)
(* one thread at most is in configure().                                   *)
LEMMA FacedApart ==
  ASSUME EventsHaveOneOwner, LocksAreHeld, NEW t \in Threads, NEW u \in Threads,
         Facing(t), Facing(u), FailureOf(t) = FailureOf(u)
  PROVE  t = u
<1>1. CASE pc[t] = "closeError"
  <2>1. pc[u] = "closeError"
    BY <1>1 DEF Facing, FailureOf
  <2>2. QED BY <1>1, <2>1 DEF LocksAreHeld, ConfigLabels
<1>2. CASE pc[t] = "error"
  <2>1. pc[u] = "error" /\ cur[t] = cur[u]
    BY <1>2 DEF Facing, FailureOf
  <2>2. QED BY <1>2, <2>1 DEF EventsHaveOneOwner, DispatchLabels
<1>3. QED BY <1>1, <1>2 DEF Facing

(* The failure of a thread that does not move stays what it is.            *)
OthersFace(t) ==
  \A u \in Threads : u # t =>
    (Facing(u)' <=> Facing(u)) /\ (Facing(u) => FailureOf(u)' = FailureOf(u))

LEMMA OthersWait ==
  ASSUME PipelineInv, LocksAreHeld, NEW t \in Threads,
         NEW l \in {"idle"} \cup DispatchLabels \cup ConfigLabels, Alone(t, l),
         calls' = calls \/ configLock = NoThread
  PROVE  OthersFace(t)
<1> SUFFICES ASSUME NEW u \in Threads, u # t
             PROVE  /\ Facing(u)' <=> Facing(u)
                    /\ Facing(u) => FailureOf(u)' = FailureOf(u)
  BY DEF OthersFace
<1>1. pc'[u] = pc[u] /\ cur'[u] = cur[u] /\ level'[u] = level[u]
  BY DEF Alone, PipelineInv, TypeOK, ThreadsTyped
<1>2. pc[u] = "closeError" => calls' = calls
  BY PipelineAssumption DEF LocksAreHeld, ConfigLabels
<1>3. QED BY <1>1, <1>2 DEF Facing, FailureOf

CountInv == FailuresFollowStages /\ ErrorsFollowCounted

(* A failure is among those of the stages it can come from, and new.       *)
LEMMA MeetsNew ==
  ASSUME PipelineInv, FailuresFollowStages, NEW t \in Threads, Meets(t)
  PROVE  /\ ~Facing(t) /\ Facing(t)' /\ FailureOf(t)' \notin failures
         /\ failures' = failures \cup {FailureOf(t)'}
<1> USE DEF PipelineInv, TypeOK, ThreadsTyped
<1>1. CASE pc[t] \in Undelivered /\ Alone(t, "error") /\ level' = level
             /\ failures' = failures \cup {<<"dispatch", cur[t]>>}
  <2>1. level[t] = "dispatch" /\ <<"dispatch", cur[t]>> \notin failures
    BY <1>1 DEF FailuresFollowStages
  <2>2. pc'[t] = "error" /\ cur'[t] = cur[t] /\ level'[t] = "dispatch" /\ ~Facing(t)
    BY <1>1, <2>1 DEF Meets, Alone, Facing, Undelivered
  <2>3. FailureOf(t)' = <<"dispatch", cur[t]>> /\ Facing(t)'
    BY <2>2 DEF FailureOf, Facing
  <2>4. QED BY <1>1, <2>1, <2>2, <2>3
<1>2. CASE pc[t] = "put" /\ Alone(t, "error") /\ level'[t] = "store"
             /\ failures' = failures \cup {<<"store", cur[t]>>}
  <2>1. FailureOf(t)' = <<"store", cur[t]>>
    BY <1>2 DEF Meets, Alone, FailureOf
  <2>2. QED BY <1>2, <2>1 DEF Alone, Facing, FailuresFollowStages
<1>3. CASE pc[t] = "assign" /\ Alone(t, "closeError")
             /\ failures' = failures \cup {<<"close", calls>>}
  <2>1. FailureOf(t)' = <<"close", calls>>
    BY <1>3 DEF Meets, Alone, FailureOf
  <2>2. QED BY <1>3, <2>1 DEF Alone, Facing, FailuresFollowStages
<1>4. QED BY <1>1, <1>2, <1>3 DEF Meets

(* So is that of a dispatch that fails as it begins.                       *)
LEMMA BeginsNew ==
  ASSUME PipelineInv, FailuresFollowStages, NEW t \in Threads, NEW e \in Events, Begins(t, e)
  PROVE  /\ ~Facing(t)
         /\ \/ ~Facing(t)' /\ failures' = failures
            \/ /\ Facing(t)' /\ FailureOf(t)' \notin failures
               /\ failures' = failures \cup {FailureOf(t)'}
<1>1. /\ pc[t] = "idle" /\ level'[t] = "dispatch" /\ <<"dispatch", e>> \notin failures
      /\ pc \in [Threads -> {"idle"} \cup DispatchLabels \cup ConfigLabels]
  BY DEF Begins, FailuresFollowStages, PipelineInv, TypeOK, ThreadsTyped
<1>2. CASE failures' = failures /\ (Alone(t, "idle") \/ Alone(t, "checkKey"))
  BY <1>1, <1>2 DEF Alone, Facing
<1>3. CASE Alone(t, "error") /\ cur'[t] = e /\ failures' = failures \cup {<<"dispatch", e>>}
  <2>1. pc'[t] = "error"
    BY <1>1, <1>3 DEF Alone
  <2>2. FailureOf(t)' = <<"dispatch", e>>
    BY <1>1, <1>3, <2>1 DEF FailureOf
  <2>3. QED BY <1>1, <1>3, <2>1, <2>2 DEF Facing
<1>4. QED BY <1>2, <1>3 DEF Begins

(* Counted grows only when errors does, by the failure that is counted,    *)
(* and that one is new unless its error was re-raised.                     *)
LEMMA CountedStep ==
  ASSUME PipelineInv, EventsHaveOneOwner, LocksAreHeld, FailuresFollowStages, [Next]_vars
  PROVE  \/ errors' = errors /\ Counted' = Counted
         \/ errors' = errors + 1 /\ Counted' = Counted /\ \E t \in Threads : pc[t] = "again"
         \/ errors' = errors + 1 /\ \E f : f \notin Counted /\ Counted' = Counted \cup {f}
<1> DEFINE Labels == {"idle"} \cup DispatchLabels \cup ConfigLabels
           Faced == {FailureOf(u) : u \in {v \in Threads : Facing(v)}}
<1>0. Counted = failures \ Faced /\ Counted' = failures' \ Faced'
  BY DEF Counted
<1>1. ASSUME NEW t \in Threads, OthersFace(t), ~Facing(t), ~Facing(t)', failures' = failures
      PROVE  Counted' = Counted
  <2>1. Faced' = Faced
    BY <1>1 DEF OthersFace
  <2>2. QED BY <1>0, <1>1, <2>1
<1>2. ASSUME NEW t \in Threads, OthersFace(t), ~Facing(t), Facing(t)',
             FailureOf(t)' \notin failures, failures' = failures \cup {FailureOf(t)'}
      PROVE  Counted' = Counted
  <2>1. Faced' = Faced \cup {FailureOf(t)'}
    BY <1>2 DEF OthersFace
  <2>2. QED BY <1>0, <1>2, <2>1
<1>3. ASSUME NEW t \in Threads, OthersFace(t), Facing(t), ~Facing(t)', failures' = failures
      PROVE  FailureOf(t) \notin Counted /\ Counted' = Counted \cup {FailureOf(t)}
  <2>1. \A u \in Threads : u # t /\ Facing(u) => FailureOf(u) # FailureOf(t)
    BY <1>3, FacedApart
  <2>2. Faced' = Faced \ {FailureOf(t)} /\ FailureOf(t) \in Faced
    BY <1>3, <2>1 DEF OthersFace
  <2>3. FailureOf(t) \in failures
    BY <1>3 DEF FailuresFollowStages
  <2>4. QED BY <1>0, <1>3, <2>2, <2>3
<1>4. CASE UNCHANGED <<failures, errors, todo, calls, cur, level, pc>>
  BY <1>4 DEF Counted, Facing, FailureOf
<1>5. ASSUME NEW t \in Threads, MovesOn(t)
      PROVE  Counted' = Counted
  <2>1. PICK l \in Labels \ {"error", "closeError", "assign"} : Alone(t, l)
    BY <1>5 DEF MovesOn
  <2>2. OthersFace(t)
    BY <1>5, <2>1, OthersWait DEF MovesOn
  <2>3. ~Facing(t) /\ ~Facing(t)'
    BY <1>5, <2>1 DEF MovesOn, Alone, Facing, PipelineInv, TypeOK, ThreadsTyped
  <2>4. QED BY <1>1, <1>5, <2>2, <2>3 DEF MovesOn
<1>6. ASSUME NEW t \in Threads, Opens(t) PROVE Counted' = Counted
  <2>1. OthersFace(t)
    BY <1>6, OthersWait DEF Opens, ConfigLabels
  <2>2. ~Facing(t) /\ ~Facing(t)'
    BY <1>6 DEF Opens, Alone, Facing, PipelineInv, TypeOK, ThreadsTyped
  <2>3. QED BY <1>1, <1>6, <2>1, <2>2 DEF Opens
<1>7. ASSUME NEW t \in Threads, Meets(t) PROVE Counted' = Counted
  <2>1. OthersFace(t)
    BY <1>7, OthersWait DEF Meets, ConfigLabels, DispatchLabels
  <2>2. QED BY <1>2, <1>7, <2>1, MeetsNew
<1>8. ASSUME NEW t \in Threads, NEW e \in Events, Begins(t, e) PROVE Counted' = Counted
  <2>1. OthersFace(t)
    BY <1>8, OthersWait DEF Begins, DispatchLabels
  <2>2. QED BY <1>1, <1>2, <1>8, <2>1, BeginsNew
<1>9. ASSUME NEW t \in Threads, Counts(t)
      PROVE  FailureOf(t) \notin Counted /\ Counted' = Counted \cup {FailureOf(t)}
  <2>1. OthersFace(t)
    BY <1>9, OthersWait DEF Counts, ConfigLabels, DispatchLabels
  <2>2. Facing(t) /\ ~Facing(t)'
    BY <1>9 DEF Counts, Alone, Facing, PipelineInv, TypeOK, ThreadsTyped
  <2>3. QED BY <1>3, <1>9, <2>1, <2>2 DEF Counts
<1> HIDE DEF Faced
<1>10. QED BY <1>4, <1>5, <1>6, <1>7, <1>8, <1>9, CountKinds DEF Opens, Meets, Counts, Begins,
              Repeats

(* An event that has not been delivered or written is waiting, or lost.    *)
LEMMA FailuresStep ==
  ASSUME PipelineInv, DeliveryInv, CacheInv, FailuresFollowStages, [Next]_vars,
         PipelineInv', DeliveryInv', CacheInv'
  PROVE  FailuresFollowStages'
<1> USE DEF PipelineInv, TypeOK, ThreadsTyped, DeliveryInv, CacheInv
<1> DEFINE Labels == {"idle"} \cup DispatchLabels \cup ConfigLabels
           PerThread(u) ==
             /\ pc[u] \in Undelivered =>
                  /\ <<"dispatch", cur[u]>> \notin failures /\ <<"store", cur[u]>> \notin failures
                  /\ level[u] = "dispatch"
             /\ pc[u] \in {"record", "put"} => <<"store", cur[u]>> \notin failures
             /\ pc[u] = "assign" => <<"close", calls>> \notin failures
             /\ Facing(u) => FailureOf(u) \in failures
           InHand(e) == \E u \in Threads : cur[u] = e /\ pc[u] \in Undelivered
<1>1. \A u \in Threads : PerThread(u)
  BY DEF FailuresFollowStages
<1>2. /\ \A e \in todo : <<"dispatch", e>> \notin failures /\ <<"store", e>> \notin failures
      /\ \A f \in failures : f[1] = "close" => f[2] <= calls
      /\ \A e \in Events \ (todo \cup SampledOut) :
           Written(e) \/ <<"dispatch", e>> \in failures \/ InHand(e)
      /\ calls \in Nat
  BY DEF FailuresFollowStages, ConfigTyped
<1>3. \A e : Written(e) => Written(e)'
  BY WrittenStays
<1>4. SUFFICES /\ \A e \in todo' : <<"dispatch", e>> \notin failures' /\ <<"store", e>> \notin failures'
               /\ \A f \in failures' : f[1] = "close" => f[2] <= calls'
               /\ \A u \in Threads : PerThread(u)'
               /\ \A e \in Events \ (todo' \cup SampledOut) :
                    Written(e)' \/ <<"dispatch", e>> \in failures' \/ InHand(e)'
  BY DEF FailuresFollowStages
(* What does not concern the thread that moves. *)
<1>5. ASSUME NEW t \in Threads, NEW l \in Labels, Alone(t, l), NEW u \in Threads, u # t,
             calls' = calls \/ configLock = NoThread,
             failures' = failures \/ (Facing(t)' /\ failures' = failures \cup {FailureOf(t)'})
      PROVE  PerThread(u)'
  <2>1. pc'[u] = pc[u] /\ cur'[u] = cur[u] /\ level'[u] = level[u]
    BY <1>5 DEF Alone
  <2>2. pc[u] \in {"assign", "closeError"} => calls' = calls
    BY <1>5, PipelineAssumption DEF LocksAreHeld, ConfigLabels
  <2>3. Facing(t)' /\ pc'[t] = "error" => cur'[t] # cur'[u] \/ pc'[u] \notin DispatchLabels
    BY <1>5 DEF EventsHaveOneOwner, DispatchLabels
  <2>4. Facing(t)' /\ pc'[t] = "closeError" => pc'[u] # "assign"
    BY <1>5 DEF LocksAreHeld, ConfigLabels
  <2>5. ASSUME Facing(t)'
        PROVE  \/ pc'[t] = "error" /\ FailureOf(t)' \in {<<"store", cur'[t]>>, <<"dispatch", cur'[t]>>}
               \/ pc'[t] = "closeError" /\ FailureOf(t)' = <<"close", calls'>>
    BY <2>5 DEF Facing, FailureOf
  <2>6. Facing(u)' => FailureOf(u)' \in failures'
    BY <1>1, <1>5, <2>1, <2>2 DEF Facing, FailureOf
  <2>7a. \A f : f \in failures' /\ f \notin failures => Facing(t)' /\ f = FailureOf(t)'
    BY <1>5
  <2>7. pc'[u] = "assign" => <<"close", calls>>' \notin failures'
    <3> SUFFICES ASSUME pc'[u] = "assign" PROVE <<"close", calls'>> \notin failures'
      OBVIOUS
    <3>1. <<"close", calls'>> \notin failures
      BY <1>1, <2>1, <2>2
    <3>2. Facing(t)' => FailureOf(t)' # <<"close", calls'>>
      BY <2>4, <2>5
    <3>3. QED BY <2>7a, <3>1, <3>2
  <2>8. pc'[u] \in Undelivered \cup {"record", "put"} => <<"store", cur[u]>>' \notin failures'
    <3> SUFFICES ASSUME pc'[u] \in Undelivered \cup {"record", "put"}
                 PROVE  <<"store", cur'[u]>> \notin failures'
      OBVIOUS
    <3>1. <<"store", cur'[u]>> \notin failures
      BY <1>1, <2>1
    <3>2. Facing(t)' => FailureOf(t)' # <<"store", cur'[u]>>
      BY <2>3, <2>5 DEF Undelivered, DispatchLabels
    <3>3. QED BY <2>7a, <3>1, <3>2
  <2>9. pc'[u] \in Undelivered => <<"dispatch", cur[u]>>' \notin failures' /\ level'[u] = "dispatch"
    <3> SUFFICES ASSUME pc'[u] \in Undelivered
                 PROVE  <<"dispatch", cur'[u]>> \notin failures' /\ level'[u] = "dispatch"
      OBVIOUS
    <3>1. <<"dispatch", cur'[u]>> \notin failures /\ level'[u] = "dispatch"
      BY <1>1, <2>1
    <3>2. Facing(t)' => FailureOf(t)' # <<"dispatch", cur'[u]>>
      BY <2>3, <2>5 DEF Undelivered, DispatchLabels
    <3>3. QED BY <2>7a, <3>1, <3>2
  <2>10. QED BY <2>6, <2>7, <2>8, <2>9
(* An event in hand that leaves the stages of delivery is written or lost. *)
<1>6. ASSUME NEW t \in Threads, NEW l \in Labels, Alone(t, l), todo' = todo,
             failures \subseteq failures',
             pc[t] \in Undelivered =>
               /\ cur' = cur
               /\ l \in Undelivered \cup {"record"} \/ <<"dispatch", cur[t]>> \in failures'
      PROVE  \A e \in Events \ (todo' \cup SampledOut) :
               Written(e)' \/ <<"dispatch", e>> \in failures' \/ InHand(e)'
  <2> SUFFICES ASSUME NEW e \in Events \ (todo' \cup SampledOut),
                      ~Written(e)', <<"dispatch", e>> \notin failures'
               PROVE  InHand(e)'
    OBVIOUS
  <2>1. PICK u \in Threads : cur[u] = e /\ pc[u] \in Undelivered
    BY <1>2, <1>3, <1>6
  <2>2. CASE u = t
    <3>1. cur'[t] = e /\ l \in Undelivered \cup {"record"} /\ pc'[t] = l
      BY <1>6, <2>1, <2>2 DEF Alone
    <3>2. l # "record"
      BY <3>1 DEF LinesFollowStages
    <3>3. QED BY <3>1, <3>2
  <2>3. CASE u # t
    BY <1>6, <2>1, <2>3 DEF Alone
  <2>4. QED BY <2>2, <2>3
<1>7. CASE UNCHANGED <<failures, errors, todo, calls, cur, level, pc>>
  <2>1. \A u \in Threads : (Facing(u)' <=> Facing(u)) /\ FailureOf(u)' = FailureOf(u)
    BY <1>7 DEF Facing, FailureOf
  <2>2. QED BY <1>1, <1>2, <1>3, <1>7, <2>1
<1>8. ASSUME NEW t \in Threads, MovesOn(t)
      PROVE  /\ \A u \in Threads : PerThread(u)'
             /\ \A e \in Events \ (todo' \cup SampledOut) :
                  Written(e)' \/ <<"dispatch", e>> \in failures' \/ InHand(e)'
  <2>1. PICK l \in Labels \ {"error", "closeError", "assign"} :
          /\ Alone(t, l)
          /\ \/ /\ pc[t] \in Undelivered /\ l \in Undelivered \cup {"record"}
                /\ UNCHANGED <<cur, level>>
             \/ pc[t] = "record" /\ l = "put" /\ cur' = cur
             \/ pc[t] \notin Undelivered /\ l \notin Undelivered \cup {"record", "put"}
    BY <1>8 DEF MovesOn
  <2>2. pc'[t] = l /\ failures' = failures /\ todo' = todo /\ calls' = calls
    BY <1>8, <2>1 DEF MovesOn, Alone
  <2>3. PerThread(t)'
    <3>1. ~Facing(t)' /\ pc'[t] # "assign"
      BY <2>1, <2>2 DEF Facing
    <3>2. CASE pc[t] \in Undelivered /\ l \in Undelivered \cup {"record"} /\ UNCHANGED <<cur, level>>
      BY <1>1, <2>2, <3>1, <3>2 DEF Undelivered
    <3>3. CASE pc[t] = "record" /\ l = "put" /\ cur' = cur
      BY <1>1, <2>2, <3>1, <3>3 DEF Undelivered
    <3>4. CASE l \notin Undelivered \cup {"record", "put"}
      BY <2>2, <3>1, <3>4
    <3>5. QED BY <2>1, <3>2, <3>3, <3>4
  <2>4. \A u \in Threads : PerThread(u)'
    BY <1>5, <2>1, <2>2, <2>3
  <2>5. pc[t] \in Undelivered => cur' = cur /\ l \in Undelivered \cup {"record"}
    BY <2>1 DEF Undelivered
  <2>6. \A e \in Events \ (todo' \cup SampledOut) :
          Written(e)' \/ <<"dispatch", e>> \in failures' \/ InHand(e)'
    BY <1>6, <2>1, <2>2, <2>5
  <2>7. QED BY <2>4, <2>6
<1>9. ASSUME NEW t \in Threads, Opens(t)
      PROVE  /\ \A u \in Threads : PerThread(u)'
             /\ \A e \in Events \ (todo' \cup SampledOut) :
                  Written(e)' \/ <<"dispatch", e>> \in failures' \/ InHand(e)'
  <2>1. /\ Alone(t, "assign") /\ failures' = failures /\ pc'[t] = "assign" /\ todo' = todo
        /\ pc[t] = "idle" /\ configLock = NoThread /\ calls' = calls + 1
    BY <1>9 DEF Opens, Alone
  <2>2. <<"close", calls'>> \notin failures
    <3>1. ~(calls + 1 <= calls) /\ <<"close", calls + 1>>[1] = "close" /\ <<"close", calls + 1>>[2] = calls + 1
      BY <1>2
    <3>2. <<"close", calls + 1>> \notin failures
      BY <1>2, <3>1
    <3>3. QED BY <2>1, <3>2
  <2>3. PerThread(t)'
    BY <2>1, <2>2 DEF Facing, Undelivered
  <2>4. "assign" \in Labels /\ pc[t] \notin Undelivered
    BY <2>1 DEF ConfigLabels, Undelivered
  <2>5. QED BY <1>5, <1>6, <2>1, <2>3, <2>4
<1>10. ASSUME NEW t \in Threads, Counts(t)
       PROVE  /\ \A u \in Threads : PerThread(u)'
              /\ \A e \in Events \ (todo' \cup SampledOut) :
                   Written(e)' \/ <<"dispatch", e>> \in failures' \/ InHand(e)'
  <2>1. PICK l \in {"policy", "closePolicy"} : Alone(t, l)
    BY <1>10 DEF Counts
  <2>2. /\ pc'[t] = l /\ failures' = failures /\ todo' = todo /\ calls' = calls
        /\ pc[t] \in {"error", "closeError"}
    BY <1>10, <2>1 DEF Counts, Alone
  <2>3. PerThread(t)' /\ l \in Labels /\ pc[t] \notin Undelivered
    BY <2>1, <2>2 DEF Facing, Undelivered, ConfigLabels, DispatchLabels
  <2>4. QED BY <1>5, <1>6, <2>1, <2>2, <2>3
<1>11. ASSUME NEW t \in Threads, Meets(t)
       PROVE  /\ \A u \in Threads : PerThread(u)'
              /\ \A e \in Events \ (todo' \cup SampledOut) :
                   Written(e)' \/ <<"dispatch", e>> \in failures' \/ InHand(e)'
  <2>1. PICK l \in {"error", "closeError"} : Alone(t, l)
    BY <1>11 DEF Meets
  <2>2. /\ pc'[t] = l /\ todo' = todo /\ calls' = calls /\ cur' = cur /\ l \in Labels
        /\ Facing(t)' /\ failures' = failures \cup {FailureOf(t)'}
    BY <1>11, <2>1, MeetsNew DEF Meets, Alone, ConfigLabels, DispatchLabels
  <2>3. PerThread(t)'
    BY <2>1, <2>2 DEF Undelivered
  <2>4. pc[t] \in Undelivered => <<"dispatch", cur[t]>> \in failures'
    BY <1>11 DEF Meets, Undelivered
  <2>5. QED BY <1>5, <1>6, <2>1, <2>2, <2>3, <2>4
<1>12. ASSUME NEW t \in Threads, NEW e \in Events, Begins(t, e)
       PROVE  /\ \A u \in Threads : PerThread(u)'
              /\ \A d \in Events \ (todo' \cup SampledOut) :
                   Written(d)' \/ <<"dispatch", d>> \in failures' \/ InHand(d)'
  <2>1. PICK l \in {"idle", "checkKey", "error"} : Alone(t, l)
    BY <1>12 DEF Begins
  <2>2. /\ pc'[t] = l /\ calls' = calls /\ l \in Labels /\ pc[t] = "idle" /\ e \in todo
        /\ todo' = todo \ {e} /\ level'[t] = "dispatch"
    BY <1>12, <2>1 DEF Begins, Alone, DispatchLabels
  <2>3. failures' = failures \/ (Facing(t)' /\ failures' = failures \cup {FailureOf(t)'})
    BY <1>12, BeginsNew
  <2>4. pc'[t] = "checkKey" => cur'[t] = e /\ failures' = failures
    BY <1>12, <2>2 DEF Begins, Alone
  <2>5. PerThread(t)'
    <3>1. pc'[t] \in Undelivered => <<"dispatch", cur[t]>>' \notin failures' /\ <<"store", cur[t]>>' \notin failures'
      BY <1>2, <2>1, <2>2, <2>4 DEF Undelivered
    <3>2. pc'[t] \notin {"record", "put", "assign"}
      BY <2>1, <2>2
    <3>3. Facing(t)' => FailureOf(t)' \in failures'
      BY <1>1, <1>12, <2>3, BeginsNew
    <3>4. QED BY <2>2, <3>1, <3>2, <3>3
  <2>6. e \in SampledOut \/ <<"dispatch", e>> \in failures' \/ InHand(e)'
    BY <1>12, <2>1, <2>2 DEF Begins, Alone, Undelivered
  <2>7. ASSUME NEW d \in Events \ (todo \cup SampledOut)
        PROVE  Written(d)' \/ <<"dispatch", d>> \in failures' \/ InHand(d)'
    <3>1. CASE InHand(d)
      BY <2>1, <2>2, <3>1 DEF Alone, Undelivered
    <3>2. CASE ~InHand(d)
      BY <1>2, <1>3, <2>3, <3>2
    <3>3. QED BY <3>1, <3>2
  <2>8. \A u \in Threads : PerThread(u)'
    BY <1>5, <2>1, <2>2, <2>3, <2>5
  <2>9. ASSUME NEW d \in Events \ (todo' \cup SampledOut)
        PROVE  Written(d)' \/ <<"dispatch", d>> \in failures' \/ InHand(d)'
    BY <2>2, <2>6, <2>7
  <2>10. QED BY <2>8, <2>9
(* Where a new failure comes from. *)
<1>13. /\ todo' \subseteq todo /\ calls' \in {calls, calls + 1}
       /\ \A f \in failures' : \/ f \in failures
                               \/ \E t \in Threads : pc'[t] = "error"
                                    /\ f \in {<<"dispatch", cur'[t]>>, <<"store", cur'[t]>>}
                               \/ f = <<"close", calls'>>
  <2>1. ASSUME NEW t \in Threads, failures' = failures \cup {FailureOf(t)'}, Facing(t)',
               NEW f \in failures'
        PROVE  \/ f \in failures \/ f = <<"close", calls'>>
               \/ pc'[t] = "error" /\ f \in {<<"dispatch", cur'[t]>>, <<"store", cur'[t]>>}
    BY <2>1 DEF Facing, FailureOf
  <2>2. ASSUME NEW t \in Threads, Meets(t) \/ \E e \in Events : Begins(t, e)
        PROVE  failures' = failures \/ (Facing(t)' /\ failures' = failures \cup {FailureOf(t)'})
    BY <2>2, MeetsNew, BeginsNew
  <2>3. QED BY <2>1, <2>2, CountKinds DEF MovesOn, Opens, Meets, Counts, Begins
<1>14. \A e \in todo' : <<"dispatch", e>> \notin failures' /\ <<"store", e>> \notin failures'
  <2> SUFFICES ASSUME NEW e \in todo'
               PROVE  <<"dispatch", e>> \notin failures' /\ <<"store", e>> \notin failures'
    OBVIOUS
  <2>1. \A t \in Threads : pc'[t] = "error" => cur'[t] # e
    BY DEF DispatchOwnsEvent, DispatchLabels
  <2>2. QED BY <1>2, <1>13, <2>1
<1>15. \A f \in failures' : f[1] = "close" => f[2] <= calls'
  <2> SUFFICES ASSUME NEW f \in failures', f[1] = "close" PROVE f[2] <= calls'
    OBVIOUS
  <2>1. CASE f \in failures
    <3>1. f[2] <= calls /\ f[2] \in Nat
      BY <1>2, <2>1 DEF EventsTyped
    <3>2. QED BY <1>2, <1>13, <3>1
  <2>2. CASE f = <<"close", calls'>>
    BY <1>2, <1>13, <2>2
  <2>3. QED BY <1>13, <2>1, <2>2
<1> HIDE DEF PerThread, InHand
<1>16. QED BY <1>1, <1>2, <1>7, <1>8, <1>9, <1>10, <1>11, <1>12, <1>14, <1>15, CountKinds

(* The count follows what has been counted.                                *)
LEMMA CountStep ==
  ASSUME PipelineInv, DeliveryInv, CacheInv, CountInv, [Next]_vars
  PROVE  ErrorsFollowCounted'
<1>1. /\ IsFiniteSet(Counted) /\ Cardinality(Counted) \in Nat /\ errors \in Nat
      /\ Cardinality(Counted) <= errors
      /\ "raise" \notin Policies =>
           errors <= Cardinality(Counted) /\ \A t \in Threads : pc[t] # "again"
  <2>1. Counted \in SUBSET failures
    BY DEF Counted
  <2>2. IsFiniteSet(Counted)
    BY <2>1, FS_Subset DEF CountInv, ErrorsFollowCounted
  <2>3. QED BY <2>2, FS_CardinalityType DEF CountInv, ErrorsFollowCounted, PipelineInv, TypeOK,
               EventsTyped
<1>2. IsFiniteSet(failures')
  <2>1. failures' = failures \/ \E f : failures' = failures \cup {f}
    BY CountKinds DEF MovesOn, Opens, Meets, Counts, Begins
  <2>2. QED BY <2>1, FS_AddElement DEF CountInv, ErrorsFollowCounted
<1>3. ASSUME "raise" \notin Policies PROVE \A t \in Threads : pc'[t] # "again"
  <2>1. ~Raises /\ \A t \in Threads : pc[t] # "again"
    BY <1>1, <1>3 DEF Raises, PipelineInv, TypeOK, ConfigTyped
  <2>2. ASSUME NEW t \in Threads,
               MovesOn(t) \/ Opens(t) \/ Meets(t) \/ Counts(t) \/ \E e \in Events : Begins(t, e)
        PROVE  \A u \in Threads : pc'[u] # "again"
    BY <2>1, <2>2 DEF MovesOn, Opens, Meets, Counts, Begins, Alone, PipelineInv, TypeOK,
       ThreadsTyped
  <2>3. QED BY <2>1, <2>2, CountKinds
<1>4. CASE errors' = errors /\ Counted' = Counted
  BY <1>1, <1>2, <1>3, <1>4 DEF ErrorsFollowCounted
<1>5. CASE errors' = errors + 1 /\ Counted' = Counted /\ \E t \in Threads : pc[t] = "again"
  BY <1>1, <1>2, <1>3, <1>5 DEF ErrorsFollowCounted
<1>6. ASSUME NEW f, errors' = errors + 1, f \notin Counted, Counted' = Counted \cup {f}
      PROVE  ErrorsFollowCounted'
  <2>1. Cardinality(Counted') = Cardinality(Counted) + 1
    BY <1>1, <1>6, FS_AddElement
  <2>2. QED BY <1>1, <1>2, <1>3, <1>6, <2>1 DEF ErrorsFollowCounted
<1>7. QED BY <1>4, <1>5, <1>6, CountedStep DEF DeliveryInv, CacheInv, CountInv

LEMMA CountInit == Init => CountInv
<1> SUFFICES ASSUME Init PROVE CountInv
  OBVIOUS
<1>1. failures = {} /\ Counted = {} /\ errors = 0 /\ todo = Events
  BY DEF Init, Counted
<1>2. IsFiniteSet({}) /\ Cardinality({}) = 0
  BY FS_EmptySet
<1>3. \A t \in Threads : pc[t] = "idle"
  BY DEF Init
<1>4. FailuresFollowStages
  BY <1>1, <1>3 DEF FailuresFollowStages, Facing, Undelivered
<1>5. IsFiniteSet(failures) /\ Cardinality(Counted) = 0
  BY <1>1, <1>2
<1>6. ErrorsFollowCounted
  BY <1>1, <1>3, <1>5 DEF ErrorsFollowCounted
<1>7. QED BY <1>4, <1>6 DEF CountInv

(* The count follows the failures, whatever the policy.                    *)
LEMMA CountHolds == Spec => []CountInv
<1>1. (/\ PipelineInv /\ DeliveryInv /\ CacheInv /\ CountInv /\ [Next]_vars
       /\ PipelineInv' /\ DeliveryInv' /\ CacheInv') => CountInv'
  <2> SUFFICES ASSUME PipelineInv, DeliveryInv, CacheInv, CountInv, [Next]_vars,
                      PipelineInv', DeliveryInv', CacheInv'
               PROVE  CountInv'
    OBVIOUS
  <2>1. FailuresFollowStages
    BY DEF CountInv
  <2>2. QED BY <2>1, FailuresStep, CountStep DEF CountInv
<1>2. QED BY <1>1, CountInit, CacheHolds, DeliveryHolds, PipelineInvariant, PTL DEF Spec

(* Every failed dispatch is one of the failures errors has counted: no     *)
(* thread faces it any more.                                               *)
LEMMA FailedIsCounted ==
  ASSUME PipelineInv, DeliveryInv, CountInv
  PROVE  Cardinality(Failed) \in Nat /\ Cardinality(Failed) <= Cardinality(Counted)
<1>1. IsFiniteSet(Counted)
  <2>1. Counted \in SUBSET failures
    BY DEF Counted
  <2>2. QED BY <2>1, FS_Subset DEF CountInv, ErrorsFollowCounted
<1>2. ASSUME NEW e \in Failed PROVE <<"dispatch", e>> \in Counted
  <2>1. /\ e \in Events \ (todo \cup SampledOut) /\ ~Written(e) /\ e # NoEvent
        /\ \A t \in Threads : cur[t] = e => pc[t] = "idle"
    BY PipelineAssumption DEF Failed, Finished
  <2>2. \A t \in Threads : cur[t] # e
    BY <2>1 DEF DeliveryInv, EventsHaveOneOwner, DispatchLabels
  <2>3. <<"dispatch", e>> \in failures
    BY <2>1, <2>2 DEF CountInv, FailuresFollowStages
  <2>4. \A t \in Threads : FailureOf(t) # <<"dispatch", e>>
    BY <2>2 DEF FailureOf
  <2>5. QED BY <2>3, <2>4 DEF Counted
<1> DEFINE Loss == [e \in Failed |-> <<"dispatch", e>>]
<1>3. Loss \in Injection(Failed, Counted)
  <2>1. Loss \in [Failed -> Counted]
    BY <1>2
  <2>2. \A d, e \in Failed : Loss[d] = Loss[e] => d = e
    OBVIOUS
  <2>3. QED BY <2>1, <2>2 DEF Injection, IsInjective
<1> HIDE DEF Loss
<1>4. IsFiniteSet(Failed) /\ Cardinality(Failed) <= Cardinality(Counted)
  BY <1>1, <1>3, FS_Injection
<1>5. QED BY <1>4, FS_CardinalityType

(* What the invariant says to a caller of get_export_error_count().        *)
LEMMA CountTells ==
  ASSUME PipelineInv, DeliveryInv, CountInv
  PROVE  NoSilentLoss /\ ("raise" \notin Policies => ErrorsCountedOnce)
<1>1. Counted \in SUBSET failures
  BY DEF Counted
<1>2. /\ IsFiniteSet(failures) /\ Cardinality(Counted) <= Cardinality(failures)
      /\ Cardinality(Counted) \in Nat /\ Cardinality(failures) \in Nat /\ errors \in Nat
  BY <1>1, FS_Subset, FS_CardinalityType
     DEF CountInv, ErrorsFollowCounted, PipelineInv, TypeOK, EventsTyped
<1>3. NoSilentLoss
  BY <1>2, FailedIsCounted DEF NoSilentLoss, CountInv, ErrorsFollowCounted
<1>4. ASSUME "raise" \notin Policies PROVE ErrorsCountedOnce
  BY <1>2, <1>4 DEF ErrorsCountedOnce, CountInv, ErrorsFollowCounted
<1>5. QED BY <1>3, <1>4

(* No event vanishes, under any policy: a dispatch that ended without its  *)
(* event in a sink has been counted.                                       *)
THEOREM EveryLossIsCounted == Spec => []NoSilentLoss
BY CountTells, CountHolds, DeliveryHolds, PipelineInvariant, PTL

(* LossesAreTold: when no policy re-raises, the count misses no loss, and  *)
(* every dispatch that failed, event the store refused and exporter that   *)
(* would not close is counted once at most.                                *)
THEOREM LossesAreCounted ==
  ASSUME "raise" \notin Policies
  PROVE  Spec => []LossesAreTold
<1>1. PipelineInv /\ DeliveryInv /\ CountInv => LossesAreTold
  BY CountTells DEF LossesAreTold
<1>2. QED BY <1>1, CountHolds, DeliveryHolds, PipelineInvariant, PTL

(* DispatchInv, the inductive invariant the safety run checks, is one for  *)
(* every instance.                                                         *)
THEOREM DispatchInvariant == Spec => []DispatchInv
<1>1. PipelineInv /\ DeliveryInv /\ CountInv /\ CacheInv => DispatchInv
  BY DEF DeliveryInv, CacheInv, CountInv, DispatchInv
<1>2. QED BY <1>1, PipelineInvariant, DeliveryHolds, CountHolds, CacheHolds, PTL

-----------------------------------------------------------------------------
(* One thread: no file left open *)

(* A program whose spans all end in the same thread, which also configures *)
(* it.                                                                     *)
OneThread == \A t, u \in Threads : t = u

ShutInv == UsesTheCached /\ DiscardedExporterIsShut

(* With one thread no exporter is closed between the closed check and the  *)
(* write.                                                                  *)
LEMMA ShutStep ==
  ASSUME OneThread, PipelineInv, ShutInv, [Next]_vars
  PROVE  ShutInv'
<1> USE DEF OneThread, ShutInv, UsesTheCached, DiscardedExporterIsShut, IsJsonl
<1>0. /\ pc \in [Threads -> {"idle"} \cup DispatchLabels \cup ConfigLabels]
      /\ exp \in [Threads -> 0..Len(made)]
      /\ cached \in 0..Len(made)
      /\ made \in Seq(Exporter)
      /\ \A x \in DOMAIN made : made[x] \in Exporter
      /\ Injected \notin Files
  BY PipelineAssumption DEF PipelineInv, TypeOK, ThreadsTyped, ExportersTyped
<1>1. ASSUME NEW t \in Threads, NEW e \in Events, Begin(t, e) PROVE ShutInv'
  BY <1>0, <1>1 DEF Begin
<1>2. ASSUME NEW t \in Threads, NEW u \in Updates, Configure(t, u) PROVE ShutInv'
  BY <1>0, <1>2 DEF Configure
<1>3. ASSUME NEW t \in Threads, CheckKey(t) \/ SignRejected(t) \/ Sign(t) PROVE ShutInv'
  BY <1>0, <1>3 DEF CheckKey, SignRejected, Sign
<1>4. ASSUME NEW t \in Threads, Resolve(t) PROVE ShutInv'
  BY <1>0, <1>4 DEF Resolve
<1>5. ASSUME NEW t \in Threads, ResolveLocked(t) \/ Load(t) PROVE ShutInv'
  BY <1>0, <1>5 DEF ResolveLocked, Load
<1>6. ASSUME NEW t \in Threads, Build(t) PROVE ShutInv'
  BY <1>0, <1>6 DEF Build, Fresh
<1>7. ASSUME NEW t \in Threads, ExportRefused(t) \/ PassClosedCheck(t) PROVE ShutInv'
  BY <1>0, <1>7 DEF ExportRefused, PassClosedCheck
<1>8. ASSUME NEW t \in Threads, WriteLine(t) \/ WriteFails(t) PROVE ShutInv'
  <2> DEFINE buf == Append(made[cached].held, cur[t])
  <2>1. exp[t] = cached /\ cached # 0 /\ IsJsonl(cached) /\ ~made[cached].closed
    BY <1>0, <1>8 DEF WriteLine, WriteFails
  <2>2. CASE UNCHANGED made
    BY <1>0, <1>8, <2>1, <2>2 DEF WriteLine, WriteFails
  <2>3. ASSUME NEW n, NEW m, Drain(cached, buf, n, m, TRUE), "OSError" \in Outcomes \/ (n = Len(buf) /\ m = n)
        PROVE  ShutInv'
    <3>0. pc[t] = "write"
      BY <1>8 DEF WriteLine, WriteFails
    <3>1. cached \in DOMAIN made /\ cur[t] \in Events
      BY <1>0, <2>1, <3>0 DEF PipelineInv, DispatchOwnsEvent, DispatchLabels
    <3>2. Drains(cached, buf, n, m)
      BY <2>3, <3>1, DrainIsDrains DEF PipelineInv
    <3>3. /\ cached' = cached /\ exp' = exp /\ DOMAIN made' = DOMAIN made
          /\ pc'[t] \in {"record", "error"}
      BY <1>0, <1>8, <3>2 DEF WriteLine, WriteFails, Drains
    <3>4. \A x \in DOMAIN made :
            /\ made'[x].target = made[x].target /\ made'[x].closed = made[x].closed
            /\ x # cached => made'[x].open = made[x].open
      BY <1>0, <2>3 DEF Drain, Exporter
    <3>5. "OSError" \notin Outcomes => \A x \in DOMAIN made' : made'[x].held = <<>>
      <4>1. made[cached].held \in Seq(Events)
        BY <1>0, <3>1 DEF Exporter
      <4>2. Len(buf) \in Int /\ Len(buf) + 1 \in Int /\ Len(buf) < Len(buf) + 1
        BY <3>1, <4>1
      <4>3. SubSeq(buf, Len(buf) + 1, Len(buf)) = <<>>
        BY <4>2, SubSeqEmpty
      <4>4. QED BY <2>3, <3>2, <3>3, <4>3 DEF Drains
    <3>6. DiscardedExporterIsShut'
      BY <1>0, <2>1, <3>3, <3>4
    <3>7. \A x \in DOMAIN made' : made'[x].open => made'[x].target \in Files
      BY <1>0, <2>1, <3>3, <3>4
    <3>8. \A u \in Threads : pc'[u] \in {"record", "error"}
      BY <3>3
    <3>9. ~made'[cached'].closed
      BY <1>0, <2>1, <3>1, <3>3, <3>4
    <3> HIDE DEF buf
    <3>10. UsesTheCached'
      BY <3>5, <3>7, <3>8, <3>9
    <3>11. QED BY <3>6, <3>10
  <2>4. CASE WriteLine(t)
    BY <2>1, <2>3, <2>4 DEF WriteLine
  <2>5. CASE WriteFails(t)
    BY <2>1, <2>2, <2>3, <2>5 DEF WriteFails
  <2>6. QED BY <1>8, <2>4, <2>5
<1>9. ASSUME NEW t \in Threads, Deliver(t) \/ DeliverFails(t) PROVE ShutInv'
  BY <1>0, <1>9 DEF Deliver, AfterDelivery, DeliverFails, AfterExportError
<1>10. ASSUME NEW t \in Threads,
              FetchStore(t) \/ SkipStore(t) \/ RecordInStore(t) \/ RecordFails(t) \/ CountError(t)
                \/ Reraise(t) \/ EndError(t)
       PROVE  ShutInv'
  BY <1>0, <1>10 DEF FetchStore, SkipStore, RecordInStore, RecordFails, CountError, Reraise,
     EndError
<1>11. ASSUME NEW t \in Threads, AssignField(t) \/ RejectField(t) PROVE ShutInv'
  BY <1>0, <1>11 DEF AssignField, RejectField
<1>12. ASSUME NEW t \in Threads, CloseExporter(t) PROVE ShutInv'
  <2>1. pc'[t] = "discard" /\ cached' = cached /\ exp' = exp /\ Close(cached)
    BY <1>0, <1>12 DEF CloseExporter
  <2>2. CASE cached # 0 /\ IsJsonl(cached) /\ ~made[cached].closed
    <3>0. PICK n \in 0..Len(made[cached].held) : Shut(cached, n)
      BY <2>1, <2>2 DEF Close
    <3>1. /\ DOMAIN made' = DOMAIN made
          /\ made'[cached].target = made[cached].target /\ ~made'[cached].open
          /\ made'[cached].held = <<>>
          /\ \A x \in DOMAIN made : x # cached => made'[x] = made[x]
      <4>1. cached \in DOMAIN made /\ made[cached] \in Exporter
        BY <1>0, <2>2
      <4> DEFINE shut == [made[cached] EXCEPT !.closed = TRUE, !.open = FALSE, !.held = <<>>]
      <4>2. made' = [made EXCEPT ![cached] = shut]
        BY <3>0, <4>1 DEF Shut
      <4>3. shut.target = made[cached].target /\ ~shut.open /\ shut.held = <<>>
        BY <4>1 DEF Exporter
      <4> HIDE DEF shut
      <4>4. QED BY <1>0, <4>1, <4>2, <4>3
    <3>2. QED BY <1>0, <2>1, <3>1
  <2>3. CASE ~(cached # 0 /\ IsJsonl(cached) /\ ~made[cached].closed)
    <3>1. made' = made
      BY <2>1, <2>3 DEF Close
    <3>2. QED BY <1>0, <2>1, <2>3, <3>1 DEF Exporter
  <2>4. QED BY <2>2, <2>3
<1>13. ASSUME NEW t \in Threads, DiscardExporter(t) PROVE ShutInv'
  BY <1>0, <1>13 DEF DiscardExporter, DiscardedCache
<1>14. ASSUME NEW t \in Threads, ResetChain(t) \/ ResetStore(t) PROVE ShutInv'
  BY <1>0, <1>14 DEF ResetChain, ResetStore
<1>14a. ASSUME NEW t \in Threads, CloseFails(t) PROVE ShutInv'
  BY <1>0, <1>14a DEF CloseFails
<1>14b. ASSUME NEW t \in Threads, CountCloseError(t) \/ ForgiveClose(t) \/ ReraiseClose(t)
        PROVE  ShutInv'
  BY <1>0, <1>14b DEF CountCloseError, ForgiveClose, ReraiseClose
<1>15. CASE UNCHANGED vars
  BY <1>15
<1>16. QED BY <1>1, <1>2, <1>3, <1>4, <1>5, <1>6, <1>7, <1>8, <1>9, <1>10, <1>11,
             <1>12, <1>13, <1>14, <1>14a, <1>14b, <1>15 DEF Next, Step, Quiescent

LEMMA ShutInit == Init => ShutInv
BY DEF Init, Fresh, ShutInv, UsesTheCached, DiscardedExporterIsShut, IsJsonl

(* DiscardedExporterIsShut holds for a program with one thread. With two   *)
(* it does not: emit_late_write shows the write past the check.            *)
THEOREM NoFileLeaksSerially ==
  ASSUME OneThread
  PROVE  Spec => []DiscardedExporterIsShut
<1>1. PipelineInv /\ ShutInv /\ [Next]_vars => ShutInv'
  BY ShutStep
<1>2. ShutInv => DiscardedExporterIsShut
  BY DEF ShutInv
<1>3. QED BY <1>1, <1>2, ShutInit, PipelineInvariant, PTL DEF Spec

-----------------------------------------------------------------------------
(* One thread: a key, a chain *)

(* No call of configure() names both a key and an unknown keyword: one     *)
(* that does may assign the key and fail before it restarts the chain.     *)
KeyNeverTorn == \A u \in Updates : Unknown \in u => \A a \in u : a[1] # "key"

(* Nor does the close() of an application's exporter make configure()      *)
(* leave between the two.                                                  *)
ClosesCleanly == "raise" \notin Policies \/ "CloseError" \notin Outcomes

KeyInv == HeadHasTheKey /\ KeyChangeStartsNewChain

(* The head of the chain is of the key in force when the next event is     *)
(* signed.                                                                 *)
LEMMA KeyStep ==
  ASSUME OneThread, KeyNeverTorn, ClosesCleanly, PipelineInv, ShutInv, CP!ChainInv, KeyInv,
         [Next]_vars
  PROVE  KeyInv'
<1> USE DEF OneThread, KeyInv, HeadHasTheKey, KeyChangeStartsNewChain, Rekeying
<1>0. /\ pc \in [Threads -> {"idle"} \cup DispatchLabels \cup ConfigLabels]
      /\ pending \in [Threads -> SUBSET (Assignments \cup {Unknown})]
      /\ signed \in Seq(Signature)
  BY DEF PipelineInv, TypeOK, ThreadsTyped, EventsTyped
<1>2. ASSUME NEW t \in Threads, InDispatch(t), UNCHANGED <<prevSigned, signed, pending>>
      PROVE  KeyInv'
  BY <1>0, <1>2 DEF InDispatch
<1>3. ASSUME NEW t \in Threads, NEW u \in Updates, Configure(t, u) PROVE KeyInv'
  BY <1>0, <1>3 DEF Configure, KeyNeverTorn
<1>4. ASSUME NEW t \in Threads, Sign(t) PROVE KeyInv'
  <2>1. /\ signed' = Append(signed, NewSignature(t)) /\ prevSigned' = cur[t]
        /\ NewSignature(t).prev = prevSigned /\ NewSignature(t).key = config.key
        /\ config' = config /\ pc[t] = "sign" /\ pc'[t] = "resolve"
    BY <1>0, <1>4 DEF Sign, NewSignature
  <2>2. prevSigned # NoEvent => signed # <<>> /\ signed[Len(signed)].key = config.key
    BY <1>0, <2>1 DEF CP!ChainInv, CP!HeadIsLast
  <2>3. /\ DOMAIN signed' = 1..(Len(signed) + 1) /\ Len(signed') = Len(signed) + 1
        /\ signed'[Len(signed) + 1] = NewSignature(t)
        /\ \A i \in 1..Len(signed) : signed'[i] = signed[i]
    BY <1>0, <2>1
  <2>4. \A i \in 1..Len(signed) : signed[i].prev # NoEvent => i - 1 \in 1..Len(signed)
    BY <1>0 DEF CP!ChainInv, CP!Linear, CP!Linked
  <2>5. KeyChangeStartsNewChain'
    BY <1>0, <2>1, <2>2, <2>3, <2>4
  <2>6. HeadHasTheKey'
    BY <1>0, <2>1, <2>3
  <2>7. QED BY <2>5, <2>6
<1>5. ASSUME NEW t \in Threads, AssignField(t) PROVE KeyInv'
  <2>1. PICK a \in pending[t] \ {Unknown} :
          /\ config' = [config EXCEPT ![a[1]] = a[2]]
          /\ pending' = [pending EXCEPT ![t] = @ \ {a}]
    BY <1>5 DEF AssignField
  <2>2. UNCHANGED <<prevSigned, signed, pc>> /\ pc[t] = "assign"
    BY <1>5 DEF AssignField
  <2>3. CASE Unknown \in pending[t]
    <3>1. a[1] # "key"
      BY <2>1, <2>2, <2>3
    <3>2. config'.key = config.key
      BY <2>1, <3>1 DEF PipelineInv, TypeOK, ConfigTyped
    <3>3. Unknown \in pending'[t]
      BY <1>0, <2>1, <2>3
    <3>4. QED BY <1>0, <2>1, <2>2, <2>3, <3>2, <3>3
  <2>4. CASE Unknown \notin pending[t]
    BY <1>0, <2>1, <2>2, <2>4
  <2>5. QED BY <2>3, <2>4
<1>6. ASSUME NEW t \in Threads, RejectField(t) PROVE KeyInv'
  BY <1>0, <1>6 DEF RejectField
<1>7. ASSUME NEW t \in Threads, CloseExporter(t) \/ DiscardExporter(t) \/ CloseFails(t)
                                  \/ CountCloseError(t) \/ ForgiveClose(t)
      PROVE  KeyInv'
  BY <1>0, <1>7 DEF CloseExporter, DiscardExporter, CloseFails, CountCloseError, ForgiveClose
<1>7a. ASSUME NEW t \in Threads, ReraiseClose(t) PROVE FALSE
  <2>1. "raise" \in Policies
    BY <1>7a DEF ReraiseClose, Raises, PipelineInv, TypeOK, ConfigTyped
  <2>2. "CloseError" \in Outcomes
    BY <1>7a DEF ReraiseClose, ShutInv, UsesTheCached
  <2>3. QED BY <2>1, <2>2 DEF ClosesCleanly
<1>8. ASSUME NEW t \in Threads, ResetChain(t) PROVE KeyInv'
  BY <1>0, <1>8 DEF ResetChain, RestartedChain
<1>9. ASSUME NEW t \in Threads, ResetStore(t) PROVE KeyInv'
  BY <1>0, <1>9 DEF ResetStore
<1>10. CASE UNCHANGED vars
  BY <1>10
<1>11. ASSUME NEW t \in Threads,
              CheckKey(t) \/ SignRejected(t) \/ Resolve(t) \/ ResolveLocked(t) \/ Build(t)
                \/ Load(t) \/ ExportRefused(t) \/ PassClosedCheck(t) \/ WriteLine(t)
                \/ WriteFails(t)
       PROVE  KeyInv'
  <2>1. InDispatch(t)
    BY <1>11, DispatchStep, BuildStep, WriteStep
  <2>2. UNCHANGED <<prevSigned, signed, pending>>
    BY <1>11 DEF CheckKey, SignRejected, Resolve, ResolveLocked, Build, Load,
         ExportRefused, PassClosedCheck, WriteLine, WriteFails
  <2>3. QED BY <1>2, <2>1, <2>2
<1>12. ASSUME NEW t \in Threads,
              Deliver(t) \/ DeliverFails(t) \/ FetchStore(t) \/ SkipStore(t)
                \/ RecordInStore(t) \/ RecordFails(t) \/ CountError(t) \/ Reraise(t)
                \/ EndError(t)
       PROVE  KeyInv'
  <2>1. InDispatch(t)
    BY <1>12, DispatchStep
  <2>2. UNCHANGED <<prevSigned, signed, pending>>
    BY <1>12 DEF Deliver, DeliverFails, FetchStore, SkipStore, RecordInStore, RecordFails,
         CountError, Reraise, EndError
  <2>3. QED BY <1>2, <2>1, <2>2
<1>13. ASSUME NEW t \in Threads, NEW e \in Events, Begin(t, e) PROVE KeyInv'
  BY <1>2, <1>13, BeginStep DEF Begin
<1>14. QED BY <1>3, <1>4, <1>5, <1>6, <1>7, <1>7a, <1>8, <1>9, <1>10, <1>11, <1>12,
             <1>13 DEF Next, Step, Quiescent

LEMMA KeyInit == Init => KeyInv
BY DEF Init, KeyInv, HeadHasTheKey, KeyChangeStartsNewChain

(* KeyChangeStartsNewChain holds for a program with one thread whose       *)
(* configure() never fails after it has assigned a key: no call names a    *)
(* key and an unknown keyword, and no close() raises under the raise       *)
(* policy. Without the last one it does not; nor with two threads, as the  *)
(* run emit_key_change shows.                                              *)
THEOREM KeysHaveTheirChain ==
  ASSUME OneThread, KeyNeverTorn, ClosesCleanly
  PROVE  Spec => []KeyChangeStartsNewChain
<1>1. PipelineInv /\ ShutInv /\ [Next]_vars => ShutInv'
  BY ShutStep
<1>2. PipelineInv /\ ShutInv /\ CP!ChainInv /\ KeyInv /\ [Next]_vars => KeyInv'
  BY KeyStep
<1>3. KeyInv => KeyChangeStartsNewChain
  BY DEF KeyInv
<1>4. QED BY <1>1, <1>2, <1>3, ShutInit, KeyInit, PipelineInvariant, ChainHolds, PTL DEF Spec

-----------------------------------------------------------------------------
(* One thread: the lines of a file *)

(* No file write fails and no exporter refuses an event.                   *)
SinksWork == Outcomes \cap {"OSError", "ExportError"} = {}

(* FileSegmentsVerify without the search for the signature of a line.      *)
LinesLink ==
  \A f \in Files : \A i \in DOMAIN lines[f], k \in DOMAIN signed :
    signed[k].ev = lines[f][i] => signed[k].prev \in {NoEvent, LineAbove(f, i)}

(* LinesLink implies the property the run checks.                          *)
LEMMA SegmentsFromLinks ==
  ASSUME LinesLink
  PROVE  FileSegmentsVerify
<1> SUFFICES ASSUME NEW f \in Files, NEW i \in DOMAIN lines[f], IsSigned(lines[f][i])
             PROVE  PrevOf(lines[f][i]) \in {NoEvent, LineAbove(f, i)}
  BY DEF FileSegmentsVerify
<1> DEFINE K == CHOOSE k \in DOMAIN signed : signed[k].ev = lines[f][i]
<1>1. K \in DOMAIN signed /\ signed[K].ev = lines[f][i]
  BY DEF IsSigned
<1>2. QED BY <1>1 DEF LinesLink, PrevOf

(* A step that leaves chain, sinks and cache alone and stays on one side   *)
(* of the signing and of the write.                                        *)
SameSide(t) ==
  /\ UNCHANGED <<lines, signed, prevSigned, cached>>
  /\ cached # 0 => made'[cached].target = made[cached].target
  /\ \E l \in {"idle"} \cup DispatchLabels \cup ConfigLabels : pc' = [pc EXCEPT ![t] = l]
  /\ \/ pc[t] \in AfterSigning /\ pc'[t] \in AfterSigning /\ cur'[t] = cur[t]
     \/ pc[t] \notin AfterSigning \cup {"rechain"} /\ pc'[t] \notin AfterSigning

(* Steps of this kind keep both invariants.                                *)
LEMMA SameSideLinks ==
  ASSUME OneThread, PipelineInv, LinkIsLastLine, LinesLink, NEW t \in Threads, SameSide(t)
  PROVE  LinkIsLastLine' /\ LinesLink'
<1>1. LinesLink'
  BY DEF SameSide, LinesLink, LineAbove
<1>2. \A u \in Threads : u = t
  BY DEF OneThread
<1>3. pc'[t] # "rechain" => pc[t] # "rechain"
  BY DEF SameSide, AfterSigning
<1>4. LinkAhead(t)' = LinkAhead(t)
  BY DEF SameSide, LinkAhead
<1>5. LinkIsLastLine'
  BY <1>2, <1>3, <1>4 DEF SameSide, LinkIsLastLine
<1>6. QED BY <1>1, <1>5

(* The four steps that are not of this kind take the link ahead to the     *)
(* chain, to a new file or to the line above.                              *)
LEMMA LinkStep ==
  ASSUME OneThread, SinksWork, ClosesCleanly, PipelineInv, DeliveryInv, CP!ChainInv, ShutInv, KeyInv,
         LinkIsLastLine, LinesLink, [Next]_vars
  PROVE  LinkIsLastLine' /\ LinesLink'
<1> USE DEF OneThread
<1>0. /\ pc \in [Threads -> {"idle"} \cup DispatchLabels \cup ConfigLabels]
      /\ cur \in [Threads -> Events \cup {NoEvent}]
      /\ signed \in Seq(Signature) /\ prevSigned \in Events \cup {NoEvent}
      /\ cached \in 0..Len(made) /\ made \in Seq(Exporter)
      /\ \A x \in DOMAIN made : made[x] \in Exporter
      /\ NoEvent \notin Events /\ NoKey \notin Keys
      /\ \A x \in DOMAIN made : made[x].held = <<>>
  BY PipelineAssumption DEF ShutInv, UsesTheCached, SinksWork, PipelineInv, TypeOK, ThreadsTyped,
     ExportersTyped, EventsTyped
<1>1. ASSUME NEW t \in Threads, NEW e \in Events, Begin(t, e) PROVE SameSide(t)
  BY <1>0, <1>1, BeginStep DEF Begin, SameSide, AfterSigning
<1>2. ASSUME NEW t \in Threads, NEW u \in Updates, Configure(t, u) PROVE SameSide(t)
  BY <1>0, <1>2 DEF Configure, SameSide, AfterSigning
<1>3. ASSUME NEW t \in Threads, CheckKey(t) PROVE LinkIsLastLine' /\ LinesLink'
  <2>1. CASE config.key # NoKey
    <3>1. SameSide(t)
      BY <1>0, <1>3, <2>1 DEF CheckKey, SameSide, AfterSigning
    <3>2. QED BY <3>1, SameSideLinks
  <2>2. CASE config.key = NoKey
    <3>1. /\ UNCHANGED <<lines, signed, prevSigned, cached, made, cur>>
          /\ pc[t] = "checkKey" /\ pc'[t] = "resolve"
      BY <1>0, <1>3, <2>2 DEF CheckKey
    <3>2. prevSigned = NoEvent
      <4>1. ASSUME prevSigned # NoEvent PROVE FALSE
        <5>1. signed[Len(signed)].key = NoKey
          BY <2>2, <3>1, <4>1 DEF KeyInv, HeadHasTheKey, Rekeying
        <5>2. signed[Len(signed)] \in Signature
          BY <1>0, <4>1 DEF CP!ChainInv, CP!HeadIsLast
        <5>3. QED BY <1>0, <5>1, <5>2 DEF Signature
      <4>2. QED BY <4>1
    <3>3. cur[t] \in Events /\ cur[t] \notin Chain!LogEvents
      BY <3>1 DEF PipelineInv, DispatchOwnsEvent, UnsignedIsUnshared
    <3>4. LinkIsLastLine'
      BY <1>0, <3>1, <3>2, <3>3 DEF LinkIsLastLine, LinkAhead, AfterSigning
    <3>5. LinesLink'
      BY <3>1 DEF LinesLink, LineAbove
    <3>6. QED BY <3>4, <3>5
  <2>3. QED BY <2>1, <2>2
<1>4. ASSUME NEW t \in Threads, Sign(t) PROVE LinkIsLastLine' /\ LinesLink'
  <2>1. /\ signed' = Append(signed, NewSignature(t)) /\ prevSigned' = cur[t]
        /\ NewSignature(t).prev = prevSigned /\ NewSignature(t).ev = cur[t]
        /\ UNCHANGED <<lines, cached, made, cur>>
        /\ pc[t] = "sign" /\ pc'[t] = "resolve"
    BY <1>0, <1>4 DEF Sign, NewSignature
  <2>2. /\ DOMAIN signed' = 1..(Len(signed) + 1) /\ Len(signed') = Len(signed) + 1
        /\ signed'[Len(signed) + 1] = NewSignature(t)
        /\ \A i \in 1..Len(signed) : signed'[i] = signed[i]
    BY <1>0, <2>1
  <2>3. LinkAhead(t)' = LinkAhead(t)
    BY <2>1, <2>2 DEF LinkAhead, AfterSigning
  <2>4. LinkIsLastLine'
    BY <2>1, <2>3 DEF LinkIsLastLine
  <2>5. ~Written(cur[t])
    BY <2>1 DEF DeliveryInv, LinesFollowStages, InSink, Undelivered
  <2>6. \A f \in Files : \A i \in DOMAIN lines[f] : lines[f][i] # cur[t]
    BY <2>5, PipelineAssumption DEF Written, PipelineInv, TypeOK, EventsTyped
  <2>7. ASSUME NEW f \in Files, NEW i \in DOMAIN lines[f], NEW k \in 1..(Len(signed) + 1),
               signed'[k].ev = lines[f][i]
        PROVE  signed'[k].prev \in {NoEvent, LineAbove(f, i)}
    <3>1. k \in 1..Len(signed) /\ signed'[k] = signed[k]
      BY <1>0, <2>1, <2>2, <2>6, <2>7
    <3>2. QED BY <1>0, <2>7, <3>1 DEF LinesLink
  <2>8. LinesLink'
    BY <2>1, <2>2, <2>7 DEF LinesLink, LineAbove
  <2>9. QED BY <2>4, <2>8
<1>5. ASSUME NEW t \in Threads,
             SignRejected(t) \/ Resolve(t) \/ ResolveLocked(t) \/ Load(t) \/ PassClosedCheck(t)
      PROVE  SameSide(t)
  BY <1>0, <1>5 DEF SignRejected, Resolve, ResolveLocked, Load, PassClosedCheck, SameSide,
       AfterSigning
<1>6. ASSUME NEW t \in Threads, Build(t) PROVE LinkIsLastLine' /\ LinesLink'
  <2>1. /\ UNCHANGED <<lines, signed, prevSigned, cur>> /\ cached = 0
        /\ pc[t] = "acquire" /\ pc'[t] = "load"
    BY <1>0, <1>6 DEF Build
  <2>2. LinkAhead(t) = NoEvent
    BY <2>1 DEF LinkIsLastLine
  <2>3. LinkAhead(t)' = NoEvent
    BY <2>1, <2>2 DEF LinkAhead, AfterSigning
  <2>4. LinkIsLastLine'
    BY <2>1, <2>3 DEF LinkIsLastLine, AfterSigning
  <2>5. LinesLink'
    BY <2>1 DEF LinesLink, LineAbove
  <2>6. QED BY <2>4, <2>5
<1>7. ASSUME NEW t \in Threads,
             ExportRefused(t) \/ WriteFails(t) \/ DeliverFails(t)
      PROVE  FALSE
  BY <1>7 DEF ExportRefused, WriteFails, DeliverFails, ShutInv, UsesTheCached, SinksWork
<1>8. ASSUME NEW t \in Threads, WriteLine(t) \/ Deliver(t) PROVE LinkIsLastLine' /\ LinesLink'
  <2> DEFINE s == made[cached].target
  <2>1. /\ pc[t] \in {"export", "write"} /\ pc'[t] = "record"
        /\ UNCHANGED <<signed, prevSigned, cached, cur>>
        /\ exp[t] = cached /\ cached # 0
    BY <1>0, <1>8 DEF WriteLine, Deliver, AfterDelivery, ShutInv, UsesTheCached
  <2>1a. lines' = [lines EXCEPT ![s] = Append(@, cur[t])]
    <3>1. CASE Deliver(t)
      BY <2>1, <3>1 DEF Deliver
    <3>2. CASE WriteLine(t)
      <4>1. cached \in DOMAIN made /\ made[cached].held = <<>> /\ cur[t] \in Events
        BY <1>0, <2>1 DEF PipelineInv, DispatchOwnsEvent, DispatchLabels
      <4>2. lines' = [lines EXCEPT ![s] = @ \o SubSeq(Append(<<>>, cur[t]), 1, Len(Append(<<>>, cur[t])))]
        BY <2>1, <3>2, <4>1 DEF WriteLine, Drain
      <4>3. SubSeq(Append(<<>>, cur[t]), 1, Len(Append(<<>>, cur[t]))) = <<cur[t]>>
        <5>1. Append(<<>>, cur[t]) = <<cur[t]>> /\ Len(<<cur[t]>>) = 1 /\ <<cur[t]>> \in Seq(Events)
          BY <4>1
        <5>2. SubSeq(<<cur[t]>>, 1, Len(<<cur[t]>>)) = <<cur[t]>>
          BY <5>1, SubSeqFull
        <5>3. QED BY <5>1, <5>2
      <4>4. s \in DOMAIN lines /\ lines[s] \in Seq(Events)
        BY <1>0, <4>1 DEF Exporter, PipelineInv, TypeOK, EventsTyped
      <4>5. lines[s] \o <<cur[t]>> = Append(lines[s], cur[t])
        BY <4>1, <4>4
      <4>6. QED BY <4>2, <4>3, <4>5
    <3>3. QED BY <1>8, <3>1, <3>2
  <2>2. made'[cached].target = s
    BY <1>0, <1>8, <2>1, WriteStep DEF SameExporters, Deliver
  <2>3. s \in DOMAIN lines /\ cur[t] \in Events
    BY <1>0, <2>1 DEF Exporter, PipelineInv, TypeOK, EventsTyped, DispatchOwnsEvent
  <2> HIDE DEF s
  <2>4. /\ lines[s] \in Seq(Events) /\ lines'[s] = Append(lines[s], cur[t])
        /\ \A r \in DOMAIN lines : r # s => lines'[r] = lines[r]
    BY <2>1, <2>1a, <2>3 DEF PipelineInv, TypeOK, EventsTyped
  <2>5. /\ DOMAIN lines'[s] = 1..(Len(lines[s]) + 1) /\ Len(lines'[s]) = Len(lines[s]) + 1
        /\ lines'[s][Len(lines[s]) + 1] = cur[t] /\ lines'[s] # <<>>
        /\ \A i \in 1..Len(lines[s]) : lines'[s][i] = lines[s][i]
    BY <2>4
  <2>6. /\ prevSigned = cur[t] \/ (prevSigned = NoEvent /\ cur[t] \notin Chain!LogEvents)
        /\ LinkAhead(t)' = prevSigned
    BY <2>1 DEF LinkIsLastLine, LinkAhead, AfterSigning
  <2>7. LinkIsLastLine'
    BY <1>0, <2>1, <2>2, <2>5, <2>6 DEF LinkIsLastLine, AfterSigning
  <2>8. ASSUME NEW k \in DOMAIN signed, signed[k].ev = cur[t], s \in Files,
               signed[k].prev # NoEvent
        PROVE  Len(lines[s]) > 0 /\ signed[k].prev = lines[s][Len(lines[s])]
    <3>1. prevSigned = cur[t]
      BY <2>6, <2>8
    <3>2. k = Len(signed)
      BY <1>0, <2>3, <2>8, <3>1 DEF CP!ChainInv, CP!HeadIsLast, CP!Linear, CP!SignedOnce
    <3>3. LinkAhead(t) = signed[k].prev
      BY <2>1, <3>1, <3>2 DEF LinkAhead, AfterSigning
    <3>4. lines[s] # <<>> /\ lines[s][Len(lines[s])] = signed[k].prev
      BY <2>1, <2>8, <3>3 DEF LinkIsLastLine, s
    <3>5. QED BY <2>4, <3>4
  <2>9. ASSUME NEW f \in Files, NEW i \in DOMAIN lines'[f], NEW k \in DOMAIN signed,
               signed[k].ev = lines'[f][i]
        PROVE  signed[k].prev \in {NoEvent, LineAbove(f, i)'}
    <3>1. f \in DOMAIN lines
      BY PipelineAssumption DEF PipelineInv, TypeOK, EventsTyped
    <3>2. CASE f # s
      <4>1. lines'[f] = lines[f]
        BY <2>4, <3>1, <3>2
      <4>2. LineAbove(f, i)' = LineAbove(f, i)
        BY <4>1 DEF LineAbove
      <4>3. QED BY <2>9, <4>1, <4>2 DEF LinesLink
    <3>3. CASE f = s /\ i \in 1..Len(lines[s])
      <4>1. LineAbove(f, i)' = LineAbove(f, i)
        <5>1. CASE i = 1
          BY <5>1 DEF LineAbove
        <5>2. CASE i # 1
          <6>1. i - 1 \in 1..Len(lines[s])
            BY <2>4, <3>3, <5>2
          <6>2. lines'[f][i - 1] = lines[f][i - 1]
            BY <2>5, <3>3, <6>1
          <6>3. QED BY <5>2, <6>2 DEF LineAbove
        <5>3. QED BY <5>1, <5>2
      <4>2. QED BY <2>4, <2>5, <2>9, <3>3, <4>1, SMTT(30) DEF LinesLink
    <3>4. CASE f = s /\ i = Len(lines[s]) + 1
      <4>1. signed[k].ev = cur[t]
        BY <2>5, <2>9, <3>4
      <4>2. Len(lines[s]) > 0 => LineAbove(f, i)' = lines[s][Len(lines[s])]
        BY <2>4, <2>5, <3>4 DEF LineAbove
      <4>3. QED BY <2>8, <3>4, <4>1, <4>2
    <3>5. QED BY <2>5, <2>9, <3>2, <3>3, <3>4
  <2>10. LinesLink'
    BY <2>1, <2>9 DEF LinesLink
  <2>11. QED BY <2>7, <2>10
<1>9. ASSUME NEW t \in Threads,
              FetchStore(t) \/ SkipStore(t) \/ RecordInStore(t) \/ RecordFails(t) \/ CountError(t)
                \/ Reraise(t) \/ EndError(t)
      PROVE  SameSide(t)
  BY <1>0, <1>9 DEF FetchStore, SkipStore, RecordInStore, RecordFails, CountError, Reraise,
     EndError,
       SameSide, AfterSigning
<1>10. ASSUME NEW t \in Threads, AssignField(t) PROVE SameSide(t)
  <2>1. pc' = [pc EXCEPT ![t] = "assign"]
    BY <1>0, <1>10 DEF AssignField
  <2>2. QED BY <1>0, <1>10, <2>1 DEF AssignField, SameSide, AfterSigning
<1>11. ASSUME NEW t \in Threads, RejectField(t) \/ ResetStore(t) PROVE SameSide(t)
  BY <1>0, <1>11 DEF RejectField, ResetStore, SameSide, AfterSigning
<1>12. ASSUME NEW t \in Threads, CloseExporter(t) PROVE SameSide(t)
  <2>1. UNCHANGED lines /\ (cached # 0 => made'[cached].target = made[cached].target)
    <3>1. CASE cached # 0 /\ IsJsonl(cached) /\ ~made[cached].closed
      <4>1. PICK n \in 0..Len(made[cached].held) : Shut(cached, n)
        BY <1>12, <3>1 DEF CloseExporter, Close
      <4>2. cached \in DOMAIN made /\ made[cached].held = <<>> /\ n = 0
        BY <1>0, <3>1, <4>1
      <4>3. SubSeq(<<>>, 1, 0) = <<>>
        BY SubSeqEmpty
      <4>4. made[cached].target \in DOMAIN lines /\ lines[made[cached].target] \in Seq(Events)
        BY <1>0, <4>2 DEF Exporter, PipelineInv, TypeOK, EventsTyped
      <4>5. lines[made[cached].target] \o <<>> = lines[made[cached].target]
        BY <4>4
      <4>6. lines' = lines
        BY <4>1, <4>2, <4>3, <4>5 DEF Shut, PipelineInv, TypeOK, EventsTyped
      <4>7. QED BY <1>0, <4>1, <4>2, <4>6 DEF Shut, Exporter
    <3>2. CASE ~(cached # 0 /\ IsJsonl(cached) /\ ~made[cached].closed)
      BY <1>12, <3>2 DEF CloseExporter, Close
    <3>3. QED BY <3>1, <3>2
  <2>2. QED BY <1>0, <1>12, <2>1 DEF CloseExporter, SameSide, AfterSigning
<1>12a. ASSUME NEW t \in Threads, CloseFails(t) \/ CountCloseError(t) \/ ForgiveClose(t)
                                    \/ ReraiseClose(t)
        PROVE  SameSide(t)
  BY <1>0, <1>12a DEF CloseFails, CountCloseError, ForgiveClose, ReraiseClose, SameSide,
     AfterSigning
<1>13. ASSUME NEW t \in Threads, DiscardExporter(t) \/ ResetChain(t)
       PROVE  LinkIsLastLine' /\ LinesLink'
  <2>1. UNCHANGED <<lines, signed>> /\ pc'[t] \in {"rechain", "restore"}
    BY <1>0, <1>13 DEF DiscardExporter, ResetChain
  <2>2. pc'[t] = "rechain" \/ prevSigned' = NoEvent
    BY <1>0, <1>13 DEF DiscardExporter, ResetChain, RestartedChain
  <2>3. LinkIsLastLine'
    BY <2>1, <2>2 DEF LinkIsLastLine, LinkAhead, AfterSigning
  <2>4. LinesLink'
    BY <2>1 DEF LinesLink, LineAbove
  <2>5. QED BY <2>3, <2>4
<1>14. CASE UNCHANGED vars
  BY <1>14 DEF LinkIsLastLine, LinkAhead, LinesLink, LineAbove
<1>15. QED BY <1>1, <1>2, <1>3, <1>4, <1>5, <1>6, <1>7, <1>8, <1>9, <1>10, <1>11, <1>12, <1>12a,
             <1>13, <1>14, SameSideLinks DEF Next, Step, Quiescent

LEMMA LinkInit == Init => LinkIsLastLine /\ LinesLink
<1> SUFFICES ASSUME Init PROVE LinkIsLastLine /\ LinesLink
  OBVIOUS
<1>1. prevSigned = NoEvent /\ signed = <<>> /\ \A t \in Threads : pc[t] = "idle"
  BY DEF Init
<1>2. LinkIsLastLine
  BY <1>1 DEF LinkIsLastLine, LinkAhead, AfterSigning
<1>3. LinesLink
  BY <1>1 DEF LinesLink
<1>4. QED BY <1>2, <1>3

(* FileSegmentsVerify: with one thread and sinks that work, the lines of a *)
(* file verify between two restarts of the chain.                          *)
THEOREM FilesVerifySerially ==
  ASSUME OneThread, KeyNeverTorn, SinksWork, ClosesCleanly
  PROVE  Spec => []FileSegmentsVerify
<1>1. PipelineInv /\ ShutInv /\ [Next]_vars => ShutInv'
  BY ShutStep
<1>2. PipelineInv /\ ShutInv /\ CP!ChainInv /\ KeyInv /\ [Next]_vars => KeyInv'
  BY KeyStep
<1>3. PipelineInv /\ DeliveryInv /\ CP!ChainInv /\ ShutInv /\ KeyInv
        /\ LinkIsLastLine /\ LinesLink /\ [Next]_vars => LinkIsLastLine' /\ LinesLink'
  BY LinkStep
<1>4. LinesLink => FileSegmentsVerify
  BY SegmentsFromLinks
<1>5. QED BY <1>1, <1>2, <1>3, <1>4, ShutInit, KeyInit, LinkInit, PipelineInvariant,
            DeliveryHolds, ChainHolds, PTL DEF Spec
=============================================================================
