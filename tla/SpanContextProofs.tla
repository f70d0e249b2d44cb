------------------------- MODULE SpanContextProofs -------------------------
(***************************************************************************)
(* Proofs about SpanContext for any number of tasks and objects: first     *)
(* when every manager is a with block, asyncio or threads; then what holds *)
(* of handles too (types, isolation of tasks, numbering of steps); then    *)
(* what with blocks leave behind.                                          *)
(***************************************************************************)
EXTENDS SpanContext, SequenceTheorems, FiniteSetTheorems, TLAPS

(* Whose block a block is, which tasks are inside the API, and the run an  *)
(* object names: what the exit of a block needs to know about its entry.   *)
BlocksOwned ==
  /\ \A t \in Tasks : \A k \in DOMAIN nest[t] : objs[nest[t][k]].task = t
  /\ \A t \in Tasks \ alive : nest[t] = <<>> /\ pc[t] = "run"
  /\ \A s \in Known : objs[s].run = Top(objs[s].at.runs)

(* A task inside next_step_index still has the run it asked.               *)
InsideARun == \A t \in Tasks : pc[t] # "run" => runStack[t] # <<>>

SpanInv == /\ TypeOK /\ BlocksOwned /\ InsideARun /\ ContextFollowsBlocks
           /\ CollectedByItsRun /\ StepRecordedInItsRun

-----------------------------------------------------------------------------
(* Stacks of ids *)

(* A stack of known ids stays one when more objects are known.             *)
LEMMA StackGrows ==
  ASSUME NEW m \in Nat, NEW q \in Seq(1..m)
  PROVE  q \in Seq(1..(m + 1)) /\ Append(q, m + 1) \in Seq(1..(m + 1))
  OBVIOUS

LEMMA SequenceOf ==
  ASSUME NEW S, NEW T, NEW q \in Seq(S), \A i \in DOMAIN q : q[i] \in T
  PROVE  q \in Seq(T)
  OBVIOUS

LEMMA TopOfStack ==
  ASSUME NEW m \in Nat, NEW q \in Seq(1..m)
  PROVE  /\ Top(q) \in 0..m
         /\ q # <<>> => Top(q) \in 1..m /\ Top(q) = q[Len(q)]
  BY DEF Top

LEMMA PushedStack ==
  ASSUME NEW S, NEW q \in Seq(S), NEW x \in S
  PROVE  /\ Append(q, x) # <<>> /\ Top(Append(q, x)) = x
         /\ Len(Append(q, x)) = Len(q) + 1
         /\ DOMAIN Append(q, x) = 1..(Len(q) + 1)
         /\ \A k \in 1..Len(q) : Append(q, x)[k] = q[k]
         /\ Append(q, x)[Len(q) + 1] = x
  BY DEF Top

LEMMA PoppedStack ==
  ASSUME NEW S, NEW q \in Seq(S), q # <<>>
  PROVE  LET p == SubSeq(q, 1, Len(q) - 1) IN
         /\ p \in Seq(S) /\ Len(p) = Len(q) - 1 /\ DOMAIN p = 1..(Len(q) - 1)
         /\ \A k \in 1..(Len(q) - 1) : p[k] = q[k]
         /\ p = <<>> <=> Len(q) = 1
         /\ p # <<>> => Top(p) = q[Len(q) - 1]
<1> DEFINE n == Len(q) - 1
           p == SubSeq(q, 1, n)
<1>1. Len(q) \in Nat \ {0} /\ \A k \in 1..n : q[k] \in S
  OBVIOUS
<1>2. n \in Nat
  BY <1>1
<1>3. p \in Seq(S) /\ Len(p) = n /\ \A k \in 1..n : p[k] = q[k]
  <2> HIDE DEF n
  <2>1. QED BY <1>1, <1>2, SubSeqProperties
<1>4. p = <<>> <=> Len(p) = 0
  BY <1>3, EmptySeq
<1> HIDE DEF p
<1>5. p # <<>> => Top(p) = q[n]
  BY <1>2, <1>3, <1>4 DEF Top
<1>6. QED BY <1>1, <1>2, <1>3, <1>4, <1>5 DEF p

-----------------------------------------------------------------------------
(* Entering a block *)

(* What a new object changes: one more id, the others as they were.        *)
LEMMA EnterObjects ==
  ASSUME TypeOK, NEW t \in Tasks,
         NEW kind \in {"span", "step", "run"}, NEW trace \in 1..New, NEW idx \in Nat,
         Enter(t, Opened(t, kind, trace, idx))
  PROVE  /\ Len(objs) \in Nat /\ Known = 1..Len(objs) /\ Known' = 1..New
         /\ objs' \in Seq(Object')
         /\ \A s \in Known : objs'[s] = objs[s]
         /\ objs'[New] = Opened(t, kind, trace, idx)
         /\ nest' = IF Blocks THEN [nest EXCEPT ![t] = Append(@, New)] ELSE nest
<1> DEFINE o == Opened(t, kind, trace, idx)
<1>1. Len(objs) \in Nat /\ Known = 1..Len(objs)
  BY DEF TypeOK, Known
<1>2. objs' = Append(objs, o)
      /\ nest' = IF Blocks THEN [nest EXCEPT ![t] = Append(@, New)] ELSE nest
  BY DEF Enter
<1>3. Known' = 1..New /\ Len(objs') = New
  BY <1>2 DEF TypeOK, Known, New
<1>4. /\ \A s \in Known : objs'[s] = objs[s]
      /\ objs'[New] = o
  BY <1>2 DEF TypeOK, Known, New
<1>5. \A q \in Stack : q \in Stack'
  BY <1>1, <1>3, StackGrows DEF Stack, New
<1>6. o \in Object'
  <2>1. Here(t) \in Context'
    BY <1>5 DEF TypeOK, Here, Context
  <2>2. Top(spanStack[t]) \in Known' \cup {0} /\ Top(runStack[t]) \in Known' \cup {0}
    <3>1. spanStack[t] \in Seq(1..Len(objs)) /\ runStack[t] \in Seq(1..Len(objs))
      BY <1>1 DEF TypeOK, Stack
    <3>2. Top(spanStack[t]) \in 0..Len(objs) /\ Top(runStack[t]) \in 0..Len(objs)
      BY <1>1, <3>1, TopOfStack
    <3>3. QED BY <1>1, <1>3, <3>2 DEF New
  <2>3. trace \in Known'
    BY <1>3
  <2>4. QED BY <2>1, <2>2, <2>3 DEF Opened, Object
<1>7. \A s \in Known : objs[s] \in Object'
  <2> SUFFICES ASSUME NEW s \in Known PROVE objs[s] \in Object'
    OBVIOUS
  <2>1. objs[s] \in Object
    BY DEF TypeOK, Known
  <2>2. objs[s].at \in Context'
    BY <1>5, <2>1 DEF Object, Context
  <2>3. \A x \in Known \cup {0} : x \in Known' \cup {0}
    BY <1>1, <1>3 DEF New
  <2>4. objs[s].trace \in Known'
    BY <1>1, <1>3, <2>1 DEF Object, New
  <2>5. QED BY <2>1, <2>2, <2>3, <2>4 DEF Object
<1>8. objs' \in Seq(Object')
  <2> HIDE DEF o
  <2>1. objs' = Append(objs, o) /\ Len(objs) \in Nat
    BY <1>1, <1>2
  <2>2. objs \in Seq(Object')
    <3> HIDE DEF Object
    <3>1. objs \in Seq(Object) /\ \A i \in DOMAIN objs : objs[i] \in Object'
      BY <1>7 DEF TypeOK, Known
    <3>2. QED BY <3>1, SequenceOf
  <2>3. QED BY <1>6, <2>1, <2>2
<1>9. QED BY <1>1, <1>2, <1>3, <1>4, <1>8

(* The context of a task follows its blocks, with the operators expanded.  *)
LEMMA FollowsInstance ==
  ContextFollowsBlocks <=>
    \A u \in alive :
      /\ Here(u) = IF nest[u] = <<>> THEN base[u]
                   ELSE AfterOf(objs[Top(nest[u])], Top(nest[u]))
      /\ \A k \in DOMAIN nest[u] :
           objs[nest[u][k]].at =
             IF k = 1 THEN base[u]
             ELSE AfterOf(objs[nest[u][k - 1]], nest[u][k - 1])
  BY DEF ContextFollowsBlocks, After

LEMMA NestKnown ==
  ASSUME TypeOK, NEW u \in Tasks
  PROVE  /\ nest[u] \in Seq(Known) /\ Len(nest[u]) \in Nat
         /\ DOMAIN nest[u] = 1..Len(nest[u])
         /\ \A k \in 1..Len(nest[u]) : nest[u][k] \in Known
         /\ nest[u] = <<>> <=> Len(nest[u]) = 0
         /\ nest[u] # <<>> => Top(nest[u]) = nest[u][Len(nest[u])]
<1>1. nest[u] \in Seq(Known)
  BY DEF TypeOK, Stack
<1> HIDE DEF Known
<1>2. QED BY <1>1 DEF Top

(* Entering a block keeps the invariant, whatever the kind of the block.   *)
LEMMA EnterKeepsInv ==
  ASSUME Blocks, SpanInv, NEW t \in alive, NEW n \in Nat, n = New,
         NEW kind \in {"span", "step", "run"}, NEW trace \in 1..n, NEW idx \in Nat,
         HasRoom, Enter(t, Opened(t, kind, trace, idx)),
         spanStack' = IF kind = "span" THEN [spanStack EXCEPT ![t] = Append(@, n)]
                                       ELSE spanStack,
         runStack' = IF kind = "run" THEN [runStack EXCEPT ![t] = Append(@, n)]
                                     ELSE runStack,
         UNCHANGED <<base, alive, recorded, collected, events>>,
         count' \in [Ids -> Nat], index' \in [Tasks -> Nat], loaded' \in [Tasks -> Nat],
         pc' \in [Tasks -> {"run", "load", "store"}],
         \A u \in Tasks \ alive : pc'[u] = "run",
         \A u \in Tasks : pc'[u] # "run" => pc[u] # "run"
  PROVE  SpanInv'
<1> DEFINE o == Opened(t, kind, trace, idx)
<1>1. t \in Tasks
  BY DEF SpanInv, TypeOK
<1>2. /\ Len(objs) \in Nat /\ Known = 1..Len(objs) /\ Known' = 1..n /\ n = Len(objs) + 1
      /\ objs' \in Seq(Object')
      /\ \A s \in Known : objs'[s] = objs[s]
      /\ objs'[n] = o
      /\ nest' = [nest EXCEPT ![t] = Append(@, n)]
  <2>1. trace \in 1..New
    OBVIOUS
  <2>2. QED BY <1>1, <2>1, EnterObjects DEF SpanInv, New
<1>3. \A q \in Stack : q \in Stack' /\ Append(q, n) \in Stack'
  BY <1>2, StackGrows DEF Stack
<1>4. /\ o.at = Here(t) /\ o.run = Top(runStack[t]) /\ o.kind = kind /\ o.task = t
      /\ n \notin Known /\ n \in Known'
  BY <1>2 DEF Opened
<1> HIDE DEF o
<1>5. TypeOK'
  <2>1. spanStack' \in [Tasks -> Stack'] /\ runStack' \in [Tasks -> Stack']
        /\ nest' \in [Tasks -> Stack']
    BY <1>1, <1>2, <1>3 DEF SpanInv, TypeOK
  <2>2. base' \in [Tasks -> Context']
    BY <1>3 DEF SpanInv, TypeOK, Context
  <2>3. recorded' \in [Ids -> Stack'] /\ collected' \in [Ids -> Stack']
    BY <1>3 DEF SpanInv, TypeOK
  <2>4. emitted' \in SUBSET Known' /\ lost' \in SUBSET Known' /\ alive' \in SUBSET Tasks
    BY <1>2 DEF SpanInv, TypeOK, events
  <2>5. Len(objs') <= MaxObjects
    <3>1. objs' = Append(objs, Opened(t, kind, trace, idx)) /\ objs \in Seq(Object)
      BY DEF Enter, SpanInv, TypeOK
    <3>2. Len(objs') = Len(objs) + 1
      BY <3>1
    <3>3. QED BY <1>2, <3>2, SpanAssumption DEF HasRoom
  <2>6. QED BY <1>2, <2>1, <2>2, <2>3, <2>4, <2>5 DEF TypeOK
<1>6. /\ \A k \in 1..Len(nest[t]) : nest'[t][k] = nest[t][k]
      /\ nest'[t] # <<>> /\ Top(nest'[t]) = n
      /\ DOMAIN nest'[t] = 1..(Len(nest[t]) + 1) /\ nest'[t][Len(nest[t]) + 1] = n
      /\ \A u \in Tasks \ {t} : nest'[u] = nest[u]
  <2>1. nest[t] \in Seq(Known') /\ n \in Known'
    BY <1>1, <1>4, <1>3 DEF SpanInv, TypeOK, Stack
  <2>2. nest'[t] = Append(nest[t], n) /\ \A u \in Tasks \ {t} : nest'[u] = nest[u]
    BY <1>1, <1>2 DEF SpanInv, TypeOK
  <2> DEFINE q == nest[t]
             p == Append(q, n)
  <2>3. /\ p # <<>> /\ Top(p) = n /\ DOMAIN p = 1..(Len(q) + 1)
        /\ \A k \in 1..Len(q) : p[k] = q[k]
        /\ p[Len(q) + 1] = n
    <3> HIDE DEF q
    <3>1. q \in Seq(Known') /\ n \in Known'
      BY <2>1 DEF q
    <3>2. QED BY ONLY <3>1, PushedStack
  <2>4. nest'[t] = p
    BY <2>2
  <2> HIDE DEF p
  <2>5. QED BY <2>2, <2>3, <2>4
<1>7. /\ DOMAIN nest[t] = 1..Len(nest[t]) /\ Len(nest[t]) \in Nat
      /\ \A k \in 1..Len(nest[t]) : nest[t][k] \in Known
      /\ nest[t] = <<>> <=> Len(nest[t]) = 0
      /\ nest[t] # <<>> => Top(nest[t]) = nest[t][Len(nest[t])]
  BY <1>1, NestKnown DEF SpanInv
<1>8. BlocksOwned'
  <2>1. \A u \in Tasks : \A k \in DOMAIN nest'[u] : objs'[nest'[u][k]].task = u
    <3> SUFFICES ASSUME NEW u \in Tasks, NEW k \in DOMAIN nest'[u]
                 PROVE  objs'[nest'[u][k]].task = u
      OBVIOUS
    <3>1. \A j \in DOMAIN nest[u] : objs'[nest[u][j]].task = u
      <4>1. \A j \in DOMAIN nest[u] : nest[u][j] \in Known
        BY NestKnown DEF SpanInv
      <4>2. \A j \in DOMAIN nest[u] : objs[nest[u][j]].task = u
        BY DEF SpanInv, BlocksOwned
      <4>3. \A s \in Known : objs'[s] = objs[s]
        BY <1>2
      <4>4. QED BY <4>1, <4>2, <4>3
    <3>2. CASE u # t
      BY <1>6, <3>1, <3>2
    <3>3. CASE u = t
      <4>1. k \in 1..Len(nest[t]) \/ k = Len(nest[t]) + 1
        BY <1>6, <1>7, <3>3
      <4>2. CASE k \in 1..Len(nest[t])
        BY <1>6, <1>7, <3>1, <3>3, <4>2
      <4>3. CASE k = Len(nest[t]) + 1
        BY <1>2, <1>4, <1>6, <3>3, <4>3
      <4>4. QED BY <4>1, <4>2, <4>3
    <3>4. QED BY <3>2, <3>3
  <2>2. \A u \in Tasks \ alive : nest'[u] = <<>> /\ pc'[u] = "run"
    BY <1>6 DEF SpanInv, BlocksOwned
  <2>3. \A s \in Known' : objs'[s].run = Top(objs'[s].at.runs)
    <3>1. \A s \in Known' : s \in Known \/ s = n
      BY <1>2
    <3>2. Top(o.at.runs) = o.run
      BY <1>4 DEF Here
    <3>3. QED BY <1>2, <3>1, <3>2 DEF SpanInv, BlocksOwned
  <2>4. QED BY <2>1, <2>2, <2>3 DEF BlocksOwned
<1>9. ContextFollowsBlocks'
  <2>1. Here(t)' = AfterOf(objs'[n], n)
    <3>1. /\ spanStack'[t] = IF kind = "span" THEN Append(spanStack[t], n) ELSE spanStack[t]
          /\ runStack'[t] = IF kind = "run" THEN Append(runStack[t], n) ELSE runStack[t]
      BY <1>1 DEF SpanInv, TypeOK
    <3>2. o.kind = kind /\ o.at.spans = spanStack[t] /\ o.at.runs = runStack[t]
      BY <1>4 DEF Here
    <3>3. QED BY <1>2, <3>1, <3>2 DEF Here, AfterOf
  <2>2. \A u \in alive \ {t} : Here(u)' = Here(u)
    BY <1>1 DEF SpanInv, TypeOK, Here
  <2>3. SUFFICES ASSUME NEW u \in alive
                 PROVE  /\ Here(u)' = IF nest'[u] = <<>> THEN base[u]
                                      ELSE AfterOf(objs'[Top(nest'[u])], Top(nest'[u]))
                        /\ \A k \in DOMAIN nest'[u] :
                             objs'[nest'[u][k]].at =
                               IF k = 1 THEN base[u]
                               ELSE AfterOf(objs'[nest'[u][k - 1]], nest'[u][k - 1])
    BY DEF ContextFollowsBlocks, After
  <2>4. /\ u \in Tasks
        /\ Here(u) = IF nest[u] = <<>> THEN base[u]
                     ELSE AfterOf(objs[Top(nest[u])], Top(nest[u]))
        /\ \A k \in DOMAIN nest[u] :
             objs[nest[u][k]].at =
               IF k = 1 THEN base[u]
               ELSE AfterOf(objs[nest[u][k - 1]], nest[u][k - 1])
    BY FollowsInstance DEF SpanInv, TypeOK
  <2>5. CASE u # t
    <3>1. nest'[u] = nest[u] /\ Here(u)' = Here(u)
      BY <1>6, <2>2, <2>4, <2>5
    <3>2. /\ DOMAIN nest[u] = 1..Len(nest[u]) /\ Len(nest[u]) \in Nat
          /\ \A k \in 1..Len(nest[u]) : nest[u][k] \in Known
          /\ nest[u] = <<>> <=> Len(nest[u]) = 0
          /\ nest[u] # <<>> => Top(nest[u]) = nest[u][Len(nest[u])]
      BY <2>4, NestKnown DEF SpanInv
    <3>3. nest[u] # <<>> => /\ Top(nest[u]) \in Known
                            /\ objs'[Top(nest[u])] = objs[Top(nest[u])]
      BY <1>2, <3>2
    <3>4. Here(u)' = IF nest'[u] = <<>> THEN base[u]
                     ELSE AfterOf(objs'[Top(nest'[u])], Top(nest'[u]))
      BY <2>4, <3>1, <3>3
    <3>5. ASSUME NEW k \in DOMAIN nest'[u]
          PROVE  objs'[nest'[u][k]].at =
                   IF k = 1 THEN base[u]
                   ELSE AfterOf(objs'[nest'[u][k - 1]], nest'[u][k - 1])
      <4>1. k \in 1..Len(nest[u]) /\ nest'[u][k] = nest[u][k] /\ nest'[u][k - 1] = nest[u][k - 1]
        BY <3>1, <3>2
      <4>2. objs'[nest[u][k]] = objs[nest[u][k]]
        BY <1>2, <3>2, <4>1
      <4>3. k # 1 => objs'[nest[u][k - 1]] = objs[nest[u][k - 1]]
        <5>1. k # 1 => k - 1 \in 1..Len(nest[u])
          BY <3>2, <4>1
        <5>2. k # 1 => nest[u][k - 1] \in Known
          BY <3>2, <5>1
        <5>3. QED BY <1>2, <5>2
      <4>4. objs[nest[u][k]].at = IF k = 1 THEN base[u]
               ELSE AfterOf(objs[nest[u][k - 1]], nest[u][k - 1])
        BY <2>4, <3>2, <4>1
      <4>5. QED BY <4>1, <4>2, <4>3, <4>4
    <3>6. QED BY <3>4, <3>5
  <2>6. CASE u = t
    <3>1. Here(t)' = AfterOf(objs'[Top(nest'[t])], Top(nest'[t])) /\ nest'[t] # <<>>
      BY <1>6, <2>1
    <3>2. ASSUME NEW k \in 1..Len(nest[t])
          PROVE  objs'[nest'[t][k]].at =
                   IF k = 1 THEN base[t] ELSE AfterOf(objs'[nest'[t][k - 1]], nest'[t][k - 1])
      <4>1. nest'[t][k] = nest[t][k] /\ objs'[nest[t][k]] = objs[nest[t][k]]
        BY <1>2, <1>6, <1>7
      <4>2. k # 1 => /\ nest'[t][k - 1] = nest[t][k - 1]
                     /\ objs'[nest[t][k - 1]] = objs[nest[t][k - 1]]
        <5>1. k # 1 => k - 1 \in 1..Len(nest[t])
          BY <1>7
        <5>2. k # 1 => nest[t][k - 1] \in Known /\ nest'[t][k - 1] = nest[t][k - 1]
          BY <1>6, <1>7, <5>1
        <5>3. QED BY <1>2, <5>2
      <4>3. objs[nest[t][k]].at = IF k = 1 THEN base[t]
               ELSE AfterOf(objs[nest[t][k - 1]], nest[t][k - 1])
        BY <1>7, <2>4, <2>6
      <4>4. QED BY <4>1, <4>2, <4>3
    <3>3. objs'[n].at = Here(t)
      BY <1>2, <1>4
    <3> DEFINE m == Len(nest[t])
    <3>4. objs'[nest'[t][m + 1]].at =
            IF m + 1 = 1 THEN base[t] ELSE AfterOf(objs'[nest'[t][m]], nest'[t][m])
      <4>1. nest'[t][m + 1] = n
        BY <1>6
      <4>2. CASE m = 0
        BY <1>7, <2>4, <2>6, <3>3, <4>1, <4>2
      <4>3. CASE m # 0
        <5>1. m \in 1..m /\ nest[t] # <<>> /\ m + 1 # 1
          BY <1>7, <4>3
        <5>2. /\ nest'[t][m] = nest[t][m] /\ nest[t][m] = Top(nest[t])
              /\ objs'[nest[t][m]] = objs[nest[t][m]]
          BY <1>2, <1>6, <1>7, <5>1
        <5>3. Here(t) = AfterOf(objs[Top(nest[t])], Top(nest[t]))
          BY <2>4, <2>6, <5>1
        <5>4. QED BY <3>3, <4>1, <5>1, <5>2, <5>3
      <4>4. QED BY <4>2, <4>3
    <3>5. ASSUME NEW k \in DOMAIN nest'[t]
          PROVE  objs'[nest'[t][k]].at =
                   IF k = 1 THEN base[t] ELSE AfterOf(objs'[nest'[t][k - 1]], nest'[t][k - 1])
      <4>1. k \in 1..m \/ (k = m + 1 /\ k - 1 = m)
        BY <1>6, <1>7
      <4>2. QED BY <3>2, <3>4, <4>1
    <3>6. QED BY <2>6, <3>1, <3>5
  <2>7. QED BY <2>5, <2>6
<1>10. CollectedByItsRun' /\ StepRecordedInItsRun'
  <2>1. ASSUME NEW r \in Ids
        PROVE  /\ \A i \in DOMAIN collected[r] : collected[r][i] \in Known
               /\ \A i \in DOMAIN recorded[r] : recorded[r][i] \in Known
    <3>1. collected[r] \in Seq(Known) /\ recorded[r] \in Seq(Known)
      BY DEF SpanInv, TypeOK, Stack
    <3>2. QED BY <3>1
  <2>2. CollectedByItsRun'
    BY <1>2, <2>1 DEF SpanInv, CollectedByItsRun
  <2>3. StepRecordedInItsRun'
    BY <1>2, <2>1 DEF SpanInv, StepRecordedInItsRun
  <2>4. QED BY <2>2, <2>3
<1>11. InsideARun'
  <2>1. \A u \in Tasks : runStack[u] # <<>> => runStack'[u] # <<>>
    <3>1. runStack[t] \in Stack
      BY <1>1 DEF SpanInv, TypeOK
    <3>2. Append(runStack[t], n) # <<>>
      <4>1. runStack[t] \in Seq(Known') /\ n \in Known'
        BY <1>3, <1>4, <3>1 DEF Stack
      <4>2. QED BY ONLY <4>1, PushedStack
    <3>3. QED BY <1>1, <3>2 DEF SpanInv, TypeOK
  <2>2. QED BY <2>1 DEF SpanInv, InsideARun
<1>12. QED BY <1>5, <1>8, <1>9, <1>10, <1>11 DEF SpanInv

-----------------------------------------------------------------------------
(* Leaving a block *)

(* The innermost block of a task: its object, and the context it gave.     *)
LEMMA InnermostBlock ==
  ASSUME SpanInv, NEW t \in alive, NEW s \in Known, s = Top(nest[t])
  PROVE  /\ t \in Tasks /\ nest[t] # <<>> /\ objs[s].task = t
         /\ Here(t) = AfterOf(objs[s], s)
         /\ objs[s] \in Object /\ objs[s].run = Top(objs[s].at.runs)
         /\ objs[s].kind # "run" => Top(runStack[t]) = objs[s].run
<1>1. t \in Tasks /\ objs[s] \in Object /\ s \in Nat \ {0}
  BY DEF SpanInv, TypeOK, Known
<1>2. nest[t] # <<>> /\ Len(nest[t]) \in DOMAIN nest[t] /\ s = nest[t][Len(nest[t])]
  BY <1>1, NestKnown DEF SpanInv, Top
<1>3. objs[s].task = t /\ objs[s].run = Top(objs[s].at.runs)
  BY <1>1, <1>2 DEF SpanInv, BlocksOwned
<1>4. Here(t) = AfterOf(objs[s], s)
  BY <1>2, FollowsInstance DEF SpanInv
<1>5. objs[s].kind # "run" => runStack[t] = objs[s].at.runs
  BY <1>4 DEF Here, AfterOf
<1>6. QED BY <1>1, <1>2, <1>3, <1>4, <1>5

(* A per-run sequence that holds only objects entered under that run.      *)
Registered(f) ==
  /\ f \in [Ids -> Stack]
  /\ \A r \in Ids : \A i \in DOMAIN f[r] : f[r][i] \in Known /\ objs[f[r][i]].run = r

(* Leaving the innermost block keeps the invariant: the token restores the *)
(* context of the block around it.                                         *)
LEMMA LeaveKeepsInv ==
  ASSUME Blocks, SpanInv, NEW t \in alive, NEW s \in Known, s = Top(nest[t]),
         Leave(t, s),
         spanStack' = IF objs[s].kind = "span"
                        THEN [spanStack EXCEPT ![t] = objs[s].at.spans] ELSE spanStack,
         runStack' = IF objs[s].kind = "run"
                       THEN [runStack EXCEPT ![t] = objs[s].at.runs] ELSE runStack,
         UNCHANGED <<base, alive, count, local>>, pc[t] = "run",
         emitted' \in SUBSET Known, lost' \in SUBSET Known,
         Registered(collected'), Registered(recorded')
  PROVE  SpanInv'
<1>1. /\ t \in Tasks /\ nest[t] # <<>> /\ objs[s].task = t
      /\ Here(t) = AfterOf(objs[s], s)
      /\ objs[s] \in Object
  BY InnermostBlock
<1>2. /\ objs' = [objs EXCEPT ![s].open = FALSE]
      /\ nest' = [nest EXCEPT ![t] = SubSeq(nest[t], 1, Len(nest[t]) - 1)]
  BY <1>1 DEF Leave
<1>3. /\ Known' = Known
      /\ \A x \in Known : /\ objs'[x].kind = objs[x].kind /\ objs'[x].at = objs[x].at
                          /\ objs'[x].task = objs[x].task /\ objs'[x].run = objs[x].run
                          /\ AfterOf(objs'[x], x) = AfterOf(objs[x], x)
  <2>1. Known' = Known
    BY <1>2 DEF Known, SpanInv, TypeOK
  <2>2. ASSUME NEW x \in Known
        PROVE  /\ objs'[x].kind = objs[x].kind /\ objs'[x].at = objs[x].at
               /\ objs'[x].task = objs[x].task /\ objs'[x].run = objs[x].run
    <3>1. objs[x] \in Object
      BY DEF SpanInv, TypeOK, Known
    <3>2. CASE x = s
      <4>1. objs'[s] = [objs[s] EXCEPT !.open = FALSE]
        BY <1>2 DEF SpanInv, TypeOK, Known
      <4>2. QED BY <3>1, <3>2, <4>1 DEF Object
    <3>3. CASE x # s
      BY <1>2, <3>3 DEF SpanInv, TypeOK, Known
    <3>4. QED BY <3>2, <3>3
  <2>3. QED BY <2>1, <2>2 DEF AfterOf
<1>4. Stack' = Stack /\ Context' = Context /\ Object' = Object
  BY <1>3 DEF Stack, Context, Object
<1>5. TypeOK'
  <2>1. objs' \in Seq(Object)
    <3>1. [objs[s] EXCEPT !.open = FALSE] \in Object
      BY <1>1 DEF Object
    <3>2. objs' = [objs EXCEPT ![s] = [objs[s] EXCEPT !.open = FALSE]]
      BY <1>2
    <3>3. objs \in Seq(Object) /\ s \in 1..Len(objs)
      BY DEF SpanInv, TypeOK, Known
    <3>4. QED BY <3>1, <3>2, <3>3, ExceptSeq
  <2>2. objs[s].at.spans \in Stack /\ objs[s].at.runs \in Stack
    BY <1>1 DEF Object, Context
  <2>3. spanStack' \in [Tasks -> Stack] /\ runStack' \in [Tasks -> Stack]
    BY <1>1, <2>2 DEF SpanInv, TypeOK
  <2>4. nest' \in [Tasks -> Stack]
    <3> DEFINE p == SubSeq(nest[t], 1, Len(nest[t]) - 1)
    <3>1. nest[t] \in Seq(Known)
      BY <1>1, NestKnown DEF SpanInv
    <3>2. p \in Stack
      BY <1>1, <3>1, PoppedStack DEF Stack
    <3> HIDE DEF p
    <3>3. nest' = [nest EXCEPT ![t] = p]
      BY <1>2 DEF p
    <3>4. QED BY <3>2, <3>3 DEF SpanInv, TypeOK
  <2>5. Len(objs') <= MaxObjects
    BY <1>2 DEF SpanInv, TypeOK
  <2>6. QED BY <1>3, <1>4, <2>1, <2>3, <2>4, <2>5 DEF SpanInv, TypeOK, Registered, local
<1>6. /\ DOMAIN nest'[t] = 1..(Len(nest[t]) - 1) /\ Len(nest[t]) \in Nat \ {0}
      /\ \A k \in 1..(Len(nest[t]) - 1) : nest'[t][k] = nest[t][k]
      /\ nest'[t] = <<>> <=> Len(nest[t]) = 1
      /\ nest'[t] # <<>> => Top(nest'[t]) = nest[t][Len(nest[t]) - 1]
      /\ \A u \in Tasks \ {t} : nest'[u] = nest[u]
  <2> DEFINE q == nest[t]
             p == SubSeq(q, 1, Len(q) - 1)
  <2>1. q \in Seq(Known) /\ q # <<>> /\ Len(q) \in Nat \ {0}
    BY <1>1, NestKnown DEF SpanInv
  <2>2. nest'[t] = p /\ \A u \in Tasks \ {t} : nest'[u] = nest[u]
    BY <1>1, <1>2 DEF SpanInv, TypeOK
  <2>3. /\ DOMAIN p = 1..(Len(q) - 1)
        /\ \A k \in 1..(Len(q) - 1) : p[k] = q[k]
        /\ p = <<>> <=> Len(q) = 1
        /\ p # <<>> => Top(p) = q[Len(q) - 1]
    <3>1. q \in Seq(Known) /\ q # <<>> /\ p = SubSeq(q, 1, Len(q) - 1)
      BY <2>1
    <3> HIDE DEF q, p, Known
    <3>2. QED BY ONLY <3>1, PoppedStack
  <2> HIDE DEF p
  <2>4. QED BY <2>1, <2>2, <2>3
<1>7. \A u \in Tasks :
        /\ DOMAIN nest[u] = 1..Len(nest[u]) /\ Len(nest[u]) \in Nat
        /\ \A k \in 1..Len(nest[u]) : nest[u][k] \in Known
        /\ nest[u] # <<>> => Top(nest[u]) = nest[u][Len(nest[u])] /\ Top(nest[u]) \in Known
  <2> SUFFICES ASSUME NEW u \in Tasks
               PROVE  /\ DOMAIN nest[u] = 1..Len(nest[u]) /\ Len(nest[u]) \in Nat
                      /\ \A k \in 1..Len(nest[u]) : nest[u][k] \in Known
                      /\ nest[u] # <<>> => Top(nest[u]) = nest[u][Len(nest[u])] /\ Top(nest[u]) \in Known
    OBVIOUS
  <2>1. /\ DOMAIN nest[u] = 1..Len(nest[u]) /\ Len(nest[u]) \in Nat
        /\ \A k \in 1..Len(nest[u]) : nest[u][k] \in Known
        /\ nest[u] = <<>> <=> Len(nest[u]) = 0
        /\ nest[u] # <<>> => Top(nest[u]) = nest[u][Len(nest[u])]
    BY NestKnown DEF SpanInv
  <2>2. QED BY <2>1
<1>8. BlocksOwned'
  <2>1. ASSUME NEW u \in Tasks, NEW k \in DOMAIN nest'[u]
        PROVE  objs'[nest'[u][k]].task = u
    <3>1. k \in DOMAIN nest[u] /\ nest'[u][k] = nest[u][k]
      BY <1>1, <1>6, <1>7
    <3>2. nest[u][k] \in Known /\ objs[nest[u][k]].task = u
      BY <1>7, <3>1 DEF SpanInv, BlocksOwned
    <3>3. QED BY <1>3, <3>1, <3>2
  <2>2. \A u \in Tasks \ alive : nest'[u] = <<>> /\ pc'[u] = "run"
    BY <1>6 DEF SpanInv, BlocksOwned, local
  <2>3. \A x \in Known' : objs'[x].run = Top(objs'[x].at.runs)
    BY <1>3 DEF SpanInv, BlocksOwned
  <2>4. alive' = alive
    OBVIOUS
  <2>5. QED BY <2>1, <2>2, <2>3, <2>4 DEF BlocksOwned
<1>9. ContextFollowsBlocks'
  <2>1. Here(t)' = objs[s].at
    <3>1. /\ spanStack'[t] = IF objs[s].kind = "span" THEN objs[s].at.spans ELSE spanStack[t]
          /\ runStack'[t] = IF objs[s].kind = "run" THEN objs[s].at.runs ELSE runStack[t]
      BY <1>1 DEF SpanInv, TypeOK
    <3>2. /\ objs[s].kind # "span" => spanStack[t] = objs[s].at.spans
          /\ objs[s].kind # "run" => runStack[t] = objs[s].at.runs
      BY <1>1 DEF Here, AfterOf
    <3>3. objs[s].at = [spans |-> objs[s].at.spans, runs |-> objs[s].at.runs]
      BY <1>1 DEF Object, Context
    <3>4. QED BY <3>1, <3>2, <3>3 DEF Here
  <2>2. \A u \in alive \ {t} : Here(u)' = Here(u)
    BY <1>1 DEF SpanInv, TypeOK, Here
  <2>3. SUFFICES ASSUME NEW u \in alive
                 PROVE  /\ Here(u)' = IF nest'[u] = <<>> THEN base[u]
                                      ELSE AfterOf(objs'[Top(nest'[u])], Top(nest'[u]))
                        /\ \A k \in DOMAIN nest'[u] :
                             objs'[nest'[u][k]].at =
                               IF k = 1 THEN base[u]
                               ELSE AfterOf(objs'[nest'[u][k - 1]], nest'[u][k - 1])
    BY DEF ContextFollowsBlocks, After
  <2>4. /\ u \in Tasks
        /\ Here(u) = IF nest[u] = <<>> THEN base[u]
                     ELSE AfterOf(objs[Top(nest[u])], Top(nest[u]))
        /\ \A k \in DOMAIN nest[u] :
             objs[nest[u][k]].at =
               IF k = 1 THEN base[u]
               ELSE AfterOf(objs[nest[u][k - 1]], nest[u][k - 1])
    BY FollowsInstance DEF SpanInv, TypeOK
  <2>5. ASSUME NEW k \in DOMAIN nest'[u]
        PROVE  objs'[nest'[u][k]].at =
                 IF k = 1 THEN base[u] ELSE AfterOf(objs'[nest'[u][k - 1]], nest'[u][k - 1])
    <3>1. /\ k \in DOMAIN nest[u] /\ nest'[u][k] = nest[u][k]
          /\ k # 1 => k - 1 \in DOMAIN nest[u] /\ nest'[u][k - 1] = nest[u][k - 1]
      <4>1. CASE u = t
        <5>1. DOMAIN nest[t] = 1..Len(nest[t]) /\ Len(nest[t]) \in Nat \ {0}
          BY <1>1, <1>6, <1>7
        <5>2. k \in 1..(Len(nest[t]) - 1)
          BY <1>6, <4>1
        <5>3. k \in 1..Len(nest[t]) /\ nest'[t][k] = nest[t][k]
          BY <1>6, <5>1, <5>2
        <5>4. k # 1 => k - 1 \in 1..(Len(nest[t]) - 1) /\ k - 1 \in 1..Len(nest[t])
          BY <5>1, <5>2
        <5>5. k # 1 => nest'[t][k - 1] = nest[t][k - 1]
          BY <1>6, <5>4
        <5>6. QED BY <4>1, <5>1, <5>3, <5>4, <5>5
      <4>2. CASE u # t
        <5>1. nest'[u] = nest[u] /\ DOMAIN nest[u] = 1..Len(nest[u]) /\ Len(nest[u]) \in Nat
          BY <1>6, <1>7, <2>4, <4>2
        <5>2. k \in 1..Len(nest[u])
          BY <5>1
        <5>3. k # 1 => k - 1 \in 1..Len(nest[u])
          BY <5>1, <5>2
        <5>4. QED BY <5>1, <5>2, <5>3
      <4>3. QED BY <4>1, <4>2
    <3>2. k # 1 => k - 1 \in DOMAIN nest[u] /\ nest'[u][k - 1] = nest[u][k - 1]
      BY <3>1
    <3>3. nest[u][k] \in Known /\ (k # 1 => nest[u][k - 1] \in Known)
      BY <1>7, <2>4, <3>1, <3>2
    <3>4. /\ objs'[nest[u][k]].at = objs[nest[u][k]].at
          /\ k # 1 => AfterOf(objs'[nest[u][k - 1]], nest[u][k - 1])
                        = AfterOf(objs[nest[u][k - 1]], nest[u][k - 1])
      BY <1>3, <3>3
    <3>5. QED BY <2>4, <3>1, <3>2, <3>4
  <2>6. Here(u)' = IF nest'[u] = <<>> THEN base[u]
                   ELSE AfterOf(objs'[Top(nest'[u])], Top(nest'[u]))
    <3>1. CASE u # t
      <4>1. nest'[u] = nest[u] /\ Here(u)' = Here(u)
        BY <1>6, <2>2, <2>4, <3>1
      <4>2. nest[u] # <<>> => AfterOf(objs'[Top(nest[u])], Top(nest[u]))
                                = AfterOf(objs[Top(nest[u])], Top(nest[u]))
        BY <1>3, <1>7, <2>4
      <4>3. QED BY <2>4, <4>1, <4>2
    <3>2. CASE u = t
      <4> DEFINE m == Len(nest[t])
      <4>1. /\ m \in DOMAIN nest[t] /\ s = nest[t][m] /\ m \in Nat \ {0}
            /\ m # 1 => m - 1 \in DOMAIN nest[t] /\ nest[t][m - 1] \in Known
        BY <1>1, <1>6, <1>7
      <4>2. objs[s].at = IF m = 1 THEN base[t] ELSE AfterOf(objs[nest[t][m - 1]], nest[t][m - 1])
        BY <2>4, <3>2, <4>1
      <4>3. m # 1 => AfterOf(objs'[nest[t][m - 1]], nest[t][m - 1])
                       = AfterOf(objs[nest[t][m - 1]], nest[t][m - 1])
        BY <1>3, <4>1
      <4>4. QED BY <1>6, <2>1, <3>2, <4>2, <4>3
    <3>3. QED BY <3>1, <3>2
  <2>7. QED BY <2>5, <2>6
<1>10. CollectedByItsRun' /\ StepRecordedInItsRun'
  BY <1>3 DEF CollectedByItsRun, StepRecordedInItsRun, Registered
<1>11. InsideARun'
  <2>1. \A u \in Tasks \ {t} : runStack'[u] = runStack[u]
    BY <1>1 DEF SpanInv, TypeOK
  <2>2. QED BY <2>1 DEF SpanInv, InsideARun, local
<1>12. QED BY <1>5, <1>8, <1>9, <1>10, <1>11 DEF SpanInv

-----------------------------------------------------------------------------
(* The actions *)

(* A trace_id that a new object may carry.                                 *)
LEMMA InheritedKnown ==
  ASSUME TypeOK, NEW t \in Tasks
  PROVE  Inherited(t) \in 1..New /\ New \in 1..New /\ New \in Nat
<1>1. Len(objs) \in Nat /\ Known = 1..Len(objs)
  BY DEF TypeOK, Known
<1>2. New \in 1..New /\ New \in Nat /\ \A s \in Known : s \in 1..New
  BY <1>1 DEF New
<1>3. \A s \in Known : objs[s].trace \in 1..New
  <2>1. \A s \in Known : objs[s] \in Object
    BY DEF TypeOK, Known
  <2>2. \A s \in Known : objs[s].trace \in Known
    BY <2>1 DEF Object
  <2>3. QED BY <1>2, <2>2
<1>4. /\ spanStack[t] # <<>> => Top(spanStack[t]) \in Known
      /\ runStack[t] # <<>> => Top(runStack[t]) \in Known
  <2>1. spanStack[t] \in Seq(1..Len(objs)) /\ runStack[t] \in Seq(1..Len(objs))
    BY <1>1 DEF TypeOK, Stack
  <2>2. QED BY <1>1, <2>1, TopOfStack
<1>5. QED BY <1>2, <1>3, <1>4 DEF Inherited

LEMMA EnterSpanKeepsInv ==
  ASSUME Blocks, SpanInv, NEW t \in Tasks, EnterSpan(t) PROVE SpanInv'
<1>1. Inherited(t) \in 1..New /\ New \in Nat
  BY InheritedKnown DEF SpanInv
<1>2. t \in alive /\ 0 \in Nat
  BY DEF EnterSpan, Ready
<1>3. HasRoom /\ Enter(t, Opened(t, "span", Inherited(t), 0))
  BY DEF EnterSpan
<1>4. spanStack' = [spanStack EXCEPT ![t] = Append(@, New)] /\ runStack' = runStack
      /\ UNCHANGED <<base, alive, recorded, collected, events>>
  BY DEF EnterSpan, runs
<1>5. /\ count' \in [Ids -> Nat] /\ index' \in [Tasks -> Nat] /\ loaded' \in [Tasks -> Nat]
      /\ pc' \in [Tasks -> {"run", "load", "store"}]
      /\ \A u \in Tasks \ alive : pc'[u] = "run"
      /\ \A u \in Tasks : pc'[u] # "run" => pc[u] # "run"
  BY DEF EnterSpan, SpanInv, TypeOK, BlocksOwned, runs, local
<1>6. QED BY <1>1, <1>2, <1>3, <1>4, <1>5, EnterKeepsInv

LEMMA EnterRunKeepsInv ==
  ASSUME Blocks, SpanInv, NEW t \in Tasks, EnterRun(t) PROVE SpanInv'
<1>1. New \in 1..New /\ New \in Nat
  BY InheritedKnown DEF SpanInv
<1>2. t \in alive /\ 0 \in Nat
  BY DEF EnterRun, Ready
<1>3. HasRoom /\ Enter(t, Opened(t, "run", New, 0))
  BY DEF EnterRun
<1>4. runStack' = [runStack EXCEPT ![t] = Append(@, New)] /\ spanStack' = spanStack
      /\ UNCHANGED <<base, alive, recorded, collected, events>>
  BY DEF EnterRun, runs
<1>5. /\ count' \in [Ids -> Nat] /\ index' \in [Tasks -> Nat] /\ loaded' \in [Tasks -> Nat]
      /\ pc' \in [Tasks -> {"run", "load", "store"}]
      /\ \A u \in Tasks \ alive : pc'[u] = "run"
      /\ \A u \in Tasks : pc'[u] # "run" => pc[u] # "run"
  BY DEF EnterRun, SpanInv, TypeOK, BlocksOwned, runs, local
<1>6. QED BY <1>1, <1>2, <1>3, <1>4, <1>5, EnterKeepsInv

LEMMA EnterStepKeepsInv ==
  ASSUME Blocks, SpanInv, NEW t \in Tasks, EnterStep(t) PROVE SpanInv'
<1>1. Inherited(t) \in 1..New /\ New \in Nat
  BY InheritedKnown DEF SpanInv
<1>2. t \in alive /\ index[t] \in Nat
  BY DEF EnterStep, SpanInv, TypeOK, BlocksOwned
<1>3. HasRoom /\ Enter(t, Opened(t, "step", Inherited(t), index[t]))
  BY DEF EnterStep
<1>4. spanStack' = spanStack /\ runStack' = runStack
      /\ UNCHANGED <<base, alive, recorded, collected, events>>
  BY DEF EnterStep, stacks
<1>5. count' \in [Ids -> Nat]
  <2>1. NextCount(t) \in Nat
    BY DEF NextCount, SpanInv, TypeOK
  <2>2. QED BY <2>1 DEF EnterStep, SpanInv, TypeOK
<1>6. index' \in [Tasks -> Nat] /\ loaded' \in [Tasks -> Nat]
  BY DEF EnterStep, SpanInv, TypeOK
<1>7. pc' = [pc EXCEPT ![t] = "run"]
  BY DEF EnterStep
<1>8. /\ pc' \in [Tasks -> {"run", "load", "store"}]
      /\ \A u \in Tasks \ alive : pc'[u] = "run"
      /\ \A u \in Tasks : pc'[u] # "run" => pc[u] # "run"
  BY <1>7 DEF SpanInv, TypeOK, BlocksOwned
<1>9. QED BY <1>1, <1>2, <1>3, <1>4, <1>5, <1>6, <1>8, EnterKeepsInv

(* The steps inside next_step_index before the object exists.              *)
LEMMA CounterKeepsInv ==
  ASSUME SpanInv, NEW t \in Tasks, ReadIndex(t) \/ LoadCount(t) PROVE SpanInv'
<1>1. UNCHANGED <<objs, stacks, nest, base, alive, runs, events>>
  BY DEF ReadIndex, LoadCount
<1>2. ContextFollowsBlocks'
  BY <1>1 DEF SpanInv, ContextFollowsBlocks, Here, After, stacks
<1>3. /\ pc' \in [Tasks -> {"run", "load", "store"}]
      /\ t \in alive /\ \A u \in Tasks \ alive : pc'[u] = "run"
  BY DEF ReadIndex, LoadCount, Ready, SpanInv, TypeOK, BlocksOwned
<1>4. index' \in [Tasks -> Nat] /\ loaded' \in [Tasks -> Nat]
  <2>1. runStack[t] \in Seq(1..Len(objs)) /\ Len(objs) \in Nat /\ Len(objs) <= MaxObjects
    BY DEF SpanInv, TypeOK, Stack, Known
  <2>2. runStack[t] # <<>>
    BY DEF ReadIndex, LoadCount, SpanInv, InsideARun
  <2>3. Top(runStack[t]) \in 1..Len(objs)
    BY <2>1, <2>2, TopOfStack
  <2>4. Top(runStack[t]) \in Ids
    BY <2>1, <2>3, SpanAssumption DEF Ids
  <2>5. count[Top(runStack[t])] \in Nat
    BY <2>4 DEF SpanInv, TypeOK
  <2>6. CASE ReadIndex(t)
    <3>1. index' = [index EXCEPT ![t] = count[Top(runStack[t])]] /\ loaded' = loaded
      BY <2>6 DEF ReadIndex
    <3>2. QED BY <2>5, <3>1 DEF SpanInv, TypeOK
  <2>7. CASE LoadCount(t)
    <3>1. loaded' = [loaded EXCEPT ![t] = count[Top(runStack[t])]] /\ index' = index
      BY <2>7 DEF LoadCount
    <3>2. QED BY <2>5, <3>1 DEF SpanInv, TypeOK
  <2>8. QED BY <2>6, <2>7
<1>5. TypeOK'
  BY <1>1, <1>3, <1>4 DEF SpanInv, TypeOK, stacks, runs, events, Known, Stack, Context, Object
<1>6. BlocksOwned'
  BY <1>1, <1>3 DEF SpanInv, BlocksOwned, Known
<1>7. CollectedByItsRun' /\ StepRecordedInItsRun'
  BY <1>1 DEF SpanInv, CollectedByItsRun, StepRecordedInItsRun, runs
<1>8. InsideARun'
  BY <1>1 DEF ReadIndex, LoadCount, SpanInv, TypeOK, InsideARun, stacks
<1>9. QED BY <1>2, <1>5, <1>6, <1>7, <1>8 DEF SpanInv

(* What the exit of a block may assume, and the sequences an exit appends  *)
(* its object to: those of the run the object was entered under.           *)
LEMMA ExitFacts ==
  ASSUME Blocks, SpanInv, NEW t \in Tasks, NEW s \in Ids, MayExit(t, s)
  PROVE  /\ t \in alive /\ s \in Known /\ s = Top(nest[t]) /\ pc[t] = "run"
         /\ objs[s].kind # "run" => Top(runStack[t]) = objs[s].run
         /\ objs[s].task = t
<1>1. t \in alive /\ s \in Known /\ s = Top(nest[t]) /\ pc[t] = "run"
  BY DEF MayExit, Ready, Known
<1>2. QED BY <1>1, InnermostBlock

LEMMA RegisterKeeps ==
  ASSUME TypeOK, NEW s \in Known, NEW f, NEW g, Registered(f),
         g = [r \in Ids |-> IF r = objs[s].run THEN Append(f[r], s) ELSE f[r]]
  PROVE  Registered(g)
<1>0. /\ f \in [Ids -> Stack]
      /\ \A r \in Ids : \A i \in DOMAIN f[r] : objs[f[r][i]].run = r
  BY DEF Registered
<1>1. \A r \in Ids : f[r] \in Seq(Known)
  BY <1>0 DEF Stack
<1> HIDE DEF Known
<1>2. g \in [Ids -> Stack]
  BY <1>0, <1>1 DEF Stack
<1>3. ASSUME NEW r \in Ids, NEW i \in DOMAIN g[r]
      PROVE  g[r][i] \in Known /\ objs[g[r][i]].run = r
  <2>1. f[r] \in Seq(Known) /\ \A j \in DOMAIN f[r] : f[r][j] \in Known
    BY <1>1
  <2>2. CASE r # objs[s].run
    BY <1>0, <1>3, <2>1, <2>2
  <2>3. CASE r = objs[s].run
    <3>1. g[r] = Append(f[r], s)
      BY <2>3
    <3>2. /\ DOMAIN g[r] = 1..(Len(f[r]) + 1) /\ DOMAIN f[r] = 1..Len(f[r])
          /\ \A k \in 1..Len(f[r]) : g[r][k] = f[r][k]
          /\ g[r][Len(f[r]) + 1] = s /\ Len(f[r]) \in Nat
      BY <2>1, <3>1
    <3>3. i \in DOMAIN f[r] \/ i = Len(f[r]) + 1
      BY <1>3, <3>2
    <3>4. CASE i \in DOMAIN f[r]
      BY <1>0, <2>1, <3>2, <3>4
    <3>5. CASE i = Len(f[r]) + 1
      BY <2>3, <3>2, <3>5
    <3>6. QED BY <3>3, <3>4, <3>5
  <2>4. QED BY <2>2, <2>3
<1>4. QED BY <1>2, <1>3 DEF Registered

(* Sequences that are left alone, in the form LeaveKeepsInv asks for.      *)
LEMMA KeptSequences ==
  ASSUME SpanInv
  PROVE  Registered(collected) /\ Registered(recorded)
<1>1. collected \in [Ids -> Stack] /\ recorded \in [Ids -> Stack]
  BY DEF SpanInv, TypeOK
<1>2. \A r \in Ids : collected[r] \in Seq(Known) /\ recorded[r] \in Seq(Known)
  BY <1>1 DEF Stack
<1> HIDE DEF Known
<1>3. \A r \in Ids : /\ \A i \in DOMAIN collected[r] : collected[r][i] \in Known
                     /\ \A i \in DOMAIN recorded[r] : recorded[r][i] \in Known
  BY <1>2
<1>4. QED BY <1>1, <1>3 DEF SpanInv, CollectedByItsRun, StepRecordedInItsRun, Registered

LEMMA DispatchTypes ==
  ASSUME SpanInv, NEW s \in Known, Dispatched(s) \/ DispatchRaised(s)
  PROVE  emitted' \in SUBSET Known /\ lost' \in SUBSET Known
BY DEF Dispatched, DispatchRaised, SpanInv, TypeOK

LEMMA ExitSpanKeepsInv ==
  ASSUME Blocks, SpanInv, NEW t \in Tasks, NEW s \in Ids, ExitSpan(t, s) PROVE SpanInv'
<1>1. MayExit(t, s) /\ objs[s].kind = "span" /\ Leave(t, s)
      /\ (Dispatched(s) \/ DispatchRaised(s))
      /\ spanStack' = [spanStack EXCEPT ![t] = objs[s].at.spans] /\ runStack' = runStack
      /\ UNCHANGED <<base, alive, count, recorded, local>>
  BY DEF ExitSpan, RestoredSpans
<1>2. /\ t \in alive /\ s \in Known /\ s = Top(nest[t]) /\ pc[t] = "run"
      /\ Top(runStack[t]) = objs[s].run
  BY <1>1, ExitFacts
<1>3. emitted' \in SUBSET Known /\ lost' \in SUBSET Known
  BY <1>1, <1>2, DispatchTypes
<1>4. Registered(collected')
  <2>1. CASE collected' = collected
    BY <2>1, KeptSequences
  <2>2. CASE collected' = [r \in Ids |-> IF r = objs[s].run THEN Append(collected[r], s)
                                                             ELSE collected[r]]
    <3>1. TypeOK /\ Registered(collected)
      BY KeptSequences DEF SpanInv
    <3>2. QED BY <1>2, <2>2, <3>1, RegisterKeeps
  <2>3. QED BY <1>2, <2>1, <2>2 DEF ExitSpan, Collector
<1>5. Registered(recorded')
  BY <1>1, KeptSequences
<1>6. QED BY <1>1, <1>2, <1>3, <1>4, <1>5, LeaveKeepsInv

LEMMA ExitStepKeepsInv ==
  ASSUME Blocks, SpanInv, NEW t \in Tasks, NEW s \in Ids, ExitStep(t, s) PROVE SpanInv'
<1>1. MayExit(t, s) /\ objs[s].kind = "step" /\ Leave(t, s)
      /\ (Dispatched(s) \/ DispatchRaised(s))
      /\ spanStack' = spanStack /\ runStack' = runStack
      /\ UNCHANGED <<base, alive, count, collected, local>>
  BY DEF ExitStep, stacks
<1>2. /\ t \in alive /\ s \in Known /\ s = Top(nest[t]) /\ pc[t] = "run"
      /\ Top(runStack[t]) = objs[s].run
  BY <1>1, ExitFacts
<1>3. emitted' \in SUBSET Known /\ lost' \in SUBSET Known
  BY <1>1, <1>2, DispatchTypes
<1>4. Registered(recorded')
  <2>1. recorded' = [r \in Ids |-> IF r = objs[s].run THEN Append(recorded[r], s)
                                                       ELSE recorded[r]]
    BY <1>2 DEF ExitStep, StepOwner
  <2>2. QED
    <3>1. TypeOK /\ Registered(recorded)
      BY KeptSequences DEF SpanInv
    <3>2. QED BY <1>2, <2>1, <3>1, RegisterKeeps
<1>5. Registered(collected')
  BY <1>1, KeptSequences
<1>6. QED BY <1>1, <1>2, <1>3, <1>4, <1>5, LeaveKeepsInv

LEMMA ExitRunKeepsInv ==
  ASSUME Blocks, SpanInv, NEW t \in Tasks, NEW s \in Ids, ExitRun(t, s) PROVE SpanInv'
<1>1. MayExit(t, s) /\ objs[s].kind = "run" /\ Leave(t, s)
      /\ (Dispatched(s) \/ DispatchRaised(s))
      /\ runStack' = [runStack EXCEPT ![t] = objs[s].at.runs] /\ spanStack' = spanStack
      /\ UNCHANGED <<base, alive, count, recorded, collected, local>>
  BY DEF ExitRun, RestoredRuns, runs
<1>2. t \in alive /\ s \in Known /\ s = Top(nest[t]) /\ pc[t] = "run"
  BY <1>1, ExitFacts
<1>3. emitted' \in SUBSET Known /\ lost' \in SUBSET Known
  BY <1>1, <1>2, DispatchTypes
<1>4. Registered(collected') /\ Registered(recorded')
  BY <1>1, KeptSequences
<1>5. QED BY <1>1, <1>2, <1>3, <1>4, LeaveKeepsInv

(* A with block is exited by the task that entered it.                     *)
LEMMA NeverElsewhere ==
  ASSUME Blocks, SpanInv, NEW t \in Tasks, NEW s \in Ids PROVE ~ExitElsewhere(t, s)
BY ExitFacts DEF ExitElsewhere, OwnToken

(* A new task has no block: it sees the context it was started in.         *)
LEMMA SpawnKeepsInv ==
  ASSUME SpanInv, NEW t \in Tasks, NEW u \in Tasks, Spawn(t, u) PROVE SpanInv'
<1>1. /\ UNCHANGED <<objs, nest, runs, events, local>>
      /\ u \notin alive /\ t \in alive /\ alive' = alive \cup {u} /\ t # u
      /\ spanStack' = [spanStack EXCEPT ![u] = spanStack[t]]
      /\ runStack' = [runStack EXCEPT ![u] = runStack[t]]
      /\ base' = [base EXCEPT ![u] = Here(t)]
  BY DEF Spawn, Ready, InheritedContext, Here
<1>2. Known' = Known /\ Stack' = Stack /\ Context' = Context /\ Object' = Object
  BY <1>1 DEF Known, Stack, Context, Object
<1>3. TypeOK'
  <2>1. Here(t) \in Context
    BY DEF SpanInv, TypeOK, Here, Context
  <2>2. base' \in [Tasks -> Context] /\ spanStack' \in [Tasks -> Stack]
        /\ runStack' \in [Tasks -> Stack]
    BY <1>1, <2>1 DEF SpanInv, TypeOK
  <2>3. QED BY <1>1, <1>2, <2>2 DEF SpanInv, TypeOK, runs, events, local
<1>4. BlocksOwned' /\ InsideARun'
  <2>1. BlocksOwned'
    BY <1>1, <1>2 DEF SpanInv, BlocksOwned, local
  <2>2. pc[u] = "run" /\ \A v \in Tasks \ {u} : runStack'[v] = runStack[v]
    BY <1>1 DEF SpanInv, TypeOK, BlocksOwned
  <2>3. QED BY <1>1, <2>1, <2>2 DEF SpanInv, InsideARun, local
<1>5. ContextFollowsBlocks'
  <2>1. \A v \in alive : Here(v)' = Here(v) /\ base'[v] = base[v]
    BY <1>1 DEF SpanInv, TypeOK, Here
  <2>2. Here(u)' = Here(t) /\ base'[u] = Here(t) /\ nest[u] = <<>>
    BY <1>1 DEF SpanInv, TypeOK, BlocksOwned, Here
  <2>3. SUFFICES ASSUME NEW v \in alive'
                 PROVE  /\ Here(v)' = IF nest[v] = <<>> THEN base'[v]
                                      ELSE AfterOf(objs[Top(nest[v])], Top(nest[v]))
                        /\ \A k \in DOMAIN nest[v] :
                             objs[nest[v][k]].at =
                               IF k = 1 THEN base'[v]
                               ELSE AfterOf(objs[nest[v][k - 1]], nest[v][k - 1])
    BY <1>1 DEF ContextFollowsBlocks, After
  <2>4. CASE v = u
    BY <2>2, <2>4
  <2>5. CASE v \in alive
    BY <2>1, <2>5, FollowsInstance DEF SpanInv
  <2>6. QED BY <1>1, <2>4, <2>5
<1>6. CollectedByItsRun' /\ StepRecordedInItsRun'
  BY <1>1 DEF SpanInv, CollectedByItsRun, StepRecordedInItsRun, runs
<1>7. QED BY <1>3, <1>4, <1>5, <1>6 DEF SpanInv

LEMMA StutterKeepsInv ==
  ASSUME SpanInv, UNCHANGED vars PROVE SpanInv'
<1>1. UNCHANGED <<objs, spanStack, runStack, nest, base, alive, count, recorded,
                  collected, emitted, lost, pc, index, loaded>>
  BY DEF vars, stacks, runs, events, local
<1>2. TypeOK'
  BY <1>1 DEF SpanInv, TypeOK, Known, Stack, Context, Object
<1>3. BlocksOwned' /\ InsideARun'
  BY <1>1 DEF SpanInv, BlocksOwned, InsideARun, Known
<1>4. ContextFollowsBlocks'
  BY <1>1 DEF SpanInv, ContextFollowsBlocks, Here, After
<1>5. CollectedByItsRun' /\ StepRecordedInItsRun'
  BY <1>1 DEF SpanInv, CollectedByItsRun, StepRecordedInItsRun
<1>6. QED BY <1>2, <1>3, <1>4, <1>5 DEF SpanInv

-----------------------------------------------------------------------------
(* The theorems *)

LEMMA InitInv == Init => SpanInv
<1> SUFFICES ASSUME Init PROVE SpanInv
  OBVIOUS
<1>1. Known = {} /\ <<>> \in Stack
  BY DEF Init, Known, Stack
<1>2. TypeOK
  BY <1>1, SpanAssumption DEF Init, TypeOK, Empty, Context
<1>3. BlocksOwned /\ InsideARun
  BY <1>1 DEF Init, BlocksOwned, InsideARun
<1>4. ContextFollowsBlocks
  BY SpanAssumption DEF Init, ContextFollowsBlocks, Here, Empty
<1>5. CollectedByItsRun /\ StepRecordedInItsRun
  BY DEF Init, CollectedByItsRun, StepRecordedInItsRun
<1>6. QED BY <1>2, <1>3, <1>4, <1>5 DEF SpanInv

LEMMA NextKeepsInv ==
  ASSUME Blocks, SpanInv, [Next]_vars PROVE SpanInv'
<1>1. ASSUME NEW t \in Tasks, EnterSpan(t) \/ EnterRun(t) \/ EnterStep(t) PROVE SpanInv'
  BY <1>1, EnterSpanKeepsInv, EnterRunKeepsInv, EnterStepKeepsInv
<1>2. ASSUME NEW t \in Tasks, ReadIndex(t) \/ LoadCount(t) PROVE SpanInv'
  BY <1>2, CounterKeepsInv
<1>3. ASSUME NEW t \in Tasks, NEW s \in Ids,
             ExitSpan(t, s) \/ ExitStep(t, s) \/ ExitRun(t, s) PROVE SpanInv'
  BY <1>3, ExitSpanKeepsInv, ExitStepKeepsInv, ExitRunKeepsInv
<1>4. ASSUME NEW t \in Tasks, NEW s \in Ids, ExitElsewhere(t, s) PROVE SpanInv'
  BY <1>4, NeverElsewhere
<1>5. ASSUME NEW t \in Tasks, NEW u \in Tasks, Spawn(t, u) PROVE SpanInv'
  BY <1>5, SpawnKeepsInv
<1>6. ASSUME UNCHANGED vars PROVE SpanInv'
  BY <1>6, StutterKeepsInv
<1>7. QED BY <1>1, <1>2, <1>3, <1>4, <1>5, <1>6 DEF Next, Done

(* With blocks keep the type of the state and every conjunct of the        *)
(* inductive invariant, for any number of tasks, asyncio or threads,       *)
(* raising or not.                                                         *)
THEOREM SpanInvariant == Blocks => (Spec => []SpanInv)
<1>1. SUFFICES ASSUME Blocks PROVE Spec => []SpanInv
  OBVIOUS
<1>2. SpanInv /\ [Next]_vars => SpanInv'
  BY <1>1, NextKeepsInv
<1>3. QED BY <1>2, InitInv, PTL DEF Spec

(* Type correctness of the span and run stacks and all that hangs on them. *)
THEOREM SpanTypes == Blocks => (Spec => []TypeOK)
<1>1. SpanInv => TypeOK
  BY DEF SpanInv
<1>2. QED BY <1>1, SpanInvariant, PTL

(* A task sees exactly what it inherited plus its own open with blocks:    *)
(* the token resets of __exit__ undo the pushes of __enter__, in whatever  *)
(* order the tasks enter, exit, spawn and outlive one another.             *)
THEOREM BlocksKeepContext == Blocks => (Spec => []ContextFollowsBlocks)
<1>1. SpanInv => ContextFollowsBlocks
  BY DEF SpanInv
<1>2. QED BY <1>1, SpanInvariant, PTL

(* What emit_span and agent_step's exit register with the innermost run at *)
(* exit was entered under that run.                                        *)
THEOREM RegisteredWhereEntered ==
  Blocks => (Spec => [](CollectedByItsRun /\ StepRecordedInItsRun))
<1>1. SpanInv => CollectedByItsRun /\ StepRecordedInItsRun
  BY DEF SpanInv
<1>2. QED BY <1>1, SpanInvariant, PTL

-----------------------------------------------------------------------------
(* With blocks or handles: the invariants *)

(* What holds with handles too: the types, and a task inside               *)
(* next_step_index is alive and still has the run it asked.                *)
TaskInv == /\ TypeOK /\ InsideARun
           /\ \A t \in Tasks \ alive : pc[t] = "run"

(* Asyncio: at most one task is inside next_step_index, with the count it  *)
(* read; the count of a run is the number of its steps.                    *)
CountInv ==
  /\ StepIndexesDense
  /\ \A r \in Ids : count[r] = Cardinality(StepsOf(r))
  /\ \A t, u \in Tasks : pc[t] # "run" /\ pc[u] # "run" => t = u
  /\ \A t \in Tasks :
       /\ pc[t] # "run" => index[t] = count[Top(runStack[t])]
       /\ pc[t] = "store" => loaded[t] = count[Top(runStack[t])]

(* The with blocks of a task are open, and each is newer than the one      *)
(* around it.                                                              *)
BlocksAreOpen ==
  \A t \in Tasks : \A k \in DOMAIN nest[t] :
    /\ objs[nest[t][k]].open
    /\ \A j \in 1..(k - 1) : nest[t][j] < nest[t][k]

-----------------------------------------------------------------------------
(* What an entry and an exit change, with blocks or with handles *)

LEMMA StacksKnown ==
  ASSUME TypeOK, NEW t \in Tasks
  PROVE  /\ Len(objs) \in Nat /\ Known = 1..Len(objs) /\ New = Len(objs) + 1
         /\ Known \subseteq Ids
         /\ runStack[t] # <<>> => Top(runStack[t]) \in Known
         /\ Top(runStack[t]) \in Known \cup {0}
<1>1. Len(objs) \in Nat /\ Known = 1..Len(objs) /\ Len(objs) <= MaxObjects
  BY DEF TypeOK, Known
<1>2. runStack[t] \in Seq(1..Len(objs))
  BY <1>1 DEF TypeOK, Stack
<1>3. QED BY <1>1, <1>2, TopOfStack, SpanAssumption DEF New, Ids

LEMMA EnterChanges ==
  ASSUME TaskInv, NEW t \in Tasks, EnterSpan(t) \/ EnterRun(t) \/ EnterStep(t)
  PROVE  /\ t \in alive /\ HasRoom
         /\ Known' = Known \cup {New} /\ New \notin Known /\ Len(objs') = New
         /\ objs' \in Seq(Object')
         /\ \A s \in Known : objs'[s] = objs[s]
         /\ objs'[New].at = Here(t) /\ objs'[New].run = Top(runStack[t])
         /\ objs'[New].task = t /\ objs'[New].open
         /\ objs'[New].kind = "step" <=> EnterStep(t)
         /\ EnterStep(t) => objs'[New].index = index[t]
         /\ nest' = IF Blocks THEN [nest EXCEPT ![t] = Append(@, New)] ELSE nest
         /\ spanStack' = spanStack \/ spanStack' = [spanStack EXCEPT ![t] = Append(@, New)]
         /\ runStack' = runStack \/ runStack' = [runStack EXCEPT ![t] = Append(@, New)]
         /\ UNCHANGED <<base, alive, recorded, collected, events, index, loaded>>
<1> DEFINE Given(kind, trace, idx) ==
             /\ kind \in {"span", "step", "run"} /\ trace \in 1..New /\ idx \in Nat
             /\ Enter(t, Opened(t, kind, trace, idx))
             /\ kind = "step" <=> EnterStep(t)
             /\ EnterStep(t) => idx = index[t]
<1>1. PICK kind, trace, idx : Given(kind, trace, idx)
  <2>1. Inherited(t) \in 1..New /\ New \in 1..New /\ index[t] \in Nat
    BY InheritedKnown DEF TaskInv, TypeOK
  <2>2. EnterStep(t) => pc[t] = "store"
    BY DEF EnterStep
  <2>3. EnterSpan(t) \/ EnterRun(t) => pc[t] = "run"
    BY DEF EnterSpan, EnterRun, Ready
  <2>4. CASE EnterSpan(t)
    <3>1. Given("span", Inherited(t), 0)
      BY <2>1, <2>2, <2>3, <2>4 DEF EnterSpan
    <3>2. QED BY <3>1
  <2>5. CASE EnterRun(t)
    <3>1. Given("run", New, 0)
      BY <2>1, <2>2, <2>3, <2>5 DEF EnterRun
    <3>2. QED BY <3>1
  <2>6. CASE EnterStep(t)
    <3>1. Given("step", Inherited(t), index[t])
      BY <2>1, <2>6 DEF EnterStep
    <3>2. QED BY <3>1
  <2>7. QED BY <2>4, <2>5, <2>6
<1>2. /\ Len(objs) \in Nat /\ Known = 1..Len(objs) /\ Known' = 1..New
      /\ objs' \in Seq(Object')
      /\ \A s \in Known : objs'[s] = objs[s]
      /\ objs'[New] = Opened(t, kind, trace, idx)
      /\ nest' = IF Blocks THEN [nest EXCEPT ![t] = Append(@, New)] ELSE nest
  BY <1>1, EnterObjects DEF TaskInv
<1>3. Known' = Known \cup {New} /\ New \notin Known /\ Len(objs') = New
  <2>1. objs' = Append(objs, Opened(t, kind, trace, idx)) /\ objs \in Seq(Object)
    BY <1>1 DEF Enter, TaskInv, TypeOK
  <2>2. QED BY <1>2, <2>1 DEF New
<1>4. t \in alive /\ HasRoom
  BY DEF EnterSpan, EnterRun, EnterStep, Ready, TaskInv
<1>5. /\ spanStack' = spanStack \/ spanStack' = [spanStack EXCEPT ![t] = Append(@, New)]
      /\ runStack' = runStack \/ runStack' = [runStack EXCEPT ![t] = Append(@, New)]
      /\ UNCHANGED <<base, alive, recorded, collected, events, index, loaded>>
  BY DEF EnterSpan, EnterRun, EnterStep, stacks, runs, local
<1>6. /\ objs'[New].at = Here(t) /\ objs'[New].run = Top(runStack[t])
      /\ objs'[New].task = t /\ objs'[New].open
      /\ objs'[New].kind = kind /\ objs'[New].index = idx
  BY <1>2 DEF Opened
<1>7. QED BY <1>1, <1>2, <1>3, <1>4, <1>5, <1>6

Exits(t, s) == ExitSpan(t, s) \/ ExitStep(t, s) \/ ExitRun(t, s) \/ ExitElsewhere(t, s)

LEMMA ExitChanges ==
  ASSUME TaskInv, NEW t \in Tasks, NEW s \in Ids, Exits(t, s)
  PROVE  /\ t \in alive /\ s \in Known /\ pc[t] = "run" /\ Ready(t)
         /\ Known' = Known /\ objs' \in Seq(Object) /\ Len(objs') = Len(objs)
         /\ \A x \in Known :
              /\ objs'[x].kind = objs[x].kind /\ objs'[x].at = objs[x].at
              /\ objs'[x].task = objs[x].task /\ objs'[x].run = objs[x].run
              /\ objs'[x].index = objs[x].index
              /\ objs'[x].open = (objs[x].open /\ x # s)
         /\ Blocks => s = Top(nest[t])
         /\ nest' = IF Blocks THEN [nest EXCEPT ![t] = SubSeq(@, 1, Len(@) - 1)] ELSE nest
         /\ \/ spanStack' = spanStack
            \/ spanStack' = [spanStack EXCEPT ![t] = objs[s].at.spans] /\ objs[s].task = t
         /\ \/ runStack' = runStack
            \/ runStack' = [runStack EXCEPT ![t] = objs[s].at.runs] /\ objs[s].task = t
         /\ UNCHANGED <<base, alive, count, local>>
<1>1. MayExit(t, s) /\ Leave(t, s)
  BY DEF Exits, ExitSpan, ExitStep, ExitRun, ExitElsewhere
<1>2. t \in alive /\ s \in Known /\ pc[t] = "run" /\ Ready(t)
  BY <1>1 DEF MayExit, Ready, Known
<1>3. objs' = [objs EXCEPT ![s].open = FALSE] /\ objs[s] \in Object
      /\ objs \in Seq(Object) /\ s \in 1..Len(objs)
  BY <1>1, <1>2 DEF Leave, TaskInv, TypeOK, Known
<1>4. objs' \in Seq(Object)
  <2>1. [objs[s] EXCEPT !.open = FALSE] \in Object
    BY <1>3 DEF Object
  <2>2. objs' = [objs EXCEPT ![s] = [objs[s] EXCEPT !.open = FALSE]]
    BY <1>3
  <2>3. QED BY <1>3, <2>1, <2>2, ExceptSeq
<1>5. Known' = Known /\ Len(objs') = Len(objs)
  BY <1>3 DEF Known
<1>6. ASSUME NEW x \in Known
      PROVE  /\ objs'[x].kind = objs[x].kind /\ objs'[x].at = objs[x].at
             /\ objs'[x].task = objs[x].task /\ objs'[x].run = objs[x].run
             /\ objs'[x].index = objs[x].index
             /\ objs'[x].open = (objs[x].open /\ x # s)
  <2>1. objs[x] \in Object
    BY DEF TaskInv, TypeOK, Known
  <2>2. CASE x = s
    <3>1. objs'[s] = [objs[s] EXCEPT !.open = FALSE]
      BY <1>2, <1>3 DEF Known
    <3>2. QED BY <2>1, <2>2, <3>1 DEF Object
  <2>3. CASE x # s
    <3>1. objs'[x] = objs[x]
      BY <1>3, <2>3 DEF Known
    <3>2. objs[x].open \in BOOLEAN
      BY <2>1 DEF Object
    <3>3. QED BY <2>3, <3>1, <3>2
  <2>4. QED BY <2>2, <2>3
<1>7. /\ \/ spanStack' = spanStack
         \/ spanStack' = [spanStack EXCEPT ![t] = objs[s].at.spans] /\ objs[s].task = t
      /\ \/ runStack' = runStack
         \/ runStack' = [runStack EXCEPT ![t] = objs[s].at.runs] /\ objs[s].task = t
      /\ UNCHANGED <<base, alive, count, local>>
  BY DEF Exits, ExitSpan, ExitStep, ExitRun, ExitElsewhere, stacks, runs, OwnToken,
         RestoredSpans, RestoredRuns
<1>8. /\ Blocks => s = Top(nest[t])
      /\ nest' = IF Blocks THEN [nest EXCEPT ![t] = SubSeq(@, 1, Len(@) - 1)] ELSE nest
  BY <1>1 DEF MayExit, Leave
<1>9. QED BY <1>2, <1>4, <1>5, <1>6, <1>7, <1>8

-----------------------------------------------------------------------------
(* The types, with blocks or with handles *)

LEMMA EnterTypes ==
  ASSUME TaskInv, NEW t \in Tasks, EnterSpan(t) \/ EnterRun(t) \/ EnterStep(t)
  PROVE  TaskInv'
<1>1. /\ t \in alive /\ HasRoom
      /\ Known' = Known \cup {New} /\ New \notin Known /\ Len(objs') = New
      /\ objs' \in Seq(Object')
      /\ nest' = IF Blocks THEN [nest EXCEPT ![t] = Append(@, New)] ELSE nest
      /\ spanStack' = spanStack \/ spanStack' = [spanStack EXCEPT ![t] = Append(@, New)]
      /\ runStack' = runStack \/ runStack' = [runStack EXCEPT ![t] = Append(@, New)]
      /\ UNCHANGED <<base, alive, recorded, collected, events, index, loaded>>
  BY EnterChanges
<1>2. Len(objs) \in Nat /\ Known = 1..Len(objs) /\ New = Len(objs) + 1
  BY StacksKnown DEF TaskInv
<1>3. \A q \in Stack : q \in Stack' /\ Append(q, New) \in Stack'
  <2>1. Known' = 1..(Len(objs) + 1)
    BY <1>1, <1>2
  <2>2. QED BY <1>2, <2>1, StackGrows DEF Stack
<1>4. spanStack' \in [Tasks -> Stack'] /\ runStack' \in [Tasks -> Stack']
      /\ nest' \in [Tasks -> Stack']
  <2>1. \A f \in [Tasks -> Stack] :
          f \in [Tasks -> Stack'] /\ [f EXCEPT ![t] = Append(@, New)] \in [Tasks -> Stack']
    BY <1>3
  <2>2. spanStack \in [Tasks -> Stack] /\ runStack \in [Tasks -> Stack]
        /\ nest \in [Tasks -> Stack]
    BY DEF TaskInv, TypeOK
  <2>3. QED BY <1>1, <2>1, <2>2, ZenonT(60)
<1>5. base' \in [Tasks -> Context'] /\ recorded' \in [Ids -> Stack']
      /\ collected' \in [Ids -> Stack']
  BY <1>1, <1>3 DEF TaskInv, TypeOK, Context
<1>6. emitted' \in SUBSET Known' /\ lost' \in SUBSET Known' /\ alive' \in SUBSET Tasks
  BY <1>1 DEF TaskInv, TypeOK, events
<1>7. Len(objs') <= MaxObjects
  BY <1>1, <1>2, SpanAssumption DEF HasRoom
<1>8. count' \in [Ids -> Nat] /\ pc' \in [Tasks -> {"run", "load", "store"}]
      /\ \A u \in Tasks : pc'[u] # "run" => pc[u] # "run"
  <2>1. CASE EnterStep(t)
    <3>1. NextCount(t) \in Nat
      BY DEF NextCount, TaskInv, TypeOK
    <3>2. QED BY <2>1, <3>1 DEF EnterStep, TaskInv, TypeOK
  <2>2. CASE EnterSpan(t) \/ EnterRun(t)
    BY <2>2 DEF EnterSpan, EnterRun, runs, local, TaskInv, TypeOK
  <2>3. QED BY <2>1, <2>2
<1>9. index' \in [Tasks -> Nat] /\ loaded' \in [Tasks -> Nat]
  BY <1>1 DEF TaskInv, TypeOK
<1>10. TypeOK'
  BY <1>1, <1>4, <1>5, <1>6, <1>7, <1>8, <1>9 DEF TypeOK
<1>11. InsideARun'
  <2>1. \A u \in Tasks : runStack[u] # <<>> => runStack'[u] # <<>>
    BY <1>1, <1>2 DEF TaskInv, TypeOK, Stack
  <2>2. QED BY <1>8, <2>1 DEF TaskInv, InsideARun
<1>12. QED BY <1>1, <1>8, <1>10, <1>11 DEF TaskInv, TypeOK

LEMMA CounterTypes ==
  ASSUME TaskInv, NEW t \in Tasks, ReadIndex(t) \/ LoadCount(t)
  PROVE  /\ TaskInv' /\ t \in alive /\ runStack[t] # <<>>
         /\ UNCHANGED <<objs, stacks, nest, base, alive, runs, events>>
<1>1. UNCHANGED <<objs, stacks, nest, base, alive, runs, events>>
      /\ runStack[t] # <<>> /\ t \in alive
  BY DEF ReadIndex, LoadCount, Ready, TaskInv, InsideARun
<1>2. pc' \in [Tasks -> {"run", "load", "store"}] /\ \A u \in Tasks \ alive : pc'[u] = "run"
  BY <1>1 DEF ReadIndex, LoadCount, TaskInv, TypeOK
<1>3. count[Top(runStack[t])] \in Nat
  BY <1>1, StacksKnown DEF TaskInv, TypeOK
<1>4. index' \in [Tasks -> Nat] /\ loaded' \in [Tasks -> Nat]
  BY <1>3 DEF ReadIndex, LoadCount, TaskInv, TypeOK
<1>5. TypeOK'
  BY <1>1, <1>2, <1>4 DEF TaskInv, TypeOK, stacks, runs, events, Known, Stack, Context, Object
<1>6. InsideARun'
  BY <1>1 DEF ReadIndex, LoadCount, TaskInv, TypeOK, InsideARun, stacks
<1>7. QED BY <1>1, <1>2, <1>5, <1>6 DEF TaskInv

LEMMA ExitTypes ==
  ASSUME TaskInv, NEW t \in Tasks, NEW s \in Ids, Exits(t, s)
  PROVE  TaskInv'
<1>1. /\ t \in alive /\ s \in Known /\ pc[t] = "run"
      /\ Known' = Known /\ objs' \in Seq(Object) /\ Len(objs') = Len(objs)
      /\ Blocks => s = Top(nest[t])
      /\ nest' = IF Blocks THEN [nest EXCEPT ![t] = SubSeq(@, 1, Len(@) - 1)] ELSE nest
      /\ spanStack' = spanStack \/ spanStack' = [spanStack EXCEPT ![t] = objs[s].at.spans]
      /\ runStack' = runStack \/ runStack' = [runStack EXCEPT ![t] = objs[s].at.runs]
      /\ UNCHANGED <<base, alive, count, local>>
  BY ExitChanges
<1>2. Stack' = Stack /\ Context' = Context /\ Object' = Object
  BY <1>1 DEF Stack, Context, Object
<1>3. spanStack' \in [Tasks -> Stack] /\ runStack' \in [Tasks -> Stack]
  <2>1. objs[s] \in Object
    BY <1>1 DEF TaskInv, TypeOK, Known
  <2>2. objs[s].at.spans \in Stack /\ objs[s].at.runs \in Stack
    BY <2>1 DEF Object, Context
  <2>3. QED BY <1>1, <2>2 DEF TaskInv, TypeOK
<1>4. nest' \in [Tasks -> Stack]
  <2>1. ASSUME Blocks PROVE SubSeq(nest[t], 1, Len(nest[t]) - 1) \in Stack
    <3>1. nest[t] \in Seq(Known)
      BY DEF TaskInv, TypeOK, Stack
    <3>2. nest[t] # <<>>
      BY <1>1, <2>1 DEF Top, Ids
    <3>3. QED BY <3>1, <3>2, PoppedStack DEF Stack
  <2>2. QED BY <1>1, <2>1 DEF TaskInv, TypeOK
<1>5. recorded' \in [Ids -> Stack] /\ collected' \in [Ids -> Stack]
  <2>0. \A q \in Stack : Append(q, s) \in Stack
    BY <1>1 DEF Stack
  <2>1. recorded \in [Ids -> Stack] /\ collected \in [Ids -> Stack]
    BY DEF TaskInv, TypeOK
  <2>2. recorded' \in [Ids -> Stack]
    <3>1. CASE ExitStep(t, s)
      <4>1. recorded' = [r \in Ids |->
               IF r = StepOwner(t) THEN Append(recorded[r], s) ELSE recorded[r]]
        BY <3>1 DEF ExitStep
      <4>2. QED BY <2>0, <2>1, <4>1
    <3>2. CASE ~ExitStep(t, s)
      BY <2>1, <3>2 DEF Exits, ExitSpan, ExitRun, ExitElsewhere, runs
    <3>3. QED BY <3>1, <3>2
  <2>3. collected' \in [Ids -> Stack]
    <3>1. CASE ExitSpan(t, s)
      <4>1. CASE collected' = collected
        BY <2>1, <4>1
      <4>2. CASE collected' = [r \in Ids |->
                   IF r = Collector(t) THEN Append(collected[r], s) ELSE collected[r]]
        BY <2>0, <2>1, <4>2
      <4>3. QED BY <3>1, <4>1, <4>2 DEF ExitSpan
    <3>2. CASE ~ExitSpan(t, s)
      BY <2>1, <3>2 DEF Exits, ExitStep, ExitRun, ExitElsewhere, runs
    <3>3. QED BY <3>1, <3>2
  <2>4. QED BY <2>2, <2>3
<1>6. emitted' \in SUBSET Known /\ lost' \in SUBSET Known
  <2>1. emitted' \in {emitted, emitted \cup {s}} /\ lost' \in {lost, lost \cup {s}}
    BY DEF Exits, ExitSpan, ExitStep, ExitRun, ExitElsewhere, Dispatched, DispatchRaised, events
  <2>2. QED BY <1>1, <2>1 DEF TaskInv, TypeOK
<1>7. TypeOK'
  BY <1>1, <1>2, <1>3, <1>4, <1>5, <1>6 DEF TaskInv, TypeOK, local
<1>8. InsideARun'
  <2>1. \A u \in Tasks \ {t} : runStack'[u] = runStack[u]
    BY <1>1 DEF TaskInv, TypeOK
  <2>2. QED BY <1>1, <2>1 DEF TaskInv, InsideARun, local
<1>9. QED BY <1>1, <1>7, <1>8 DEF TaskInv, local

LEMMA SpawnTypes ==
  ASSUME TaskInv, NEW t \in Tasks, NEW u \in Tasks, Spawn(t, u)
  PROVE  /\ TaskInv' /\ t # u /\ t \in alive /\ u \notin alive /\ alive' = alive \cup {u}
         /\ UNCHANGED <<objs, nest, runs, events, local>>
         /\ spanStack' = [spanStack EXCEPT ![u] = spanStack[t]]
         /\ runStack' = [runStack EXCEPT ![u] = runStack[t]]
         /\ base' = [base EXCEPT ![u] = Here(t)]
<1>1. /\ UNCHANGED <<objs, nest, runs, events, local>>
      /\ u \notin alive /\ t \in alive /\ alive' = alive \cup {u} /\ t # u
      /\ spanStack' = [spanStack EXCEPT ![u] = spanStack[t]]
      /\ runStack' = [runStack EXCEPT ![u] = runStack[t]]
      /\ base' = [base EXCEPT ![u] = Here(t)]
  BY DEF Spawn, Ready, InheritedContext, Here
<1>2. Known' = Known /\ Stack' = Stack /\ Context' = Context /\ Object' = Object
  BY <1>1 DEF Known, Stack, Context, Object
<1>3. TypeOK'
  <2>1. Here(t) \in Context
    BY DEF TaskInv, TypeOK, Here, Context
  <2>2. base' \in [Tasks -> Context] /\ spanStack' \in [Tasks -> Stack]
        /\ runStack' \in [Tasks -> Stack]
    BY <1>1, <2>1 DEF TaskInv, TypeOK
  <2>3. QED BY <1>1, <1>2, <2>2 DEF TaskInv, TypeOK, runs, events, local
<1>4. pc[u] = "run" /\ \A v \in Tasks \ {u} : runStack'[v] = runStack[v]
  BY <1>1 DEF TaskInv, TypeOK
<1>5. QED BY <1>1, <1>3, <1>4 DEF TaskInv, InsideARun, local

LEMMA StutterTypes ==
  ASSUME TaskInv, UNCHANGED vars
  PROVE  TaskInv'
BY DEF TaskInv, TypeOK, InsideARun, vars, stacks, runs, events, local, Known, Stack,
       Context, Object

LEMMA TaskInvHolds == Spec => []TaskInv
<1>1. Init => TaskInv
  BY InitInv DEF SpanInv, BlocksOwned, TaskInv
<1>2. TaskInv /\ [Next]_vars => TaskInv'
  <2> SUFFICES ASSUME TaskInv, [Next]_vars PROVE TaskInv'
    OBVIOUS
  <2>1. QED BY EnterTypes, CounterTypes, ExitTypes, SpawnTypes, StutterTypes
            DEF Next, Done, Exits
<1>3. QED BY <1>1, <1>2, PTL DEF Spec

(* The types hold whatever opens and exits the managers, with blocks of    *)
(* one task or with handles that any task exits, in any order.             *)
THEOREM TypesWithHandles == Spec => []TypeOK
<1>1. TaskInv => TypeOK
  BY DEF TaskInv
<1>2. QED BY <1>1, TaskInvHolds, PTL

-----------------------------------------------------------------------------
(* Tasks do not see each other's blocks *)

(* OwnOrInherited among the objects o.                                     *)
OwnIn(o, u, q, inherited) ==
  \A i \in DOMAIN q : o[q[i]].task = u \/ \E j \in DOMAIN inherited : inherited[j] = q[i]

(* CannotBleed, and the same of what the managers' tokens restore.         *)
BleedInv ==
  /\ \A u \in alive : /\ OwnIn(objs, u, spanStack[u], base[u].spans)
                      /\ OwnIn(objs, u, runStack[u], base[u].runs)
  /\ \A s \in Known :
       /\ objs[s].task \in alive
       /\ OwnIn(objs, objs[s].task, objs[s].at.spans, base[objs[s].task].spans)
       /\ OwnIn(objs, objs[s].task, objs[s].at.runs, base[objs[s].task].runs)

(* A stack that only its task pushes stays its own.                        *)
LEMMA OwnStacks ==
  ASSUME NEW K, NEW q \in Seq(K), NEW o, NEW p, NEW u, NEW b, OwnIn(o, u, q, b),
         \A s \in K : p[s].task = o[s].task
  PROVE  /\ OwnIn(p, u, q, b)
         /\ \A n : p[n].task = u => OwnIn(p, u, Append(q, n), b)
<1>1. \A i \in DOMAIN q : q[i] \in K
  OBVIOUS
<1>2. OwnIn(p, u, q, b)
  BY <1>1 DEF OwnIn
<1>3. ASSUME NEW n, p[n].task = u, NEW i \in DOMAIN Append(q, n)
      PROVE  \/ p[Append(q, n)[i]].task = u
             \/ \E j \in DOMAIN b : b[j] = Append(q, n)[i]
  <2>1. (i \in DOMAIN q /\ Append(q, n)[i] = q[i]) \/ Append(q, n)[i] = n
    BY <1>3
  <2>2. QED BY <1>2, <1>3, <2>1 DEF OwnIn
<1>4. QED BY <1>2, <1>3 DEF OwnIn

LEMMA BleedEnter ==
  ASSUME TaskInv, BleedInv, NEW t \in Tasks, EnterSpan(t) \/ EnterRun(t) \/ EnterStep(t)
  PROVE  BleedInv'
<1>1. /\ t \in alive /\ Known' = Known \cup {New} /\ New \notin Known
      /\ \A s \in Known : objs'[s] = objs[s]
      /\ objs'[New].at = Here(t) /\ objs'[New].task = t
      /\ spanStack' = spanStack \/ spanStack' = [spanStack EXCEPT ![t] = Append(@, New)]
      /\ runStack' = runStack \/ runStack' = [runStack EXCEPT ![t] = Append(@, New)]
      /\ UNCHANGED <<base, alive>>
  BY EnterChanges
<1>2. \A s \in Known : objs'[s].task = objs[s].task
  BY <1>1
<1>3. \A u \in alive : u \in Tasks /\ spanStack[u] \in Seq(Known) /\ runStack[u] \in Seq(Known)
  BY DEF TaskInv, TypeOK, Stack
<1>4. ASSUME NEW u \in alive
      PROVE  /\ OwnIn(objs', u, spanStack'[u], base[u].spans)
             /\ OwnIn(objs', u, runStack'[u], base[u].runs)
             /\ OwnIn(objs', u, spanStack[u], base[u].spans)
             /\ OwnIn(objs', u, runStack[u], base[u].runs)
  <2>1. /\ OwnIn(objs, u, spanStack[u], base[u].spans)
        /\ OwnIn(objs, u, runStack[u], base[u].runs)
    BY DEF BleedInv
  <2>2. /\ OwnIn(objs', u, spanStack[u], base[u].spans)
        /\ OwnIn(objs', u, runStack[u], base[u].runs)
        /\ u = t => /\ OwnIn(objs', u, Append(spanStack[u], New), base[u].spans)
                    /\ OwnIn(objs', u, Append(runStack[u], New), base[u].runs)
    <3>1. spanStack[u] \in Seq(Known) /\ runStack[u] \in Seq(Known)
      BY <1>3
    <3> HIDE DEF Known
    <3>2. QED BY <1>1, <1>2, <2>1, <3>1, OwnStacks
  <2>3. /\ spanStack'[u] = spanStack[u] \/ (u = t /\ spanStack'[u] = Append(spanStack[u], New))
        /\ runStack'[u] = runStack[u] \/ (u = t /\ runStack'[u] = Append(runStack[u], New))
    <3>1. /\ u \in Tasks /\ spanStack \in [Tasks -> Stack] /\ runStack \in [Tasks -> Stack]
          /\ spanStack' = spanStack \/ spanStack' = [spanStack EXCEPT ![t] = Append(@, New)]
          /\ runStack' = runStack \/ runStack' = [runStack EXCEPT ![t] = Append(@, New)]
      BY <1>1, <1>3 DEF TaskInv, TypeOK
    <3>2. QED BY ONLY <3>1
  <2>4. QED BY <2>2, <2>3
<1>5. ASSUME NEW s \in Known'
      PROVE  /\ objs'[s].task \in alive
             /\ OwnIn(objs', objs'[s].task, objs'[s].at.spans, base[objs'[s].task].spans)
             /\ OwnIn(objs', objs'[s].task, objs'[s].at.runs, base[objs'[s].task].runs)
  <2>1. CASE s = New
    BY <1>1, <1>4, <2>1 DEF Here
  <2>2. CASE s \in Known
    <3>1. objs'[s] = objs[s] /\ objs[s] \in Object
      BY <1>1, <2>2 DEF TaskInv, TypeOK, Known
    <3>2. objs[s].at.spans \in Seq(Known) /\ objs[s].at.runs \in Seq(Known)
      BY <3>1 DEF Object, Context, Stack
    <3>3. /\ objs[s].task \in alive
          /\ OwnIn(objs, objs[s].task, objs[s].at.spans, base[objs[s].task].spans)
          /\ OwnIn(objs, objs[s].task, objs[s].at.runs, base[objs[s].task].runs)
      BY <2>2 DEF BleedInv
    <3> HIDE DEF Known
    <3>4. /\ OwnIn(objs', objs[s].task, objs[s].at.spans, base[objs[s].task].spans)
          /\ OwnIn(objs', objs[s].task, objs[s].at.runs, base[objs[s].task].runs)
      BY <1>2, <3>2, <3>3, OwnStacks
    <3>5. QED BY <3>1, <3>3, <3>4
  <2>3. QED BY <1>1, <2>1, <2>2
<1>6. QED BY <1>1, <1>4, <1>5 DEF BleedInv

LEMMA BleedExit ==
  ASSUME TaskInv, BleedInv, NEW t \in Tasks, NEW s \in Ids, Exits(t, s)
  PROVE  BleedInv'
<1>1. /\ t \in alive /\ s \in Known /\ Known' = Known
      /\ \A x \in Known : objs'[x].at = objs[x].at /\ objs'[x].task = objs[x].task
      /\ \/ spanStack' = spanStack
         \/ spanStack' = [spanStack EXCEPT ![t] = objs[s].at.spans] /\ objs[s].task = t
      /\ \/ runStack' = runStack
         \/ runStack' = [runStack EXCEPT ![t] = objs[s].at.runs] /\ objs[s].task = t
      /\ UNCHANGED <<base, alive>>
  BY ExitChanges
<1>2. \A u \in alive : u \in Tasks /\ spanStack[u] \in Seq(Known) /\ runStack[u] \in Seq(Known)
  BY DEF TaskInv, TypeOK, Stack
<1>3. \A x \in Known : objs[x].at.spans \in Seq(Known) /\ objs[x].at.runs \in Seq(Known)
  <2>1. \A x \in Known : objs[x] \in Object
    BY DEF TaskInv, TypeOK, Known
  <2>2. QED BY <2>1 DEF Object, Context, Stack
<1>4. ASSUME NEW u \in alive
      PROVE  /\ OwnIn(objs', u, spanStack'[u], base[u].spans)
             /\ OwnIn(objs', u, runStack'[u], base[u].runs)
  <2>1. /\ spanStack'[u] = spanStack[u] \/ (objs[s].task = u /\ spanStack'[u] = objs[s].at.spans)
        /\ runStack'[u] = runStack[u] \/ (objs[s].task = u /\ runStack'[u] = objs[s].at.runs)
    <3>1. /\ u \in Tasks /\ spanStack \in [Tasks -> Stack] /\ runStack \in [Tasks -> Stack]
          /\ \/ spanStack' = spanStack
             \/ spanStack' = [spanStack EXCEPT ![t] = objs[s].at.spans] /\ objs[s].task = t
          /\ \/ runStack' = runStack
             \/ runStack' = [runStack EXCEPT ![t] = objs[s].at.runs] /\ objs[s].task = t
      BY <1>1, <1>2 DEF TaskInv, TypeOK
    <3>2. QED BY ONLY <3>1
  <2>2. /\ OwnIn(objs, u, spanStack'[u], base[u].spans)
        /\ OwnIn(objs, u, runStack'[u], base[u].runs)
    BY <1>1, <2>1 DEF BleedInv
  <2>3. spanStack'[u] \in Seq(Known) /\ runStack'[u] \in Seq(Known)
    BY <1>1, <1>2, <1>3, <2>1
  <2> HIDE DEF Known
  <2>4. QED BY <1>1, <2>2, <2>3, OwnStacks
<1>5. ASSUME NEW x \in Known
      PROVE  /\ objs'[x].task \in alive
             /\ OwnIn(objs', objs'[x].task, objs'[x].at.spans, base[objs'[x].task].spans)
             /\ OwnIn(objs', objs'[x].task, objs'[x].at.runs, base[objs'[x].task].runs)
  <2>1. /\ objs[x].task \in alive
        /\ OwnIn(objs, objs[x].task, objs[x].at.spans, base[objs[x].task].spans)
        /\ OwnIn(objs, objs[x].task, objs[x].at.runs, base[objs[x].task].runs)
    BY DEF BleedInv
  <2>2. objs[x].at.spans \in Seq(Known) /\ objs[x].at.runs \in Seq(Known)
    BY <1>3
  <2> HIDE DEF Known
  <2>3. /\ OwnIn(objs', objs[x].task, objs[x].at.spans, base[objs[x].task].spans)
        /\ OwnIn(objs', objs[x].task, objs[x].at.runs, base[objs[x].task].runs)
    BY <1>1, <2>1, <2>2, OwnStacks
  <2>4. QED BY <1>1, <2>1, <2>3
<1>6. QED BY <1>1, <1>4, <1>5 DEF BleedInv

LEMMA BleedSpawn ==
  ASSUME TaskInv, BleedInv, NEW t \in Tasks, NEW u \in Tasks, Spawn(t, u)
  PROVE  BleedInv'
<1>1. /\ t # u /\ t \in alive /\ u \notin alive /\ alive' = alive \cup {u}
      /\ objs' = objs
      /\ spanStack' = [spanStack EXCEPT ![u] = spanStack[t]]
      /\ runStack' = [runStack EXCEPT ![u] = runStack[t]]
      /\ base' = [base EXCEPT ![u] = Here(t)]
  BY SpawnTypes
<1>2. /\ \A v \in alive : /\ spanStack'[v] = spanStack[v] /\ runStack'[v] = runStack[v]
                          /\ base'[v] = base[v]
      /\ spanStack'[u] = spanStack[t] /\ runStack'[u] = runStack[t] /\ base'[u] = Here(t)
  BY <1>1 DEF TaskInv, TypeOK
<1>3. OwnIn(objs, u, spanStack[t], Here(t).spans) /\ OwnIn(objs, u, runStack[t], Here(t).runs)
  BY DEF OwnIn, Here
<1>4. QED BY <1>1, <1>2, <1>3 DEF BleedInv, Known

(* A task sees what it opened and what it inherited, whoever exits what,   *)
(* in whatever order ("concurrent tasks each see their own stack slice and *)
(* cannot bleed into each other"), threads or asyncio, raising or not.     *)
THEOREM TasksNeverBleed == Spec => []CannotBleed
<1>1. Init => BleedInv
  BY SpanAssumption DEF Init, BleedInv, OwnIn, Known
<1>2. TaskInv /\ BleedInv /\ [Next]_vars => BleedInv'
  <2> SUFFICES ASSUME TaskInv, BleedInv, [Next]_vars PROVE BleedInv'
    OBVIOUS
  <2>1. ASSUME NEW t \in Tasks, ReadIndex(t) \/ LoadCount(t) PROVE BleedInv'
    <3>1. UNCHANGED <<objs, spanStack, runStack, base, alive>>
      BY <2>1, CounterTypes DEF stacks
    <3>2. QED BY <3>1 DEF BleedInv, Known
  <2>2. ASSUME UNCHANGED vars PROVE BleedInv'
    BY <2>2 DEF vars, stacks, BleedInv, Known
  <2>3. QED BY <2>1, <2>2, BleedEnter, BleedExit, BleedSpawn DEF Next, Done, Exits
<1>3. BleedInv => CannotBleed
  BY DEF BleedInv, CannotBleed, OwnIn, OwnOrInherited
<1>4. QED BY <1>1, <1>2, <1>3, TaskInvHolds, PTL DEF Spec

-----------------------------------------------------------------------------
(* The numbering of steps *)

(* The steps of a run are finitely many.                                   *)
LEMMA StepsFinite ==
  ASSUME TypeOK, NEW r
  PROVE  /\ IsFiniteSet(StepsOf(r)) /\ Cardinality(StepsOf(r)) \in Nat
         /\ StepsOf(r) \subseteq Known
<1>1. Len(objs) \in Nat /\ StepsOf(r) \subseteq 1..Len(objs)
  BY DEF TypeOK, StepsOf
<1>2. IsFiniteSet(StepsOf(r))
  <2>1. IsFiniteSet(1..Len(objs))
    BY <1>1, FS_Interval
  <2>2. QED BY <1>1, <2>1, FS_Subset
<1>3. QED BY <1>1, <1>2, FS_CardinalityType DEF StepsOf, Known

(* Nothing that numbers a step is touched.                                 *)
LEMMA CountKept ==
  ASSUME CountInv, TaskInv,
         Known \subseteq Known', \A s \in Known' \ Known : objs'[s].kind # "step",
         \A s \in Known : /\ objs'[s].kind = objs[s].kind /\ objs'[s].run = objs[s].run
                          /\ objs'[s].index = objs[s].index,
         UNCHANGED <<count, local>>,
         \A u \in Tasks : pc[u] # "run" => Top(runStack'[u]) = Top(runStack[u])
  PROVE  CountInv'
<1>1. \A r : StepsOf(r)' = StepsOf(r)
  BY DEF StepsOf, Known
<1>2. \A r : \A s \in StepsOf(r) : objs'[s].index = objs[s].index
  BY DEF StepsOf, Known
<1>3. \A r : {objs'[s].index : s \in StepsOf(r)} = {objs[s].index : s \in StepsOf(r)}
  BY <1>2
<1>4. StepIndexesDense'
  BY <1>1, <1>3 DEF CountInv, StepIndexesDense
<1>5. QED BY <1>1, <1>4 DEF CountInv, local

LEMMA CountEnterStep ==
  ASSUME ~Preemptive, TaskInv, CountInv, NEW t \in Tasks, EnterStep(t)
  PROVE  CountInv'
<1>0. PICK r : r = Top(runStack[t])
  OBVIOUS
<1>1. /\ Known' = Known \cup {New} /\ New \notin Known
      /\ \A s \in Known : objs'[s] = objs[s]
      /\ objs'[New].run = r /\ objs'[New].kind = "step" /\ objs'[New].index = index[t]
      /\ UNCHANGED <<index, loaded>>
  BY <1>0, EnterChanges
<1>2. /\ pc[t] = "store" /\ pc' = [pc EXCEPT ![t] = "run"] /\ runStack' = runStack
      /\ count' = [count EXCEPT ![r] = loaded[t] + 1]
  BY <1>0 DEF EnterStep, NextCount, stacks
<1>3. r \in Ids /\ count \in [Ids -> Nat]
  BY <1>0, <1>2, StacksKnown DEF TaskInv, InsideARun, TypeOK
<1>4. index[t] = count[r] /\ loaded[t] = count[r] /\ count[r] = Cardinality(StepsOf(r))
  BY <1>0, <1>2, <1>3 DEF CountInv
<1>5. /\ StepsOf(r)' = StepsOf(r) \cup {New} /\ New \notin StepsOf(r)
      /\ \A x : x # r => StepsOf(x)' = StepsOf(x)
  <2>1. \A x, s : s \in StepsOf(x)' <=> s \in Known' /\ objs'[s].kind = "step" /\ objs'[s].run = x
    BY DEF StepsOf, Known
  <2>2. \A x, s : s \in StepsOf(x) <=> s \in Known /\ objs[s].kind = "step" /\ objs[s].run = x
    BY DEF StepsOf, Known
  <2>3. \A x, s : s \in StepsOf(x)' <=> s \in StepsOf(x) \/ (s = New /\ x = r)
    BY <1>1, <2>1, <2>2
  <2>4. QED BY <1>1, <2>2, <2>3
<1>6. /\ count'[r] = count[r] + 1 /\ Cardinality(StepsOf(r)') = count[r] + 1
      /\ count[r] \in Nat
      /\ \A x \in Ids : x # r => count'[x] = count[x]
  <2>1. IsFiniteSet(StepsOf(r))
    BY StepsFinite DEF TaskInv
  <2>2. Cardinality(StepsOf(r) \cup {New}) = Cardinality(StepsOf(r)) + 1
    BY <1>5, <2>1, FS_AddElement
  <2>3. QED BY <1>2, <1>3, <1>4, <1>5, <2>2
<1>7. \A x : \A s \in StepsOf(x) : objs'[s].index = objs[s].index
  BY <1>1 DEF StepsOf, Known
<1>8. StepIndexesDense'
  <2> SUFFICES ASSUME NEW x \in Ids
               PROVE  {objs'[s].index : s \in StepsOf(x)'}
                        = 0..(Cardinality(StepsOf(x)') - 1)
    BY DEF StepIndexesDense
  <2>1. {objs[s].index : s \in StepsOf(x)} = 0..(Cardinality(StepsOf(x)) - 1)
    BY DEF CountInv, StepIndexesDense
  <2>2. {objs'[s].index : s \in StepsOf(x)} = {objs[s].index : s \in StepsOf(x)}
    BY <1>7
  <2>3. CASE x # r
    BY <1>5, <2>1, <2>2, <2>3
  <2>4. CASE x = r
    <3>1. {objs'[s].index : s \in StepsOf(r) \cup {New}}
            = {objs'[s].index : s \in StepsOf(r)} \cup {objs'[New].index}
      OBVIOUS
    <3>2. {objs'[s].index : s \in StepsOf(r)'} = (0..(count[r] - 1)) \cup {count[r]}
      BY <1>1, <1>4, <1>5, <2>1, <2>2, <2>4, <3>1
    <3>3. (0..(count[r] - 1)) \cup {count[r]} = 0..(count[r] + 1 - 1)
      BY <1>6
    <3>4. QED BY <1>6, <2>4, <3>2, <3>3
  <2>5. QED BY <2>3, <2>4
<1>9. \A x \in Ids : count'[x] = Cardinality(StepsOf(x)')
  <2>1. \A x \in Ids : count[x] = Cardinality(StepsOf(x))
    BY DEF CountInv
  <2>2. QED BY <1>5, <1>6, <2>1
<1>10. \A u \in Tasks : pc'[u] = "run"
  <2>1. \A u \in Tasks : u # t => pc[u] = "run"
    BY <1>2 DEF CountInv
  <2>2. QED BY <1>2, <2>1 DEF TaskInv, TypeOK
<1>11. QED BY <1>8, <1>9, <1>10 DEF CountInv

LEMMA CountRead ==
  ASSUME ~Preemptive, TaskInv, CountInv, NEW t \in Tasks, ReadIndex(t) \/ LoadCount(t)
  PROVE  CountInv'
<1>1. /\ objs' = objs /\ count' = count /\ runStack' = runStack
  BY CounterTypes DEF stacks, runs
<1>2. \A u \in Tasks : u # t => pc[u] = "run"
  <2>1. CASE ReadIndex(t)
    BY <2>1 DEF ReadIndex, Ready
  <2>2. CASE LoadCount(t)
    BY <2>2 DEF LoadCount, CountInv
  <2>3. QED BY <2>1, <2>2
<1>3. \A u \in Tasks : u # t => pc'[u] = "run"
  BY <1>2 DEF ReadIndex, LoadCount, TaskInv, TypeOK
<1>4. /\ index'[t] = count[Top(runStack[t])]
      /\ pc'[t] = "store" => loaded'[t] = count[Top(runStack[t])]
  <2>1. CASE ReadIndex(t)
    BY <2>1 DEF ReadIndex, TaskInv, TypeOK
  <2>2. CASE LoadCount(t)
    BY <2>2 DEF LoadCount, CountInv, TaskInv, TypeOK
  <2>3. QED BY <2>1, <2>2
<1>5. StepIndexesDense' /\ \A r : StepsOf(r)' = StepsOf(r)
  BY <1>1 DEF CountInv, StepIndexesDense, StepsOf
<1>6. QED BY <1>1, <1>3, <1>4, <1>5 DEF CountInv

LEMMA CountNext ==
  ASSUME ~Preemptive, TaskInv, CountInv, [Next]_vars
  PROVE  CountInv'
<1>1. ASSUME NEW t \in Tasks, EnterSpan(t) \/ EnterRun(t) PROVE CountInv'
  <2>1. UNCHANGED <<count, local>> /\ pc[t] = "run"
    BY <1>1 DEF EnterSpan, EnterRun, runs, Ready
  <2>2. ~EnterStep(t)
    BY <2>1 DEF EnterStep
  <2>3. /\ Known' = Known \cup {New} /\ \A s \in Known : objs'[s] = objs[s]
        /\ objs'[New].kind # "step"
        /\ runStack' = runStack \/ runStack' = [runStack EXCEPT ![t] = Append(@, New)]
    BY <1>1, <2>2, EnterChanges
  <2>4. \A u \in Tasks : pc[u] # "run" => runStack'[u] = runStack[u]
    BY <2>1, <2>3 DEF TaskInv, TypeOK
  <2>5. QED BY <2>1, <2>3, <2>4, CountKept
<1>2. ASSUME NEW t \in Tasks, NEW s \in Ids, Exits(t, s) PROVE CountInv'
  <2>1. /\ Known' = Known /\ pc[t] = "run"
        /\ \A x \in Known : /\ objs'[x].kind = objs[x].kind /\ objs'[x].run = objs[x].run
                            /\ objs'[x].index = objs[x].index
        /\ runStack' = runStack \/ runStack' = [runStack EXCEPT ![t] = objs[s].at.runs]
        /\ UNCHANGED <<count, local>>
    BY <1>2, ExitChanges
  <2>2. \A u \in Tasks : pc[u] # "run" => runStack'[u] = runStack[u]
    BY <2>1 DEF TaskInv, TypeOK
  <2>3. QED BY <2>1, <2>2, CountKept
<1>3. ASSUME NEW t \in Tasks, NEW u \in Tasks, Spawn(t, u) PROVE CountInv'
  <2>1. /\ UNCHANGED <<objs, count, local>> /\ pc[u] = "run"
        /\ runStack' = [runStack EXCEPT ![u] = runStack[t]]
    BY <1>3, SpawnTypes DEF runs, TaskInv
  <2>2. \A v \in Tasks : pc[v] # "run" => runStack'[v] = runStack[v]
    BY <2>1 DEF TaskInv, TypeOK
  <2>3. QED BY <2>1, <2>2, CountKept DEF Known
<1>4. ASSUME UNCHANGED vars PROVE CountInv'
  BY <1>4, CountKept DEF vars, stacks, runs, Known
<1>5. QED BY <1>1, <1>2, <1>3, <1>4, CountEnterStep, CountRead DEF Next, Done, Exits

(* The steps of a run are numbered 0, 1, 2, ... without a gap or a         *)
(* repetition where tasks switch only between two calls of the API.        *)
THEOREM StepsAreDense ==
  ASSUME ~Preemptive
  PROVE  Spec => []StepIndexesDense
<1>1. Init => CountInv
  <2> SUFFICES ASSUME Init PROVE CountInv
    OBVIOUS
  <2>1. \A r : StepsOf(r) = {}
    BY DEF Init, StepsOf
  <2>2. \A r : {objs[s].index : s \in StepsOf(r)} = 0..(Cardinality(StepsOf(r)) - 1)
    BY <2>1, FS_EmptySet
  <2>3. QED BY <2>1, <2>2, FS_EmptySet DEF Init, CountInv, StepIndexesDense
<1>2. TaskInv /\ CountInv /\ [Next]_vars => CountInv'
  BY CountNext
<1>3. CountInv => StepIndexesDense
  BY DEF CountInv
<1>4. QED BY <1>1, <1>2, <1>3, TaskInvHolds, PTL DEF Spec

(* HandlesKeepApart, for handles as for with blocks, raising or not.       *)
THEOREM HandlesAreApart ==
  ASSUME ~Preemptive
  PROVE  Spec => []HandlesKeepApart
BY StepsAreDense, TasksNeverBleed, PTL DEF HandlesKeepApart

-----------------------------------------------------------------------------
(* What with blocks leave behind *)

LEMMA SpanInvIsTaskInv == SpanInv => TaskInv
BY DEF SpanInv, BlocksOwned, TaskInv

LEMMA OpenEnter ==
  ASSUME Blocks, SpanInv, BlocksAreOpen, NEW t \in Tasks,
         EnterSpan(t) \/ EnterRun(t) \/ EnterStep(t)
  PROVE  BlocksAreOpen'
<1>1. /\ New \notin Known /\ objs'[New].open
      /\ \A s \in Known : objs'[s] = objs[s]
      /\ nest' = [nest EXCEPT ![t] = Append(@, New)]
  BY SpanInvIsTaskInv, EnterChanges
<1>2. \A s \in Known : s < New
  BY StacksKnown DEF SpanInv
<1>3. ASSUME NEW u \in Tasks, NEW k \in DOMAIN nest'[u]
      PROVE  /\ objs'[nest'[u][k]].open
             /\ \A j \in 1..(k - 1) : nest'[u][j] < nest'[u][k]
  <2> DEFINE q == nest[u]
  <2>1. /\ q \in Seq(Known) /\ Len(q) \in Nat /\ DOMAIN q = 1..Len(q)
        /\ \A i \in 1..Len(q) : q[i] \in Known
    BY NestKnown DEF SpanInv
  <2>2. \A i \in DOMAIN q : objs[q[i]].open /\ \A j \in 1..(i - 1) : q[j] < q[i]
    BY DEF BlocksAreOpen
  <2>3. nest'[u] = q \/ nest'[u] = Append(q, New)
    BY <1>1 DEF SpanInv, TypeOK
  <2> HIDE DEF q, Known
  <2>4. CASE nest'[u] = q
    BY <1>1, <1>3, <2>1, <2>2, <2>4
  <2>5. CASE nest'[u] = Append(q, New)
    <3>1. /\ k \in 1..(Len(q) + 1) /\ nest'[u][Len(q) + 1] = New
          /\ \A i \in 1..Len(q) : nest'[u][i] = q[i]
      BY <1>3, <2>1, <2>5
    <3>2. CASE k = Len(q) + 1
      BY <1>1, <1>2, <2>1, <3>1, <3>2
    <3>3. CASE k \in 1..Len(q)
      <4>1. \A j \in 1..(k - 1) : j \in 1..Len(q)
        BY <2>1, <3>3
      <4>2. QED BY <1>1, <2>1, <2>2, <3>1, <3>3, <4>1
    <3>4. QED BY <2>1, <3>1, <3>2, <3>3
  <2>6. QED BY <2>3, <2>4, <2>5
<1>4. QED BY <1>3 DEF BlocksAreOpen

LEMMA OpenExit ==
  ASSUME Blocks, SpanInv, BlocksAreOpen, NEW t \in Tasks, NEW s \in Ids, Exits(t, s)
  PROVE  BlocksAreOpen'
<1>1. /\ t \in alive /\ s \in Known /\ s = Top(nest[t])
      /\ \A x \in Known : objs'[x].open = (objs[x].open /\ x # s)
      /\ nest' = [nest EXCEPT ![t] = SubSeq(@, 1, Len(@) - 1)]
  BY SpanInvIsTaskInv, ExitChanges
<1>2. objs[s].task = t /\ nest[t] # <<>> /\ Known \subseteq Nat
  BY <1>1, InnermostBlock, StacksKnown DEF SpanInv
<1>3. ASSUME NEW u \in Tasks, NEW k \in DOMAIN nest'[u]
      PROVE  /\ objs'[nest'[u][k]].open
             /\ \A j \in 1..(k - 1) : nest'[u][j] < nest'[u][k]
  <2> DEFINE q == nest[u]
  <2>1. /\ q \in Seq(Known) /\ Len(q) \in Nat /\ DOMAIN q = 1..Len(q)
        /\ \A i \in 1..Len(q) : q[i] \in Known
        /\ q # <<>> => Top(q) = q[Len(q)]
    BY NestKnown DEF SpanInv
  <2>2. \A i \in DOMAIN q : objs[q[i]].open /\ \A j \in 1..(i - 1) : q[j] < q[i]
    BY DEF BlocksAreOpen
  <2>3. \A i \in DOMAIN q : objs[q[i]].task = u
    BY DEF SpanInv, BlocksOwned
  <2>4. CASE u # t
    <3>1. nest'[u] = q
      BY <1>1, <2>4 DEF SpanInv, TypeOK
    <3> HIDE DEF q, Known
    <3>2. k \in DOMAIN q /\ nest'[u][k] = q[k] /\ q[k] \in Known /\ q[k] # s
      BY <1>2, <1>3, <2>1, <2>3, <2>4, <3>1
    <3>3. QED BY <1>1, <2>2, <3>1, <3>2
  <2>5. CASE u = t
    <3>1. nest'[u] = SubSeq(q, 1, Len(q) - 1) /\ q # <<>> /\ s = Top(q)
      BY <1>1, <1>2, <2>5 DEF SpanInv, TypeOK
    <3> HIDE DEF q, Known
    <3>2. /\ k \in 1..(Len(q) - 1)
          /\ \A i \in 1..(Len(q) - 1) : nest'[u][i] = q[i]
      BY <1>3, <2>1, <3>1, PoppedStack
    <3>3. /\ q[k] < q[Len(q)] /\ q[k] \in Known /\ objs[q[k]].open
          /\ \A j \in 1..(k - 1) : q[j] < q[k] /\ j \in 1..(Len(q) - 1)
      BY <2>1, <2>2, <3>2
    <3>4. q[k] # s
      <4>1. q[k] \in Nat /\ s = q[Len(q)]
        BY <1>2, <1>1, <2>1, <3>1, <3>3
      <4>2. QED BY <3>3, <4>1
    <3>5. QED BY <1>1, <3>2, <3>3, <3>4
  <2>6. QED BY <2>4, <2>5
<1>4. QED BY <1>3 DEF BlocksAreOpen

LEMMA OpenNext ==
  ASSUME Blocks, SpanInv, BlocksAreOpen, [Next]_vars
  PROVE  BlocksAreOpen'
<1>1. ASSUME UNCHANGED <<objs, nest>> PROVE BlocksAreOpen'
  BY <1>1 DEF BlocksAreOpen
<1>2. QED BY <1>1, OpenEnter, OpenExit
          DEF Next, Done, Exits, ReadIndex, LoadCount, Spawn, vars

(* A task that has exited all it opened sees the context it started with.  *)
THEOREM NothingIsLeftBehind == Blocks => (Spec => []NothingLeftBehind)
<1> SUFFICES ASSUME Blocks PROVE Spec => []NothingLeftBehind
  OBVIOUS
<1>1. Init => BlocksAreOpen
  BY DEF Init, BlocksAreOpen
<1>2. SpanInv /\ BlocksAreOpen /\ [Next]_vars => BlocksAreOpen'
  BY OpenNext
<1>3. SpanInv /\ BlocksAreOpen => NothingLeftBehind
  <2> SUFFICES ASSUME SpanInv, BlocksAreOpen, NEW t \in alive,
                      \A s \in DOMAIN objs : objs[s].task = t => ~objs[s].open
               PROVE  Here(t) = base[t]
    BY DEF NothingLeftBehind
  <2>1. t \in Tasks
    BY DEF SpanInv, TypeOK
  <2>2. ASSUME nest[t] # <<>> PROVE FALSE
    <3>1. 1 \in DOMAIN nest[t] /\ nest[t][1] \in Known
      BY <2>1, <2>2, NestKnown DEF SpanInv
    <3>2. objs[nest[t][1]].open /\ objs[nest[t][1]].task = t
      BY <2>1, <3>1 DEF BlocksAreOpen, SpanInv, BlocksOwned
    <3>3. QED BY <3>1, <3>2 DEF Known
  <2>3. QED BY <2>2 DEF SpanInv, ContextFollowsBlocks
<1>4. QED BY <1>1, <1>2, <1>3, SpanInvariant, PTL DEF Spec

(* Whatever is exited has had its event dispatched, taken or raised: the   *)
(* ValueError that skips the emission needs a token of another context.    *)
THEOREM EndedIsEmitted == Blocks => (Spec => []EndedWasEmitted)
<1> SUFFICES ASSUME Blocks PROVE Spec => []EndedWasEmitted
  OBVIOUS
<1>1. Init => EndedWasEmitted
  BY DEF Init, EndedWasEmitted
<1>2. SpanInv /\ EndedWasEmitted /\ [Next]_vars => EndedWasEmitted'
  <2> SUFFICES ASSUME SpanInv, EndedWasEmitted, [Next]_vars PROVE EndedWasEmitted'
    OBVIOUS
  <2>1. ASSUME NEW t \in Tasks, EnterSpan(t) \/ EnterRun(t) \/ EnterStep(t)
        PROVE  EndedWasEmitted'
    <3>1. /\ Known' = Known \cup {New} /\ objs'[New].open /\ UNCHANGED events
          /\ \A s \in Known : objs'[s] = objs[s]
      BY <2>1, SpanInvIsTaskInv, EnterChanges
    <3>2. QED BY <3>1 DEF EndedWasEmitted, Known, events
  <2>2. ASSUME NEW t \in Tasks, NEW s \in Ids, Exits(t, s) PROVE EndedWasEmitted'
    <3>1. /\ Known' = Known
          /\ \A x \in Known : objs'[x].open = (objs[x].open /\ x # s)
      BY <2>2, SpanInvIsTaskInv, ExitChanges
    <3>2. emitted \subseteq emitted' /\ lost \subseteq lost' /\ s \in emitted' \cup lost'
      <4>1. Dispatched(s) \/ DispatchRaised(s)
        BY <2>2, NeverElsewhere DEF Exits, ExitSpan, ExitStep, ExitRun
      <4>2. QED BY <4>1 DEF Dispatched, DispatchRaised
    <3>3. QED BY <3>1, <3>2 DEF EndedWasEmitted, Known
  <2>3. ASSUME UNCHANGED <<objs, events>> PROVE EndedWasEmitted'
    BY <2>3 DEF EndedWasEmitted, events
  <2>4. QED BY <2>1, <2>2, <2>3 DEF Next, Done, Exits, ReadIndex, LoadCount, Spawn, vars
<1>3. QED BY <1>1, <1>2, SpanInvariant, PTL DEF Spec

(* A Trace holds every span that was opened under its run and exited, when *)
(* no dispatch raises: emit_span tells the Trace after the dispatch.       *)
THEOREM TraceIsComplete ==
  ASSUME Blocks, ~Raising
  PROVE  Spec => []TraceHoldsItsSpans
<1> DEFINE Holds(f, s, r) == \E i \in DOMAIN f[r] : f[r][i] = s
<1>1. Init => TraceHoldsItsSpans
  BY DEF Init, TraceHoldsItsSpans
<1>2. SpanInv /\ TraceHoldsItsSpans /\ [Next]_vars => TraceHoldsItsSpans'
  <2> SUFFICES ASSUME SpanInv, TraceHoldsItsSpans, [Next]_vars PROVE TraceHoldsItsSpans'
    OBVIOUS
  <2>1. ASSUME NEW t \in Tasks, EnterSpan(t) \/ EnterRun(t) \/ EnterStep(t)
        PROVE  TraceHoldsItsSpans'
    <3>1. /\ Known' = Known \cup {New} /\ objs'[New].open /\ UNCHANGED collected
          /\ \A s \in Known : objs'[s] = objs[s]
      BY <2>1, SpanInvIsTaskInv, EnterChanges
    <3>2. QED BY <3>1 DEF TraceHoldsItsSpans, Known
  <2>2. ASSUME NEW t \in Tasks, NEW s \in Ids, Exits(t, s) PROVE TraceHoldsItsSpans'
    <3>1. /\ Known' = Known
          /\ \A x \in Known :
               /\ objs'[x].kind = objs[x].kind /\ objs'[x].run = objs[x].run
               /\ objs'[x].open = (objs[x].open /\ x # s)
      BY <2>2, SpanInvIsTaskInv, ExitChanges
    <3>2. \A x \in Known : objs[x].run \in Known \cup {0} /\ Known \subseteq Ids
      <4>1. \A x \in Known : objs[x] \in Object
        BY DEF SpanInv, TypeOK, Known
      <4>2. Known \subseteq Ids
        BY <2>2, StacksKnown DEF SpanInv
      <4>3. QED BY <4>1, <4>2 DEF Object
    <3>3. collected \in [Ids -> Stack]
      BY DEF SpanInv, TypeOK
    <3>4. \A x \in Known, r \in Ids : Holds(collected, x, r) => Holds(collected', x, r)
      <4>1. collected' = collected \/ \E c : collected' = [r \in Ids |->
               IF r = c THEN Append(collected[r], s) ELSE collected[r]]
        BY <2>2 DEF Exits, ExitSpan, ExitStep, ExitRun, ExitElsewhere, runs
      <4>2. \A q \in Stack : \A i \in DOMAIN q :
              i \in DOMAIN Append(q, s) /\ Append(q, s)[i] = q[i]
        BY DEF Stack
      <4>3. QED BY <3>3, <4>1, <4>2
    <3>5. objs[s].kind = "span" /\ objs[s].run # 0 => Holds(collected', s, objs[s].run)
      <4> SUFFICES ASSUME objs[s].kind = "span", objs[s].run # 0
                   PROVE  Holds(collected', s, objs[s].run)
        OBVIOUS
      <4>1. ExitSpan(t, s)
        BY <2>2, NeverElsewhere DEF Exits, ExitStep, ExitRun
      <4>2. s \in Known /\ Collector(t) = objs[s].run
        BY <4>1, ExitFacts DEF ExitSpan, Collector
      <4>3. objs[s].run \in Ids
        BY <3>2, <4>2
      <4>4. collected'[objs[s].run] = Append(collected[objs[s].run], s)
        BY <3>3, <4>1, <4>2, <4>3 DEF ExitSpan, DispatchRaised
      <4>5. \A q \in Stack : Len(q) + 1 \in DOMAIN Append(q, s) /\ Append(q, s)[Len(q) + 1] = s
        BY DEF Stack
      <4>6. QED BY <3>3, <4>3, <4>4, <4>5
    <3> HIDE DEF Holds
    <3>6. \A x \in Known : objs[x].kind = "span" /\ ~objs[x].open /\ objs[x].run # 0
                             => Holds(collected, x, objs[x].run)
      BY DEF TraceHoldsItsSpans, Holds, Known
    <3>7. \A x \in Known' : objs'[x].kind = "span" /\ ~objs'[x].open /\ objs'[x].run # 0
                              => Holds(collected', x, objs'[x].run)
      BY <3>1, <3>2, <3>4, <3>5, <3>6, ZenonT(60)
    <3>8. QED BY <3>7 DEF TraceHoldsItsSpans, Holds, Known
  <2>3. ASSUME UNCHANGED <<objs, collected>> PROVE TraceHoldsItsSpans'
    BY <2>3 DEF TraceHoldsItsSpans
  <2>4. QED BY <2>1, <2>2, <2>3
            DEF Next, Done, Exits, ReadIndex, LoadCount, Spawn, vars, runs
<1>3. QED BY <1>1, <1>2, SpanInvariant, PTL DEF Spec

(* A step is counted by the run it carries.                                *)
THEOREM StepsStayInTheirRun == Blocks => (Spec => []StepRecordedInItsRun)
BY RegisteredWhereEntered, PTL
=============================================================================
