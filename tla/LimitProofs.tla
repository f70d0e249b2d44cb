---------------------------- MODULE LimitProofs -----------------------------
(***************************************************************************)
(* What moves with time or against a limit: the ids of ulid.py increase, a *)
(* span and its deadline timers leave one account, the breakers of         *)
(* retry.py follow their failures, no thread is alerted twice by one       *)
(* budget monitor in one period and no breach goes unnoticed; for any      *)
(* number of threads, timers, providers, monitors and nested callbacks.    *)
(***************************************************************************)
EXTENDS Ulid, SpanTimeout, Resilience, CostTracking, Induction, TLAPS

-----------------------------------------------------------------------------
(* Ids: any width of the random segment, any behaviour of the clock.       *)

(* Dividing by the radix and what is left over.                            *)
LEMMA DigitTakenOff ==
  ASSUME NEW n \in Nat
  PROVE  /\ n \div Radix \in Nat /\ n % Radix \in 0..(Radix - 1)
         /\ n = Radix * (n \div Radix) + (n % Radix)
  BY UlidAssumption, SMT

LEMMA PowersAre ==
  /\ Power \in [Nat -> Nat] /\ Power[0] = 1
  /\ \A k \in Nat : Power[k + 1] = Radix * Power[k] /\ Power[k] > 0
<1> DEFINE step == [k \in Nat |-> [x \in Nat |-> Radix * x]]
<1>1. Radix \in Nat /\ Radix > 0
  BY UlidAssumption
<1>2. step \in [Nat -> [Nat -> Nat]]
  BY <1>1
<1>3. \A k, x \in Nat : step[k][x] = Radix * x
  OBVIOUS
<1> HIDE DEF step
<1>4. PICK f : IsIteration(f, Nat, 1, step)
  <2>1. 1 \in Nat
    OBVIOUS
  <2> QED BY <2>1, <1>2, IterationsExist, Zenon
<1>5. f \in [Nat -> Nat] /\ f[0] = 1 /\ \A k \in Nat : f[k + 1] = step[k][f[k]]
  BY <1>4 DEF IsIteration
<1>6. f = [k \in Nat |-> IF k = 0 THEN 1 ELSE Radix * f[k - 1]]
  <2>1. ASSUME NEW k \in Nat, k # 0 PROVE f[k] = Radix * f[k - 1]
    <3>1. k - 1 \in Nat /\ (k - 1) + 1 = k
      BY <2>1
    <3>2. f[(k - 1) + 1] = step[k - 1][f[k - 1]]
      BY <1>5, <3>1
    <3> QED BY <3>1, <3>2, <1>5, <1>3
  <2> QED BY <1>5, <2>1
<1>7. Power = [k \in Nat |-> IF k = 0 THEN 1 ELSE Radix * Power[k - 1]]
  BY <1>6 DEF Power
<1>8. Power[0] = 1 /\ \A k \in Nat : Power[k + 1] = Radix * Power[k]
  BY <1>7
<1> DEFINE S == {k \in Nat : Power[k] \in Nat /\ Power[k] > 0}
<1>9. 0 \in S /\ \A k \in Nat : k \in S => k + 1 \in S
  <2>1. \A x \in Nat : x > 0 => Radix * x \in Nat /\ Radix * x > 0
    BY <1>1, SMT
  <2> QED BY <1>8, <2>1
<1> HIDE DEF S
<1>10. \A k \in Nat : k \in S
  BY <1>9, Inductive
<1>11. \A k \in Nat : Power[k] \in Nat /\ Power[k] > 0
  BY <1>10 DEF S
<1> QED BY <1>7, <1>8, <1>11

LEMMA RandMaxIsNat == RandMax \in Nat
  BY PowersAre, UlidAssumption DEF RandMax

(* The generator's state is the greatest pair it has handed out.           *)
StateIsGreatest ==
  \A i \in DOMAIN drawn :
    \/ drawn[i] = [ms |-> lastMs, rand |-> lastRand]
    \/ Before(drawn[i], [ms |-> lastMs, rand |-> lastRand])

UlidInv == UlidTypeOK /\ StateIsGreatest /\ IdsIncrease

(* Handing out a pair after the state keeps what there is in order.        *)
LEMMA GiveKeepsOrder ==
  ASSUME UlidInv, NEW ms \in Nat, NEW rand \in 0..RandMax, Give(ms, rand),
         Before([ms |-> lastMs, rand |-> lastRand], [ms |-> ms, rand |-> rand])
  PROVE  /\ drawn' \in Seq(Pair) /\ lastMs' \in Nat /\ lastRand' \in 0..RandMax
         /\ StateIsGreatest' /\ IdsIncrease'
<1> DEFINE new == [ms |-> ms, rand |-> rand]
<1>1. RandMax \in Nat
  BY RandMaxIsNat
<1>2. /\ new \in Pair /\ new.ms = ms /\ new.rand = rand
  BY DEF Pair
<1>3. /\ drawn \in Seq(Pair) /\ drawn' = Append(drawn, new)
      /\ lastMs' = ms /\ lastRand' = rand
  BY DEF UlidInv, UlidTypeOK, Give
<1>4. /\ drawn' \in Seq(Pair) /\ Len(drawn') = Len(drawn) + 1
      /\ \A i \in DOMAIN drawn : drawn'[i] = drawn[i]
      /\ drawn'[Len(drawn) + 1] = new
  BY <1>2, <1>3
<1>5. DOMAIN drawn = 1..Len(drawn) /\ DOMAIN drawn' = 1..(Len(drawn) + 1)
  BY <1>3, <1>4
<1>6. \A i \in DOMAIN drawn : Before(drawn[i], new)
  <2> TAKE i \in DOMAIN drawn
  <2>1. drawn[i] \in Pair
    BY <1>3
  <2>2. lastMs \in Nat /\ lastRand \in 0..RandMax
    BY DEF UlidInv, UlidTypeOK
  <2>3. CASE drawn[i] = [ms |-> lastMs, rand |-> lastRand]
    BY <2>3
  <2>4. CASE Before(drawn[i], [ms |-> lastMs, rand |-> lastRand])
    BY <1>1, <1>2, <2>1, <2>2, <2>4 DEF Before, Pair
  <2> QED BY <2>3, <2>4 DEF UlidInv, StateIsGreatest
<1>7. StateIsGreatest'
  BY <1>3, <1>4, <1>5, <1>6 DEF StateIsGreatest
<1>8. IdsIncrease'
  <2> SUFFICES ASSUME NEW i \in 1..(Len(drawn) + 1), NEW j \in 1..(Len(drawn) + 1), i < j
               PROVE  Before(drawn'[i], drawn'[j])
    BY <1>5 DEF IdsIncrease
  <2>1. i \in DOMAIN drawn
    BY <1>3, <1>5
  <2>2. CASE j = Len(drawn) + 1
    BY <1>4, <1>6, <2>1, <2>2
  <2>3. CASE j \in DOMAIN drawn
    BY <1>4, <2>1, <2>3 DEF UlidInv, IdsIncrease
  <2>4. Len(drawn) \in Nat
    BY <1>3
  <2>5. j = Len(drawn) + 1 \/ j \in DOMAIN drawn
    BY <1>5, <2>4
  <2> QED BY <2>2, <2>3, <2>5
<1> QED BY <1>1, <1>3, <1>4, <1>7, <1>8

LEMMA UlidInitial == UlidInit => UlidInv
<1> SUFFICES ASSUME UlidInit PROVE UlidInv
  OBVIOUS
<1>1. RandMax \in Nat
  BY RandMaxIsNat
<1>2. wallClock \in Nat
  BY UlidAssumption DEF UlidInit
<1>3. drawn = <<>> /\ drawn \in Seq(Pair) /\ DOMAIN drawn = {}
  BY DEF UlidInit
<1>4. UlidTypeOK
  BY <1>1, <1>2, <1>3 DEF UlidInit, UlidTypeOK
<1>5. StateIsGreatest /\ IdsIncrease
  BY <1>3 DEF StateIsGreatest, IdsIncrease
<1> QED BY <1>4, <1>5 DEF UlidInv

LEMMA GenerateKeeps ==
  ASSUME UlidInv, NEW t \in Threads, Generate(t)
  PROVE  UlidInv'
<1>1. RandMax \in Nat /\ wallClock \in Nat /\ lastMs \in Nat /\ lastRand \in 0..RandMax
      /\ spinner \in Threads \cup {Nobody} /\ wallClock' = wallClock
  BY RandMaxIsNat, UlidAssumption DEF UlidInv, UlidTypeOK, Generate
<1>2. CASE NewMillisecond
  <2>1. PICK rand \in 0..RandMax : Give(wallClock, rand)
    BY <1>2 DEF NewMillisecond
  <2>2. Before([ms |-> lastMs, rand |-> lastRand], [ms |-> wallClock, rand |-> rand])
    BY <1>1, <1>2 DEF NewMillisecond, Before
  <2>3. spinner' = spinner
    BY <1>2 DEF NewMillisecond
  <2> QED BY <1>1, <2>1, <2>2, <2>3, GiveKeepsOrder DEF UlidInv, UlidTypeOK
<1>3. CASE SameOrBackwards
  <2>1. Give(lastMs, lastRand + 1) /\ lastRand + 1 \in 0..RandMax /\ spinner' = spinner
    BY <1>1, <1>3 DEF SameOrBackwards, MsKept
  <2>2. Before([ms |-> lastMs, rand |-> lastRand], [ms |-> lastMs, rand |-> lastRand + 1])
    BY <1>1 DEF Before
  <2> QED BY <1>1, <2>1, <2>2, GiveKeepsOrder DEF UlidInv, UlidTypeOK
<1>4. CASE Overflow(t)
  BY <1>1, <1>4 DEF Overflow, UlidInv, UlidTypeOK, StateIsGreatest, IdsIncrease
<1> QED BY <1>2, <1>3, <1>4 DEF Generate

LEMMA EndSpinKeeps ==
  ASSUME UlidInv, NEW t \in Threads, EndSpin(t)
  PROVE  UlidInv'
<1>1. /\ RandMax \in Nat /\ wallClock \in Nat /\ lastMs \in Nat /\ lastRand \in 0..RandMax
      /\ wallClock' = wallClock /\ wallClock > lastMs /\ spinner' = Nobody
  BY RandMaxIsNat, UlidAssumption DEF UlidInv, UlidTypeOK, EndSpin, Ticked
<1>2. PICK rand \in 0..RandMax : Give(wallClock, rand)
  BY DEF EndSpin
<1>3. Before([ms |-> lastMs, rand |-> lastRand], [ms |-> wallClock, rand |-> rand])
  BY <1>1 DEF Before
<1> QED BY <1>1, <1>2, <1>3, GiveKeepsOrder DEF UlidInv, UlidTypeOK

LEMMA UlidStep == UlidInv /\ [UlidNext]_ulidVars => UlidInv'
<1> SUFFICES ASSUME UlidInv, [UlidNext]_ulidVars PROVE UlidInv'
  OBVIOUS
<1>1. CASE \E t \in Threads : Generate(t) \/ EndSpin(t)
  BY <1>1, GenerateKeeps, EndSpinKeeps
<1>2. CASE AdjustClock
  <2>1. wallClock' \in Nat
    BY <1>2, UlidAssumption DEF AdjustClock
  <2> QED BY <1>2, <2>1 DEF AdjustClock, UlidInv, UlidTypeOK, StateIsGreatest, IdsIncrease
<1>3. CASE UNCHANGED ulidVars
  BY <1>3 DEF ulidVars, UlidInv, UlidTypeOK, StateIsGreatest, IdsIncrease
<1> QED BY <1>1, <1>2, <1>3 DEF UlidNext

(* Every id is greater than all drawn before it, and a random segment      *)
(* never overflows, whatever the clock and the threads do.                 *)
THEOREM UlidsIncrease == UlidSpec => []IdsIncrease
<1>1. UlidInv => IdsIncrease
  BY DEF UlidInv
<1> QED BY <1>1, UlidInitial, UlidStep, PTL DEF UlidSpec

(* What a loop has left after each of its rounds.                          *)
LEMMA ShiftsAre ==
  ASSUME NEW n \in Nat
  PROVE  /\ Shifted(n) \in [Nat -> Nat] /\ Shifted(n)[0] = n
         /\ \A k \in Nat : Shifted(n)[k + 1] = Shifted(n)[k] \div Radix
<1> DEFINE step == [k \in Nat |-> [x \in Nat |-> x \div Radix]]
<1>1. step \in [Nat -> [Nat -> Nat]]
  BY DigitTakenOff
<1>2. \A k, x \in Nat : step[k][x] = x \div Radix
  OBVIOUS
<1> HIDE DEF step
<1>3. PICK f : IsIteration(f, Nat, n, step)
  BY <1>1, IterationsExist, Zenon
<1>4. f \in [Nat -> Nat] /\ f[0] = n /\ \A k \in Nat : f[k + 1] = step[k][f[k]]
  BY <1>3 DEF IsIteration
<1>5. f = [k \in Nat |-> IF k = 0 THEN n ELSE f[k - 1] \div Radix]
  <2>1. ASSUME NEW k \in Nat, k # 0 PROVE f[k] = f[k - 1] \div Radix
    <3>1. k - 1 \in Nat /\ (k - 1) + 1 = k
      BY <2>1
    <3>2. f[(k - 1) + 1] = step[k - 1][f[k - 1]]
      BY <1>4, <3>1
    <3> QED BY <3>1, <3>2, <1>4, <1>2
  <2> QED BY <1>4, <2>1
<1> DEFINE rest == Shifted(n)
<1>6. rest = [k \in Nat |-> IF k = 0 THEN n ELSE rest[k - 1] \div Radix]
  BY <1>5 DEF Shifted
<1> HIDE DEF rest
<1>7. rest[0] = n /\ \A k \in Nat : rest[k + 1] = rest[k] \div Radix
  BY <1>6
<1> DEFINE S == {k \in Nat : rest[k] \in Nat}
<1>8. 0 \in S /\ \A k \in Nat : k \in S => k + 1 \in S
  BY <1>7, DigitTakenOff
<1> HIDE DEF S
<1>9. \A k \in Nat : k \in S
  BY <1>8, Inductive
<1>10. \A k \in Nat : rest[k] \in Nat
  BY <1>9 DEF S
<1>11. rest \in [Nat -> Nat]
  BY <1>6, <1>10
<1> QED BY <1>7, <1>11 DEF rest

(* A number below Radix^width is used up by width rounds.                  *)
LEMMA ShiftedOut ==
  ASSUME NEW n \in Nat, NEW width \in Nat, n < Power[width]
  PROVE  Shifted(n)[width] = 0
<1> DEFINE rest == Shifted(n)
           S == {k \in Nat : k <= width => rest[k] < Power[width - k]}
<1>1. /\ rest \in [Nat -> Nat] /\ rest[0] = n
      /\ \A k \in Nat : rest[k + 1] = rest[k] \div Radix
  BY ShiftsAre
<1> HIDE DEF rest
<1>2. 0 \in S
  BY <1>1
<1>3. ASSUME NEW k \in Nat, k \in S PROVE k + 1 \in S
  <2> SUFFICES ASSUME k + 1 <= width PROVE rest[k + 1] < Power[width - (k + 1)]
    OBVIOUS
  <2> DEFINE p == Power[width - (k + 1)]   q == rest[k + 1]   d == rest[k] % Radix
  <2>1. width - (k + 1) \in Nat /\ (width - (k + 1)) + 1 = width - k
    OBVIOUS
  <2>2. p \in Nat /\ Power[width - k] = Radix * p
    BY <2>1, PowersAre
  <2>3. q \in Nat /\ d \in Nat /\ rest[k] = Radix * q + d
    BY <1>1, DigitTakenOff
  <2>4. rest[k] < Radix * p
    BY <1>3, <2>2
  <2> HIDE DEF p, q, d
  <2>5. q < p
    <3> SUFFICES ASSUME q >= p PROVE FALSE
      BY <2>2, <2>3
    <3>1. Radix * q >= Radix * p
      BY <2>2, <2>3, UlidAssumption, SMT
    <3>2. Radix * q \in Nat /\ Radix * p \in Nat
      BY <2>2, <2>3, UlidAssumption, SMT
    <3> QED BY <2>3, <2>4, <3>1, <3>2
  <2> QED BY <2>5 DEF p, q
<1> HIDE DEF S
<1>4. width \in S
  BY <1>2, <1>3, Inductive
<1>5. rest[width] < Power[0]
  BY <1>4 DEF S
<1> QED BY <1>1, <1>5, PowersAre DEF rest

(* The digits of the greater of two numbers are the greater string.        *)
LEMMA DigitsIncrease ==
  ASSUME NEW width \in Nat, NEW n \in Nat, NEW m \in Nat, n < m, m < Power[width]
  PROVE  LessString(Digits(n, width), Digits(m, width))
<1> DEFINE a == Shifted(n)   b == Shifted(m)   T == {k \in Nat : a[k] = b[k]}
<1>1. /\ a \in [Nat -> Nat] /\ a[0] = n
      /\ \A k \in Nat : a[k + 1] = a[k] \div Radix
  BY ShiftsAre
<1>2. /\ b \in [Nat -> Nat] /\ b[0] = m
      /\ \A k \in Nat : b[k + 1] = b[k] \div Radix
  BY ShiftsAre
<1>3. a[width] = 0 /\ b[width] = 0
  <2>1. Power[width] \in Nat
    BY PowersAre
  <2>2. n < Power[width]
    BY <2>1
  <2> QED BY <2>2, ShiftedOut
<1>4. Digits(n, width) = [i \in 1..width |-> a[width - i] % Radix]
  BY DEF Digits
<1>5. Digits(m, width) = [i \in 1..width |-> b[width - i] % Radix]
  BY DEF Digits
<1> HIDE DEF a, b
<1>6. PICK l \in T : \A k \in T : l <= k
  BY <1>3, LeastOf
<1>7. l \in 1..width /\ l - 1 \in Nat /\ a[l - 1] # b[l - 1]
  BY <1>1, <1>2, <1>3, <1>6
<1>8. \A k \in Nat : a[k] <= b[k]
  <2> DEFINE S == {k \in Nat : a[k] <= b[k]}
  <2>1. 0 \in S
    BY <1>1, <1>2
  <2>2. ASSUME NEW k \in Nat, k \in S PROVE k + 1 \in S
    <3> DEFINE p == a[k + 1]   q == b[k + 1]   d == a[k] % Radix   e == b[k] % Radix
    <3>1. p \in Nat /\ d \in 0..(Radix - 1) /\ a[k] = Radix * p + d
      BY <1>1, DigitTakenOff
    <3>2. q \in Nat /\ e \in 0..(Radix - 1) /\ b[k] = Radix * q + e
      BY <1>2, DigitTakenOff
    <3>3. Radix * p + d <= Radix * q + e
      BY <2>2, <3>1, <3>2
    <3> HIDE DEF p, q, d, e
    <3>4. p <= q
      <4> SUFFICES ASSUME p >= q + 1 PROVE FALSE
        BY <3>1, <3>2
      <4>1. Radix * p >= Radix * (q + 1) /\ Radix * (q + 1) = Radix * q + Radix
        BY <3>1, <3>2, UlidAssumption, SMT
      <4>2. Radix * p \in Nat /\ Radix * q \in Nat /\ Radix \in Nat
        BY <3>1, <3>2, UlidAssumption, SMT
      <4> QED BY <3>1, <3>2, <3>3, <4>1, <4>2
    <3> QED BY <3>4 DEF p, q
  <2> HIDE DEF S
  <2>3. \A k \in Nat : k \in S
    BY <2>1, <2>2, Inductive
  <2> QED BY <2>3 DEF S
<1>9. \A k \in Nat : k >= l => a[k] = b[k]
  <2> DEFINE S == {k \in Nat : k >= l => a[k] = b[k]}
  <2>1. 0 \in S
    BY <1>7
  <2>2. ASSUME NEW k \in Nat, k \in S PROVE k + 1 \in S
    BY <1>1, <1>2, <1>6, <2>2
  <2> HIDE DEF S
  <2>3. \A k \in Nat : k \in S
    BY <2>1, <2>2, Inductive
  <2> QED BY <2>3 DEF S
<1>10. a[l - 1] % Radix < b[l - 1] % Radix
  <2> DEFINE q == a[l]   d == a[l - 1] % Radix   e == b[l - 1] % Radix
  <2>1. q \in Nat /\ d \in 0..(Radix - 1) /\ a[l - 1] = Radix * q + d
    <3>1. a[(l - 1) + 1] = a[l - 1] \div Radix /\ (l - 1) + 1 = l /\ a[l - 1] \in Nat
      BY <1>1, <1>7
    <3> QED BY <3>1, DigitTakenOff
  <2>2. e \in 0..(Radix - 1) /\ b[l - 1] = Radix * q + e
    <3>1. b[(l - 1) + 1] = b[l - 1] \div Radix /\ (l - 1) + 1 = l /\ b[l - 1] \in Nat
          /\ b[l] = q
      BY <1>2, <1>6, <1>7
    <3> QED BY <3>1, DigitTakenOff
  <2>3. a[l - 1] < b[l - 1]
    <3>1. a[l - 1] \in Nat /\ b[l - 1] \in Nat /\ a[l - 1] <= b[l - 1]
      BY <1>1, <1>2, <1>7, <1>8
    <3> QED BY <1>7, <3>1
  <2>4. Radix * q \in Nat
    BY <2>1, UlidAssumption, SMT
  <2> HIDE DEF q, d, e
  <2>5. d < e
    BY <2>1, <2>2, <2>3, <2>4
  <2> QED BY <2>5 DEF d, e
<1>11. width - l + 1 \in 1..width /\ width - (width - l + 1) = l - 1
  BY <1>7
<1>12. ASSUME NEW k \in 1..(width - l + 1 - 1)
       PROVE  Digits(n, width)[k] = Digits(m, width)[k]
  <2>1. k \in 1..width /\ width - k \in Nat /\ width - k >= l
    BY <1>7
  <2> QED BY <1>4, <1>5, <1>9, <2>1
<1>13. Digits(n, width)[width - l + 1] < Digits(m, width)[width - l + 1]
  BY <1>4, <1>5, <1>10, <1>11
<1>14. width - l + 1 \in DOMAIN Digits(n, width)
  BY <1>4, <1>11
<1> QED BY <1>12, <1>13, <1>14 DEF LessString

LEMMA DigitsAreASequence ==
  ASSUME NEW n \in Nat, NEW width \in Nat
  PROVE  Digits(n, width) \in Seq(Nat) /\ Len(Digits(n, width)) = width
<1>1. Shifted(n) \in [Nat -> Nat]
  BY ShiftsAre
<1>2. \A i \in 1..width : Shifted(n)[width - i] % Radix \in Nat
  BY <1>1, DigitTakenOff
<1> QED BY <1>2 DEF Digits

LEMMA FirstOfTwo ==
  ASSUME NEW S, NEW x \in Seq(S), NEW y \in Seq(S), NEW i \in 1..Len(x)
  PROVE  (x \o y)[i] = x[i]
<1>1. Len(x) \in Nat /\ Len(y) \in Nat /\ i \in 1..(Len(x) + Len(y)) /\ i <= Len(x)
  OBVIOUS
<1> QED BY <1>1

LEMMA SecondOfTwo ==
  ASSUME NEW S, NEW x \in Seq(S), NEW y \in Seq(S), NEW i \in 1..Len(y)
  PROVE  (x \o y)[Len(x) + i] = y[i]
<1>1. Len(x) \in Nat /\ Len(y) \in Nat /\ i \in Nat /\ i > 0
  OBVIOUS
<1> DEFINE k == Len(x) + i
<1>2. k \in 1..(Len(x) + Len(y)) /\ ~(k <= Len(x)) /\ k - Len(x) = i
  BY <1>1
<1> HIDE DEF k
<1>3. (x \o y)[k] = y[k - Len(x)]
  BY <1>2
<1> QED BY <1>2, <1>3 DEF k

(* The string of the greater pair is the greater string.                   *)
LEMMA EncodeIncreases ==
  ASSUME NEW p \in Pair, NEW q \in Pair, Before(p, q), q.ms < Power[TimeWidth]
  PROVE  LessString(Encode(p), Encode(q))
<1> DEFINE a == Digits(p.ms, TimeWidth)   b == Digits(p.rand, RandWidth)
           c == Digits(q.ms, TimeWidth)   d == Digits(q.rand, RandWidth)
<1>1. /\ p.ms \in Nat /\ q.ms \in Nat /\ p.rand \in Nat /\ q.rand \in Nat
      /\ q.rand < Power[RandWidth] /\ TimeWidth \in Nat /\ RandWidth \in Nat
  BY PowersAre, RandMaxIsNat, UlidAssumption DEF Pair, RandMax
<1>2. /\ a \in Seq(Nat) /\ c \in Seq(Nat) /\ Len(a) = TimeWidth /\ Len(c) = TimeWidth
      /\ b \in Seq(Nat) /\ d \in Seq(Nat) /\ Len(b) = RandWidth /\ Len(d) = RandWidth
  BY <1>1, DigitsAreASequence
<1>3. p.ms < q.ms => LessString(a, c)
  BY <1>1, DigitsIncrease
<1>4. p.ms = q.ms => a = c /\ LessString(b, d)
  BY <1>1, DigitsIncrease DEF Before
<1>5. p.ms < q.ms \/ p.ms = q.ms
  BY DEF Before
<1> HIDE DEF a, b, c, d
<1>6. /\ \A i \in 1..TimeWidth : (a \o b)[i] = a[i] /\ (c \o d)[i] = c[i]
      /\ \A i \in 1..RandWidth : /\ (a \o b)[TimeWidth + i] = b[i]
                                 /\ (c \o d)[TimeWidth + i] = d[i]
      /\ DOMAIN (a \o b) = 1..(TimeWidth + RandWidth)
      /\ DOMAIN a = 1..TimeWidth /\ DOMAIN b = 1..RandWidth
  <2>1. ASSUME NEW x \in Seq(Nat), NEW y \in Seq(Nat), Len(x) = TimeWidth, Len(y) = RandWidth
        PROVE  /\ \A i \in 1..TimeWidth : (x \o y)[i] = x[i]
               /\ \A i \in 1..RandWidth : (x \o y)[TimeWidth + i] = y[i]
               /\ DOMAIN (x \o y) = 1..(TimeWidth + RandWidth)
               /\ DOMAIN x = 1..TimeWidth /\ DOMAIN y = 1..RandWidth
    <3>1. /\ DOMAIN x = 1..TimeWidth /\ DOMAIN y = 1..RandWidth
          /\ DOMAIN (x \o y) = 1..(TimeWidth + RandWidth)
      <4>1. x \o y \in Seq(Nat) /\ Len(x \o y) = TimeWidth + RandWidth
        BY <2>1
      <4>2. \A s \in Seq(Nat) : DOMAIN s = 1..Len(s)
        OBVIOUS
      <4>3. DOMAIN (x \o y) = 1..(TimeWidth + RandWidth)
        BY <4>1, <4>2
      <4>4. DOMAIN x = 1..TimeWidth /\ DOMAIN y = 1..RandWidth
        BY <2>1, <4>2
      <4> QED BY <4>3, <4>4
    <3>2. \A i \in 1..Len(x) : (x \o y)[i] = x[i]
      BY <2>1, FirstOfTwo, Zenon
    <3>3. \A i \in 1..Len(y) : (x \o y)[Len(x) + i] = y[i]
      BY <2>1, SecondOfTwo, Zenon
    <3>4. /\ \A i \in 1..TimeWidth : (x \o y)[i] = x[i]
          /\ \A i \in 1..RandWidth : (x \o y)[TimeWidth + i] = y[i]
      BY <2>1, <3>2, <3>3, Zenon
    <3> QED BY <3>1, <3>4, Zenon
  <2>2. /\ \A i \in 1..TimeWidth : (a \o b)[i] = a[i]
        /\ \A i \in 1..RandWidth : (a \o b)[TimeWidth + i] = b[i]
        /\ DOMAIN (a \o b) = 1..(TimeWidth + RandWidth)
        /\ DOMAIN a = 1..TimeWidth /\ DOMAIN b = 1..RandWidth
    BY <1>2, <2>1, Zenon
  <2>3. /\ \A i \in 1..TimeWidth : (c \o d)[i] = c[i]
        /\ \A i \in 1..RandWidth : (c \o d)[TimeWidth + i] = d[i]
    BY <1>2, <2>1, Zenon
  <2> QED BY <2>2, <2>3, Zenon
<1>7. CASE p.ms < q.ms
  <2>1. PICK i \in 1..TimeWidth : a[i] < c[i] /\ \A k \in 1..(i - 1) : a[k] = c[k]
    BY <1>3, <1>6, <1>7 DEF LessString
  <2>2. i \in DOMAIN (a \o b) /\ \A k \in 1..(i - 1) : k \in 1..TimeWidth
    BY <1>1, <1>6
  <2>3. LessString(a \o b, c \o d)
    BY <1>6, <2>1, <2>2 DEF LessString
  <2> QED BY <2>3 DEF Encode, a, b, c, d
<1>8. CASE p.ms = q.ms
  <2>1. PICK i \in 1..RandWidth : b[i] < d[i] /\ \A k \in 1..(i - 1) : b[k] = d[k]
    BY <1>4, <1>6, <1>8 DEF LessString
  <2>2. TimeWidth + i \in DOMAIN (a \o b)
    BY <1>1, <1>6
  <2>3. (a \o b)[TimeWidth + i] < (c \o d)[TimeWidth + i]
    BY <1>6, <2>1
  <2>4. ASSUME NEW k \in 1..((TimeWidth + i) - 1) PROVE (a \o b)[k] = (c \o d)[k]
    <3>1. CASE k \in 1..TimeWidth
      BY <1>4, <1>6, <1>8, <3>1
    <3>2. CASE k - TimeWidth \in 1..(i - 1)
      <4>1. k = TimeWidth + (k - TimeWidth) /\ k - TimeWidth \in 1..RandWidth
        BY <1>1, <3>2
      <4>2. b[k - TimeWidth] = d[k - TimeWidth]
        BY <2>1, <3>2
      <4> DEFINE j == k - TimeWidth
      <4>3. (a \o b)[TimeWidth + j] = b[j] /\ (c \o d)[TimeWidth + j] = d[j]
        BY <1>6, <4>1
      <4> QED BY <4>1, <4>2, <4>3
    <3>3. TimeWidth \in Nat /\ i \in Nat /\ k \in Nat /\ k >= 1 /\ k <= (TimeWidth + i) - 1
      BY <1>1
    <3>4. k \in 1..TimeWidth \/ k - TimeWidth \in 1..(i - 1)
      BY <3>3
    <3> QED BY <3>1, <3>2, <3>4
  <2>5. \E n \in DOMAIN (a \o b) : /\ (a \o b)[n] < (c \o d)[n]
                                  /\ \A k \in 1..(n - 1) : (a \o b)[k] = (c \o d)[k]
    <3> DEFINE n == TimeWidth + i
    <3>1. n \in DOMAIN (a \o b) /\ (a \o b)[n] < (c \o d)[n]
      BY <2>2, <2>3
    <3>2. \A k \in 1..(n - 1) : (a \o b)[k] = (c \o d)[k]
      BY <2>4
    <3> HIDE DEF n
    <3> QED BY <3>1, <3>2
  <2>6. LessString(a \o b, c \o d)
    BY <2>5 DEF LessString
  <2> QED BY <2>6 DEF Encode, a, b, c, d
<1> QED BY <1>5, <1>7, <1>8

(* So is its string greater, whatever the radix and the widths, as long as *)
(* the time fits: encoding keeps the order of the pairs.                   *)
THEOREM StringsKeepTheOrder == UlidSpec => []StringsIncrease
<1>1. UlidInv => StringsIncrease
  <2> SUFFICES ASSUME UlidInv, NEW i \in DOMAIN drawn, NEW j \in DOMAIN drawn,
                      i < j, drawn[j].ms < Power[TimeWidth]
               PROVE  LessString(Encode(drawn[i]), Encode(drawn[j]))
    BY DEF StringsIncrease
  <2>1. drawn[i] \in Pair /\ drawn[j] \in Pair
    BY DEF UlidInv, UlidTypeOK
  <2>2. Before(drawn[i], drawn[j])
    BY DEF UlidInv, IdsIncrease
  <2> QED BY <2>1, <2>2, EncodeIncreases
<1> QED BY <1>1, UlidInitial, UlidStep, PTL DEF UlidSpec

(* The random segment keeps to its width: a full one waits or is refused.  *)
THEOREM UlidTypes == UlidSpec => []UlidTypeOK
<1>1. UlidInv => UlidTypeOK
  BY DEF UlidInv
<1> QED BY <1>1, UlidInitial, UlidStep, PTL DEF UlidSpec

-----------------------------------------------------------------------------
(* A span and its deadline timers: the payload tells one story, nothing    *)
(* changes it later, one deadline is armed.                                *)

Story == [status |-> spanStatus, error |-> spanError, type |-> spanErrorType,
          category |-> spanCategory]

(* The fields agree, but for an error that is still being recorded and a   *)
(* callback that is past its test.                                         *)
FieldsAgree ==
  IF spanPc \in {"recording", "recordedExit"} THEN spanStatus = "error"
  ELSE (\A i \in Timers : timers[i] \notin Midway) => OneStory(Story)

(* Callbacks past their test find what they tested, or what another one    *)
(* has made of it.                                                         *)
CallbacksUndisturbed ==
  \A i \in Timers : timers[i] \in Midway =>
    /\ spanPc \notin {"recording", "recordedExit", "left"}
    /\ spanErrorType = "none" /\ spanStatus \in {"ok", "timeout"}
    /\ spanError \in {"none", "deadline"} /\ spanCategory \in {"none", "timeout_error"}
    /\ timers[i] # "tested" => spanStatus = "timeout"
    /\ timers[i] = "errorSet" => spanError = "deadline"

(* The payload is built after end().                                       *)
PayloadFollowsEnd ==
  /\ spanPc \in {"ending", "endingExit", "emit", "left"} => spanEnded
  /\ spanPc # "left" => spanPayload = NoPayload

(* What holds in any case, and what holds of a span whose owner never used *)
(* the fields in the middle of a callback.                                 *)
SpanTyped == TimeoutTypeOK /\ OneDeadline
Uncrossed == FieldsAgree /\ CallbacksUndisturbed /\ (spanPc = "left" => spanPayload = Story)
SpanInv   == SpanTyped /\ PayloadFollowsEnd /\ (crossed \/ Uncrossed)

LEMMA TimeoutTypesInitial == TimeoutInit => SpanTyped
<1> SUFFICES ASSUME TimeoutInit PROVE SpanTyped
  OBVIOUS
<1>1. TimeoutTypeOK
  BY DEF TimeoutInit, TimeoutTypeOK, Verdict, TimerAt
<1>2. OneDeadline
  BY DEF TimeoutInit, OneDeadline
<1> QED BY <1>1, <1>2 DEF SpanTyped

LEMMA TimeoutInitial == TimeoutInit => SpanInv
<1> SUFFICES ASSUME TimeoutInit PROVE SpanInv
  OBVIOUS
<1>1. SpanTyped
  BY TimeoutTypesInitial
<1>2. FieldsAgree
  BY DEF TimeoutInit, FieldsAgree, OneStory, Story
<1>3. PayloadFollowsEnd /\ (spanPc = "left" => spanPayload = Story)
  BY DEF TimeoutInit, PayloadFollowsEnd
<1>4. CallbacksUndisturbed
  BY DEF TimeoutInit, CallbacksUndisturbed, Midway
<1> QED BY <1>1, <1>2, <1>3, <1>4 DEF SpanInv, Uncrossed

-----------------------------------------------------------------------------
(* Types, and the one deadline                                             *)

LEMMA CancelledTypes ==
  ASSUME TimeoutTypeOK, NEW i \in Timers \cup {0}
  PROVE  /\ Cancelled(i) \in [Timers -> TimerAt]
         /\ \A j \in Timers : Cancelled(i)[j] = "armed" <=> timers[j] = "armed" /\ j # i
         /\ \A j \in Timers, w \in Midway : Cancelled(i)[j] = w <=> timers[j] = w
BY DEF TimeoutTypeOK, Cancelled, TimerAt, Midway

LEMMA DeadlineSetTypes ==
  ASSUME SpanTyped, SetTimeoutDeadline
  PROVE  /\ SpanTyped'
         /\ \A j \in Timers, w \in Midway : timers'[j] = w <=> timers[j] = w
<1>1. TimeoutTypeOK /\ OneDeadline
  BY DEF SpanTyped
<1>2. PICK i \in Unused : /\ timers' = [Cancelled(timeoutTimer) EXCEPT ![i] = "armed"]
                          /\ timeoutTimer' = i
  BY DEF SetTimeoutDeadline, PreviousStopped
<1>3. /\ Cancelled(timeoutTimer) \in [Timers -> TimerAt]
      /\ \A j \in Timers : Cancelled(timeoutTimer)[j] # "armed"
      /\ \A j \in Timers, w \in Midway : Cancelled(timeoutTimer)[j] = w <=> timers[j] = w
      /\ i \in Timers /\ timers[i] = "new"
  BY <1>1, CancelledTypes DEF TimeoutTypeOK, OneDeadline, Unused
<1>4. UNCHANGED <<spanFields, spanEnded, spanPc, spanPayload, crossed>>
  BY DEF SetTimeoutDeadline
<1>5. TimeoutTypeOK' /\ OneDeadline'
  BY <1>1, <1>2, <1>3, <1>4 DEF TimeoutTypeOK, OneDeadline, spanFields, TimerAt
<1>6. \A j \in Timers, w \in Midway : timers'[j] = w <=> timers[j] = w
  BY <1>2, <1>3 DEF Midway, TimerAt
<1> QED BY <1>5, <1>6 DEF SpanTyped

LEMMA CancelAtEndTypes ==
  ASSUME SpanTyped,
         CancelAtEnd("ending", "body") \/ CancelAtEnd("endingExit", "emit")
  PROVE  /\ SpanTyped'
         /\ \A j \in Timers, w \in Midway : timers'[j] = w <=> timers[j] = w
<1>1. /\ TimeoutTypeOK /\ OneDeadline
      /\ timers' = Cancelled(timeoutTimer) /\ timeoutTimer' = 0
      /\ UNCHANGED <<spanFields, spanEnded, spanPayload, crossed>>
      /\ spanPc' \in {"body", "emit"}
  BY DEF SpanTyped, CancelAtEnd
<1>2. /\ timers' \in [Timers -> TimerAt]
      /\ \A j \in Timers : timers'[j] # "armed"
      /\ \A j \in Timers, w \in Midway : timers'[j] = w <=> timers[j] = w
  BY <1>1, CancelledTypes DEF TimeoutTypeOK, OneDeadline
<1>3. TimeoutTypeOK' /\ OneDeadline'
  BY <1>1, <1>2 DEF TimeoutTypeOK, OneDeadline, spanFields
<1> QED BY <1>2, <1>3 DEF SpanTyped

(* The steps of the owner that leave the timers alone.                     *)
OwnerOnly ==
  \/ RecordError("body", "recording") \/ FinishRecording("recording", "body")
  \/ End("body", "ending", "body")    \/ ExitBlock
  \/ RecordError("recordingExit", "recordedExit")
  \/ FinishRecording("recordedExit", "leaving")
  \/ End("leaving", "endingExit", "emit") \/ ToSpanPayload

LEMMA OwnerTypes ==
  ASSUME SpanTyped, OwnerOnly
  PROVE  SpanTyped' /\ UNCHANGED timers
<1>1. TimeoutTypeOK /\ OneDeadline
  BY DEF SpanTyped
<1>2. UNCHANGED <<timers, timeoutTimer>>
  BY DEF OwnerOnly, RecordError, FinishRecording, End, ExitBlock, ToSpanPayload
<1>3. CASE RecordError("body", "recording") \/ RecordError("recordingExit", "recordedExit")
  BY <1>1, <1>3 DEF SpanTyped, RecordError, OwnerUsesFields, TimeoutTypeOK, OneDeadline,
     Verdict
<1>4. CASE FinishRecording("recording", "body") \/ FinishRecording("recordedExit", "leaving")
  BY <1>1, <1>4 DEF SpanTyped, FinishRecording, OwnerUsesFields, TimeoutTypeOK,
     OneDeadline, Verdict
<1>5. CASE End("body", "ending", "body") \/ End("leaving", "endingExit", "emit")
  BY <1>1, <1>5 DEF SpanTyped, End, TimeoutTypeOK, OneDeadline, spanFields
<1>6. CASE ExitBlock
  BY <1>1, <1>6 DEF SpanTyped, ExitBlock, TimeoutTypeOK, OneDeadline, spanFields
<1>7. CASE ToSpanPayload
  BY <1>1, <1>7 DEF SpanTyped, ToSpanPayload, OwnerUsesFields, TimeoutTypeOK, OneDeadline,
     Verdict, spanFields
<1> QED BY <1>2, <1>3, <1>4, <1>5, <1>6, <1>7 DEF OwnerOnly

LEMMA TimerTypes ==
  ASSUME SpanTyped, NEW i \in Timers, TimerFires(i)
  PROVE  SpanTyped'
<1>1. TimeoutTypeOK /\ OneDeadline
  BY DEF SpanTyped
<1>2. PICK to \in Midway \cup {"fired"} : timers' = [timers EXCEPT ![i] = to]
  BY DEF TimerFires, TimerTests, SetStatus, SetError, SetCategory, Callback, Midway
<1>3. UNCHANGED <<spanErrorType, spanEnded, timeoutTimer, spanPc, spanPayload, crossed>>
  BY DEF TimerFires, TimerTests, SetStatus, SetError, SetCategory, Callback
<1>4. /\ spanStatus' \in {"timeout", spanStatus} /\ spanError' \in {"deadline", spanError}
      /\ spanCategory' \in {"timeout_error", spanCategory}
  BY DEF TimerFires, TimerTests, SetStatus, SetError, SetCategory, spanFields
<1>5. TimeoutTypeOK'
  BY <1>1, <1>2, <1>3, <1>4 DEF TimeoutTypeOK, Verdict, TimerAt
<1>6. OneDeadline'
  BY <1>1, <1>2, <1>3 DEF TimeoutTypeOK, OneDeadline, Midway
<1> QED BY <1>5, <1>6 DEF SpanTyped

LEMMA TimeoutTypesStep == SpanTyped /\ [TimeoutNext]_spanVars => SpanTyped'
<1> SUFFICES ASSUME SpanTyped, [TimeoutNext]_spanVars PROVE SpanTyped'
  OBVIOUS
<1>1. CASE UNCHANGED spanVars
  BY <1>1 DEF spanVars, spanFields, SpanTyped, TimeoutTypeOK, OneDeadline
<1>2. CASE OwnerRuns
  BY <1>2, DeadlineSetTypes, CancelAtEndTypes, OwnerTypes DEF OwnerRuns, OwnerOnly
<1>3. CASE \E i \in Timers : TimerFires(i)
  BY <1>3, TimerTypes
<1> QED BY <1>1, <1>2, <1>3 DEF TimeoutNext

-----------------------------------------------------------------------------
(* The timers                                                              *)

LEMMA TimerFiresKeeps ==
  ASSUME SpanInv, NEW i \in Timers, TimerFires(i)
  PROVE  SpanInv'
<1>1. TimeoutTypeOK /\ PayloadFollowsEnd /\ SpanTyped'
  BY TimerTypes DEF SpanInv, SpanTyped
<1>2. /\ UNCHANGED <<spanErrorType, spanEnded, timeoutTimer, spanPc, spanPayload, crossed>>
      /\ \A j \in Timers \ {i} : timers'[j] = timers[j]
  BY <1>1 DEF TimerFires, TimerTests, SetStatus, SetError, SetCategory, Callback,
     TimeoutTypeOK
<1>3. PayloadFollowsEnd'
  BY <1>1, <1>2 DEF PayloadFollowsEnd
<1>4. SUFFICES ASSUME ~crossed PROVE Uncrossed'
  BY <1>1, <1>2, <1>3 DEF SpanInv
<1>5. Uncrossed
  BY <1>4 DEF SpanInv
<1>6. CASE TimerTests(i)
  <2>1. /\ UNCHANGED spanFields /\ timers[i] = "armed"
        /\ timers'[i] = IF StillRunning THEN "tested" ELSE "fired"
    BY <1>1, <1>6 DEF TimerTests, Callback, TimeoutTypeOK
  <2>2. spanPc' = "left" => spanPayload' = Story'
    BY <1>2, <1>5, <2>1 DEF Uncrossed, Story, spanFields
  <2>3. FieldsAgree'
    <3>1. (\A j \in Timers : timers'[j] \notin Midway) => \A j \in Timers : timers[j] \notin Midway
      BY <1>2, <2>1 DEF Midway
    <3> QED BY <1>2, <1>5, <2>1, <3>1 DEF Uncrossed, FieldsAgree, OneStory, Story, spanFields
  <2>4. CASE \A j \in Timers : timers[j] \notin Midway
    <3>1. StillRunning => OneStory(Story) /\ spanPc \notin {"recording", "recordedExit", "left"}
      BY <1>1, <1>5, <2>4 DEF Uncrossed, FieldsAgree, StillRunning, PayloadFollowsEnd
    <3>2. CallbacksUndisturbed'
      BY <1>2, <2>1, <2>4, <3>1
         DEF CallbacksUndisturbed, OneStory, Story, StillRunning, spanFields, Midway
    <3> QED BY <2>2, <2>3, <3>2 DEF Uncrossed
  <2>5. CASE \E j \in Timers : timers[j] \in Midway
    <3>1. CallbacksUndisturbed'
      BY <1>2, <1>5, <2>1, <2>5 DEF Uncrossed, CallbacksUndisturbed, spanFields, Midway
    <3> QED BY <2>2, <2>3, <3>1 DEF Uncrossed
  <2> QED BY <2>4, <2>5
<1>7. CASE SetStatus(i) \/ SetError(i) \/ SetCategory(i)
  <2>1. /\ timers[i] \in Midway
        /\ \/ /\ timers[i] = "tested" /\ timers'[i] = "statusSet"
              /\ spanStatus' = "timeout" /\ UNCHANGED <<spanError, spanCategory>>
           \/ /\ timers[i] = "statusSet" /\ timers'[i] = "errorSet"
              /\ spanError' = "deadline" /\ UNCHANGED <<spanStatus, spanCategory>>
           \/ /\ timers[i] = "errorSet" /\ timers'[i] = "fired"
              /\ spanCategory' = "timeout_error" /\ UNCHANGED <<spanStatus, spanError>>
    BY <1>1, <1>7 DEF SetStatus, SetError, SetCategory, Callback, TimeoutTypeOK, Midway
  <2>2. CallbacksUndisturbed
    BY <1>5 DEF Uncrossed
  <2>3. CallbacksUndisturbed'
    BY <1>2, <2>1, <2>2 DEF CallbacksUndisturbed, Midway
  <2>4. spanPc' \notin {"recording", "recordedExit", "left"}
    BY <1>2, <2>1, <2>2 DEF CallbacksUndisturbed
  <2>5. FieldsAgree'
    BY <1>2, <2>1, <2>2, <2>4 DEF CallbacksUndisturbed, FieldsAgree, OneStory, Story, Midway
  <2> QED BY <2>3, <2>4, <2>5 DEF Uncrossed
<1> QED BY <1>6, <1>7 DEF TimerFires

-----------------------------------------------------------------------------
(* The owner                                                               *)

LEMMA AlarmsKeep ==
  ASSUME SpanInv,
         \/ SetTimeoutDeadline
         \/ CancelAtEnd("ending", "body") \/ CancelAtEnd("endingExit", "emit")
  PROVE  SpanInv'
<1>1. SpanTyped /\ PayloadFollowsEnd
  BY DEF SpanInv
<1>2. /\ SpanTyped'
      /\ \A j \in Timers, w \in Midway : timers'[j] = w <=> timers[j] = w
  BY <1>1, DeadlineSetTypes, CancelAtEndTypes
<1>3. UNCHANGED <<spanFields, spanEnded, spanPayload, crossed>>
  BY DEF SetTimeoutDeadline, CancelAtEnd
<1>4. \/ spanPc' = spanPc
      \/ spanPc = "ending" /\ spanPc' = "body"
      \/ spanPc = "endingExit" /\ spanPc' = "emit"
  BY DEF SetTimeoutDeadline, CancelAtEnd
<1>5. PayloadFollowsEnd'
  BY <1>1, <1>3, <1>4 DEF PayloadFollowsEnd
<1>6. \A j \in Timers : timers'[j] \in Midway => timers'[j] = timers[j]
  BY <1>2
<1>7. \A j \in Timers : timers[j] \in Midway => timers'[j] = timers[j]
  BY <1>2
<1>8. Uncrossed => Uncrossed'
  <2> SUFFICES ASSUME Uncrossed PROVE Uncrossed'
    OBVIOUS
  <2>1. FieldsAgree'
    BY <1>3, <1>4, <1>7 DEF Uncrossed, FieldsAgree, OneStory, Story, spanFields
  <2>2. CallbacksUndisturbed'
    BY <1>3, <1>4, <1>6 DEF Uncrossed, CallbacksUndisturbed, spanFields
  <2>3. spanPc' = "left" => spanPayload' = Story'
    BY <1>3, <1>4 DEF Uncrossed, Story, spanFields
  <2> QED BY <2>1, <2>2, <2>3 DEF Uncrossed
<1> QED BY <1>2, <1>3, <1>5, <1>8 DEF SpanInv

LEMMA OwnerKeeps ==
  ASSUME SpanInv, OwnerOnly
  PROVE  SpanInv'
<1>1. PayloadFollowsEnd /\ SpanTyped' /\ UNCHANGED timers
  BY OwnerTypes DEF SpanInv
<1>2. PayloadFollowsEnd'
  BY <1>1 DEF PayloadFollowsEnd, OwnerOnly, RecordError, FinishRecording, End, ExitBlock,
     ToSpanPayload
<1>3. crossed => crossed'
  BY DEF OwnerOnly, RecordError, FinishRecording, End, ExitBlock, ToSpanPayload,
     OwnerUsesFields
<1>4. SUFFICES ASSUME ~crossed', Uncrossed PROVE Uncrossed'
  BY <1>1, <1>2, <1>3 DEF SpanInv
<1>5. FieldsAgree /\ CallbacksUndisturbed /\ (spanPc = "left" => spanPayload = Story)
  BY <1>4 DEF Uncrossed
<1>6. CASE RecordError("body", "recording") \/ RecordError("recordingExit", "recordedExit")
  <2>1. \A i \in Timers : timers'[i] \notin Midway
    BY <1>1, <1>4, <1>6 DEF RecordError, OwnerUsesFields
  <2> QED BY <1>6, <2>1 DEF RecordError, Uncrossed, FieldsAgree, CallbacksUndisturbed
<1>7. CASE FinishRecording("recording", "body") \/ FinishRecording("recordedExit", "leaving")
  <2>1. \A i \in Timers : timers'[i] \notin Midway
    BY <1>1, <1>4, <1>7 DEF FinishRecording, OwnerUsesFields
  <2>2. FieldsAgree'
    BY <1>5, <1>7 DEF FinishRecording, FieldsAgree, OneStory, Story
  <2> QED BY <1>7, <2>1, <2>2 DEF FinishRecording, Uncrossed, CallbacksUndisturbed
<1>8. CASE \/ End("body", "ending", "body") \/ End("leaving", "endingExit", "emit")
           \/ ExitBlock
  <2>1. /\ UNCHANGED <<spanFields, spanPayload>>
        /\ spanPc \in {"body", "leaving"}
        /\ spanPc' \in {"ending", "body", "endingExit", "emit", "leaving", "recordingExit"}
    BY <1>8 DEF End, ExitBlock
  <2>2. FieldsAgree'
    BY <1>1, <1>5, <2>1 DEF FieldsAgree, OneStory, Story, spanFields
  <2>3. CallbacksUndisturbed'
    BY <1>1, <1>5, <2>1 DEF CallbacksUndisturbed, spanFields
  <2> QED BY <2>1, <2>2, <2>3 DEF Uncrossed
<1>9. CASE ToSpanPayload
  <2>1. /\ spanPc = "emit" /\ spanPc' = "left" /\ spanPayload' = Story
        /\ UNCHANGED <<spanFields, spanEnded>>
    BY <1>9 DEF ToSpanPayload, Story
  <2>2. \A i \in Timers : timers'[i] \notin Midway
    BY <1>1, <1>4, <1>9 DEF ToSpanPayload, OwnerUsesFields
  <2>3. FieldsAgree'
    BY <1>1, <1>5, <2>1 DEF FieldsAgree, OneStory, Story, spanFields
  <2> QED BY <2>1, <2>2, <2>3 DEF Uncrossed, CallbacksUndisturbed, Story, spanFields
<1> QED BY <1>6, <1>7, <1>8, <1>9 DEF OwnerOnly

LEMMA TimeoutStep == SpanInv /\ [TimeoutNext]_spanVars => SpanInv'
<1> SUFFICES ASSUME SpanInv, [TimeoutNext]_spanVars PROVE SpanInv'
  OBVIOUS
<1>1. CASE UNCHANGED spanVars
  <2>1. SpanTyped'
    BY <1>1, TimeoutTypesStep DEF SpanInv
  <2>2. PayloadFollowsEnd' /\ (crossed' \/ Uncrossed')
    BY <1>1 DEF spanVars, spanFields, SpanInv, Uncrossed, FieldsAgree, OneStory, Story,
       PayloadFollowsEnd, CallbacksUndisturbed
  <2> QED BY <2>1, <2>2 DEF SpanInv
<1>2. CASE OwnerRuns
  BY <1>2, AlarmsKeep, OwnerKeeps DEF OwnerRuns, OwnerOnly
<1>3. CASE \E i \in Timers : TimerFires(i)
  BY <1>3, TimerFiresKeeps
<1> QED BY <1>1, <1>2, <1>3 DEF TimeoutNext

-----------------------------------------------------------------------------
(* Theorems                                                                *)

(* What was emitted is what the span still says, however late a timer is,  *)
(* if no callback was in the middle of its writes when the owner recorded  *)
(* an error or built the payload (_timeout_fn, to_span_payload).           *)
THEOREM EmittedStaysFinal == TimeoutSpec => [](crossed \/ EmittedIsFinal)
<1>1. SpanInv => crossed \/ EmittedIsFinal
  BY DEF SpanInv, Uncrossed, EmittedIsFinal, Story
<1> QED BY <1>1, TimeoutInitial, TimeoutStep, PTL DEF TimeoutSpec

(* Nor does the payload mix the fields of a timeout with an error's then   *)
(* (_timeout_fn, record_error).                                            *)
THEOREM OneStoryIsTold == TimeoutSpec => [](crossed \/ PayloadTellsOneStory)
<1>1. SpanInv => crossed \/ PayloadTellsOneStory
  <2> SUFFICES ASSUME SpanInv, ~crossed, spanPayload # NoPayload PROVE OneStory(spanPayload)
    BY DEF PayloadTellsOneStory
  <2>1. spanPc = "left" /\ spanPayload = Story /\ Uncrossed
    BY DEF SpanInv, PayloadFollowsEnd, Uncrossed
  <2>2. \A i \in Timers : timers[i] \notin Midway
    BY <2>1 DEF Uncrossed, CallbacksUndisturbed
  <2> QED BY <2>1, <2>2 DEF Uncrossed, FieldsAgree
<1> QED BY <1>1, TimeoutInitial, TimeoutStep, PTL DEF TimeoutSpec

(* At most one timer of a span is armed: the one end() would cancel.       *)
THEOREM OneDeadlineArmed == TimeoutSpec => []OneDeadline
<1>1. SpanTyped => OneDeadline
  BY DEF SpanTyped
<1> QED BY <1>1, TimeoutTypesInitial, TimeoutTypesStep, PTL DEF TimeoutSpec

(* Deadline, end and errors leave one account of the span, for any number  *)
(* of timers, in any order and wherever threads switch, but for a span     *)
(* whose owner used the fields in the middle of a callback (_span.py).     *)
THEOREM DeadlineHolds == TimeoutSpec => []DeadlineIsSafe
<1>1. /\ OneDeadline /\ (crossed \/ EmittedIsFinal) /\ (crossed \/ PayloadTellsOneStory)
      => DeadlineIsSafe
  BY DEF DeadlineIsSafe
<1> QED BY <1>1, EmittedStaysFinal, OneStoryIsTold, OneDeadlineArmed, PTL

-----------------------------------------------------------------------------
(* Circuit breakers: any threshold and any window.                         *)

BreakerInv == ResilienceTypeOK /\ ClosedIffFewFailures /\ HalfOpenIsEarned

USE ResilienceAssumption DEF Chain1

LEMMA BreakersInitial == ResilienceInit => BreakerInv
<1> SUFFICES ASSUME ResilienceInit PROVE BreakerInv
  OBVIOUS
<1>1. ResilienceTypeOK
  BY DEF ResilienceInit, ResilienceTypeOK
<1>2. ClosedIffFewFailures /\ HalfOpenIsEarned
  BY DEF ResilienceInit, ClosedIffFewFailures, HalfOpenIsEarned
<1> QED BY <1>1, <1>2 DEF BreakerInv

-----------------------------------------------------------------------------
(* The wrapper's loops                                                     *)

LEMMA NextProviderTypes ==
  ASSUME ResilienceTypeOK, NEW t \in Threads, NextProvider(t)
  PROVE  /\ provider' \in [Threads -> Chain1]
         /\ callPc' \in [Threads -> {"idle", "admit", "running", "chainFailed"}]
<1>1. provider \in [Threads -> Chain1] /\ provider[t] \in Chain1
  BY DEF ResilienceTypeOK
<1>2. CASE provider[t] < Providers
  <2>1. provider[t] + 1 \in Chain1
    BY <1>1, <1>2
  <2>2. provider' = [provider EXCEPT ![t] = @ + 1] /\ callPc' = [callPc EXCEPT ![t] = "admit"]
    BY <1>2 DEF NextProvider
  <2>3. provider' \in [Threads -> Chain1]
    BY ONLY <1>1, <2>1, <2>2
  <2>4. callPc' \in [Threads -> {"idle", "admit", "running", "chainFailed"}]
    BY <2>2 DEF ResilienceTypeOK
  <2> QED BY <2>3, <2>4
<1>3. CASE ~(provider[t] < Providers)
  BY <1>1, <1>3 DEF NextProvider, ResilienceTypeOK
<1> QED BY <1>2, <1>3

(* Steps that leave the breakers and the clock alone keep the invariant if *)
(* they keep the types.                                                    *)
LEMMA BreakersUntouched ==
  ASSUME BreakerInv, ResilienceTypeOK', UNCHANGED <<breakerVars, clock>>
  PROVE  BreakerInv'
BY DEF BreakerInv, breakerVars, ClosedIffFewFailures, HalfOpenIsEarned, Elapsed

LEMMA LoopsKeep ==
  ASSUME BreakerInv, NEW t \in Threads,
         Invoke(t) \/ GiveUp(t) \/ Retry(t) \/ Refuse(t) \/ Abandon(t)
  PROVE  BreakerInv'
<1> USE DEF breakerVars, Moves
<1>1. ResilienceTypeOK /\ UNCHANGED <<breakerVars, clock>>
  BY DEF BreakerInv, Invoke, GiveUp, Retry, Refuse, Abandon
<1>2. CASE Invoke(t)
  <2>1. /\ provider' \in [Threads -> Chain1] /\ attempt' \in [Threads -> 1..MaxAttempts]
    BY <1>1, <1>2 DEF Invoke, ResilienceTypeOK
  <2>2. /\ callsMade' \in Nat
        /\ callPc' \in [Threads -> {"idle", "admit", "running", "chainFailed"}]
    BY <1>1, <1>2 DEF Invoke, ResilienceTypeOK
  <2>3. UNCHANGED <<circuit, failureCount, lastFailure, clock, probing>>
    BY <1>2 DEF Invoke
  <2>4. ResilienceTypeOK'
    BY <1>1, <2>1, <2>2, <2>3 DEF ResilienceTypeOK
  <2> QED BY <1>1, <2>4, BreakersUntouched
<1>3. CASE GiveUp(t)
  BY <1>1, <1>3, BreakersUntouched DEF GiveUp, ResilienceTypeOK
<1>4. CASE Retry(t)
  <2>1. attempt[t] \in 1..MaxAttempts /\ attempt[t] + 1 \in 1..MaxAttempts
    BY <1>1, <1>4 DEF Retry, ResilienceTypeOK
  <2>2. /\ provider' \in [Threads -> Chain1] /\ attempt' \in [Threads -> 1..MaxAttempts]
    BY <1>1, <1>4, <2>1 DEF Retry, ResilienceTypeOK
  <2>3. ResilienceTypeOK'
    BY <1>1, <1>4, <2>2 DEF Retry, ResilienceTypeOK
  <2> QED BY <1>1, <2>3, BreakersUntouched
<1>5. CASE Refuse(t)
  BY <1>1, <1>5, NextProviderTypes, BreakersUntouched DEF Refuse, ResilienceTypeOK
<1>6. CASE Abandon(t)
  BY <1>1, <1>6, BreakersUntouched DEF Abandon, ResilienceTypeOK
<1> QED BY <1>2, <1>3, <1>4, <1>5, <1>6

-----------------------------------------------------------------------------
(* The breaker                                                             *)

LEMMA AdmitKeeps ==
  ASSUME BreakerInv, NEW t \in Threads, Admit(t)
  PROVE  BreakerInv'
<1> DEFINE p == provider[t]
<1>1. ResilienceTypeOK /\ ClosedIffFewFailures /\ HalfOpenIsEarned /\ p \in Chain1
  BY DEF BreakerInv, ResilienceTypeOK
<1>2. ResilienceTypeOK'
  BY <1>1 DEF Admit, ResilienceTypeOK
<1>3. /\ circuit' = [circuit EXCEPT ![p] = IF @ = "open" THEN "half_open" ELSE @]
      /\ circuit[p] = "open" => Elapsed(p) >= RecoveryTimeout
      /\ UNCHANGED <<failureCount, lastFailure, clock>>
  BY DEF Admit, WindowOver
<1>4. ClosedIffFewFailures'
  BY <1>1, <1>3 DEF ClosedIffFewFailures, ResilienceTypeOK
<1>5. HalfOpenIsEarned'
  BY <1>1, <1>3 DEF HalfOpenIsEarned, ResilienceTypeOK, Elapsed
<1> QED BY <1>2, <1>4, <1>5 DEF BreakerInv

LEMMA SucceedKeeps ==
  ASSUME BreakerInv, NEW t \in Threads, Succeed(t)
  PROVE  BreakerInv'
<1> DEFINE p == provider[t]
<1>1. ResilienceTypeOK /\ ClosedIffFewFailures /\ HalfOpenIsEarned /\ p \in Chain1
  BY DEF BreakerInv, ResilienceTypeOK
<1>2. ResilienceTypeOK'
  BY <1>1 DEF Succeed, ResilienceTypeOK, Moves, CountAfter
<1>3. /\ circuit' = [circuit EXCEPT ![p] = "closed"]
      /\ failureCount' = [failureCount EXCEPT ![p] = 0]
      /\ UNCHANGED <<lastFailure, clock>>
  BY DEF Succeed, CountAfter
<1>4. ClosedIffFewFailures'
  BY <1>1, <1>3 DEF ClosedIffFewFailures, ResilienceTypeOK
<1>5. HalfOpenIsEarned'
  BY <1>1, <1>3 DEF HalfOpenIsEarned, ResilienceTypeOK, Elapsed
<1> QED BY <1>2, <1>4, <1>5 DEF BreakerInv

(* A failure trips the breaker when it is the one that reaches the         *)
(* threshold, or when it comes in half-open: after it, no circuit it       *)
(* touched is half-open.                                                   *)
LEMMA FailKeeps ==
  ASSUME BreakerInv, NEW t \in Threads, Fail(t)
  PROVE  BreakerInv'
<1> DEFINE p == provider[t]
           n == failureCount[p] + 1
<1>1. ResilienceTypeOK /\ ClosedIffFewFailures /\ HalfOpenIsEarned /\ p \in Chain1
  BY DEF BreakerInv, ResilienceTypeOK
<1>2. /\ failureCount' = [failureCount EXCEPT ![p] = n]
      /\ lastFailure' = [lastFailure EXCEPT ![p] = clock]
      /\ circuit' = [circuit EXCEPT
           ![p] = IF circuit[p] = "half_open" \/ n >= FailureThreshold THEN "open" ELSE @]
      /\ probing' = probing \ {t} /\ NextProvider(t)
      /\ UNCHANGED <<clock, attempt, callsMade>>
  BY DEF Fail, Trips
<1>3. n \in Nat /\ clock \in Nat
  BY <1>1 DEF ResilienceTypeOK
<1>4. ResilienceTypeOK'
  BY <1>1, <1>2, <1>3, NextProviderTypes DEF ResilienceTypeOK
<1>5. ClosedIffFewFailures'
  <2> SUFFICES ASSUME NEW q \in Chain1
               PROVE  circuit'[q] = "closed" <=> failureCount'[q] < FailureThreshold
    BY DEF ClosedIffFewFailures
  <2>1. CASE q = p
    BY <1>1, <1>2, <1>3, <2>1, SMTT(30) DEF ClosedIffFewFailures, ResilienceTypeOK
  <2>2. CASE q # p
    BY <1>1, <1>2, <2>2 DEF ClosedIffFewFailures, ResilienceTypeOK
  <2> QED BY <2>1, <2>2
<1>6. HalfOpenIsEarned'
  <2> SUFFICES ASSUME NEW q \in Chain1, circuit'[q] = "half_open"
               PROVE  clock - lastFailure'[q] >= RecoveryTimeout
    BY <1>2 DEF HalfOpenIsEarned, Elapsed
  <2>1. q # p
    BY <1>1, <1>2 DEF ResilienceTypeOK
  <2> QED BY <1>1, <1>2, <2>1 DEF HalfOpenIsEarned, Elapsed, ResilienceTypeOK
<1> QED BY <1>4, <1>5, <1>6 DEF BreakerInv

LEMMA ResetKeeps ==
  ASSUME BreakerInv, NEW p \in Chain1, ResetBreaker(p)
  PROVE  BreakerInv'
<1>1. ResilienceTypeOK /\ ClosedIffFewFailures /\ HalfOpenIsEarned
  BY DEF BreakerInv
<1>2. ResilienceTypeOK'
  BY <1>1 DEF ResetBreaker, ResilienceTypeOK, callVars
<1>3. ClosedIffFewFailures'
  BY <1>1 DEF ResetBreaker, ClosedIffFewFailures, ResilienceTypeOK
<1>4. HalfOpenIsEarned'
  BY <1>1 DEF ResetBreaker, HalfOpenIsEarned, Elapsed, ResilienceTypeOK
<1> QED BY <1>2, <1>3, <1>4 DEF BreakerInv

LEMMA TickKeeps ==
  ASSUME BreakerInv, Tick
  PROVE  BreakerInv'
<1>1. ResilienceTypeOK /\ ClosedIffFewFailures /\ HalfOpenIsEarned
  BY DEF BreakerInv
<1>2. ResilienceTypeOK'
  <2>1. clock' \in Nat
    BY <1>1 DEF Tick, ResilienceTypeOK
  <2>2. UNCHANGED <<circuit, failureCount, lastFailure, callPc, provider, attempt,
                    probing, callsMade>>
    BY DEF Tick, breakerVars, callVars
  <2> QED BY <1>1, <2>1, <2>2 DEF ResilienceTypeOK
<1>3. ClosedIffFewFailures'
  BY <1>1 DEF Tick, ClosedIffFewFailures, breakerVars
<1>4. HalfOpenIsEarned'
  <2>1. clock \in Nat /\ clock' = clock + 1 /\ circuit' = circuit /\ lastFailure' = lastFailure
    BY <1>1 DEF Tick, breakerVars, ResilienceTypeOK
  <2>2. \A p \in Chain1 : lastFailure[p] \in Nat
    BY <1>1 DEF ResilienceTypeOK
  <2>3. RecoveryTimeout \in Nat
    BY ResilienceAssumption
  <2>4. \A p \in Chain1 : Elapsed(p) >= RecoveryTimeout => Elapsed(p)' >= RecoveryTimeout
    BY <2>1, <2>2, <2>3 DEF Elapsed
  <2> QED BY <1>1, <2>1, <2>4 DEF HalfOpenIsEarned
<1> QED BY <1>2, <1>3, <1>4 DEF BreakerInv

LEMMA BreakerStep == BreakerInv /\ [ResilienceNext]_resilienceVars => BreakerInv'
<1> SUFFICES ASSUME BreakerInv, [ResilienceNext]_resilienceVars PROVE BreakerInv'
  OBVIOUS
<1>1. CASE \E t \in Threads : Invoke(t) \/ CallStep(t)
  BY <1>1, LoopsKeep, AdmitKeeps, SucceedKeeps, FailKeeps DEF CallStep
<1>2. CASE \E p \in Chain1 : ResetBreaker(p)
  BY <1>2, ResetKeeps
<1>3. CASE Tick
  BY <1>3, TickKeeps
<1>4. CASE UNCHANGED resilienceVars
  BY <1>4, BreakersUntouched DEF resilienceVars, callVars, BreakerInv, ResilienceTypeOK, breakerVars
<1> QED BY <1>1, <1>2, <1>3, <1>4 DEF ResilienceNext

-----------------------------------------------------------------------------
(* Theorems                                                                *)

(* A circuit is closed exactly while fewer than failure_threshold failures *)
(* are on record, whatever late outcomes, probes and resets interleave.    *)
THEOREM CircuitFollowsCount == ResilienceSpec => []ClosedIffFewFailures
<1>1. BreakerInv => ClosedIffFewFailures
  BY DEF BreakerInv
<1> QED BY <1>1, BreakersInitial, BreakerStep, PTL DEF ResilienceSpec

(* A circuit is half-open only after recovery_timeout without a failure.   *)
THEOREM ProbesAreEarned == ResilienceSpec => []HalfOpenIsEarned
<1>1. BreakerInv => HalfOpenIsEarned
  BY DEF BreakerInv
<1> QED BY <1>1, BreakersInitial, BreakerStep, PTL DEF ResilienceSpec

(* Both hold together, for any number of callers, providers and failures.  *)
THEOREM CircuitHolds == ResilienceSpec => []CircuitFollowsFailures
BY CircuitFollowsCount, ProbesAreEarned, PTL DEF CircuitFollowsFailures

HIDE ResilienceAssumption DEF Chain1

-----------------------------------------------------------------------------
(* Budgets: any number of monitors, threads, records, nested callbacks.    *)

AlertTypes ==
  /\ attached \in Seq(Monitors) /\ fired \in [Monitors -> BOOLEAN]
  /\ frames \in [Threads -> Seq(Frame)]
  /\ alerted \in [Monitors -> [Threads -> Nat]]

(* A thread's outer record() calls wait for their callbacks, and a check   *)
(* that is past the flag has a monitor in hand.                            *)
Shaped(fs) ==
  \A i \in 1..Len(fs) :
    /\ i < Len(fs) => fs[i].at = "callback"
    /\ fs[i].at \in {"total", "fire", "callback"} => fs[i].left # <<>>

(* The innermost call is about to alert only what has not alerted in this  *)
(* thread: nothing else runs in the thread between the test and the alert. *)
AboutTo(fs) == fs # <<>> /\ fs[Len(fs)].at \in {"total", "fire"}
InHand(fs)  == Head(fs[Len(fs)].left)

FrameInv(t) ==
  /\ Shaped(frames[t])
  /\ AboutTo(frames[t]) => alerted[InHand(frames[t])][t] = 0

(* Who has been alerted finds the flag set.                                *)
FlagFollows ==
  \A m \in Monitors, t \in Threads :
    alerted[m][t] = 0 \/ (alerted[m][t] = 1 /\ fired[m])

AlertInv == AlertTypes /\ FlagFollows /\ \A t \in Threads : FrameInv(t)

-----------------------------------------------------------------------------
(* Stacks of frames *)

LEMMA ReplaceTop ==
  ASSUME NEW fs \in Seq(Frame), fs # <<>>, Shaped(fs), NEW f \in Frame,
         f.at \in {"total", "fire", "callback"} => f.left # <<>>
  PROVE  LET gs == [fs EXCEPT ![Len(fs)] = f] IN
         /\ gs \in Seq(Frame) /\ gs # <<>> /\ Shaped(gs) /\ gs[Len(gs)] = f
<1> DEFINE gs == [fs EXCEPT ![Len(fs)] = f]
<1>1. Len(fs) \in Nat \ {0} /\ Len(fs) \in DOMAIN fs /\ DOMAIN fs = 1..Len(fs)
  OBVIOUS
<1>2. gs \in Seq(Frame) /\ Len(gs) = Len(fs) /\ gs[Len(fs)] = f
  BY <1>1
<1>3. \A i \in 1..Len(fs) : i # Len(fs) => gs[i] = fs[i]
  BY <1>1
<1>4. gs # <<>>
  BY <1>1, <1>2
<1> HIDE DEF gs
<1>5. Shaped(gs)
  <2> SUFFICES ASSUME NEW i \in 1..Len(fs)
               PROVE  /\ i < Len(fs) => gs[i].at = "callback"
                      /\ gs[i].at \in {"total", "fire", "callback"} => gs[i].left # <<>>
    BY <1>2 DEF Shaped
  <2>1. CASE i = Len(fs)
    BY <1>1, <1>2, <2>1
  <2>2. CASE i # Len(fs)
    BY <1>1, <1>3, <2>2 DEF Shaped
  <2> QED BY <2>1, <2>2
<1> QED BY <1>2, <1>4, <1>5 DEF gs

LEMMA PushTop ==
  ASSUME NEW fs \in Seq(Frame), Shaped(fs), fs = <<>> \/ fs[Len(fs)].at = "callback",
         NEW f \in Frame, f.at = "snapshot"
  PROVE  LET gs == Append(fs, f) IN
         gs \in Seq(Frame) /\ Shaped(gs) /\ ~AboutTo(gs)
<1> DEFINE gs == Append(fs, f)
<1>1. /\ gs \in Seq(Frame) /\ Len(gs) = Len(fs) + 1 /\ Len(fs) \in Nat
      /\ gs[Len(fs) + 1] = f /\ \A i \in 1..Len(fs) : gs[i] = fs[i]
  OBVIOUS
<1>2. Len(fs) # 0 => fs[Len(fs)].at = "callback"
  OBVIOUS
<1> HIDE DEF gs
<1>3. \A i \in 1..Len(fs) : fs[i].at = "callback"
  <2> TAKE i \in 1..Len(fs)
  <2>1. i = Len(fs) \/ i < Len(fs)
    BY <1>1
  <2> QED BY <1>1, <1>2, <2>1 DEF Shaped
<1>4. Shaped(gs)
  BY <1>1, <1>3 DEF Shaped
<1>5. ~AboutTo(gs)
  BY <1>1 DEF AboutTo
<1> QED BY <1>1, <1>4, <1>5 DEF gs

LEMMA PopTop ==
  ASSUME NEW fs \in Seq(Frame), fs # <<>>, Shaped(fs)
  PROVE  LET gs == SubSeq(fs, 1, Len(fs) - 1) IN
         gs \in Seq(Frame) /\ Shaped(gs) /\ ~AboutTo(gs)
<1> DEFINE gs == SubSeq(fs, 1, Len(fs) - 1)
<1>1. Len(fs) \in Nat \ {0}
  OBVIOUS
<1>2. /\ gs \in Seq(Frame) /\ Len(gs) = Len(fs) - 1
      /\ \A i \in 1..(Len(fs) - 1) : gs[i] = fs[i]
  <2>1. gs = [i \in 1..(Len(fs) - 1) |-> fs[i]]
    BY <1>1
  <2>2. Len(fs) - 1 \in Nat /\ \A i \in 1..(Len(fs) - 1) : fs[i] \in Frame
    BY <1>1
  <2> HIDE DEF gs
  <2> QED BY <2>1, <2>2
<1>3. gs # <<>> => Len(gs) \in 1..(Len(fs) - 1)
  BY <1>1, <1>2
<1> HIDE DEF gs
<1>4. Shaped(gs)
  BY <1>1, <1>2 DEF Shaped
<1>5. ~AboutTo(gs)
  BY <1>1, <1>2, <1>3 DEF AboutTo, Shaped
<1> QED BY <1>2, <1>4, <1>5 DEF gs

-----------------------------------------------------------------------------
(* Steps *)

LEMMA AlertsInitial == CostInit => AlertInv
<1> SUFFICES ASSUME CostInit PROVE AlertInv
  OBVIOUS
<1>1. AlertTypes
  BY DEF CostInit, AlertTypes
<1>2. FlagFollows
  BY DEF CostInit, FlagFollows
<1>3. \A t \in Threads : FrameInv(t)
  BY DEF CostInit, FrameInv, Shaped, AboutTo
<1> QED BY <1>1, <1>2, <1>3 DEF AlertInv

(* A step of one thread that only replaces its stack.                      *)
LEMMA OneStackKeeps ==
  ASSUME AlertInv, NEW t \in Threads, NEW fs \in Seq(Frame),
         frames' = [frames EXCEPT ![t] = fs], UNCHANGED <<attached, fired, alerted>>,
         Shaped(fs), AboutTo(fs) => alerted[InHand(fs)][t] = 0
  PROVE  AlertInv'
<1>1. AlertTypes'
  BY DEF AlertInv, AlertTypes
<1>2. FlagFollows'
  BY DEF AlertInv, FlagFollows
<1>3. ASSUME NEW u \in Threads PROVE FrameInv(u)'
  <2>1. CASE u = t
    <3>1. frames'[u] = fs
      BY <2>1 DEF AlertInv, AlertTypes
    <3> QED BY <2>1, <3>1 DEF FrameInv
  <2>2. CASE u # t
    <3>1. frames'[u] = frames[u]
      BY <2>2 DEF AlertInv, AlertTypes
    <3> QED BY <3>1 DEF AlertInv, FrameInv
  <2> QED BY <2>1, <2>2
<1> QED BY <1>1, <1>2, <1>3 DEF AlertInv

LEMMA StackFacts ==
  ASSUME AlertInv, NEW t \in Threads, frames[t] # <<>>
  PROVE  /\ frames[t] \in Seq(Frame) /\ Shaped(frames[t]) /\ Current(t) \in Frame
         /\ Current(t).left \in Seq(Monitors)
         /\ Current(t).left # <<>> => /\ Head1(t) \in Monitors
                                      /\ Tail(Current(t).left) \in Seq(Monitors)
         /\ Current(t).at \in {"total", "fire", "callback"} => Current(t).left # <<>>
         /\ Len(frames[t]) \in 1..Len(frames[t])
<1>1. frames[t] \in Seq(Frame) /\ Shaped(frames[t])
  BY DEF AlertInv, AlertTypes, FrameInv
<1>2. Len(frames[t]) \in 1..Len(frames[t])
  BY <1>1
<1>3. Current(t) \in Frame
  BY <1>1, <1>2 DEF Current
<1>4. Current(t).left \in Seq(Monitors)
  BY <1>3 DEF Frame
<1>5. Current(t).left # <<>> => /\ Head1(t) \in Monitors
                                /\ Tail(Current(t).left) \in Seq(Monitors)
  BY <1>4 DEF Head1
<1>6. Current(t).at \in {"total", "fire", "callback"} => Current(t).left # <<>>
  BY <1>1, <1>2 DEF Shaped, Current
<1> QED BY <1>1, <1>2, <1>3, <1>4, <1>5, <1>6

(* SetFrame as the replacement of a whole stack.                           *)
LEMMA SetFrameIs ==
  ASSUME AlertInv, NEW t \in Threads, frames[t] # <<>>, NEW at, NEW left, SetFrame(t, at, left)
  PROVE  frames' = [frames EXCEPT
           ![t] = [frames[t] EXCEPT ![Len(frames[t])] = [at |-> at, left |-> left]]]
BY DEF SetFrame

(* A step that moves the innermost call on and leaves the alerts alone.    *)
LEMMA MoveOnKeeps ==
  ASSUME AlertInv, NEW t \in Threads, frames[t] # <<>>,
         NEW at \in {"flag", "total", "fire"}, NEW left \in Seq(Monitors),
         SetFrame(t, at, left), UNCHANGED <<attached, fired, alerted>>,
         at # "flag" => left # <<>> /\ alerted[Head(left)][t] = 0
  PROVE  AlertInv'
<1> DEFINE f == [at |-> at, left |-> left]
           fs == [frames[t] EXCEPT ![Len(frames[t])] = f]
<1>1. f \in Frame /\ f.at = at /\ f.left = left
  BY DEF Frame
<1>2. frames[t] \in Seq(Frame) /\ Shaped(frames[t])
  BY StackFacts
<1> HIDE DEF f
<1>3. fs \in Seq(Frame) /\ fs # <<>> /\ Shaped(fs) /\ fs[Len(fs)] = f
  BY <1>1, <1>2, ReplaceTop
<1>4. frames' = [frames EXCEPT ![t] = fs]
  BY SetFrameIs DEF f
<1> HIDE DEF fs
<1>5. AboutTo(fs) => alerted[InHand(fs)][t] = 0
  BY <1>1, <1>3 DEF AboutTo, InHand
<1> QED BY <1>3, <1>4, <1>5, OneStackKeeps

LEMMA TestFiredKeeps ==
  ASSUME AlertInv, NEW t \in Threads, TestFired(t)
  PROVE  AlertInv'
<1>1. /\ frames[t] # <<>> /\ Current(t).left # <<>> /\ UNCHANGED <<attached, fired, alerted>>
      /\ IF fired[Head1(t)] THEN SetFrame(t, "flag", Tail(Current(t).left))
                            ELSE SetFrame(t, "total", Current(t).left)
  BY DEF TestFired, InFrame
<1>2. /\ Head1(t) \in Monitors /\ Tail(Current(t).left) \in Seq(Monitors)
      /\ Current(t).left \in Seq(Monitors)
  BY <1>1, StackFacts
<1>3. CASE fired[Head1(t)]
  BY <1>1, <1>2, <1>3, MoveOnKeeps
<1>4. CASE ~fired[Head1(t)]
  <2>1. alerted[Head(Current(t).left)][t] = 0
    BY <1>2, <1>4 DEF AlertInv, FlagFollows, Head1
  <2> QED BY <1>1, <1>2, <1>4, <2>1, MoveOnKeeps
<1> QED BY <1>3, <1>4

LEMMA TestTotalKeeps ==
  ASSUME AlertInv, NEW t \in Threads, TestTotal(t)
  PROVE  AlertInv'
<1>1. /\ frames[t] # <<>> /\ Current(t).at = "total" /\ UNCHANGED <<attached, fired, alerted>>
      /\ \/ SetFrame(t, "fire", Current(t).left)
         \/ SetFrame(t, "flag", Tail(Current(t).left))
  BY DEF TestTotal, InFrame, Current
<1>2. /\ Current(t).left \in Seq(Monitors) /\ Current(t).left # <<>>
      /\ Tail(Current(t).left) \in Seq(Monitors)
  BY <1>1, StackFacts
<1>3. alerted[Head(Current(t).left)][t] = 0
  BY <1>1 DEF AlertInv, FrameInv, AboutTo, InHand, Current
<1>4. CASE SetFrame(t, "fire", Current(t).left)
  BY <1>1, <1>2, <1>3, <1>4, MoveOnKeeps
<1>5. CASE SetFrame(t, "flag", Tail(Current(t).left))
  BY <1>1, <1>2, <1>5, MoveOnKeeps
<1> QED BY <1>1, <1>4, <1>5

(* The alert itself: the flag is set before the callback runs.             *)
LEMMA FireKeeps ==
  ASSUME AlertInv, NEW t \in Threads, Fire(t)
  PROVE  AlertInv'
<1> DEFINE m == Head1(t)
           f == [at |-> "callback", left |-> Current(t).left]
           fs == [frames[t] EXCEPT ![Len(frames[t])] = f]
<1>1. /\ frames[t] # <<>> /\ Current(t).at = "fire"
      /\ fired' = [fired EXCEPT ![m] = TRUE] /\ alerted' = [alerted EXCEPT ![m][t] = @ + 1]
      /\ SetFrame(t, "callback", Current(t).left) /\ attached' = attached
  BY DEF Fire, InFrame, Current, Marked
<1>2. /\ frames[t] \in Seq(Frame) /\ Shaped(frames[t])
      /\ Current(t).left \in Seq(Monitors) /\ Current(t).left # <<>> /\ m \in Monitors
  BY <1>1, StackFacts
<1>3. alerted[m][t] = 0
  BY <1>1 DEF AlertInv, FrameInv, AboutTo, InHand, Current, Head1
<1>4. f \in Frame /\ f.at = "callback" /\ f.left # <<>>
  BY <1>2 DEF Frame
<1>5. frames' = [frames EXCEPT ![t] = fs]
  BY <1>1, SetFrameIs
<1> HIDE DEF f, m
<1>6. fs \in Seq(Frame) /\ fs # <<>> /\ Shaped(fs) /\ fs[Len(fs)] = f
  BY <1>1, <1>2, <1>4, ReplaceTop
<1> HIDE DEF fs
<1>7. /\ fired' \in [Monitors -> BOOLEAN] /\ alerted' \in [Monitors -> [Threads -> Nat]]
      /\ alerted'[m][t] = 1 /\ fired'[m]
      /\ \A n \in Monitors : fired[n] => fired'[n]
      /\ \A n \in Monitors, u \in Threads : n # m \/ u # t => alerted'[n][u] = alerted[n][u]
  BY <1>1, <1>2, <1>3 DEF AlertInv, AlertTypes
<1>8. AlertTypes'
  BY <1>1, <1>5, <1>6, <1>7 DEF AlertInv, AlertTypes
<1>9. FlagFollows'
  BY <1>7 DEF AlertInv, FlagFollows
<1>10. ASSUME NEW u \in Threads PROVE FrameInv(u)'
  <2>1. CASE u = t
    <3>1. frames'[u] = fs
      BY <1>5, <2>1 DEF AlertInv, AlertTypes
    <3>2. ~AboutTo(fs)
      BY <1>4, <1>6 DEF AboutTo
    <3> QED BY <1>6, <3>1, <3>2 DEF FrameInv
  <2>2. CASE u # t
    <3>1. frames'[u] = frames[u]
      BY <1>5, <2>2 DEF AlertInv, AlertTypes
    <3>2. AboutTo(frames[u]) => InHand(frames[u]) \in Monitors
      BY StackFacts DEF AboutTo, InHand, Current, Head1
    <3> QED BY <1>7, <2>2, <3>1, <3>2 DEF AlertInv, FrameInv
  <2> QED BY <2>1, <2>2
<1> QED BY <1>8, <1>9, <1>10 DEF AlertInv

LEMMA StackStepsKeep ==
  ASSUME AlertInv, NEW t \in Threads,
         \/ \E m \in Models, c \in Costs : Record(t, m, c)
         \/ SnapshotMonitors(t) \/ CallbackReturns(t) \/ RecordReturns(t)
  PROVE  AlertInv'
<1>1. CASE \E m \in Models, c \in Costs : Record(t, m, c)
  <2> DEFINE f == [at |-> "snapshot", left |-> <<>>]
  <2>1. /\ frames[t] = <<>> \/ frames[t][Len(frames[t])].at = "callback"
        /\ frames' = [frames EXCEPT ![t] = Append(frames[t], f)]
        /\ UNCHANGED <<attached, fired, alerted>>
    BY <1>1 DEF Record, MayCall, InFrame, Push
  <2>2. f \in Frame /\ f.at = "snapshot"
    BY DEF Frame
  <2>3. frames[t] \in Seq(Frame) /\ Shaped(frames[t])
    BY DEF AlertInv, AlertTypes, FrameInv
  <2> HIDE DEF f
  <2>4. Append(frames[t], f) \in Seq(Frame) /\ Shaped(Append(frames[t], f))
        /\ ~AboutTo(Append(frames[t], f))
    BY <2>1, <2>2, <2>3, PushTop
  <2> QED BY <2>1, <2>4, OneStackKeeps
<1>2. CASE SnapshotMonitors(t)
  <2>1. /\ frames[t] # <<>> /\ SetFrame(t, "flag", attached)
        /\ UNCHANGED <<attached, fired, alerted>> /\ attached \in Seq(Monitors)
    BY <1>2 DEF SnapshotMonitors, InFrame, AlertInv, AlertTypes
  <2> QED BY <2>1, MoveOnKeeps
<1>3. CASE CallbackReturns(t)
  <2>1. /\ frames[t] # <<>> /\ SetFrame(t, "flag", Tail(Current(t).left))
        /\ Current(t).at = "callback" /\ UNCHANGED <<attached, fired, alerted>>
    BY <1>3 DEF CallbackReturns, InFrame, Current
  <2>2. Tail(Current(t).left) \in Seq(Monitors)
    BY <2>1, StackFacts
  <2> QED BY <2>1, <2>2, MoveOnKeeps
<1>4. CASE RecordReturns(t)
  <2> DEFINE fs == SubSeq(frames[t], 1, Len(frames[t]) - 1)
  <2>1. /\ frames[t] # <<>> /\ frames' = [frames EXCEPT ![t] = fs]
        /\ UNCHANGED <<attached, fired, alerted>>
    BY <1>4 DEF RecordReturns, InFrame
  <2>2. frames[t] \in Seq(Frame) /\ Shaped(frames[t])
    BY DEF AlertInv, AlertTypes, FrameInv
  <2>3. fs \in Seq(Frame) /\ Shaped(fs) /\ ~AboutTo(fs)
    BY <2>1, <2>2, PopTop
  <2> HIDE DEF fs
  <2> QED BY <2>1, <2>3, OneStackKeeps
<1> QED BY <1>1, <1>2, <1>3, <1>4

LEMMA AddMonitorKeeps ==
  ASSUME AlertInv, NEW t \in Threads, NEW m \in Monitors, AddMonitor(t, m)
  PROVE  AlertInv'
<1>1. attached' \in Seq(Monitors) /\ UNCHANGED <<fired, frames, alerted>>
  BY DEF AddMonitor, AlertInv, AlertTypes
<1> QED BY <1>1 DEF AlertInv, AlertTypes, FlagFollows, FrameInv

(* A new period: nobody has been alerted in it.                            *)
LEMMA TotalResetKeeps ==
  ASSUME AlertInv, NEW t \in Threads, Reset(t)
  PROVE  AlertInv'
<1>1. /\ alerted' = [n \in Monitors |-> [u \in Threads |-> 0]] /\ UNCHANGED <<attached, frames>>
      /\ fired' \in [Monitors -> BOOLEAN]
  BY DEF Reset, Cleared, AlertInv, AlertTypes
<1>2. AlertTypes' /\ FlagFollows'
  BY <1>1 DEF AlertInv, AlertTypes, FlagFollows
<1>3. ASSUME NEW u \in Threads PROVE FrameInv(u)'
  <2>1. AboutTo(frames[u]) => InHand(frames[u]) \in Monitors
    BY StackFacts DEF AboutTo, InHand, Current, Head1
  <2> QED BY <1>1, <2>1 DEF AlertInv, FrameInv
<1> QED BY <1>2, <1>3 DEF AlertInv

LEMMA CostStep == AlertInv /\ [CostNext]_costVars => AlertInv'
<1> SUFFICES ASSUME AlertInv, [CostNext]_costVars PROVE AlertInv'
  OBVIOUS
<1>1. CASE UNCHANGED costVars
  BY <1>1 DEF costVars, AlertInv, AlertTypes, FlagFollows, FrameInv
<1>2. CASE CostNext
  BY <1>2, StackStepsKeep, TestFiredKeeps, TestTotalKeeps, FireKeeps, AddMonitorKeeps,
     TotalResetKeeps DEF CostNext
<1> QED BY <1>1, <1>2

(* Once per thread and period: a callback that records again, however      *)
(* deep, does not alert again.                                             *)
THEOREM AlertedOncePerThread == CostSpec => []OneAlertPerThread
<1>1. AlertInv => OneAlertPerThread
  <2> SUFFICES ASSUME AlertInv, NEW m \in Monitors, NEW t \in Threads
               PROVE  alerted[m][t] <= 1
    BY DEF OneAlertPerThread
  <2>1. alerted[m][t] = 0 \/ alerted[m][t] = 1
    BY DEF AlertInv, FlagFollows
  <2> QED BY <2>1
<1> QED BY <1>1, AlertsInitial, CostStep, PTL DEF CostSpec

-----------------------------------------------------------------------------
(* No breach goes unnoticed *)

Elems(s) == {s[i] : i \in DOMAIN s}
Told(m)  == \E t \in Threads : alerted[m][t] > 0

(* A call that will test the monitor yet, or is testing it.                *)
FrameOwes(f, m) ==
  \/ f.at = "snapshot"
  \/ f.at \in {"flag", "total", "fire"} /\ m \in Elems(f.left)
  \/ f.at = "callback" /\ m \in Elems(Tail(f.left))
Owes(fs, m) == \E i \in 1..Len(fs) : FrameOwes(fs[i], m)

(* Monitors are never detached, so that whatever a call has before it, and *)
(* whatever has fired, is reached by a reset; a flag stands for an alert.  *)
InTimeAttached == inTime \subseteq Elems(attached)
LeftAttached ==
  \A t \in Threads : \A i \in 1..Len(frames[t]) : Elems(frames[t][i].left) \subseteq Elems(attached)
FiredIsTold == \A m \in Monitors : fired[m] => m \in Elems(attached) /\ Told(m)

(* A breach is told, or somebody owes the test.                            *)
BreachIsOwed ==
  \A m \in inTime :
    TotalUsd >= Threshold[m] => Told(m) \/ \E t \in Threads : Owes(frames[t], m)

NoticeInv ==
  AlertInv /\ InTimeAttached /\ LeftAttached /\ FiredIsTold /\ BreachIsOwed

LEMMA ElemsOfTail ==
  ASSUME NEW s \in Seq(Monitors), s # <<>>
  PROVE  /\ Elems(Tail(s)) \subseteq Elems(s) /\ Head(s) \in Elems(s)
         /\ \A m \in Elems(s) : m = Head(s) \/ m \in Elems(Tail(s))
<1>1. /\ DOMAIN s = 1..Len(s) /\ Len(s) \in Nat \ {0} /\ Head(s) = s[1]
      /\ Tail(s) \in Seq(Monitors) /\ DOMAIN Tail(s) = 1..(Len(s) - 1)
      /\ \A i \in 1..(Len(s) - 1) : Tail(s)[i] = s[i + 1]
  OBVIOUS
<1>2. Elems(Tail(s)) \subseteq Elems(s) /\ Head(s) \in Elems(s)
  BY <1>1 DEF Elems
<1>3. ASSUME NEW i \in 1..Len(s), i # 1 PROVE s[i] \in Elems(Tail(s))
  <2>1. i - 1 \in 1..(Len(s) - 1) /\ (i - 1) + 1 = i
    BY <1>1, <1>3
  <2>2. Tail(s)[i - 1] = s[i]
    BY <1>1, <2>1
  <2> QED BY <1>1, <2>1, <2>2 DEF Elems
<1>4. \A m \in Elems(s) : m = Head(s) \/ m \in Elems(Tail(s))
  BY <1>1, <1>3 DEF Elems
<1> QED BY <1>2, <1>4

LEMMA ElemsOfAppend ==
  ASSUME NEW s \in Seq(Monitors), NEW m \in Monitors
  PROVE  Elems(s) \subseteq Elems(Append(s, m))
<1>1. /\ DOMAIN s = 1..Len(s) /\ Len(s) \in Nat /\ DOMAIN Append(s, m) = 1..(Len(s) + 1)
      /\ \A i \in 1..Len(s) : Append(s, m)[i] = s[i]
  OBVIOUS
<1> QED BY <1>1 DEF Elems

(* What becomes of a debt when the innermost call moves on.                *)
LEMMA OwesAfterMove ==
  ASSUME NEW fs \in Seq(Frame), fs # <<>>, NEW f \in Frame, NEW m, Owes(fs, m),
         FrameOwes(fs[Len(fs)], m) => FrameOwes(f, m)
  PROVE  Owes([fs EXCEPT ![Len(fs)] = f], m)
<1> DEFINE gs == [fs EXCEPT ![Len(fs)] = f]
<1>1. /\ Len(fs) \in 1..Len(fs) /\ Len(gs) = Len(fs) /\ gs[Len(fs)] = f
      /\ \A i \in 1..Len(fs) : i # Len(fs) => gs[i] = fs[i]
  OBVIOUS
<1> HIDE DEF gs
<1>2. PICK i \in 1..Len(fs) : FrameOwes(fs[i], m)
  BY DEF Owes
<1>3. FrameOwes(gs[i], m)
  BY <1>1, <1>2
<1> QED BY <1>1, <1>3 DEF Owes, gs

LEMMA OwesAfterPush ==
  ASSUME NEW fs \in Seq(Frame), NEW f \in Frame, f.at = "snapshot", NEW m
  PROVE  Owes(Append(fs, f), m)
<1> DEFINE gs == Append(fs, f)
<1>1. Len(gs) = Len(fs) + 1 /\ Len(fs) \in Nat /\ gs[Len(fs) + 1] = f
  OBVIOUS
<1> HIDE DEF gs
<1>2. FrameOwes(gs[Len(fs) + 1], m) /\ Len(fs) + 1 \in 1..Len(gs)
  BY <1>1 DEF FrameOwes
<1> QED BY <1>2 DEF Owes, gs

LEMMA AllButTop ==
  ASSUME NEW S, NEW s \in Seq(S), s # <<>>
  PROVE  /\ Len(s) \in Nat \ {0} /\ Len(SubSeq(s, 1, Len(s) - 1)) = Len(s) - 1
         /\ \A i \in 1..(Len(s) - 1) : SubSeq(s, 1, Len(s) - 1)[i] = s[i]
<1>1. Len(s) \in Nat \ {0} /\ Len(s) - 1 \in Nat
  OBVIOUS
<1>2. \A i \in 1..(Len(s) - 1) : s[i] \in S
  BY <1>1
<1>3. SubSeq(s, 1, Len(s) - 1) = [i \in 1..(Len(s) - 1) |-> s[i]]
  BY <1>1
<1>4. Len([i \in 1..(Len(s) - 1) |-> s[i]]) = Len(s) - 1
  BY <1>1
<1> QED BY <1>1, <1>3, <1>4

LEMMA OwesAfterPop ==
  ASSUME NEW fs \in Seq(Frame), fs # <<>>, NEW m, Owes(fs, m), ~FrameOwes(fs[Len(fs)], m)
  PROVE  Owes(SubSeq(fs, 1, Len(fs) - 1), m)
<1> DEFINE gs == SubSeq(fs, 1, Len(fs) - 1)
<1>1. /\ Len(fs) \in Nat \ {0} /\ Len(gs) = Len(fs) - 1
      /\ \A i \in 1..(Len(fs) - 1) : gs[i] = fs[i]
  BY AllButTop
<1> HIDE DEF gs
<1>2. PICK i \in 1..Len(fs) : FrameOwes(fs[i], m)
  BY DEF Owes
<1>3. i \in 1..(Len(fs) - 1)
  BY <1>1, <1>2
<1> QED BY <1>1, <1>2, <1>3 DEF Owes, gs

LEMMA NoticeInitial == CostInit => NoticeInv
<1> SUFFICES ASSUME CostInit PROVE NoticeInv
  OBVIOUS
<1>1. AlertInv
  BY AlertsInitial
<1>2. /\ inTime = {} /\ fired = [m \in Monitors |-> FALSE]
      /\ \A t \in Threads : frames[t] = <<>>
  BY DEF CostInit
<1>3. LeftAttached
  BY <1>2 DEF LeftAttached
<1> QED BY <1>1, <1>2, <1>3 DEF NoticeInv, InTimeAttached, FiredIsTold, BreachIsOwed

(* A step that replaces the stack of one thread, has nobody untold and     *)
(* keeps or settles what the thread owes.                                  *)
LEMMA OneStackOwes ==
  ASSUME NoticeInv, AlertInv', NEW t \in Threads, NEW fs \in Seq(Frame),
         frames' = [frames EXCEPT ![t] = fs], UNCHANGED <<costRecords, attached, inTime>>,
         \A m \in Monitors : Told(m) => Told(m)',
         \A m \in Monitors : fired'[m] => fired[m] \/ (m \in Elems(attached) /\ Told(m)'),
         \A i \in 1..Len(fs) : Elems(fs[i].left) \subseteq Elems(attached),
         \A m \in inTime : Breach(m) /\ Owes(frames[t], m) => Told(m)' \/ Owes(fs, m)
  PROVE  NoticeInv'
<1>1. frames'[t] = fs /\ \A u \in Threads : u # t => frames'[u] = frames[u]
  BY DEF NoticeInv, AlertInv, AlertTypes
<1>2. InTimeAttached' /\ TotalUsd' = TotalUsd /\ attached' = attached
  BY DEF NoticeInv, InTimeAttached, TotalUsd
<1>3. LeftAttached'
  <2> SUFFICES ASSUME NEW u \in Threads, NEW i \in 1..Len(frames'[u])
               PROVE  Elems(frames'[u][i].left) \subseteq Elems(attached)
    BY <1>2 DEF LeftAttached
  <2>1. CASE u = t
    BY <1>1, <2>1
  <2>2. CASE u # t
    BY <1>1, <2>2 DEF NoticeInv, LeftAttached
  <2> QED BY <2>1, <2>2
<1>4. FiredIsTold'
  BY <1>2 DEF NoticeInv, FiredIsTold
<1>5. BreachIsOwed'
  <2> SUFFICES ASSUME NEW m \in inTime, TotalUsd >= Threshold[m]
               PROVE  Told(m)' \/ \E u \in Threads : Owes(frames'[u], m)
    BY <1>2 DEF BreachIsOwed
  <2>1. m \in Monitors
    BY DEF NoticeInv, InTimeAttached, AlertInv, AlertTypes, Elems
  <2>2. CASE Told(m)
    BY <2>1, <2>2
  <2>3. CASE \E u \in Threads : Owes(frames[u], m)
    <3>1. PICK u \in Threads : Owes(frames[u], m)
      BY <2>3
    <3>2. CASE u = t
      BY <1>1, <3>1, <3>2 DEF Breach
    <3>3. CASE u # t
      BY <1>1, <3>1, <3>3
    <3> QED BY <3>2, <3>3
  <2> QED BY <2>2, <2>3 DEF NoticeInv, BreachIsOwed
<1> QED BY <1>2, <1>3, <1>4, <1>5 DEF NoticeInv

(* The innermost call moves on: it forgets no monitor whose breach is not  *)
(* told yet.                                                               *)
LEMMA MoveOnOwes ==
  ASSUME NoticeInv, AlertInv', NEW t \in Threads, frames[t] # <<>>,
         NEW at \in {"flag", "total", "fire", "callback"}, NEW left \in Seq(Monitors),
         SetFrame(t, at, left), UNCHANGED <<costRecords, attached, inTime>>,
         Elems(left) \subseteq Elems(attached),
         \A m \in Monitors : Told(m) => Told(m)',
         \A m \in Monitors : fired'[m] => fired[m] \/ (m \in Elems(attached) /\ Told(m)'),
         \A m \in inTime : Breach(m) /\ FrameOwes(Current(t), m)
           => Told(m)' \/ FrameOwes([at |-> at, left |-> left], m)
  PROVE  NoticeInv'
<1> DEFINE f == [at |-> at, left |-> left]
           fs == [frames[t] EXCEPT ![Len(frames[t])] = f]
<1>1. f \in Frame /\ f.left = left
  BY DEF Frame
<1>2. AlertInv /\ frames[t] \in Seq(Frame) /\ Current(t) = frames[t][Len(frames[t])]
  BY StackFacts DEF NoticeInv, Current
<1>3. \A m \in inTime : Breach(m) /\ FrameOwes(Current(t), m) => Told(m)' \/ FrameOwes(f, m)
  OBVIOUS
<1>4. frames' = [frames EXCEPT ![t] = fs]
  BY <1>2, SetFrameIs
<1> HIDE DEF f
<1>5. /\ fs \in Seq(Frame) /\ Len(fs) = Len(frames[t])
      /\ \A i \in 1..Len(frames[t]) : fs[i] = IF i = Len(frames[t]) THEN f ELSE frames[t][i]
  BY <1>1, <1>2
<1>6. \A i \in 1..Len(fs) : Elems(fs[i].left) \subseteq Elems(attached)
  BY <1>1, <1>5 DEF NoticeInv, LeftAttached
<1>7. ASSUME NEW m \in inTime, Breach(m), Owes(frames[t], m)
      PROVE  Told(m)' \/ Owes(fs, m)
  <2>1. CASE FrameOwes(Current(t), m) => FrameOwes(f, m)
    BY <1>1, <1>2, <1>7, <2>1, OwesAfterMove
  <2>2. CASE Told(m)'
    BY <2>2
  <2> QED BY <1>3, <1>7, <2>1, <2>2
<1> HIDE DEF fs
<1> QED BY <1>4, <1>5, <1>6, <1>7, OneStackOwes

LEMMA CurrentAttached ==
  ASSUME NoticeInv, NEW t \in Threads, frames[t] # <<>>
  PROVE  /\ Elems(Current(t).left) \subseteq Elems(attached)
         /\ Current(t).left # <<>> =>
              /\ Head1(t) \in Monitors /\ Head1(t) \in Elems(attached)
              /\ Tail(Current(t).left) \in Seq(Monitors)
              /\ Elems(Tail(Current(t).left)) \subseteq Elems(attached)
              /\ \A m \in Elems(Current(t).left) :
                   m = Head1(t) \/ m \in Elems(Tail(Current(t).left))
<1>1. AlertInv
  BY DEF NoticeInv
<1>2. Len(frames[t]) \in 1..Len(frames[t]) /\ Current(t).left \in Seq(Monitors)
  BY <1>1, StackFacts
<1>3. Elems(Current(t).left) \subseteq Elems(attached)
  BY <1>2 DEF NoticeInv, LeftAttached, Current
<1>4. CASE Current(t).left # <<>>
  <2>1. Head1(t) \in Monitors /\ Tail(Current(t).left) \in Seq(Monitors)
    BY <1>1, <1>4, StackFacts
  <2> QED BY <1>2, <1>3, <1>4, <2>1, ElemsOfTail DEF Head1
<1> QED BY <1>3, <1>4

LEMMA SnapshotOwes ==
  ASSUME NoticeInv, AlertInv', NEW t \in Threads, SnapshotMonitors(t)
  PROVE  NoticeInv'
<1>1. /\ frames[t] # <<>> /\ SetFrame(t, "flag", attached)
      /\ UNCHANGED <<costRecords, attached, fired, alerted, inTime>>
      /\ attached \in Seq(Monitors) /\ inTime \subseteq Elems(attached)
  BY DEF SnapshotMonitors, InFrame, NoticeInv, AlertInv, AlertTypes, InTimeAttached
<1>2. \A m \in inTime : FrameOwes([at |-> "flag", left |-> attached], m)
  BY <1>1 DEF FrameOwes
<1>3. \A m \in Monitors : Told(m) => Told(m)'
  BY <1>1 DEF Told
<1>4. \A m \in Monitors : fired'[m] => fired[m]
  BY <1>1
<1> QED BY <1>1, <1>2, <1>3, <1>4, MoveOnOwes

LEMMA TestFiredOwes ==
  ASSUME NoticeInv, AlertInv', NEW t \in Threads, TestFired(t)
  PROVE  NoticeInv'
<1> DEFINE left == Current(t).left
<1>1. /\ frames[t] # <<>> /\ left # <<>> /\ Current(t).at = "flag"
      /\ UNCHANGED <<costRecords, attached, fired, alerted, inTime>>
      /\ IF fired[Head1(t)] THEN SetFrame(t, "flag", Tail(left)) ELSE SetFrame(t, "total", left)
  BY DEF TestFired, InFrame, Current
<1>2. AlertInv
  BY DEF NoticeInv
<1>3. left \in Seq(Monitors)
  BY <1>1, <1>2, StackFacts
<1>4. /\ \A m \in Monitors : Told(m) => Told(m)'
      /\ \A m \in Monitors : fired'[m] => fired[m]
  BY <1>1 DEF Told
<1>5. \A m : FrameOwes(Current(t), m) => m \in Elems(left)
  BY <1>1 DEF FrameOwes
<1>6. CASE fired[Head1(t)]
  <2> PICK h : h = Head1(t)
    OBVIOUS
  <2>1. Told(h)' /\ Tail(left) \in Seq(Monitors) /\ Elems(Tail(left)) \subseteq Elems(attached)
        /\ \A m \in Elems(left) : m = h \/ m \in Elems(Tail(left))
    BY <1>1, <1>4, <1>6, CurrentAttached DEF NoticeInv, FiredIsTold
  <2>2. \A m \in inTime : FrameOwes(Current(t), m)
          => Told(m)' \/ FrameOwes([at |-> "flag", left |-> Tail(left)], m)
    BY <1>5, <2>1 DEF FrameOwes
  <2> QED BY <1>1, <1>4, <1>6, <2>1, <2>2, MoveOnOwes
<1>7. CASE ~fired[Head1(t)]
  <2>1. \A m \in inTime : FrameOwes(Current(t), m) => FrameOwes([at |-> "total", left |-> left], m)
    BY <1>5 DEF FrameOwes
  <2>2. Elems(left) \subseteq Elems(attached)
    BY <1>1, CurrentAttached
  <2> QED BY <1>1, <1>3, <1>4, <1>7, <2>1, <2>2, MoveOnOwes
<1> QED BY <1>6, <1>7

LEMMA TestTotalOwes ==
  ASSUME NoticeInv, AlertInv', NEW t \in Threads, TestTotal(t)
  PROVE  NoticeInv'
<1> DEFINE left == Current(t).left
<1>1. /\ frames[t] # <<>> /\ Current(t).at = "total"
      /\ UNCHANGED <<costRecords, attached, fired, alerted, inTime>>
      /\ IF Breach(Head1(t)) THEN SetFrame(t, "fire", left) ELSE SetFrame(t, "flag", Tail(left))
  BY DEF TestTotal, InFrame, Current
<1>2. AlertInv
  BY DEF NoticeInv
<1>3. left \in Seq(Monitors) /\ left # <<>>
  BY <1>1, <1>2, StackFacts
<1>4. /\ \A m \in Monitors : Told(m) => Told(m)'
      /\ \A m \in Monitors : fired'[m] => fired[m]
  BY <1>1 DEF Told
<1>5. \A m : FrameOwes(Current(t), m) => m \in Elems(left)
  BY <1>1 DEF FrameOwes
<1>6. CASE Breach(Head1(t))
  <2>1. \A m \in inTime : FrameOwes(Current(t), m) => FrameOwes([at |-> "fire", left |-> left], m)
    BY <1>5 DEF FrameOwes
  <2>2. Elems(left) \subseteq Elems(attached)
    BY <1>1, CurrentAttached
  <2> QED BY <1>1, <1>3, <1>4, <1>6, <2>1, <2>2, MoveOnOwes
<1>7. CASE ~Breach(Head1(t))
  <2>1. Tail(left) \in Seq(Monitors) /\ Elems(Tail(left)) \subseteq Elems(attached)
        /\ \A m \in Elems(left) : m = Head1(t) \/ m \in Elems(Tail(left))
    BY <1>1, <1>3, CurrentAttached
  <2>2. \A m \in inTime : Breach(m) /\ FrameOwes(Current(t), m)
          => FrameOwes([at |-> "flag", left |-> Tail(left)], m)
    BY <1>5, <1>7, <2>1 DEF FrameOwes
  <2> QED BY <1>1, <1>4, <1>7, <2>1, <2>2, MoveOnOwes
<1> QED BY <1>6, <1>7

(* The alert settles the debt of the monitor in hand.                      *)
LEMMA FireOwes ==
  ASSUME NoticeInv, AlertInv', NEW t \in Threads, Fire(t)
  PROVE  NoticeInv'
<1> DEFINE left == Current(t).left
<1> PICK h : h = Head1(t)
  OBVIOUS
<1>1. /\ frames[t] # <<>> /\ Current(t).at = "fire" /\ UNCHANGED <<costRecords, attached, inTime>>
      /\ fired' = [fired EXCEPT ![h] = TRUE] /\ alerted' = [alerted EXCEPT ![h][t] = @ + 1]
      /\ SetFrame(t, "callback", left)
  BY DEF Fire, InFrame, Current, Marked
<1>2. AlertInv
  BY DEF NoticeInv
<1>3. left \in Seq(Monitors) /\ left # <<>>
  BY <1>1, <1>2, StackFacts
<1>4. /\ h \in Monitors /\ h \in Elems(attached) /\ Elems(left) \subseteq Elems(attached)
      /\ \A m \in Elems(left) : m = h \/ m \in Elems(Tail(left))
  BY <1>1, <1>3, CurrentAttached
<1>5. /\ alerted \in [Monitors -> [Threads -> Nat]] /\ fired \in [Monitors -> BOOLEAN]
  BY <1>2 DEF AlertInv, AlertTypes
<1>6. Told(h)' /\ \A m \in Monitors : Told(m) => Told(m)'
  <2>1. /\ alerted'[h][t] = alerted[h][t] + 1 /\ alerted[h][t] \in Nat
        /\ \A m \in Monitors, u \in Threads : alerted'[m][u] >= alerted[m][u]
    BY <1>1, <1>4, <1>5
  <2>2. \A m \in Monitors, u \in Threads : alerted[m][u] \in Nat /\ alerted'[m][u] \in Nat
    BY <1>5 DEF AlertInv, AlertTypes
  <2> QED BY <1>4, <2>1, <2>2 DEF Told
<1>7. \A m \in Monitors : fired'[m] => fired[m] \/ (m \in Elems(attached) /\ Told(m)')
  BY <1>1, <1>4, <1>5, <1>6
<1>8. \A m \in inTime : FrameOwes(Current(t), m)
        => Told(m)' \/ FrameOwes([at |-> "callback", left |-> left], m)
  BY <1>1, <1>4, <1>6 DEF FrameOwes
<1> QED BY <1>1, <1>3, <1>4, <1>6, <1>7, <1>8, MoveOnOwes

LEMMA CallbackReturnsOwes ==
  ASSUME NoticeInv, AlertInv', NEW t \in Threads, CallbackReturns(t)
  PROVE  NoticeInv'
<1> DEFINE left == Current(t).left
<1>1. /\ frames[t] # <<>> /\ Current(t).at = "callback" /\ SetFrame(t, "flag", Tail(left))
      /\ UNCHANGED <<costRecords, attached, fired, alerted, inTime>>
  BY DEF CallbackReturns, InFrame, Current
<1>2. AlertInv
  BY DEF NoticeInv
<1>3. left # <<>>
  BY <1>1, <1>2, StackFacts
<1>4. Tail(left) \in Seq(Monitors) /\ Elems(Tail(left)) \subseteq Elems(attached)
  BY <1>1, <1>3, CurrentAttached
<1>5. /\ \A m \in Monitors : Told(m) => Told(m)'
      /\ \A m \in Monitors : fired'[m] => fired[m]
  BY <1>1 DEF Told
<1>6. \A m \in inTime : FrameOwes(Current(t), m) => FrameOwes([at |-> "flag", left |-> Tail(left)], m)
  BY <1>1 DEF FrameOwes
<1> QED BY <1>1, <1>4, <1>5, <1>6, MoveOnOwes

(* Whoever records owes every monitor attached by then a test.             *)
LEMMA RecordOwes ==
  ASSUME NoticeInv, AlertInv', NEW t \in Threads, NEW c \in Models, NEW usd \in Costs,
         Record(t, c, usd)
  PROVE  NoticeInv'
<1> DEFINE f == [at |-> "snapshot", left |-> <<>>]
           fs == Append(frames[t], f)
<1>1. /\ frames' = [frames EXCEPT ![t] = fs] /\ inTime' = Elems(attached)
      /\ UNCHANGED <<attached, fired, alerted>>
  BY DEF Record, Push, Elems
<1>2. f \in Frame /\ f.at = "snapshot" /\ f.left = <<>>
  BY DEF Frame
<1>3. frames \in [Threads -> Seq(Frame)] /\ frames[t] \in Seq(Frame)
  BY DEF NoticeInv, AlertInv, AlertTypes
<1> HIDE DEF f
<1>4. \A m : Owes(fs, m)
  BY <1>2, <1>3, OwesAfterPush
<1>5. /\ Len(fs) = Len(frames[t]) + 1 /\ fs[Len(frames[t]) + 1] = f /\ Len(frames[t]) \in Nat
      /\ \A i \in 1..Len(frames[t]) : fs[i] = frames[t][i]
  BY <1>2, <1>3
<1> HIDE DEF fs
<1>6. frames'[t] = fs /\ \A u \in Threads : u # t => frames'[u] = frames[u]
  BY <1>1, <1>3
<1>7. LeftAttached'
  <2> SUFFICES ASSUME NEW u \in Threads, NEW i \in 1..Len(frames'[u])
               PROVE  Elems(frames'[u][i].left) \subseteq Elems(attached)
    BY <1>1 DEF LeftAttached
  <2>1. CASE u # t
    BY <1>6, <2>1 DEF NoticeInv, LeftAttached
  <2>2. CASE u = t /\ i \in 1..Len(frames[t])
    BY <1>5, <1>6, <2>2 DEF NoticeInv, LeftAttached
  <2>3. CASE u = t /\ i = Len(frames[t]) + 1
    <3>1. frames'[u][i] = f
      BY <1>5, <1>6, <2>3
    <3>2. Elems(<<>>) = {}
      BY DEF Elems
    <3> QED BY <1>2, <3>1, <3>2
  <2> QED BY <1>5, <1>6, <2>1, <2>2, <2>3
<1>8. InTimeAttached' /\ FiredIsTold'
  BY <1>1 DEF NoticeInv, InTimeAttached, FiredIsTold, Told
<1>9. BreachIsOwed'
  BY <1>4, <1>6 DEF BreachIsOwed
<1> QED BY <1>7, <1>8, <1>9 DEF NoticeInv

(* A call that returns has no monitor left.                                *)
LEMMA RecordReturnsOwes ==
  ASSUME NoticeInv, AlertInv', NEW t \in Threads, RecordReturns(t)
  PROVE  NoticeInv'
<1> DEFINE fs == SubSeq(frames[t], 1, Len(frames[t]) - 1)
<1>1. /\ frames[t] # <<>> /\ Current(t).at = "flag" /\ Current(t).left = <<>>
      /\ frames' = [frames EXCEPT ![t] = fs]
      /\ UNCHANGED <<costRecords, attached, fired, alerted, inTime>>
  BY DEF RecordReturns, InFrame, Current
<1>2. AlertInv /\ frames[t] \in Seq(Frame)
  BY StackFacts DEF NoticeInv, AlertInv, AlertTypes
<1>3. Elems(<<>>) = {}
  BY DEF Elems
<1>4. \A m : ~FrameOwes(Current(t), m)
  BY <1>1, <1>3 DEF FrameOwes
<1>5. /\ fs \in Seq(Frame) /\ Len(fs) = Len(frames[t]) - 1 /\ Len(frames[t]) \in Nat \ {0}
      /\ \A i \in 1..(Len(frames[t]) - 1) : fs[i] = frames[t][i]
  <2>1. Len(frames[t]) \in Nat \ {0}
    BY <1>1, <1>2
  <2>2. Shaped(frames[t])
    BY <1>2 DEF AlertInv, FrameInv
  <2>3. fs \in Seq(Frame)
    BY <1>1, <1>2, <2>2, PopTop
  <2> QED BY <1>2, <2>1, <2>3
<1>6. ASSUME NEW m, Owes(frames[t], m) PROVE Owes(fs, m)
  <2>1. frames[t] \in Seq(Frame) /\ frames[t] # <<>> /\ ~FrameOwes(frames[t][Len(frames[t])], m)
    BY <1>1, <1>2, <1>4 DEF Current
  <2> QED BY <1>6, <2>1, OwesAfterPop
<1>7. ASSUME NEW i \in 1..Len(fs) PROVE Elems(fs[i].left) \subseteq Elems(attached)
  <2>1. fs[i] = frames[t][i] /\ i \in 1..Len(frames[t])
    BY <1>5
  <2> HIDE DEF fs
  <2> QED BY <2>1 DEF NoticeInv, LeftAttached
<1>8. /\ \A m \in Monitors : Told(m) => Told(m)'
      /\ \A m \in Monitors : fired'[m] => fired[m]
  BY <1>1 DEF Told
<1> HIDE DEF fs
<1> QED BY <1>1, <1>5, <1>6, <1>7, <1>8, OneStackOwes

LEMMA AddMonitorOwes ==
  ASSUME NoticeInv, AlertInv', NEW t \in Threads, NEW m \in Monitors, AddMonitor(t, m)
  PROVE  NoticeInv'
<1>1. /\ attached' = Append(attached, m)
      /\ UNCHANGED <<costRecords, fired, frames, alerted, inTime>>
  BY DEF AddMonitor
<1>2. Elems(attached) \subseteq Elems(attached')
  BY <1>1, ElemsOfAppend DEF NoticeInv, AlertInv, AlertTypes
<1>3. InTimeAttached' /\ LeftAttached' /\ FiredIsTold'
  BY <1>1, <1>2 DEF NoticeInv, InTimeAttached, LeftAttached, FiredIsTold, Told
<1>4. BreachIsOwed'
  BY <1>1 DEF NoticeInv, BreachIsOwed, TotalUsd, Told
<1> QED BY <1>3, <1>4 DEF NoticeInv

(* A reset reaches every flag that is set, and nothing is watched yet.     *)
LEMMA ResetOwes ==
  ASSUME NoticeInv, AlertInv', NEW t \in Threads, Reset(t)
  PROVE  NoticeInv'
<1>1. inTime' = {} /\ UNCHANGED <<attached, frames>> /\ fired' = Cleared
  BY DEF Reset
<1>2. \A m \in Monitors : ~fired'[m]
  BY <1>1 DEF Cleared, NoticeInv, FiredIsTold, Elems
<1> QED BY <1>1, <1>2 DEF NoticeInv, InTimeAttached, LeftAttached, FiredIsTold, BreachIsOwed

LEMMA NoticeStep == NoticeInv /\ [CostNext]_costVars => NoticeInv'
<1> SUFFICES ASSUME NoticeInv, [CostNext]_costVars PROVE NoticeInv'
  OBVIOUS
<1>1. AlertInv'
  BY CostStep DEF NoticeInv
<1>2. CASE UNCHANGED costVars
  BY <1>1, <1>2 DEF costVars, NoticeInv, InTimeAttached, LeftAttached, FiredIsTold, BreachIsOwed,
     Told, TotalUsd
<1>3. CASE CostNext
  BY <1>1, <1>3, RecordOwes, SnapshotOwes, TestFiredOwes, TestTotalOwes, FireOwes,
     CallbackReturnsOwes, RecordReturnsOwes, AddMonitorOwes, ResetOwes DEF CostNext
<1> QED BY <1>2, <1>3

(* When no record() is running nobody owes a test, so that every threshold *)
(* reached has been told, for any number of threads, monitors and resets.  *)
THEOREM NoBreachUnnoticed == CostSpec => []BreachIsAlerted
<1>1. NoticeInv => BreachIsAlerted
  <2> SUFFICES ASSUME NoticeInv, \A t \in Threads : frames[t] = <<>>,
                      NEW m \in inTime, TotalUsd >= Threshold[m]
               PROVE  Told(m)
    BY DEF BreachIsAlerted, Told
  <2>1. \A t \in Threads : ~Owes(frames[t], m)
    BY DEF Owes
  <2> QED BY <2>1 DEF NoticeInv, BreachIsOwed
<1> QED BY <1>1, NoticeInitial, NoticeStep, PTL DEF CostSpec

(* Both together: a breach is told, and by no thread twice in a period.    *)
THEOREM MonitorsWatchTheBudget == CostSpec => []BudgetIsWatched
<1>1. OneAlertPerThread /\ BreachIsAlerted => BudgetIsWatched
  BY DEF BudgetIsWatched
<1> QED BY <1>1, AlertedOncePerThread, NoBreachUnnoticed, PTL
=============================================================================
