-------------------------------- MODULE Ulid --------------------------------
(***************************************************************************)
(* ulid.py: the generator of event ids.  Its lock is held for the whole of *)
(* _next_ms_rand, the wait for the clock included; the wall clock may      *)
(* stall, jump and go back between any two readings.                       *)
(***************************************************************************)
EXTENDS Callers

CONSTANTS
  Radix, TimeWidth, RandWidth,   \* 32, 10 and 16 characters
  ClockMax, MaxIds               \* bounds: the clock's range, ids drawn

ASSUME UlidAssumption ==
  /\ Radix \in Nat \ {0, 1} /\ TimeWidth \in Nat /\ RandWidth \in Nat
  /\ ClockMax \in Nat /\ MaxIds \in Nat

VARIABLES
  wallClock, lastMs, lastRand,
  spinner,      \* the thread in _spin_until_next_ms, which holds the lock
  drawn         \* the (ms, rand) pairs handed out, in order

ulidVars == <<wallClock, lastMs, lastRand, spinner, drawn>>

Nobody  == "nobody"
Power[k \in Nat] == IF k = 0 THEN 1 ELSE Radix * Power[k - 1]
RandMax == Power[RandWidth] - 1
Pair    == [ms : Nat, rand : 0..RandMax]

UlidTypeOK ==
  /\ wallClock \in Nat /\ lastMs \in Nat
  /\ lastRand \in 0..RandMax
  /\ spinner \in Threads \cup {Nobody}
  /\ drawn \in Seq(Pair)

UlidInit ==
  /\ wallClock \in 1..ClockMax /\ lastMs = 0 /\ lastRand = 0
  /\ spinner = Nobody /\ drawn = <<>>

-----------------------------------------------------------------------------
Give(ms, rand) ==
  /\ lastMs' = ms /\ lastRand' = rand
  /\ drawn' = Append(drawn, [ms |-> ms, rand |-> rand])

(* A new millisecond: a fresh random segment.                              *)
NewMillisecond ==
  /\ wallClock > lastMs
  /\ \E rand \in 0..RandMax : Give(wallClock, rand)
  /\ UNCHANGED spinner

(* The same millisecond, or a clock that has gone back: the last time with *)
(* the next random segment.  Mutants: the reading is used as it is; the    *)
(* random segment overflows.                                               *)
MsAsRead == wallClock
MsKept   == lastMs

NextRandUnchecked ==
  wallClock <= lastMs /\ Give(lastMs, lastRand + 1) /\ UNCHANGED spinner

SameOrBackwards ==
  /\ wallClock <= lastMs /\ lastRand < RandMax
  /\ Give(MsKept, lastRand + 1)
  /\ UNCHANGED spinner

(* At the maximum: wait within the same millisecond.  With a clock that    *)
(* has gone back ULIDError is raised, and nothing changes.                 *)
Overflow(t) ==
  /\ wallClock = lastMs /\ lastRand = RandMax
  /\ spinner' = t
  /\ UNCHANGED <<lastMs, lastRand, drawn>>

Generate(t) ==
  /\ spinner = Nobody /\ Len(drawn) < MaxIds
  /\ NewMillisecond \/ SameOrBackwards \/ Overflow(t)
  /\ UNCHANGED wallClock

Ticked == wallClock > lastMs

EndSpin(t) ==
  /\ spinner = t /\ Ticked
  /\ \E rand \in 0..RandMax : Give(wallClock, rand)
  /\ spinner' = Nobody
  /\ UNCHANGED wallClock

AdjustClock ==
  /\ wallClock' \in 1..ClockMax
  /\ UNCHANGED <<lastMs, lastRand, spinner, drawn>>

UlidNext ==
  \/ \E t \in Threads : Generate(t) \/ EndSpin(t)
  \/ AdjustClock

UlidSpec == UlidInit /\ [][UlidNext]_ulidVars

-----------------------------------------------------------------------------
(* _encode_ulid: the characters of the time, then those of the random      *)
(* segment; each loop takes a digit off the low end, shifts what is left   *)
(* and fills from the right.  Mutant: it fills from the left.              *)
Shifted(n) == LET rest[k \in Nat] == IF k = 0 THEN n ELSE rest[k - 1] \div Radix IN rest

DigitsLowFirst(n, width) == [i \in 1..width |-> Shifted(n)[i - 1] % Radix]
Digits(n, width)         == [i \in 1..width |-> Shifted(n)[width - i] % Radix]

Encode(p) == Digits(p.ms, TimeWidth) \o Digits(p.rand, RandWidth)

-----------------------------------------------------------------------------
(* Properties *)

Before(p, q) == p.ms < q.ms \/ (p.ms = q.ms /\ p.rand < q.rand)

(* "Earlier ULIDs < later ULIDs", whatever the clock does: of the pairs    *)
(* handed out, each is greater than all before it.                         *)
IdsIncrease == \A i, j \in DOMAIN drawn : i < j => Before(drawn[i], drawn[j])

(* So they are as strings, as long as the time fits its characters.        *)
LessString(a, b) ==
  \E i \in DOMAIN a : a[i] < b[i] /\ \A k \in 1..(i - 1) : a[k] = b[k]
StringsIncrease ==
  \A i, j \in DOMAIN drawn : i < j /\ drawn[j].ms < Power[TimeWidth] =>
    LessString(Encode(drawn[i]), Encode(drawn[j]))

=============================================================================
