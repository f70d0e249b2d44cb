---------------------------- MODULE CostTracking ---------------------------
(***************************************************************************)
(* CostTracker and BudgetMonitor (cost.py).  Records and the list of       *)
(* monitors are guarded by the tracker's lock; the monitors are checked    *)
(* outside it, so that a callback may call back into the tracker: frames   *)
(* is the stack of record() calls a thread is in, callbacks included.      *)
(***************************************************************************)
EXTENDS Callers, FiniteSetsExt

CONSTANTS
  Monitors, Threshold,   \* BudgetMonitor objects and their threshold_usd
  Models, Costs,         \* what a call can cost
  MaxRecords, MaxResets, MaxFrames   \* bounds: calls, periods, nesting

ASSUME CostAssumption ==
  /\ Threshold \in [Monitors -> Nat \ {0}]
  /\ Costs \subseteq Nat
  /\ {MaxRecords, MaxResets, MaxFrames} \subseteq Nat

VARIABLES
  costRecords,   \* _records, of this period
  costCalls,     \* calls of record() so far
  attached,      \* _monitors
  fired,         \* BudgetMonitor._fired
  frames,        \* per thread: the record() calls it is in, innermost last
  period,        \* resets so far
  alerted,       \* the alerts of this period, per monitor and thread
  inTime         \* monitors attached at the latest append of this period

costVars == <<costRecords, costCalls, attached, fired, frames, period, alerted, inTime>>

Frame == [at : {"snapshot", "flag", "total", "fire", "callback"},
          left : Seq(Monitors)]

CostTypeOK ==
  /\ costRecords \in Seq([model : Models, usd : Costs])
  /\ costCalls \in 0..MaxRecords /\ period \in 0..MaxResets
  /\ attached \in Seq(Monitors)
  /\ fired \in [Monitors -> BOOLEAN]
  /\ frames \in [Threads -> Seq(Frame)]
  /\ alerted \in [Monitors -> [Threads -> Nat]]
  /\ inTime \subseteq Monitors

CostInit ==
  /\ costRecords = <<>> /\ costCalls = 0 /\ period = 0
  /\ \E m \in Monitors : attached = <<m>>
  /\ fired = [m \in Monitors |-> FALSE]
  /\ frames = [t \in Threads |-> <<>>]
  /\ alerted = [m \in Monitors |-> [t \in Threads |-> 0]]
  /\ inTime = {}

-----------------------------------------------------------------------------
(* Aggregates *)

UsdOf(records) == MapThenSumSet(LAMBDA i : records[i].usd, DOMAIN records)
TotalUsd       == UsdOf(costRecords)

-----------------------------------------------------------------------------
(* The frames of a thread *)

InFrame(t, at) == frames[t] # <<>> /\ frames[t][Len(frames[t])].at = at
Current(t)     == frames[t][Len(frames[t])]
Head1(t)       == Head(Current(t).left)
Push(t, f)     == frames' = [frames EXCEPT ![t] = Append(@, f)]
SetFrame(t, at, left) ==
  frames' = [frames EXCEPT ![t][Len(frames[t])] = [at |-> at, left |-> left]]

(* Application code runs in an idle thread and in a callback.              *)
MayCall(t) == frames[t] = <<>> \/ InFrame(t, "callback")

-----------------------------------------------------------------------------
(* CostTracker.record, then _check_monitors                                *)

Record(t, model, usd) ==
  /\ MayCall(t) /\ Len(frames[t]) < MaxFrames
  /\ costCalls < MaxRecords
  /\ costCalls' = costCalls + 1
  /\ costRecords' = Append(costRecords, [model |-> model, usd |-> usd])
  /\ inTime' = {attached[i] : i \in DOMAIN attached}
  /\ Push(t, [at |-> "snapshot", left |-> <<>>])
  /\ UNCHANGED <<attached, fired, period, alerted>>

SnapshotMonitors(t) ==
  /\ InFrame(t, "snapshot")
  /\ SetFrame(t, "flag", attached)
  /\ UNCHANGED <<costRecords, costCalls, attached, fired, period, alerted, inTime>>

(* BudgetMonitor.check: "if self._fired: return False"                     *)
TestFired(t) ==
  /\ InFrame(t, "flag") /\ Current(t).left # <<>>
  /\ IF fired[Head1(t)] THEN SetFrame(t, "flag", Tail(Current(t).left))
                        ELSE SetFrame(t, "total", Current(t).left)
  /\ UNCHANGED <<costRecords, costCalls, attached, fired, period, alerted, inTime>>

(* The limit itself is a breach.                                           *)
Breach(m) == TotalUsd >= Threshold[m]

TestTotal(t) ==
  /\ InFrame(t, "total")
  /\ IF Breach(Head1(t)) THEN SetFrame(t, "fire", Current(t).left)
                         ELSE SetFrame(t, "flag", Tail(Current(t).left))
  /\ UNCHANGED <<costRecords, costCalls, attached, fired, period, alerted, inTime>>

(* The flag is set before the callback runs.                               *)
Marked(m) == [fired EXCEPT ![m] = TRUE]

Fire(t) ==
  /\ InFrame(t, "fire")
  /\ fired' = Marked(Head1(t))
  /\ alerted' = [alerted EXCEPT ![Head1(t)][t] = @ + 1]
  /\ SetFrame(t, "callback", Current(t).left)
  /\ UNCHANGED <<costRecords, costCalls, attached, period, inTime>>

(* on_exceeded returns or raises: nothing leaves check().                  *)
CallbackReturns(t) ==
  /\ InFrame(t, "callback")
  /\ SetFrame(t, "flag", Tail(Current(t).left))
  /\ UNCHANGED <<costRecords, costCalls, attached, fired, period, alerted, inTime>>

RecordReturns(t) ==
  /\ InFrame(t, "flag") /\ Current(t).left = <<>>
  /\ frames' = [frames EXCEPT ![t] = SubSeq(@, 1, Len(@) - 1)]
  /\ UNCHANGED <<costRecords, costCalls, attached, fired, period, alerted, inTime>>

(* budget_alert() registers without checking.                              *)
AddMonitor(t, m) ==
  /\ MayCall(t) /\ \A i \in DOMAIN attached : attached[i] # m
  /\ attached' = Append(attached, m)
  /\ UNCHANGED <<costRecords, costCalls, fired, frames, period, alerted, inTime>>

(* Mutant: the flags survive the reset.                                    *)
ClearedNot == fired
Cleared    == [m \in Monitors |->
                 IF \E i \in DOMAIN attached : attached[i] = m THEN FALSE ELSE fired[m]]

Reset(t) ==
  /\ MayCall(t) /\ period < MaxResets
  /\ period' = period + 1
  /\ costRecords' = <<>>
  /\ fired' = Cleared
  /\ alerted' = [m \in Monitors |-> [u \in Threads |-> 0]]
  /\ inTime' = {}
  /\ UNCHANGED <<costCalls, attached, frames>>

CostNext ==
  \E t \in Threads :
    \/ \E m \in Models, c \in Costs : Record(t, m, c)
    \/ SnapshotMonitors(t) \/ TestFired(t) \/ TestTotal(t) \/ Fire(t)
    \/ CallbackReturns(t) \/ RecordReturns(t)
    \/ \E m \in Monitors : AddMonitor(t, m)
    \/ Reset(t)

CostSpec == CostInit /\ [][CostNext]_costVars

-----------------------------------------------------------------------------
(* Properties *)

(* The docstrings of BudgetMonitor promise one alert "per budget period".  *)
(* Not so: two threads that have both seen _fired unset alert twice.       *)
OneAlertPerPeriod ==
  \A m \in Monitors, t, u \in Threads :
    alerted[m][t] <= 1 /\ (alerted[m][t] > 0 /\ alerted[m][u] > 0 => t = u)

(* What is left of it: each thread alerts once in a period, and a callback *)
(* that records again does not fire its monitor a second time.             *)
OneAlertPerThread == \A m \in Monitors, t \in Threads : alerted[m][t] <= 1

(* No breach goes unnoticed: when no record() is running, a monitor that   *)
(* was attached before the latest record and whose threshold is reached    *)
(* has alerted in this period.  A check that read the total of the period  *)
(* before and fires late is that alert: its _fired keeps others from it.   *)
BreachIsAlerted ==
  (\A t \in Threads : frames[t] = <<>>)
    => \A m \in inTime : TotalUsd >= Threshold[m] => \E t \in Threads : alerted[m][t] > 0

(* Every breach is told, and by no thread twice; the promise of one alert  *)
(* for all threads is OneAlertPerPeriod, which the code does not keep.     *)
BudgetIsWatched == OneAlertPerThread /\ BreachIsAlerted
=============================================================================
