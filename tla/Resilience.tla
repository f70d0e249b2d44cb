----------------------------- MODULE Resilience ----------------------------
(***************************************************************************)
(* retry.py: callers run a @retry function that tries a FallbackChain, and *)
(* each provider of the chain sits behind a CircuitBreaker of its own.     *)
(* The breaker's lock is held while it admits a call and while it records  *)
(* the outcome, never during the call.                                     *)
(***************************************************************************)
EXTENDS Callers

CONSTANTS
  Providers,         \* the chain is 1..Providers
  FailureThreshold, RecoveryTimeout, MaxAttempts,
  MaxClock, MaxCalls, MaxFailures   \* bounds: time, calls, failures counted

ASSUME ResilienceAssumption ==
  /\ Providers \in Nat \ {0} /\ FailureThreshold \in Nat \ {0}
  /\ RecoveryTimeout \in Nat /\ MaxAttempts \in Nat \ {0}
  /\ {MaxClock, MaxCalls, MaxFailures} \subseteq Nat

VARIABLES
  circuit, failureCount,
  lastFailure,      \* _last_failure_time; None is 0.0 for the elapsed time
  clock,            \* time.monotonic()
  callPc, provider, attempt,  \* per thread: the wrapper's loops
  probing,          \* threads admitted in HALF_OPEN and still running
  callsMade

breakerVars == <<circuit, failureCount, lastFailure>>
callVars    == <<callPc, provider, attempt, probing, callsMade>>
resilienceVars == <<breakerVars, clock, callVars>>

Chain1 == 1..Providers

ResilienceTypeOK ==
  /\ circuit \in [Chain1 -> {"closed", "open", "half_open"}]
  /\ failureCount \in [Chain1 -> Nat] /\ lastFailure \in [Chain1 -> Nat]
  /\ clock \in Nat
  /\ callPc \in [Threads -> {"idle", "admit", "running", "chainFailed"}]
  /\ provider \in [Threads -> Chain1] /\ attempt \in [Threads -> 1..MaxAttempts]
  /\ probing \subseteq Threads /\ callsMade \in Nat

ResilienceInit ==
  /\ circuit = [p \in Chain1 |-> "closed"]
  /\ failureCount = [p \in Chain1 |-> 0] /\ lastFailure = [p \in Chain1 |-> 0]
  /\ clock = 0
  /\ callPc = [t \in Threads |-> "idle"]
  /\ provider = [t \in Threads |-> 1] /\ attempt = [t \in Threads |-> 1]
  /\ probing = {} /\ callsMade = 0

-----------------------------------------------------------------------------
(* @retry and FallbackChain.__call__                                       *)

Invoke(t) ==
  /\ callsMade < MaxCalls
  /\ Moves(callPc, t, "idle", "admit")
  /\ callsMade' = callsMade + 1
  /\ provider' = [provider EXCEPT ![t] = 1]
  /\ attempt' = [attempt EXCEPT ![t] = 1]
  /\ UNCHANGED <<breakerVars, clock, probing>>

(* Any exception of a provider, CircuitOpenError included, moves on to the *)
(* next one; after the last, AllProvidersFailedError.                      *)
NextProvider(t) ==
  IF provider[t] < Providers
    THEN provider' = [provider EXCEPT ![t] = @ + 1] /\ callPc' = [callPc EXCEPT ![t] = "admit"]
    ELSE UNCHANGED provider /\ callPc' = [callPc EXCEPT ![t] = "chainFailed"]

(* _is_retryable says no (the default names do not include the chain's     *)
(* error), or the attempts are exhausted: the error is raised.             *)
GiveUp(t) ==
  /\ Moves(callPc, t, "chainFailed", "idle")
  /\ UNCHANGED <<breakerVars, clock, provider, attempt, probing, callsMade>>

(* Listed in "on=": after the delay the whole chain is tried again.        *)
Retry(t) ==
  /\ attempt[t] < MaxAttempts
  /\ Moves(callPc, t, "chainFailed", "admit")
  /\ attempt' = [attempt EXCEPT ![t] = @ + 1]
  /\ provider' = [provider EXCEPT ![t] = 1]
  /\ UNCHANGED <<breakerVars, clock, probing, callsMade>>

-----------------------------------------------------------------------------
(* CircuitBreaker *)

Elapsed(p) == clock - lastFailure[p]

WindowOver(p) == Elapsed(p) >= RecoveryTimeout

(* _check_and_maybe_transition.                                            *)
Admit(t) ==
  LET p == provider[t] IN
  /\ callPc[t] = "admit"
  /\ circuit[p] = "open" => WindowOver(p)
  /\ circuit' = [circuit EXCEPT ![p] = IF @ = "open" THEN "half_open" ELSE @]
  /\ callPc' = [callPc EXCEPT ![t] = "running"]
  /\ probing' = IF circuit[p] = "closed" THEN probing ELSE probing \cup {t}
  /\ UNCHANGED <<failureCount, lastFailure, clock, provider, attempt, callsMade>>

Refuse(t) ==
  /\ callPc[t] = "admit"
  /\ circuit[provider[t]] = "open" /\ ~WindowOver(provider[t])
  /\ NextProvider(t)
  /\ UNCHANGED <<breakerVars, clock, attempt, probing, callsMade>>

(* _record_success, also of a call admitted long before.  Mutant: the      *)
(* circuit is closed and the count is kept.                                *)
CountKept(p)  == failureCount[p]
CountAfter(p) == 0

Succeed(t) ==
  /\ Moves(callPc, t, "running", "idle")
  /\ failureCount' = [failureCount EXCEPT ![provider[t]] = CountAfter(provider[t])]
  /\ circuit' = [circuit EXCEPT ![provider[t]] = "closed"]
  /\ probing' = probing \ {t}
  /\ UNCHANGED <<lastFailure, clock, provider, attempt, callsMade>>

(* _record_failure: a failed probe opens the circuit at once.              *)
Trips(p, n) == circuit[p] = "half_open" \/ n >= FailureThreshold

Fail(t) ==
  LET p == provider[t]
      n == failureCount[p] + 1 IN
  /\ callPc[t] = "running" /\ n <= MaxFailures
  /\ failureCount' = [failureCount EXCEPT ![p] = n]
  /\ lastFailure' = [lastFailure EXCEPT ![p] = clock]
  /\ circuit' = [circuit EXCEPT ![p] = IF Trips(p, n) THEN "open" ELSE @]
  /\ probing' = probing \ {t}
  /\ NextProvider(t)
  /\ UNCHANGED <<clock, attempt, callsMade>>

(* KeyboardInterrupt or a cancelled task: "except Exception" does not see  *)
(* it, so nothing is recorded and every loop is left.                      *)
Abandon(t) ==
  /\ Moves(callPc, t, "running", "idle")
  /\ probing' = probing \ {t}
  /\ UNCHANGED <<breakerVars, clock, provider, attempt, callsMade>>

ResetBreaker(p) ==
  /\ circuit' = [circuit EXCEPT ![p] = "closed"]
  /\ failureCount' = [failureCount EXCEPT ![p] = 0]
  /\ lastFailure' = [lastFailure EXCEPT ![p] = 0]
  /\ UNCHANGED <<clock, callVars>>

Tick == clock < MaxClock /\ clock' = clock + 1 /\ UNCHANGED <<breakerVars, callVars>>

CallStep(t) ==
  \/ GiveUp(t) \/ Retry(t) \/ Admit(t) \/ Refuse(t)
  \/ Succeed(t) \/ Fail(t) \/ Abandon(t)

ResilienceNext ==
  \/ \E t \in Threads : Invoke(t) \/ CallStep(t)
  \/ \E p \in Chain1 : ResetBreaker(p)
  \/ Tick

ResilienceSpec == ResilienceInit /\ [][ResilienceNext]_resilienceVars

-----------------------------------------------------------------------------
(* Properties *)

(* The state and the count never disagree, whatever late outcomes, probes  *)
(* and resets interleave: calls pass freely exactly while fewer than       *)
(* failure_threshold failures are on record.                               *)
ClosedIffFewFailures ==
  \A p \in Chain1 : circuit[p] = "closed" <=> failureCount[p] < FailureThreshold

(* A half-open circuit has been quiet for recovery_timeout: a failure that *)
(* comes in late, from a call admitted before, opens it again.             *)
HalfOpenIsEarned ==
  \A p \in Chain1 : circuit[p] = "half_open" => Elapsed(p) >= RecoveryTimeout

(* A circuit is closed, and half-open, exactly when its failures say so.   *)
CircuitFollowsFailures == ClosedIffFewFailures /\ HalfOpenIsEarned

(* "HALF_OPEN: recovery probe: a single call is allowed", retry.py says.   *)
(* This does not hold and no run claims it: whoever arrives is let through. *)
SingleProbe ==
  \A t, u \in probing : t # u => provider[t] # provider[u]

=============================================================================
