----------------------------- MODULE CircuitBreaker -----------------------------
(***************************************************************************)
(* CircuitBreaker of business/middleware.go.  Call asks AllowRequest, runs  *)
(* the caller's function and records how it went.  AllowRequest reads the   *)
(* state under a read lock, decides, and takes the write lock later; the    *)
(* function runs with no lock, so what it is recorded into may no longer be *)
(* the state that let it in.                                               *)
(***************************************************************************)
EXTENDS Naturals

CONSTANTS
    Callers,
    FailureThreshold, SuccessThreshold,
    OpenTimeout,      \* cb.timeout, in units of the clock
    MaxFailures       \* bound: failureCount stops here

ASSUME ThresholdAssumption ==
    {FailureThreshold, SuccessThreshold} \subseteq Nat \ {0} /\ OpenTimeout \in Nat

VARIABLES
    circuit,   \* state, failureCount and successCount
    age,       \* time since lastStateChange, up to one more than the timeout
    caller     \* where each call is

breakerVars == <<circuit, age, caller>>

CircuitState == {"closed", "open", "halfOpen"}

BreakerTypeOK ==
    /\ circuit \in [state : CircuitState, failures : Nat, successes : Nat]
    /\ age \in Nat
    /\ caller \in [Callers -> {"idle", "probe", "run"}]

BreakerInit ==
    /\ circuit = [state |-> "closed", failures |-> 0, successes |-> 0]
    /\ age = 0
    /\ caller = [c \in Callers |-> "idle"]

-----------------------------------------------------------------------------

BreakerClock ==
    /\ age <= OpenTimeout
    /\ age' = age + 1
    /\ UNCHANGED <<circuit, caller>>

(* AllowRequest, up to its decision.  An open breaker inside its timeout    *)
(* refuses the call, which changes nothing.                                *)
AllowRequest(c) ==
    /\ caller[c] = "idle"
    /\ \/ circuit.state # "open" /\ caller' = [caller EXCEPT ![c] = "run"]
       \/ /\ circuit.state = "open" /\ age > OpenTimeout
          /\ caller' = [caller EXCEPT ![c] = "probe"]
    /\ UNCHANGED <<circuit, age>>

(* AllowRequest, under the write lock: the state is looked at again, the    *)
(* time is not.                                                            *)
HalfOpen(c) ==
    /\ caller[c] = "probe"
    /\ caller' = [caller EXCEPT ![c] = "run"]
    /\ \/ /\ circuit.state = "open"
          /\ circuit' = [circuit EXCEPT !.state = "halfOpen", !.successes = 0]
          /\ age' = 0
       \/ circuit.state # "open" /\ UNCHANGED <<circuit, age>>

RecordSuccessOf(r, failures) ==
    LET n == r.successes + 1
    IN  IF r.state # "halfOpen" THEN [r EXCEPT !.failures = failures]
        ELSE [state     |-> IF n >= SuccessThreshold THEN "closed" ELSE "halfOpen",
              failures  |-> failures,
              successes |-> n]

RecordSuccessKeepsFailures(c) ==
    /\ caller[c] = "run"
    /\ caller' = [caller EXCEPT ![c] = "idle"]
    /\ circuit' = RecordSuccessOf(circuit, circuit.failures)
    /\ age' = IF circuit'.state = circuit.state THEN age ELSE 0

RecordSuccess(c) ==
    /\ caller[c] = "run"
    /\ caller' = [caller EXCEPT ![c] = "idle"]
    /\ circuit' = RecordSuccessOf(circuit, 0)
    /\ age' = IF circuit'.state = circuit.state THEN age ELSE 0

(* RecordFailure: one failure opens a half-open breaker, and a closed one   *)
(* at the threshold.                                                       *)
Trips == \/ circuit.state = "halfOpen"
         \/ circuit.state = "closed" /\ circuit.failures + 1 >= FailureThreshold

RecordFailure(c) ==
    /\ caller[c] = "run"
    /\ circuit.failures < MaxFailures
    /\ caller' = [caller EXCEPT ![c] = "idle"]
    /\ circuit' = [circuit EXCEPT !.failures = circuit.failures + 1,
                                  !.state = IF Trips THEN "open" ELSE circuit.state]
    /\ age' = IF Trips THEN 0 ELSE age

ResetBreaker ==
    /\ circuit' = [state |-> "closed", failures |-> 0, successes |-> 0]
    /\ age' = 0
    /\ UNCHANGED caller

BreakerNext ==
    \/ BreakerClock \/ ResetBreaker
    \/ \E c \in Callers : AllowRequest(c) \/ HalfOpen(c) \/ RecordSuccess(c) \/ RecordFailure(c)

BreakerSpec == BreakerInit /\ [][BreakerNext]_breakerVars

-----------------------------------------------------------------------------

(* The counters belong to the state the breaker is in: a closed breaker has *)
(* fewer failures than the threshold (RecordFailure would have opened it),  *)
(* a half-open one fewer successes than it needs to close (RecordSuccess    *)
(* would have closed it), although results of calls let in by an earlier    *)
(* state are recorded into a later one.                                     *)
CountsBelowThresholds ==
    /\ circuit.state = "closed" => circuit.failures < FailureThreshold
    /\ circuit.state = "halfOpen" => circuit.successes < SuccessThreshold

=============================================================================
