------------------------------ MODULE ErrorRecovery ------------------------------
(***************************************************************************)
(* ErrorRecovery of consensus/health.go, for one error type.                *)
(* AttemptRecovery counts an attempt under er.mu, runs the recovery         *)
(* function without it, and locks again for the outcome; attempts of        *)
(* several goroutines overlap, and RegisterRecovery may have replaced the   *)
(* record by then.                                                          *)
(***************************************************************************)
EXTENDS Integers, FiniteSets

CONSTANTS
    Recoverers,         \* the goroutines that call AttemptRecovery
    MaxAttempts,        \* er.maxAttempts
    Backoff,            \* er.backoffDuration, in ticks
    MaxGenerations      \* bound: calls of RegisterRecovery

ASSUME RecoveryAssumption == MaxAttempts \in Nat /\ Backoff \in Nat

VARIABLES
    attempt,    \* the RecoveryAttempt: its generation, AttemptCount, and the
                \* ticks until NextAttemptAt
    recoverer,  \* what each goroutine does, on which generation's record
    started     \* history: attempts on this record since it was last reset

recoveryVars == <<attempt, recoverer, started>>

RecoveryInit ==
    /\ attempt = [generation |-> 0, count |-> 0, wait |-> 0]
    /\ recoverer = [r \in Recoverers |-> 0]
    /\ started = 0

-----------------------------------------------------------------------------

(* RegisterRecovery puts a new record; generation 0 is none registered.     *)
RegisterRecovery ==
    /\ attempt.generation < MaxGenerations
    /\ attempt' = [generation |-> attempt.generation + 1, count |-> 0, wait |-> 0]
    /\ started' = 0 /\ UNCHANGED recoverer

BackoffPasses ==
    /\ attempt.wait > 0
    /\ attempt' = [attempt EXCEPT !.wait = @ - 1]
    /\ UNCHANGED <<recoverer, started>>

(* AttemptRecovery up to the unlock: not during the backoff, and not more   *)
(* often than maxAttempts.                                                  *)
StartAttemptCountsLater(r) ==
    /\ recoverer[r] = 0 /\ attempt.generation > 0
    /\ attempt.wait = 0 /\ attempt.count < MaxAttempts
    /\ recoverer' = [recoverer EXCEPT ![r] = attempt.generation]
    /\ started' = started + 1
    /\ UNCHANGED attempt

StartAttempt(r) ==
    /\ recoverer[r] = 0 /\ attempt.generation > 0
    /\ attempt.wait = 0 /\ attempt.count < MaxAttempts
    /\ attempt' = [attempt EXCEPT !.count = @ + 1]
    /\ recoverer' = [recoverer EXCEPT ![r] = attempt.generation]
    /\ started' = started + 1

(* The outcome goes to the record the attempt began with.  The backoff is   *)
(* linear in the count, and none when a success has reset it meanwhile.     *)
EndAttempt(r, success) ==
    /\ recoverer[r] # 0
    /\ recoverer' = [recoverer EXCEPT ![r] = 0]
    /\ IF recoverer[r] # attempt.generation THEN UNCHANGED <<attempt, started>>
       ELSE IF success THEN attempt' = [attempt EXCEPT !.count = 0] /\ started' = 0
       ELSE attempt' = [attempt EXCEPT !.wait = attempt.count * Backoff] /\ UNCHANGED started

ResetAttempts ==
    /\ attempt.generation > 0
    /\ attempt' = [attempt EXCEPT !.count = 0, !.wait = 0]
    /\ started' = 0 /\ UNCHANGED recoverer

RecoveryNext ==
    \/ RegisterRecovery \/ BackoffPasses \/ ResetAttempts
    \/ \E r \in Recoverers : StartAttempt(r) \/ \E ok \in BOOLEAN : EndAttempt(r, ok)

RecoverySpec == RecoveryInit /\ [][RecoveryNext]_recoveryVars

-----------------------------------------------------------------------------

(* However the attempts overlap, the recovery function is started at most   *)
(* maxAttempts times between two resets (a success, ResetAttempts or a new  *)
(* RegisterRecovery): AttemptRecovery counts before it unlocks.             *)
AttemptsBounded == started <= MaxAttempts

=============================================================================
