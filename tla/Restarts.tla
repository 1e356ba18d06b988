------------------------------ MODULE Restarts ------------------------------
(***************************************************************************)
(* The supervision of one actor in time: next_restart (actor_context.rs)    *)
(* and the backoff it paces restarts with (backoff.rs).  Durations are       *)
(* natural numbers of some unit; a Duration's own limit is out of sight,    *)
(* since a product that saturates there is cut down to Max like any other.  *)
(***************************************************************************)
EXTENDS Naturals

CONSTANTS
    Min, Max,     \* Backoff::min and Backoff::max
    MaxRestarts,  \* RestartPolicy::max_restarts
    ResetAfter,   \* RestartPolicy::reset_after
    Width         \* bits of the factor, 32 in the code

\* Backoff::new rejects a Max below Min, max_restarts is a NonZeroU32.
ASSUME RestartsAssumption ==
    /\ Min \in Nat
    /\ Max \in Nat
    /\ Min <= Max
    /\ MaxRestarts \in Nat \ {0}
    /\ ResetAfter \in Nat
    /\ Width \in Nat \ {0}

VARIABLES
    phase,     \* what the actor's task is doing
    restarts,  \* the run loop's counter
    delay,     \* the delay next_restart has asked for last
    upFor,     \* time since up_since, as far as ResetAfter can tell
    streak     \* restarts since the actor last ran for ResetAfter

vars == <<phase, restarts, delay, upFor, streak>>

\* 1 << n, by doubling.
PowerOfTwo[n \in Nat] == IF n = 0 THEN 1 ELSE 2 * PowerOfTwo[n - 1]

\* Variant: the shift wraps around, as wrapping_shl would.
WrappingFactor(step) == PowerOfTwo[step % Width]

\* 1u32.checked_shl(step).unwrap_or(u32::MAX)
Factor(step) ==
    IF step < Width THEN PowerOfTwo[step] ELSE PowerOfTwo[Width] - 1

\* Backoff::duration
Delay(step) == IF Min * Factor(step) < Max THEN Min * Factor(step) ELSE Max

-----------------------------------------------------------------------------
LimitExceeded(count) == count >= MaxRestarts

\* Variant: the counter is never reset.
Kept(longEnough) == restarts

Counted(longEnough) == IF longEnough THEN 0 ELSE restarts

NextRestart(longEnough) ==
    LET count == Counted(longEnough) IN
    IF LimitExceeded(count)
    THEN /\ phase' = "stopped"
         /\ restarts' = count
         /\ UNCHANGED <<delay, streak>>
    ELSE /\ phase' = "delayed"
         /\ restarts' = count + 1
         /\ delay' = Delay(count)
         /\ streak' = streak + 1

InitSucceeds ==
    /\ phase = "init"
    /\ phase' = "up"
    /\ upFor' = 0
    /\ streak' = IF ResetAfter = 0 THEN 0 ELSE streak
    /\ UNCHANGED <<restarts, delay>>

\* up_since is None: however long init has taken, the actor has not run.
InitFails == phase = "init" /\ NextRestart(FALSE) /\ UNCHANGED upFor

\* Time passes while the actor runs.  A streak ends the moment it has run for
\* ResetAfter; the code finds out at the next failure.
Run ==
    /\ phase = "up"
    /\ upFor < ResetAfter
    /\ upFor' = upFor + 1
    /\ streak' = IF upFor' = ResetAfter THEN 0 ELSE streak
    /\ UNCHANGED <<phase, restarts, delay>>

ReceiveFails ==
    /\ phase = "up"
    /\ NextRestart(upFor >= ResetAfter)
    /\ UNCHANGED upFor

DelayElapses ==
    /\ phase = "delayed"
    /\ phase' = "init"
    /\ UNCHANGED <<restarts, delay, upFor, streak>>

Init ==
    /\ phase = "init"
    /\ restarts = 0
    /\ delay = 0
    /\ upFor = 0
    /\ streak = 0

Next == InitSucceeds \/ InitFails \/ Run \/ ReceiveFails \/ DelayElapses

Spec == Init /\ [][Next]_vars

-----------------------------------------------------------------------------
\* The counter is lazy, the streak is not: the two agree unless the actor has run
\* long enough for its next failure to reset the counter.
CounterIsStreak ==
    IF phase = "up" /\ upFor >= ResetAfter THEN streak = 0 ELSE restarts = streak

\* An actor is given up exactly when one more restart would exceed max_restarts
\* in a streak: never early because of restarts of an earlier streak, never late
\* (actor_config.rs:88-91, 102-103).
LimitIsPerStreak ==
    /\ streak <= MaxRestarts
    /\ phase = "stopped" => streak = MaxRestarts

\* The n-th restart of a streak is delayed by Min * 2^(n-1), capped at Max
\* (actor_config.rs:88-89, docs/actors.md:254-255, backoff.rs:95-96).
DelayAsDocumented ==
    phase = "delayed" =>
        LET documented == Min * PowerOfTwo[streak - 1] IN
        delay = IF documented < Max THEN documented ELSE Max
=============================================================================
