------------------------------ MODULE Breaker ------------------------------
(***************************************************************************)
(* CircuitBreaker: failures in a sorted set, one member per instant, and a *)
(* key open_until.  Callers in several processes record failures and       *)
(* successes Redis call by Redis call, on one reading of the clock.  Time   *)
(* is relative: a failure is its age in ticks, open_until what is left of  *)
(* it.  The key's own lifetime starts when it is set, so it outlives what   *)
(* it says by the caller's delay, and that is how long half-open lasts.     *)
(***************************************************************************)
EXTENDS Integers, FiniteSets

CONSTANTS
    Callers,       \* callers of the guarded service
    Threshold,     \* failureThreshold
    FailWindow,    \* failureWindowSecs, in ticks
    OpenFor,       \* openDurationSecs, in ticks
    MaxDelay       \* bound: ticks between the Redis calls of one record

VARIABLES
    failed,     \* the sorted set: the ages of failures
    failedLeft, \* ticks the sorted set has left
    keyLeft,    \* ticks open_until has left as a key, 0 when it is absent
    openLeft,   \* open_until less now
    caller,     \* where each caller is, and how old its reading of the clock
    reported,   \* history: the ages of the failures reported, as far as they matter
    earned      \* history: each opening came upon Threshold failures not too old

(* One record takes its few Redis calls, much less than the window. *)
BreakerAssumption ==
    /\ {FailWindow, OpenFor, MaxDelay} \subseteq Nat
    /\ Threshold \in Nat \ {0}
    /\ MaxDelay <= FailWindow

breakerVars == <<failed, failedLeft, keyLeft, openLeft, caller, reported, earned>>

Horizon == FailWindow + MaxDelay

CallerStep == {"idle", "busy", "add", "prune", "expire", "count", "open", "look", "clear", "forget"}

BreakerTypeOK ==
    /\ failed \subseteq 0..(2 * FailWindow + MaxDelay)
    /\ failedLeft \in 0..(2 * FailWindow)
    /\ keyLeft \in 0..OpenFor
    /\ openLeft \in -MaxDelay..OpenFor
    /\ caller \in [Callers -> [at: CallerStep, age: 0..MaxDelay]]
    /\ reported \subseteq 0..Horizon
    /\ earned \in BOOLEAN

BreakerInit ==
    /\ failed = {}
    /\ failedLeft = 0
    /\ keyLeft = 0
    /\ openLeft = 0
    /\ caller = [c \in Callers |-> [at |-> "idle", age |-> 0]]
    /\ reported = {}
    /\ earned = TRUE

-----------------------------------------------------------------------------

Is(c, label) == caller[c].at = label

Move(c, label) == caller' = [caller EXCEPT ![c].at = label]

Rest(c) == caller' = [caller EXCEPT ![c] = [at |-> "idle", age |-> 0]]

GetState ==
    CASE keyLeft = 0 -> "closed"
      [] keyLeft > 0 /\ openLeft > 0 -> "open"
      [] OTHER -> "half-open"

(* canExecute: an open circuit turns the caller away. *)
CanExecute(c) ==
    /\ Is(c, "idle")
    /\ GetState # "open"
    /\ Move(c, "busy")
    /\ UNCHANGED <<failed, failedLeft, keyLeft, openLeft, reported, earned>>

(* The guarded service answers, or does not. *)
Serve(c) ==
    /\ Is(c, "busy")
    /\ Move(c, "look") \/ Move(c, "add")
    /\ UNCHANGED <<failed, failedLeft, keyLeft, openLeft, reported, earned>>

(* recordFailure: zadd, zremrangebyscore, expire, zcard, set. *)
AddFailure(c) ==
    /\ Is(c, "add")
    /\ failed' = failed \cup {caller[c].age}
    /\ failedLeft' = IF failed = {} THEN 2 * FailWindow ELSE failedLeft
    /\ reported' = reported \cup {caller[c].age}
    /\ Move(c, "prune")
    /\ UNCHANGED <<keyLeft, openLeft, earned>>

PruneNothing(c) ==
    /\ Is(c, "prune")
    /\ Move(c, "expire")
    /\ UNCHANGED <<failed, failedLeft, keyLeft, openLeft, reported, earned>>

Prune(c) ==
    /\ Is(c, "prune")
    /\ failed' = {age \in failed : age < caller[c].age + FailWindow}
    /\ Move(c, "expire")
    /\ UNCHANGED <<failedLeft, keyLeft, openLeft, reported, earned>>

ExpireFailures(c) ==
    /\ Is(c, "expire")
    /\ failedLeft' = IF failed = {} THEN 0 ELSE 2 * FailWindow
    /\ Move(c, "count")
    /\ UNCHANGED <<failed, keyLeft, openLeft, reported, earned>>

CountFailures(c) ==
    /\ Is(c, "count")
    /\ IF Cardinality(failed) >= Threshold THEN Move(c, "open") ELSE Rest(c)
    /\ UNCHANGED <<failed, failedLeft, keyLeft, openLeft, reported, earned>>

Open(c) ==
    /\ Is(c, "open")
    /\ keyLeft' = OpenFor
    /\ openLeft' = OpenFor - caller[c].age
    /\ earned' = (Cardinality(reported) >= Threshold)
    /\ Rest(c)
    /\ UNCHANGED <<failed, failedLeft, reported>>

(* recordSuccess: two deletes, and only after a look that saw half-open.    *)
LookState(c) ==
    /\ Is(c, "look")
    /\ IF GetState = "half-open" THEN Move(c, "clear") ELSE Rest(c)
    /\ UNCHANGED <<failed, failedLeft, keyLeft, openLeft, reported, earned>>

Clear(c) ==
    /\ Is(c, "clear")
    /\ keyLeft' = 0
    /\ openLeft' = 0
    /\ Move(c, "forget")
    /\ UNCHANGED <<failed, failedLeft, reported, earned>>

Forget(c) ==
    /\ Is(c, "forget")
    /\ failed' = {}
    /\ failedLeft' = 0
    /\ Rest(c)
    /\ UNCHANGED <<keyLeft, openLeft, reported, earned>>

(* A Redis call throws, or the process dies. *)
Drop(c) ==
    /\ ~Is(c, "idle")
    /\ Rest(c)
    /\ UNCHANGED <<failed, failedLeft, keyLeft, openLeft, reported, earned>>

Aged(ages, limit) == {age + 1 : age \in {a \in ages : a < limit}}

BreakerTick ==
    /\ \A c \in Callers : caller[c].age < MaxDelay
    /\ failed' = IF failedLeft <= 1 THEN {} ELSE Aged(failed, 2 * FailWindow + MaxDelay)
    /\ failedLeft' = IF failedLeft <= 1 THEN 0 ELSE failedLeft - 1
    /\ keyLeft' = IF keyLeft = 0 THEN 0 ELSE keyLeft - 1
    /\ openLeft' = IF keyLeft <= 1 THEN 0 ELSE openLeft - 1
    /\ caller' = [c \in Callers |->
                    IF caller[c].at \in {"idle", "busy", "look"} THEN caller[c]
                    ELSE [caller[c] EXCEPT !.age = @ + 1]]
    /\ reported' = Aged(reported, Horizon)
    /\ UNCHANGED earned

BreakerNext ==
    \/ \E c \in Callers :
         \/ CanExecute(c) \/ Serve(c) \/ AddFailure(c) \/ Prune(c) \/ ExpireFailures(c)
         \/ CountFailures(c) \/ Open(c) \/ LookState(c) \/ Clear(c) \/ Forget(c) \/ Drop(c)
    \/ BreakerTick

BreakerSpec == BreakerInit /\ [][BreakerNext]_breakerVars

-----------------------------------------------------------------------------
(* Properties. *)

(* The circuit opens only upon Threshold failures that happened at         *)
(* different instants within the window, give or take the time the caller   *)
(* took to count them: old failures, other callers' counting and the       *)
(* expiry of the set never add up to an outage there was not.              *)
OpenIsEarned == earned

=============================================================================
