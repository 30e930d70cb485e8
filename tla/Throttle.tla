------------------------------ MODULE Throttle ------------------------------
(***************************************************************************)
(* RedisThrottlerStorage.increment for one client.  The class says it uses *)
(* a Lua script; it looks at the block key, then increments the counter    *)
(* and reads its lifetime in a MULTI, then gives a counter without one a    *)
(* lifetime in a call of its own.  Requests of the client are at work in    *)
(* several processes; Redis may fail a call, and a process may die.        *)
(***************************************************************************)
EXTENDS Integers

CONSTANTS
    Calls,          \* concurrent calls of increment
    Limit,          \* requests a client may make in a window
    Window,         \* ttl, in ticks
    BlockFor,       \* blockDuration, in ticks
    MaxHits,        \* bound on the counter
    MaxFaults       \* bound on Redis faults and deaths

VARIABLES
    hits,       \* the counter, 0 when the key is absent
    life,       \* ticks the counter has left
    blocked,    \* ticks the block key has left
    orphaned,   \* history: the last caller to give the counter a lifetime could not
    call,       \* where each request is, and the count it was told
    faults

throttleVars == <<hits, life, blocked, orphaned, call, faults>>

NoLifetime == -1

ThrottleAssumption ==
    /\ {Limit, BlockFor, MaxHits, MaxFaults} \subseteq Nat
    /\ Window \in Nat \ {0}

ThrottleTypeOK ==
    /\ hits \in 0..MaxHits
    /\ life \in {NoLifetime} \cup 1..Window
    /\ blocked \in 0..BlockFor
    /\ orphaned \in BOOLEAN
    /\ call \in [Calls -> [at: {"idle", "incr", "expire", "over"}, total: 0..MaxHits]]
    /\ faults \in 0..MaxFaults

ThrottleInit ==
    /\ hits = 0
    /\ life = NoLifetime
    /\ blocked = 0
    /\ orphaned = FALSE
    /\ call = [c \in Calls |-> [at |-> "idle", total |-> 0]]
    /\ faults = 0

-----------------------------------------------------------------------------

Calling(c, label) == call[c].at = label

Proceed(c, label, total) == call' = [call EXCEPT ![c] = [at |-> label, total |-> total]]

Return(c) == Proceed(c, "idle", 0)

(* Over the limit the client is blocked, within it the request goes on.     *)
Judge(c, total) == IF total > Limit /\ BlockFor > 0 THEN Proceed(c, "over", total) ELSE Return(c)

(* A client within its block is turned away here. *)
CheckBlocked(c) ==
    /\ Calling(c, "idle")
    /\ blocked = 0
    /\ Proceed(c, "incr", 0)
    /\ UNCHANGED <<hits, life, blocked, orphaned, faults>>

(* The first caller alone sees to the lifetime. *)
HitFirstExpires(c) ==
    /\ Calling(c, "incr")
    /\ hits < MaxHits
    /\ hits' = hits + 1
    /\ IF hits = 0 THEN Proceed(c, "expire", 1) ELSE Judge(c, hits + 1)
    /\ orphaned' = FALSE
    /\ UNCHANGED <<life, blocked, faults>>

(* INCR and PTTL; PTTL below zero says that the counter has no lifetime.    *)
Hit(c) ==
    /\ Calling(c, "incr")
    /\ hits < MaxHits
    /\ hits' = hits + 1
    /\ IF life = NoLifetime THEN Proceed(c, "expire", hits + 1) ELSE Judge(c, hits + 1)
    /\ orphaned' = FALSE
    /\ UNCHANGED <<life, blocked, faults>>

(* EXPIRE of a counter that is gone meanwhile does nothing. *)
Expire(c) ==
    /\ Calling(c, "expire")
    /\ life' = IF hits = 0 THEN NoLifetime ELSE Window
    /\ Judge(c, call[c].total)
    /\ UNCHANGED <<hits, blocked, orphaned, faults>>

Block(c) ==
    /\ Calling(c, "over")
    /\ blocked' = BlockFor
    /\ Return(c)
    /\ UNCHANGED <<hits, life, orphaned, faults>>

(* The storage fails open, the process dies: the rest is not done.         *)
FailOpen(c) ==
    /\ ~Calling(c, "idle")
    /\ faults < MaxFaults
    /\ faults' = faults + 1
    /\ orphaned' = (orphaned \/ Calling(c, "expire"))
    /\ Return(c)
    /\ UNCHANGED <<hits, life, blocked>>

ThrottleTick ==
    /\ life # NoLifetime \/ blocked > 0
    /\ life' = IF life <= 1 THEN NoLifetime ELSE life - 1
    /\ hits' = IF life = 1 THEN 0 ELSE hits
    /\ blocked' = IF blocked = 0 THEN 0 ELSE blocked - 1
    /\ UNCHANGED <<orphaned, call, faults>>

ThrottleNext ==
    \/ \E c \in Calls : CheckBlocked(c) \/ Hit(c) \/ Expire(c) \/ Block(c) \/ FailOpen(c)
    \/ ThrottleTick

ThrottleSpec == ThrottleInit /\ [][ThrottleNext]_throttleVars

-----------------------------------------------------------------------------
(* Properties. *)

(* Nobody is shut out for good by a counter that never expires: a counter  *)
(* without a lifetime is being given one, unless the caller that should     *)
(* failed on the way, and then the next request sees to it.                *)
CounterExpires ==
    hits > 0 /\ life = NoLifetime => orphaned \/ \E c \in Calls : Calling(c, "expire")

=============================================================================
