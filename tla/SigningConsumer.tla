-------------------------- MODULE SigningConsumer --------------------------
(***************************************************************************)
(* The Bria consumer with the handlers it runs when DFNS signs: what heads *)
(* a chain of EventConsumer is a handler of PsbtSigning, whose return      *)
(* commits the event and whose error drops the subscription.  A stop of    *)
(* the process ends the handlers; Bria settles what it was given.          *)
(***************************************************************************)
EXTENDS PsbtSigning, Sequences

CONSTANTS
    Script,     \* Bria's events: a sequence of pairs <<"commit" or "settle", PSBT>>
    Burst, MaxBreaks, MaxOutages, MaxCrashes,
    MaxTroubles \* bound on passes, faults, breaks, outages and crashes together

VARIABLES
    produced, done, overtaken, redis, file, up, current, chain, committed, timer,
    failures, breaks, outages, crashes

Events == Len(Script)

consuming == <<produced, done, overtaken, redis, file, up, current, chain, committed, timer,
               failures, breaks, outages, crashes>>

vars == <<signing, consuming>>

Consumer == INSTANCE EventConsumer WITH MaxFailures <- MaxFaults + 1

ASSUME SigningConsumerAssumption ==
    /\ Consumer!EventConsumerAssumption
    /\ Script \in Seq({"commit", "settle"} \X Psbts)
    /\ MaxTroubles \in Nat

TypeOK == SigningTypeOK /\ Consumer!TypeOK

Init == SigningInit /\ Consumer!Init

(* The head of a chain starts its handler. *)
Start(q) ==
    /\ Consumer!Head(q, "handle")
    /\ LET event == Script[chain[q].next] IN
       Begin(q, event[2], IF event[1] = "commit" THEN "lookup" ELSE "settle")
    /\ UNCHANGED consuming

End(q, label) ==
    /\ At(q, label)
    /\ signer' = [signer EXCEPT ![q] = Waiting]
    /\ UNCHANGED <<status, signed, submitted, skipped, faults, passes>>

Return(q) == End(q, "returned") /\ Consumer!Handle(q)

Throw(q) == End(q, "thrown") /\ Consumer!Fail(q)

(* Bria settles a payout once it has the signed transaction. *)
Produce ==
    /\ Consumer!Produce
    /\ LET event == Script[produced'] IN event[1] = "settle" => submitted[event[2]] > 0
    /\ UNCHANGED signing

Crash ==
    /\ Consumer!Crash
    /\ signer' = [q \in Chains |-> Waiting]
    /\ UNCHANGED <<status, signed, submitted, skipped, faults, passes>>

Stream ==
    Consumer!Start \/ Consumer!Reconnect \/ Consumer!StreamBreaks \/ Consumer!Deliver

HandlerStep(q) ==
    \/ Start(q) \/ Return(q) \/ Throw(q)
    \/ (Consumer!SaveRedis(q) \/ Consumer!SaveFile(q)) /\ UNCHANGED signing
    \/ SignStep(q) /\ UNCHANGED consuming

Troubles == passes + faults + breaks + outages + crashes

Next ==
    /\ \/ Produce \/ Crash
       \/ Stream /\ UNCHANGED signing
       \/ \E q \in Chains : HandlerStep(q)
    /\ Troubles' <= MaxTroubles

Spec == Init /\ [][Next]_vars

(* As in EventConsumer: restarts, timers, deliveries and handlers go on. *)
Fairness ==
    /\ WF_vars(Consumer!Start /\ UNCHANGED signing)
    /\ WF_vars(Consumer!Reconnect /\ UNCHANGED signing)
    /\ WF_vars(Consumer!Deliver /\ UNCHANGED signing)
    /\ \A q \in Chains : WF_vars(HandlerStep(q))

FairSpec == Spec /\ Fairness

-----------------------------------------------------------------------------
(* Properties. *)

(* What EventConsumer promises holds with these handlers at work. *)
CursorNotAhead == Consumer!CursorNotAhead
CursorAfterSuccess == Consumer!CursorAfterSuccess
EveryEventProcessed == Consumer!EveryEventProcessed

(* A handler has signed, or is about to sign, and has not submitted. *)
InHand(p) ==
    \E q \in Chains :
        signer[q].psbt = p /\ signer[q].at \in {"sign", "save", "submit", "failure", "mark"}

(* While the process lives, no acknowledged commit event is lost in silence: *)
(* its signed transaction is at Bria, or a handler still has it in hand, or *)
(* its row says that it failed, whatever calls fail, handlers of several    *)
(* chains overlap and the stream breaks.  The exceptions are PSBTs passed   *)
(* over (circuit open, payout not linked yet, no unsigned PSBT) and those   *)
(* whose failure the catch block could not record.                         *)
AcknowledgedIsSubmitted ==
    crashes = 0 =>
        \A n \in done :
            LET p == Script[n][2] IN
            Script[n][1] = "commit" /\ p \notin skipped
                => submitted[p] > 0 \/ status[p] = "failed" \/ InHand(p)

(* Replays submit a PSBT once, also behind a crash between the submission   *)
(* and the row's last update, as long as no call fails, the stream holds   *)
(* and the cursor survives.                                                *)
SubmittedOnce ==
    faults = 0 /\ breaks = 0 /\ outages = 0 => \A p \in Psbts : submitted[p] <= 1

=============================================================================
