---------------------------- MODULE PsbtSigning ----------------------------
(***************************************************************************)
(* PsbtSigningService: a payout_committed event makes a handler fetch the  *)
(* unsigned transaction (PSBT) of the payout's batch from Bria, have DFNS  *)
(* sign it, and hand it back to Bria to broadcast; payout_settled marks    *)
(* its row.  A handler runs at the head of one chain of the consumer; two  *)
(* chains, or a replay, may handle one event twice.                        *)
(***************************************************************************)
EXTENDS Naturals

CONSTANTS
    Chains,     \* where handlers run
    Psbts,      \* payouts, each with the PSBT of its batch
    MaxFaults,  \* bound on errors of Bria, DFNS, Redis and the database
    MaxPasses   \* bound on events passed over: payout unknown, circuit open, no PSBT

ASSUME PsbtSigningAssumption == MaxFaults \in Nat /\ MaxPasses \in Nat

VARIABLES
    status,     \* payoutPsbt.psbtStatus, "none" without a row
    signed,     \* PSBTs that DFNS has signed
    submitted,  \* how often each signed PSBT was handed to Bria
    signer,     \* where each handler is, and its locals
    skipped,    \* history: PSBTs passed over, or whose failure was not recorded
    faults, passes

signing == <<status, signed, submitted, signer, skipped, faults, passes>>

PsbtStatus == {"none", "signing_pending", "signed", "broadcast", "settled", "failed"}

Labels == {"idle", "lookup", "breaker", "find", "batch", "persist", "sign", "save",
           "submit", "confirm", "success", "failure", "mark", "settle",
           "returned", "thrown"}

(* existing: the row that findUnique saw. *)
Signer == [at: Labels, psbt: Psbts \cup {"none"}, existing: BOOLEAN]

Waiting == [at |-> "idle", psbt |-> "none", existing |-> FALSE]

SigningTypeOK ==
    /\ status \in [Psbts -> PsbtStatus]
    /\ signed \subseteq Psbts
    /\ submitted \in [Psbts -> Nat]
    /\ signer \in [Chains -> Signer]
    /\ skipped \subseteq Psbts
    /\ faults \in 0..MaxFaults
    /\ passes \in 0..MaxPasses

SigningInit ==
    /\ status = [p \in Psbts |-> "none"]
    /\ signed = {}
    /\ submitted = [p \in Psbts |-> 0]
    /\ signer = [q \in Chains |-> Waiting]
    /\ skipped = {}
    /\ faults = 0
    /\ passes = 0

-----------------------------------------------------------------------------
(* Control flow of a handler. *)

At(q, label) == signer[q].at = label

Goto(q, label) == signer' = [signer EXCEPT ![q].at = label]

PassOver(q) ==
    /\ passes < MaxPasses
    /\ passes' = passes + 1
    /\ Goto(q, "returned")
    /\ skipped' = skipped \cup {signer[q].psbt}

SetStatus(q, s) == status' = [status EXCEPT ![signer[q].psbt] = s]

(* A call of a service fails; inside the try block the handler goes to its  *)
(* catch, elsewhere it throws.                                             *)
Fault(q, label) == faults < MaxFaults /\ faults' = faults + 1 /\ Goto(q, label)

Begin(q, p, label) ==
    /\ At(q, "idle")
    /\ signer' = [signer EXCEPT ![q] = [Waiting EXCEPT !.at = label, !.psbt = p]]
    /\ UNCHANGED <<status, signed, submitted, skipped, faults, passes>>

-----------------------------------------------------------------------------
(* handlePayoutCommitted of the consumer, then of the service. *)

(* A payout that no row names yet (see Settlement) is passed over; its      *)
(* batch may have to be asked for.                                         *)
Lookup(q) ==
    /\ At(q, "lookup")
    /\ \/ Goto(q, "breaker") /\ UNCHANGED <<skipped, passes, faults>>
       \/ PassOver(q) /\ UNCHANGED faults
       \/ Fault(q, "thrown") /\ UNCHANGED <<skipped, passes>>
    /\ UNCHANGED <<status, signed, submitted>>

(* An open circuit is no error: the handler returns. *)
CanExecute(q) ==
    /\ At(q, "breaker")
    /\ \/ Goto(q, "find") /\ UNCHANGED <<skipped, passes>>
       \/ PassOver(q)
    /\ UNCHANGED <<status, signed, submitted, faults>>

FindNothing(q) ==
    /\ At(q, "find")
    /\ signer' = [signer EXCEPT ![q].at = "batch",
                                ![q].existing = status[signer[q].psbt] # "none"]
    /\ UNCHANGED <<status, signed, submitted, skipped, faults, passes>>

(* A row that is signed or broadcast ends the handler; a settled one does   *)
(* not.                                                                    *)
FindExisting(q) ==
    /\ At(q, "find")
    /\ LET s == status[signer[q].psbt] IN
       \/ s \in {"signed", "broadcast"} /\ Goto(q, "returned") /\ UNCHANGED faults
       \/ /\ s \notin {"signed", "broadcast"}
          /\ signer' = [signer EXCEPT ![q].at = "batch", ![q].existing = s # "none"]
          /\ UNCHANGED faults
       \/ Fault(q, "thrown")
    /\ UNCHANGED <<status, signed, submitted, skipped, passes>>

(* A batch without an unsigned PSBT is passed over. *)
GetBatch(q) ==
    /\ At(q, "batch")
    /\ \/ Goto(q, "persist") /\ UNCHANGED <<skipped, passes, faults>>
       \/ PassOver(q) /\ UNCHANGED faults
       \/ Fault(q, "thrown") /\ UNCHANGED <<skipped, passes>>
    /\ UNCHANGED <<status, signed, submitted>>

(* The unique key refuses a second row for a payout. *)
Persist(q) ==
    /\ At(q, "persist")
    /\ \/ /\ IF signer[q].existing \/ status[signer[q].psbt] = "none"
             THEN SetStatus(q, "signing_pending") /\ Goto(q, "sign")
             ELSE Goto(q, "thrown") /\ UNCHANGED status
          /\ UNCHANGED faults
       \/ Fault(q, "thrown") /\ UNCHANGED status
    /\ UNCHANGED <<signed, submitted, skipped, passes>>

(* requestSignPsbt under the payout's idempotency key: 409 is an answer, and *)
(* a request whose answers are all lost has been signed all the same.      *)
RequestSign(q) ==
    /\ At(q, "sign")
    /\ \/ signed' = signed \cup {signer[q].psbt} /\ Goto(q, "save") /\ UNCHANGED faults
       \/ signed' \in {signed, signed \cup {signer[q].psbt}} /\ Fault(q, "failure")
    /\ UNCHANGED <<status, submitted, skipped, passes>>

SaveSigned(q) ==
    /\ At(q, "save")
    /\ \/ SetStatus(q, "signed") /\ Goto(q, "submit") /\ UNCHANGED faults
       \/ Fault(q, "failure") /\ UNCHANGED status
    /\ UNCHANGED <<signed, submitted, skipped, passes>>

SubmitSigned(q) ==
    /\ At(q, "submit")
    /\ \/ /\ submitted' = [submitted EXCEPT ![signer[q].psbt] = @ + 1]
          /\ Goto(q, "confirm")
          /\ UNCHANGED faults
       \/ Fault(q, "failure") /\ UNCHANGED submitted
    /\ UNCHANGED <<status, signed, skipped, passes>>

SaveBroadcast(q) ==
    /\ At(q, "confirm")
    /\ \/ SetStatus(q, "broadcast") /\ Goto(q, "success") /\ UNCHANGED faults
       \/ Fault(q, "failure") /\ UNCHANGED status
    /\ UNCHANGED <<signed, submitted, skipped, passes>>

RecordSuccess(q) ==
    /\ At(q, "success")
    /\ \/ Goto(q, "returned") /\ UNCHANGED faults
       \/ Fault(q, "failure")
    /\ UNCHANGED <<status, signed, submitted, skipped, passes>>

(* The catch block: an error of Redis, or of the update itself, leaves the  *)
(* row as it is.                                                           *)
RecordFailure(q) ==
    /\ At(q, "failure")
    /\ \/ Goto(q, "mark") /\ UNCHANGED <<skipped, faults>>
       \/ Fault(q, "thrown") /\ skipped' = skipped \cup {signer[q].psbt}
    /\ UNCHANGED <<status, signed, submitted, passes>>

MarkNothing(q) ==
    /\ At(q, "mark")
    /\ Goto(q, "thrown")
    /\ UNCHANGED <<status, signed, submitted, skipped, faults, passes>>

MarkFailed(q) ==
    /\ At(q, "mark")
    /\ \/ SetStatus(q, "failed") /\ Goto(q, "thrown") /\ UNCHANGED <<skipped, faults>>
       \/ /\ Fault(q, "thrown")
          /\ skipped' = skipped \cup {signer[q].psbt}
          /\ UNCHANGED status
    /\ UNCHANGED <<signed, submitted, passes>>

(* markSettled: an error is caught and only logged. *)
MarkSettled(q) ==
    /\ At(q, "settle")
    /\ Goto(q, "returned")
    /\ IF status[signer[q].psbt] # "none" THEN SetStatus(q, "settled") ELSE UNCHANGED status
    /\ UNCHANGED <<signed, submitted, skipped, faults, passes>>

SignStep(q) ==
    \/ Lookup(q) \/ CanExecute(q) \/ FindExisting(q) \/ GetBatch(q) \/ Persist(q)
    \/ RequestSign(q) \/ SaveSigned(q) \/ SubmitSigned(q) \/ SaveBroadcast(q)
    \/ RecordSuccess(q) \/ RecordFailure(q) \/ MarkFailed(q) \/ MarkSettled(q)

=============================================================================
