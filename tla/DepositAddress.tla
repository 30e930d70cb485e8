--------------------------- MODULE DepositAddress ---------------------------
(***************************************************************************)
(* BtcBackendService.issueDepositAddress for one externalId, over          *)
(* BriaClientService.callWithRetry.  Callers look for the row, ask Bria for *)
(* an address and create the row.  An answer of Bria's may be lost, and     *)
(* what was done is then asked for again; to a name it knows Bria answers   *)
(* ALREADY_EXISTS or with another address (external, so both).             *)
(***************************************************************************)
EXTENDS FiniteSets, Naturals

CONSTANTS
    Issuers,       \* concurrent requests for the address
    Addresses,     \* what Bria hands out
    Foreign,       \* those of them that belong to another network
    BriaRetries,   \* maxRetries
    MaxMishaps     \* bound on lost calls, lost answers and deaths

VARIABLES
    row,        \* the btcDepositAddress row's address
    issued,     \* addresses Bria has handed out for the externalId
    issuer,     \* where each request is, its attempt, what it got
    told,       \* addresses given to callers
    mishaps

depositVars == <<row, issued, issuer, told, mishaps>>

None == "none"

DepositAssumption ==
    /\ None \notin Addresses
    /\ {BriaRetries, MaxMishaps} \subseteq Nat

Resting == [at |-> "idle", attempt |-> 0, got |-> None]

DepositTypeOK ==
    /\ row \in Addresses \cup {None}
    /\ issued \subseteq Addresses
    /\ issuer \in [Issuers -> [at: {"idle", "ask", "create"}, attempt: 0..BriaRetries,
                               got: Addresses \cup {None}]]
    /\ told \subseteq Addresses
    /\ mishaps \in 0..MaxMishaps

DepositInit ==
    /\ row = None
    /\ issued = {}
    /\ issuer = [i \in Issuers |-> Resting]
    /\ told = {}
    /\ mishaps = 0

-----------------------------------------------------------------------------

Mishap == mishaps < MaxMishaps /\ mishaps' = mishaps + 1

Tell(i, a) ==
    /\ told' = told \cup {a}
    /\ issuer' = [issuer EXCEPT ![i] = Resting]

GiveUp(i) == issuer' = [issuer EXCEPT ![i] = Resting]

FindAddress(i) ==
    /\ issuer[i].at = "idle"
    /\ IF row = None
         THEN issuer' = [issuer EXCEPT ![i].at = "ask"] /\ UNCHANGED told
         ELSE Tell(i, row)
    /\ UNCHANGED <<row, issued, mishaps>>

(* generateDepositAddress checks the network, issueDepositAddress again.    *)
AcceptAddress(i, a) ==
    IF a \in Foreign THEN GiveUp(i)
    ELSE issuer' = [issuer EXCEPT ![i] = [at |-> "create", attempt |-> 0, got |-> a]]

NewAddress(i) ==
    /\ issuer[i].at = "ask"
    /\ \/ \E a \in Addresses \ issued : issued' = issued \cup {a} /\ AcceptAddress(i, a)
       \/ issued # {} /\ GiveUp(i) /\ UNCHANGED issued
    /\ UNCHANGED <<row, told, mishaps>>

(* callWithRetry: a transient error, with or without effect at Bria.       *)
NewAddressLost(i) ==
    /\ issuer[i].at = "ask"
    /\ Mishap
    /\ \/ UNCHANGED issued
       \/ \E a \in Addresses \ issued : issued' = issued \cup {a}
    /\ IF issuer[i].attempt < BriaRetries
         THEN issuer' = [issuer EXCEPT ![i].attempt = @ + 1]
         ELSE GiveUp(i)
    /\ UNCHANGED <<row, told>>

CreateAgain(i) ==
    /\ issuer[i].at = "create"
    /\ row' = issuer[i].got
    /\ Tell(i, issuer[i].got)
    /\ UNCHANGED <<issued, mishaps>>

(* externalId is unique: the slower of two creates is refused. *)
CreateRow(i) ==
    /\ issuer[i].at = "create"
    /\ \/ row = None /\ row' = issuer[i].got /\ Tell(i, issuer[i].got)
       \/ row # None /\ GiveUp(i) /\ UNCHANGED <<row, told>>
    /\ UNCHANGED <<issued, mishaps>>

(* The database fails, or the process dies. *)
GivesUp(i) ==
    /\ issuer[i].at # "idle"
    /\ Mishap
    /\ GiveUp(i)
    /\ UNCHANGED <<row, issued, told>>

DepositNext ==
    \E i \in Issuers :
       FindAddress(i) \/ NewAddress(i) \/ NewAddressLost(i) \/ CreateRow(i) \/ GivesUp(i)

DepositSpec == DepositInit /\ [][DepositNext]_depositVars

-----------------------------------------------------------------------------
(* Properties. *)

(* Whoever asked for the address of one reference, and however often Bria  *)
(* was asked on the way, all have been told the same one: the one on       *)
(* record, which Bria issued for it, on the configured network.            *)
OneAddressTold ==
    /\ told \subseteq {row}
    /\ told \subseteq issued
    /\ told \cap Foreign = {}

=============================================================================
