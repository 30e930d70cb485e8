----------------------------- MODULE BriaSetup -----------------------------
(***************************************************************************)
(* BriaSetupService.runFullSetup: the admin, the account, the profile and  *)
(* its API key, and, given an xpub, the xpub, the wallet and a test         *)
(* address.  An operator repeats the request until it goes through: any     *)
(* call may fail, also after Bria has carried it out, and a second operator *)
(* may be at it.  Bria's objects are unique by name (external).            *)
(***************************************************************************)
EXTENDS Naturals

CONSTANTS
    Operators,     \* requests to POST admin/bria/setup at a time
    MaxFailedCalls \* bound on calls that fail

VARIABLES
    made,        \* objects Bria has
    operator,    \* the step each request is at, and what it met on the way
    failedCalls

setupVars == <<made, operator, failedCalls>>

SetupStep == {"idle", "admin", "list", "account", "profile", "key", "xpub", "wallet", "verify",
              "failed"}

(* unlucky: a call of the request failed; crowded: another was at work.     *)
SetupTypeOK ==
    /\ made \subseteq {"admin", "account", "profile", "xpub", "wallet"}
    /\ operator \in [Operators -> [at: SetupStep, unlucky: BOOLEAN, crowded: BOOLEAN]]
    /\ failedCalls \in 0..MaxFailedCalls

AtRest == [at |-> "idle", unlucky |-> FALSE, crowded |-> FALSE]

SetupInit ==
    /\ made = {}
    /\ operator = [o \in Operators |-> AtRest]
    /\ failedCalls = 0

-----------------------------------------------------------------------------

Doing(o, step) == operator[o].at = step

Then(o, step) == operator' = [operator EXCEPT ![o].at = step]

Busy(o) == operator[o].at \notin {"idle", "failed"}

(* The request arrives, with the admin key; those at work get company.     *)
Setup(o) ==
    /\ ~Busy(o)
    /\ operator' = [p \in Operators |->
                      IF p = o THEN [at |-> "admin", unlucky |-> FALSE,
                                     crowded |-> \E q \in Operators \ {o} : Busy(q)]
                      ELSE [operator[p] EXCEPT !.crowded = @ \/ Busy(p)]]
    /\ UNCHANGED <<made, failedCalls>>

(* A create that takes ALREADY_EXISTS for an answer. *)
MakeOrKeep(o, step, thing, next) ==
    /\ Doing(o, step)
    /\ made' = made \cup {thing}
    /\ Then(o, next)
    /\ UNCHANGED failedCalls

(* A create that does not. *)
Make(o, step, thing, next) ==
    /\ Doing(o, step)
    /\ made' = made \cup {thing}
    /\ Then(o, IF thing \in made THEN "failed" ELSE next)
    /\ UNCHANGED failedCalls

BootstrapAdmin(o) == MakeOrKeep(o, "admin", "admin", "list")

(* createKoyaAccount: an account on the list is kept. *)
ListAccounts(o) ==
    /\ Doing(o, "list")
    /\ Then(o, IF "account" \in made THEN "profile" ELSE "account")
    /\ UNCHANGED <<made, failedCalls>>

CreateAccount(o) == Make(o, "account", "account", "profile")

CreateProfileStrictly(o) == Make(o, "profile", "profile", "key")

CreateProfile(o) == MakeOrKeep(o, "profile", "profile", "key")

(* Each request makes a new key; without an xpub it ends here. *)
CreateProfileApiKey(o) ==
    /\ Doing(o, "key")
    /\ Then(o, "idle") \/ Then(o, "xpub")
    /\ UNCHANGED <<made, failedCalls>>

ImportXpub(o) == MakeOrKeep(o, "xpub", "xpub", "wallet")

CreateWallet(o) == MakeOrKeep(o, "wallet", "wallet", "verify")

VerifySetup(o) ==
    /\ Doing(o, "verify")
    /\ Then(o, "idle")
    /\ UNCHANGED <<made, failedCalls>>

(* A call fails, before or after Bria has carried it out.  A failing list  *)
(* is swallowed; BriaClientService may try again, BriaAdminService does not. *)
CallFails(o) ==
    /\ Busy(o)
    /\ failedCalls < MaxFailedCalls
    /\ failedCalls' = failedCalls + 1
    /\ made' \in {made, made \cup ({operator[o].at} \cap {"admin", "account", "profile", "xpub", "wallet"})}
    /\ \E next \in IF Doing(o, "list") THEN {"account"}
                   ELSE IF Doing(o, "admin") \/ Doing(o, "account") THEN {"failed"}
                   ELSE {operator[o].at, "failed"} :
         operator' = [operator EXCEPT ![o].at = next, ![o].unlucky = TRUE]

SetupNext ==
    \E o \in Operators :
       \/ Setup(o) \/ BootstrapAdmin(o) \/ ListAccounts(o) \/ CreateAccount(o)
       \/ CreateProfile(o) \/ CreateProfileApiKey(o) \/ ImportXpub(o) \/ CreateWallet(o)
       \/ VerifySetup(o) \/ CallFails(o)

SetupSpec == SetupInit /\ [][SetupNext]_setupVars

-----------------------------------------------------------------------------
(* Properties. *)

(* The set-up can be repeated: whatever an earlier request left half done,  *)
(* a request that meets no failing call and no other request goes through.  *)
SetupRepeatable ==
    \A o \in Operators : Doing(o, "failed") => operator[o].unlucky \/ operator[o].crowded

=============================================================================
