-------------------------- MODULE OperationsProofs --------------------------
(***************************************************************************)
(* Proofs about the parts of Operations, each on its own: the throttle, the *)
(* set-up of Bria, the deposit address, the custody webhook, the archive,   *)
(* the circuit breaker and the rates.                                      *)
(***************************************************************************)
EXTENDS Operations, Sequences, FiniteSetTheorems, TLAPS

-----------------------------------------------------------------------------
(* The throttle, for any number of requests and processes, any limit and any*)
(* lifetime of at least one tick. CounterExpires is inductive with the types*)
(* of the counter and its lifetime.                                        *)

ThrottleInv ==
    /\ hits \in Nat
    /\ life \in {NoLifetime} \cup 1..Window
    /\ call \in [Calls -> [at: {"idle", "incr", "expire", "over"}, total: Nat]]
    /\ CounterExpires

LEMMA InitThrottleInv == ThrottleInit => ThrottleInv
  BY DEF ThrottleInit, ThrottleInv, CounterExpires, NoLifetime

(* Whoever leaves the lifetime undone notes it; whoever finds it undone    *)
(* sees to it.                                                             *)
LEMMA NextThrottleInv ==
  ASSUME ThrottleAssumption, ThrottleInv, [ThrottleNext]_throttleVars
  PROVE  ThrottleInv'
<1> USE DEF ThrottleInv, CounterExpires, Calling, NoLifetime
<1>1. CASE UNCHANGED throttleVars
  BY <1>1 DEF throttleVars
<1>2. ASSUME NEW c \in Calls, CheckBlocked(c)
      PROVE  ThrottleInv'
  BY <1>2 DEF CheckBlocked, Proceed
<1>3. ASSUME NEW c \in Calls, Hit(c)
      PROVE  ThrottleInv'
  <2>1. hits' \in Nat /\ life' = life
    BY <1>3 DEF Hit
  <2>2. CASE life = NoLifetime
    BY <1>3, <2>1, <2>2 DEF Hit, Proceed
  <2>3. CASE life # NoLifetime
    BY <1>3, <2>1, <2>3 DEF Hit, Judge, Return, Proceed
  <2> QED
    BY <2>2, <2>3
<1>4. ASSUME NEW c \in Calls, Expire(c)
      PROVE  ThrottleInv'
  <2>1. hits' = hits /\ life' \in {NoLifetime} \cup 1..Window
    BY <1>4, ThrottleAssumption DEF Expire, ThrottleAssumption
  <2>2. call' \in [Calls -> [at: {"idle", "incr", "expire", "over"}, total: Nat]]
    BY <1>4 DEF Expire, Judge, Return, Proceed
  <2>3. CounterExpires'
    BY <1>4, <2>1, ThrottleAssumption DEF Expire, ThrottleAssumption
  <2> QED
    BY <2>1, <2>2, <2>3
<1>5. ASSUME NEW c \in Calls, Block(c)
      PROVE  ThrottleInv'
  BY <1>5 DEF Block, Return, Proceed
<1>6. ASSUME NEW c \in Calls, FailOpen(c)
      PROVE  ThrottleInv'
  BY <1>6 DEF FailOpen, Return, Proceed
<1>7. CASE ThrottleTick
  BY <1>7, ThrottleAssumption DEF ThrottleTick, ThrottleAssumption
<1> QED
  BY <1>1, <1>2, <1>3, <1>4, <1>5, <1>6, <1>7 DEF ThrottleNext

(* No counter of the throttle lasts for ever: RedisThrottlerStorage gives  *)
(* every counter a lifetime or, when a caller could not, its successor does.*)
THEOREM CountersExpire ==
  ASSUME ThrottleAssumption
  PROVE  ThrottleSpec => []CounterExpires
<1>1. ThrottleInv => CounterExpires
  BY DEF ThrottleInv
<1>2. ThrottleInv /\ [ThrottleNext]_throttleVars => ThrottleInv'
  BY ThrottleAssumption, NextThrottleInv
<1> QED
  BY InitThrottleInv, <1>1, <1>2, PTL DEF ThrottleSpec

-----------------------------------------------------------------------------
(* The set-up of Bria, for any number of operators and failing calls. A    *)
(* request that has had no company is alone, and what it found missing from*)
(* the list of accounts is then still missing when it creates it.          *)

SetupInv ==
    /\ operator \in [Operators -> [at: SetupStep, unlucky: BOOLEAN, crowded: BOOLEAN]]
    /\ \A o \in Operators :
         /\ Busy(o) /\ ~operator[o].crowded => \A p \in Operators \ {o} : ~Busy(p)
         /\ Doing(o, "account") => \/ "account" \notin made
                                   \/ operator[o].unlucky \/ operator[o].crowded
         /\ Doing(o, "failed") => operator[o].unlucky \/ operator[o].crowded

LEMMA InitSetupInv == SetupInit => SetupInv
  BY DEF SetupInit, SetupInv, AtRest, SetupStep, Busy, Doing

LEMMA NextSetupInv ==
  ASSUME SetupInv, [SetupNext]_setupVars
  PROVE  SetupInv'
<1> USE DEF SetupInv, Busy, Doing, Then, SetupStep
<1>1. CASE UNCHANGED setupVars
  BY <1>1 DEF setupVars
<1>2. ASSUME NEW o \in Operators, Setup(o)
      PROVE  SetupInv'
  <2>1. /\ operator'[o] = [at |-> "admin", unlucky |-> FALSE,
                           crowded |-> \E q \in Operators \ {o} : Busy(q)]
        /\ \A p \in Operators \ {o} :
             operator'[p] = [operator[p] EXCEPT !.crowded = operator[p].crowded \/ Busy(p)]
        /\ operator' = [p \in Operators |-> operator'[p]]
        /\ made' = made
    BY <1>2 DEF Setup
  <2>2. \A p \in Operators : operator'[p] \in [at: SetupStep, unlucky: BOOLEAN, crowded: BOOLEAN]
    <3>1. \A p \in Operators : operator[p] \in [at: SetupStep, unlucky: BOOLEAN, crowded: BOOLEAN]
      OBVIOUS
    <3>2. operator'[o] \in [at: SetupStep, unlucky: BOOLEAN, crowded: BOOLEAN]
      BY <2>1
    <3>3. \A p \in Operators \ {o} :
            operator'[p] \in [at: SetupStep, unlucky: BOOLEAN, crowded: BOOLEAN]
      <4> SUFFICES ASSUME NEW p \in Operators, p # o
                   PROVE  operator'[p] \in [at: SetupStep, unlucky: BOOLEAN, crowded: BOOLEAN]
        OBVIOUS
      <4>1. PICK crowded \in BOOLEAN : operator'[p] = [operator[p] EXCEPT !.crowded = crowded]
        BY <2>1
      <4> QED
        BY <4>1, <3>1
    <3> QED
      BY <3>2, <3>3
  <2>3. operator' \in [Operators -> [at: SetupStep, unlucky: BOOLEAN, crowded: BOOLEAN]]
    BY <2>1, <2>2
  <2>4. \A p \in Operators \ {o} :
          /\ operator'[p].at = operator[p].at /\ operator'[p].unlucky = operator[p].unlucky
          /\ operator'[p].crowded = (operator[p].crowded \/ Busy(p))
    BY <2>1
  <2> QED
    BY <2>1, <2>3, <2>4
<1>3. ASSUME NEW o \in Operators, ListAccounts(o)
      PROVE  SetupInv'
  BY <1>3 DEF ListAccounts
<1>4. ASSUME NEW o \in Operators, CreateAccount(o)
      PROVE  SetupInv'
  BY <1>4 DEF CreateAccount, Make
<1>5. ASSUME NEW o \in Operators,
             BootstrapAdmin(o) \/ CreateProfile(o) \/ ImportXpub(o) \/ CreateWallet(o)
      PROVE  SetupInv'
  BY <1>5 DEF BootstrapAdmin, CreateProfile, ImportXpub, CreateWallet, MakeOrKeep
<1>6. ASSUME NEW o \in Operators, CreateProfileApiKey(o) \/ VerifySetup(o)
      PROVE  SetupInv'
  BY <1>6 DEF CreateProfileApiKey, VerifySetup
<1>7. ASSUME NEW o \in Operators, CallFails(o)
      PROVE  SetupInv'
  <2>1. PICK next \in {"account", "failed", operator[o].at} :
          operator' = [operator EXCEPT ![o].at = next, ![o].unlucky = TRUE]
    BY <1>7 DEF CallFails
  <2>2. Busy(o)
    BY <1>7 DEF CallFails
  <2>3. /\ operator' \in [Operators -> [at: SetupStep, unlucky: BOOLEAN, crowded: BOOLEAN]]
        /\ operator'[o].unlucky /\ operator'[o].crowded = operator[o].crowded
        /\ \A p \in Operators \ {o} : operator'[p] = operator[p]
    BY ZenonT(30), <2>1, <2>2
  <2>4. \A p \in Operators : Busy(p)' => Busy(p)
    BY <2>2, <2>3
  <2> QED
    BY <2>2, <2>3, <2>4
<1> QED
  BY <1>1, <1>2, <1>3, <1>4, <1>5, <1>6, <1>7 DEF SetupNext

(* runFullSetup succeeds on any remains of earlier runs once no call fails *)
(* and no other operator is at it.                                         *)
THEOREM Repeatable == SetupSpec => []SetupRepeatable
<1>1. SetupInv => SetupRepeatable
  BY DEF SetupInv, SetupRepeatable
<1> QED
  BY InitSetupInv, NextSetupInv, <1>1, PTL DEF SetupSpec

-----------------------------------------------------------------------------
(* The deposit address, for any callers and failures. A caller that is about*)
(* to create the row holds an address that Bria issued for it; once there is*)
(* a row it is never replaced.                                             *)

(* What the row and every caller's answer from Bria are.                   *)
Good(a) == a \in (issued \ Foreign) /\ a # None

DepositInv ==
    /\ issuer \in [Issuers -> [at: {"idle", "ask", "create"}, attempt: Nat,
                               got: Addresses \cup {None}]]
    /\ row # None => Good(row)
    /\ told \subseteq {row}
    /\ row = None => told = {}
    /\ \A i \in Issuers : issuer[i].at = "create" => Good(issuer[i].got)

LEMMA InitDepositInv == DepositInit => DepositInv
  BY DEF DepositInit, DepositInv, Resting

(* An address Bria issues now is good to create the row with; those issued *)
(* before stay good.                                                       *)
LEMMA NextDepositInv ==
  ASSUME DepositAssumption, DepositInv, [DepositNext]_depositVars
  PROVE  DepositInv'
<1>1. CASE UNCHANGED depositVars
  BY <1>1 DEF DepositInv, Good, depositVars
<1>2. ASSUME NEW i \in Issuers, FindAddress(i)
      PROVE  DepositInv'
  BY <1>2 DEF DepositInv, Good, FindAddress, Tell, Resting
<1>3. ASSUME NEW i \in Issuers, NewAddress(i)
      PROVE  DepositInv'
  BY <1>3 DEF DepositInv, Good, NewAddress, AcceptAddress, GiveUp, Resting, DepositAssumption
<1>4. ASSUME NEW i \in Issuers, NewAddressLost(i)
      PROVE  DepositInv'
  BY SMTT(30), <1>4 DEF DepositInv, Good, NewAddressLost, Mishap, GiveUp, Resting
<1>5. ASSUME NEW i \in Issuers, CreateRow(i)
      PROVE  DepositInv'
  BY <1>5 DEF DepositInv, Good, CreateRow, Tell, GiveUp, Resting
<1>6. ASSUME NEW i \in Issuers, GivesUp(i)
      PROVE  DepositInv'
  BY <1>6 DEF DepositInv, Good, GivesUp, GiveUp, Resting
<1> QED
  BY <1>1, <1>2, <1>3, <1>4, <1>5, <1>6 DEF DepositNext

(* All who ask for the deposit address of a reference are told the same:   *)
(* issueDepositAddress, however its callers and failures interleave.       *)
THEOREM ToldTheSame ==
  ASSUME DepositAssumption
  PROVE  DepositSpec => []OneAddressTold
<1>1. DepositInv => OneAddressTold
  BY DepositAssumption DEF DepositInv, Good, OneAddressTold, DepositAssumption
<1>2. DepositInv /\ [DepositNext]_depositVars => DepositInv'
  BY DepositAssumption, NextDepositInv
<1> QED
  BY InitDepositInv, <1>1, <1>2, PTL DEF DepositSpec

-----------------------------------------------------------------------------
(* The custody webhook, for any number of movers, webhook requests, senders, *)
(* reports, failing calls and deaths. OutcomesAgree rests on the             *)
(* deduplication key, which lets one request alone past "mark", on the       *)
(* verdict, which never changes, and on a sender having given up before it   *)
(* fails the session.                                                       *)

(* Past the deduplication. *)
Past(h) == hook[h].at \notin {"idle", "mark"}

HookOK(h) ==
    /\ hook[h].at # "idle" /\ hook[h].status \in Final => verdict = hook[h].status
    /\ hook[h].at \in {"note", "find", "settle", "read", "save", "tell"} => hook[h].status \in Final
    /\ hook[h].at = "tell" => hook[h].status = "Executed" /\ (session = "COMPLETED" \/ gaveUp)
    /\ Past(h) => keyUsed /\ completed = 0

SenderOK(s) == sender[s].at \in {"check", "move"} => gaveUp

CustodyInv ==
    /\ hook \in [Hooks -> [at: HookStep, status: {"Broadcasted"} \cup Final]]
    /\ sender \in [Senders -> [at: SenderStep, result: Sent]]
    /\ completed \in {0, 1}
    /\ completed = 1 => keyUsed
    /\ \A h \in Hooks : HookOK(h)
    /\ \A h, k \in Hooks : Past(h) /\ Past(k) => h = k
    /\ \A s \in Senders : SenderOK(s)
    /\ OutcomesAgree

LEMMA InitCustodyInv == DfnsInit => CustodyInv
  BY DEF DfnsInit, CustodyInv, HookOK, SenderOK, Past, HookStep, SenderStep, Sent, Final, OutcomesAgree

(* Steps of movers and of DFNS itself. *)
LEMMA MoverKeepsCustodyInv ==
  ASSUME CustodyInv, NEW m \in Movers, LookUp(m) \/ AskDfns(m) \/ CreateRequest(m)
  PROVE  CustodyInv'
<1>1. /\ UNCHANGED <<hook, sender, gaveUp, completed, keyUsed, payout, session>>
      /\ verdict' = verdict \/ (verdict = "none" /\ verdict' = "asked")
      /\ custody' = custody \/ custody' = "PENDING"
  BY DEF LookUp, AskDfns, CreateRequest, rowVars
<1> QED
  BY <1>1 DEF CustodyInv, HookOK, SenderOK, Past, Final, OutcomesAgree

LEMMA DecideKeepsCustodyInv ==
  ASSUME CustodyInv, Decide
  PROVE  CustodyInv'
  BY DEF Decide, rowVars, CustodyInv, HookOK, SenderOK, Past, Final, OutcomesAgree

(* The steps of a webhook request. *)
LEMMA HookKeepsCustodyInv ==
  ASSUME CustodyInv, NEW h \in Hooks,
         \/ Report(h) \/ MarkKey(h) \/ Look(h) \/ NoteRequest(h) \/ FindPayout(h)
         \/ SettlePayout(h) \/ ReadDelivery(h) \/ SaveDelivery(h) \/ Announce(h) \/ Abandon(h)
  PROVE  CustodyInv'
<1> USE DEF CustodyInv, HookOK, SenderOK, Past, HookStep, In, Turn, OutcomesAgree, rowVars
<1>1. CASE Report(h)
  BY <1>1 DEF Report, Final
<1>2. CASE MarkKey(h)
  BY <1>2 DEF MarkKey
<1>3. CASE Look(h)
  BY <1>3 DEF Look
<1>4. CASE NoteRequest(h)
  BY <1>4 DEF NoteRequest, Final
<1>5. CASE FindPayout(h)
  BY <1>5 DEF FindPayout
<1>6. CASE SettlePayout(h)
  BY <1>6 DEF SettlePayout, Final
<1>7. CASE ReadDelivery(h)
  BY <1>7 DEF ReadDelivery
<1>8. CASE SaveDelivery(h)
  BY <1>8 DEF SaveDelivery, Final
<1>9. CASE Announce(h)
  BY <1>9 DEF Announce
<1>10. CASE Abandon(h)
  BY <1>10 DEF Abandon
<1> QED
  BY <1>1, <1>2, <1>3, <1>4, <1>5, <1>6, <1>7, <1>8, <1>9, <1>10

(* The steps of a sender: it confirms nothing, and fails a session only     *)
(* after it gave the payout up.                                            *)
LEMMA SenderKeepsCustodyInv ==
  ASSUME CustodyInv, NEW s \in Senders,
         Retry(s) \/ Submit(s) \/ WritePayout(s) \/ CheckSession(s) \/ FailSession(s) \/ BreakOff(s)
  PROVE  CustodyInv'
<1>1. UNCHANGED <<custody, hook, completed, keyUsed, verdict>>
  BY DEF Retry, Submit, WritePayout, CheckSession, FailSession, BreakOff
<1>2. /\ payout' = payout \/ payout' # "CONFIRMED"
      /\ gaveUp => gaveUp'
      /\ session' = session \/ (session' = "FAILED" /\ gaveUp')
      /\ sender' \in [Senders -> [at: SenderStep, result: Sent]]
      /\ \A b \in Senders : SenderOK(b)'
  <2> USE DEF CustodyInv, SenderOK, SenderStep, Sent, SendsAs
  <2>1. CASE Retry(s)
    BY <2>1 DEF Retry
  <2>2. CASE Submit(s)
    BY <2>2 DEF Submit
  <2>3. CASE WritePayout(s)
    BY <2>3 DEF WritePayout
  <2>4. CASE CheckSession(s)
    BY <2>4 DEF CheckSession
  <2>5. CASE FailSession(s)
    BY <2>5 DEF FailSession
  <2>6. CASE BreakOff(s)
    BY <2>6 DEF BreakOff
  <2> QED
    BY <2>1, <2>2, <2>3, <2>4, <2>5, <2>6
<1> QED
  BY <1>1, <1>2 DEF CustodyInv, HookOK, Past, OutcomesAgree

LEMMA NextCustodyInv ==
  ASSUME CustodyInv, [DfnsNext]_dfnsVars
  PROVE  CustodyInv'
<1>1. CASE UNCHANGED dfnsVars
  BY <1>1 DEF dfnsVars, rowVars, CustodyInv, HookOK, SenderOK, Past, OutcomesAgree
<1> QED
  BY <1>1, MoverKeepsCustodyInv, DecideKeepsCustodyInv, HookKeepsCustodyInv, SenderKeepsCustodyInv
     DEF DfnsNext

(* Whatever DFNS reports, how often and in what order, whoever else writes   *)
(* the payout's row, and wherever a handler breaks off: neither side reports*)
(* what DFNS did not decide, and the customer is told of a completion once. *)
THEOREM SidesAgree == DfnsSpec => []OutcomesAgree
<1>1. CustodyInv => OutcomesAgree
  BY DEF CustodyInv
<1> QED
  BY InitCustodyInv, NextCustodyInv, <1>1, PTL DEF DfnsSpec

-----------------------------------------------------------------------------
(* The archive, for any number of instances of the job, rows, failing       *)
(* uploads and deaths. The strengthening says what a job holds: candidates  *)
(* were read while final, hence with what was signed first, and a candidate *)
(* counts as uploaded only while the bucket has it.                        *)

ArchiveInv ==
    /\ psbt \in [Psbts -> [status: {"final", "signed", "archived"}, contents: Contents]]
    /\ bucket \in [Psbts -> {"nothing", "first"}]
    /\ job \in [Jobs -> [todo: SUBSET Row, uploaded: SUBSET Row]]
    /\ \A p \in Psbts :
         /\ psbt[p].status = "final" => psbt[p].contents = "first"
         /\ psbt[p].contents = "first" \/ p \in touched \/ bucket[p] = "first"
    /\ \A j \in Jobs :
         /\ \A r \in job[j].todo : r[2] = "first"
         /\ \A r \in job[j].uploaded : bucket[r[1]] = "first"

LEMMA InitArchiveInv == RetentionInit => ArchiveInv
  BY DEF RetentionInit, ArchiveInv, NoWork, Contents

LEMMA NextArchiveInv ==
  ASSUME ArchiveInv, [RetentionNext]_retentionVars
  PROVE  ArchiveInv'
<1> USE DEF ArchiveInv, Row, Contents
<1>1. CASE UNCHANGED retentionVars
  BY <1>1 DEF retentionVars
<1>2. ASSUME NEW j \in Jobs, FindCandidates(j)
      PROVE  ArchiveInv'
  <2> DEFINE found == {<<p, psbt[p].contents>> : p \in {q \in Psbts : psbt[q].status = "final"}}
  <2>1. \A r \in found : r \in Row /\ r[2] = "first"
    OBVIOUS
  <2>2. job' = [job EXCEPT ![j].todo = found]
    BY <1>2 DEF FindCandidates
  <2>3. found \in SUBSET Row
    BY <2>1
  <2> HIDE DEF found
  <2>4. job' \in [Jobs -> [todo: SUBSET Row, uploaded: SUBSET Row]]
    BY <2>2, <2>3
  <2>5. \A k \in Jobs : /\ \A r \in job'[k].todo : r[2] = "first"
                       /\ job'[k].uploaded = job[k].uploaded
    BY <2>1, <2>2
  <2> QED
    BY <1>2, <2>4, <2>5 DEF FindCandidates
<1>3. ASSUME NEW j \in Jobs, Upload(j)
      PROVE  ArchiveInv'
  <2>1. PICK r \in job[j].todo :
          \/ /\ bucket' = [bucket EXCEPT ![r[1]] = r[2]]
             /\ job' = [job EXCEPT ![j] = [todo |-> @.todo \ {r}, uploaded |-> {r}]]
          \/ /\ bucket' \in {bucket, [bucket EXCEPT ![r[1]] = r[2]]}
             /\ job' = [job EXCEPT ![j].todo = @ \ {r}]
    BY <1>3 DEF Upload
  <2>2. r \in Row /\ r[1] \in Psbts /\ r[2] = "first"
    BY <2>1
  <2>3. bucket' \in [Psbts -> {"nothing", "first"}]
    BY <2>1, <2>2
  <2>4. \A p \in Psbts : bucket[p] = "first" => bucket'[p] = "first"
    BY <2>1, <2>2
  <2>5. job' \in [Jobs -> [todo: SUBSET Row, uploaded: SUBSET Row]]
    BY <2>1, <2>2
  <2>6. \A k \in Jobs : \A q \in job'[k].todo : q[2] = "first"
    BY <2>1, <2>2
  <2>7. ASSUME NEW k \in Jobs, NEW q \in job'[k].uploaded
        PROVE  bucket'[q[1]] = "first"
    <3>1. CASE q \in job[k].uploaded
      BY <3>1, <2>4
    <3>2. CASE q \notin job[k].uploaded
      BY <3>2, <2>1, <2>2, <2>7
    <3> QED
      BY <3>1, <3>2
  <2>8. psbt' = psbt /\ touched' = touched
    BY <1>3 DEF Upload
  <2> QED
    BY <2>3, <2>4, <2>5, <2>6, <2>7, <2>8
<1>4. ASSUME NEW j \in Jobs, MarkArchived(j)
      PROVE  ArchiveInv'
  BY <1>4 DEF MarkArchived
<1>5. ASSUME NEW j \in Jobs, EndJob(j)
      PROVE  ArchiveInv'
  BY <1>5 DEF EndJob, NoWork
<1>6. ASSUME NEW p \in Psbts, SignAgain(p)
      PROVE  ArchiveInv'
  BY <1>6 DEF SignAgain
<1> QED
  BY <1>1, <1>2, <1>3, <1>4, <1>5, <1>6 DEF RetentionNext

(* archiveOldPsbts never loses what was signed, in however many instances   *)
(* it runs and wherever it breaks off.                                     *)
THEOREM NothingLost == RetentionSpec => []ArchivedIsStored
<1>1. ArchiveInv => ArchivedIsStored
  BY DEF ArchiveInv, ArchivedIsStored
<1> QED
  BY InitArchiveInv, NextArchiveInv, <1>1, PTL DEF RetentionSpec

-----------------------------------------------------------------------------
(* The circuit breaker, for any number of callers, any threshold, and a       *)
(* window no shorter than a record of a failure takes.                     *)

(* What a caller that has pruned at its reading of the clock may count. *)
Countable(c) == {age \in reported : age <= caller[c].age + FailWindow}

(* What is in the set was reported, unless it is too old to be pruned by     *)
(* anybody and still counted; who is about to open has seen enough.        *)
BreakerInv ==
    /\ failed \subseteq Nat
    /\ reported \subseteq 0..Horizon
    /\ failed \cap (0..Horizon) \subseteq reported
    /\ caller \in [Callers -> [at: CallerStep, age: 0..MaxDelay]]
    /\ \A c \in Callers :
         /\ caller[c].at \in {"expire", "count"} => \A age \in failed : age <= caller[c].age + FailWindow
         /\ Is(c, "open") => Cardinality(Countable(c)) >= Threshold
    /\ OpenIsEarned

LEMMA InitBreakerInv == BreakerAssumption /\ BreakerInit => BreakerInv
  BY DEF BreakerAssumption, BreakerInit, BreakerInv, Is, CallerStep, OpenIsEarned

(* A larger set of reported failures has no fewer members. *)
LEMMA ReportedIsFinite ==
  ASSUME BreakerAssumption, NEW S, NEW T, T \subseteq 0..Horizon, S \subseteq T
  PROVE  /\ IsFiniteSet(S) /\ Cardinality(S) \in Nat /\ Cardinality(T) \in Nat
         /\ Cardinality(S) <= Cardinality(T)
<1>1. IsFiniteSet(0..Horizon)
  BY FS_Interval DEF BreakerAssumption, Horizon
<1>2. IsFiniteSet(T) /\ IsFiniteSet(S)
  BY <1>1, FS_Subset
<1> QED
  BY <1>2, FS_Subset, FS_CardinalityType

(* A tick makes as many failures one tick older. *)
LEMMA AgedAsMany ==
  ASSUME BreakerAssumption, NEW S, NEW T, T \subseteq 0..Horizon, S \subseteq Nat,
         \A age \in S : age + 1 \in T
  PROVE  Cardinality(S) <= Cardinality(T)
<1> DEFINE Later == [age \in S |-> age + 1]
<1>1. Later \in [S -> T] /\ \A a, b \in S : Later[a] = Later[b] => a = b
  OBVIOUS
<1>2. Later \in Injection(S, T)
  BY <1>1 DEF Injection, IsInjective
<1>3. IsFiniteSet(T)
  BY ReportedIsFinite
<1> QED
  BY <1>2, <1>3, FS_Injection

(* A step of one caller that leaves both sets alone. *)
LEMMA CallerMoves ==
  ASSUME BreakerAssumption, BreakerInv, NEW c \in Callers, UNCHANGED <<failed, reported, earned>>,
         caller' \in [Callers -> [at: CallerStep, age: 0..MaxDelay]],
         \A b \in Callers : b # c => caller'[b] = caller[b],
         caller'[c].at \in {"expire", "count"}
           => \A age \in failed : age <= caller'[c].age + FailWindow,
         caller'[c].at = "open" => Cardinality({age \in reported : age <= caller'[c].age + FailWindow})
                                    >= Threshold
  PROVE  BreakerInv'
<1>1. ASSUME NEW b \in Callers
      PROVE  /\ caller'[b].at \in {"expire", "count"}
                  => \A age \in failed' : age <= caller'[b].age + FailWindow
             /\ caller'[b].at = "open" => Cardinality(Countable(b)') >= Threshold
  <2>1. CASE b = c
    BY <2>1 DEF Countable
  <2>2. CASE b # c
    BY <1>1, <2>2 DEF BreakerInv, Countable, Is
  <2> QED
    BY <2>1, <2>2
<1> QED
  BY <1>1 DEF BreakerInv, Is, OpenIsEarned

LEMMA MoveSteps ==
  ASSUME caller \in [Callers -> [at: CallerStep, age: 0..MaxDelay]], NEW c \in Callers,
         NEW label \in CallerStep, Move(c, label)
  PROVE  /\ caller' \in [Callers -> [at: CallerStep, age: 0..MaxDelay]]
         /\ caller'[c].at = label /\ caller'[c].age = caller[c].age
         /\ \A b \in Callers : b # c => caller'[b] = caller[b]
  BY DEF Move

LEMMA RestSteps ==
  ASSUME BreakerAssumption, caller \in [Callers -> [at: CallerStep, age: 0..MaxDelay]],
         NEW c \in Callers, Rest(c)
  PROVE  /\ caller' \in [Callers -> [at: CallerStep, age: 0..MaxDelay]]
         /\ caller'[c].at = "idle"
         /\ \A b \in Callers : b # c => caller'[b] = caller[b]
  BY DEF Rest, CallerStep, BreakerAssumption

LEMMA NextBreakerInv ==
  ASSUME BreakerAssumption, BreakerInv, [BreakerNext]_breakerVars
  PROVE  BreakerInv'
<1> USE DEF Is
<1>l. \A label \in {"idle", "busy", "add", "prune", "expire", "count", "open", "look", "clear", "forget"} :
        label \in CallerStep
  BY DEF CallerStep
<1>t. caller \in [Callers -> [at: CallerStep, age: 0..MaxDelay]] /\ MaxDelay \in Nat /\ FailWindow \in Nat
  BY DEF BreakerInv, BreakerAssumption
<1>1. CASE UNCHANGED breakerVars
  BY <1>1 DEF breakerVars, BreakerInv, Countable, OpenIsEarned
<1>2. ASSUME NEW c \in Callers, CanExecute(c)
      PROVE  BreakerInv'
  BY <1>2, <1>l, <1>t, MoveSteps, CallerMoves DEF CanExecute
<1>3. ASSUME NEW c \in Callers, Serve(c)
      PROVE  BreakerInv'
  <2>1. CASE Move(c, "look")
    BY <1>3, <2>1, <1>l, <1>t, MoveSteps, CallerMoves DEF Serve
  <2>2. CASE Move(c, "add")
    BY <1>3, <2>2, <1>l, <1>t, MoveSteps, CallerMoves DEF Serve
  <2> QED
    BY <1>3, <2>1, <2>2 DEF Serve
<1>4. ASSUME NEW c \in Callers, AddFailure(c)
      PROVE  BreakerInv'
  <2>1. /\ failed' = failed \cup {caller[c].age} /\ reported' = reported \cup {caller[c].age}
        /\ caller[c].age \in 0..MaxDelay /\ earned' = earned
    BY <1>4, <1>t DEF AddFailure
  <2>2. /\ caller' \in [Callers -> [at: CallerStep, age: 0..MaxDelay]]
        /\ caller'[c].at = "prune"
        /\ \A b \in Callers : caller'[b].age = caller[b].age /\ (b # c => caller'[b] = caller[b])
    BY <1>4, <1>l, <1>t, MoveSteps DEF AddFailure
  <2>3. failed' \subseteq Nat /\ reported' \subseteq 0..Horizon /\ failed' \cap (0..Horizon) \subseteq reported'
    <3>1. caller[c].age \in Nat /\ caller[c].age \in 0..Horizon
      BY <2>1, <1>t DEF Horizon
    <3> QED
      BY <2>1, <3>1 DEF BreakerInv
  <2>4. ASSUME NEW b \in Callers, caller'[b].at \in {"expire", "count"}, NEW age \in failed'
        PROVE  age <= caller'[b].age + FailWindow
    <3>1. b # c /\ caller[b].at \in {"expire", "count"} /\ caller'[b].age = caller[b].age
      BY <2>2, <2>4
    <3>2. CASE age \in failed
      BY <3>1, <3>2 DEF BreakerInv
    <3>3. CASE age = caller[c].age
      BY <3>1, <3>3, <2>1, <1>t DEF BreakerAssumption
    <3> QED
      BY <3>2, <3>3, <2>1
  <2>5. ASSUME NEW b \in Callers, Is(b, "open")'
        PROVE  Cardinality(Countable(b)') >= Threshold
    <3>1. Is(b, "open") /\ Countable(b) \subseteq Countable(b)'
      BY <2>1, <2>2, <2>5 DEF Countable
    <3>2. Countable(b)' \subseteq 0..Horizon
      BY <2>3 DEF Countable
    <3>3. Cardinality(Countable(b)) >= Threshold
      BY <3>1 DEF BreakerInv
    <3> QED
      BY <3>1, <3>2, <3>3, ReportedIsFinite DEF BreakerAssumption
  <2> QED
    BY <2>1, <2>2, <2>3, <2>4, <2>5 DEF BreakerInv, OpenIsEarned
<1>5. ASSUME NEW c \in Callers, Prune(c)
      PROVE  BreakerInv'
  <2>1. /\ failed' = {age \in failed : age < caller[c].age + FailWindow} /\ reported' = reported
        /\ earned' = earned
    BY <1>5 DEF Prune
  <2>2. /\ caller' \in [Callers -> [at: CallerStep, age: 0..MaxDelay]]
        /\ caller'[c].at = "expire" /\ caller'[c].age = caller[c].age
        /\ \A b \in Callers : b # c => caller'[b] = caller[b]
    BY <1>5, <1>l, <1>t, MoveSteps DEF Prune
  <2>3. ASSUME NEW b \in Callers
        PROVE  /\ caller'[b].at \in {"expire", "count"}
                    => \A age \in failed' : age <= caller'[b].age + FailWindow
               /\ caller'[b].at = "open" => Cardinality(Countable(b)') >= Threshold
    <3>1. CASE b = c
      BY <3>1, <2>1, <2>2, <1>t DEF BreakerInv
    <3>2. CASE b # c
      BY <3>2, <2>1, <2>2 DEF BreakerInv, Countable
    <3> QED
      BY <3>1, <3>2
  <2> QED
    BY <2>1, <2>2, <2>3 DEF BreakerInv, OpenIsEarned
<1>6. ASSUME NEW c \in Callers, ExpireFailures(c)
      PROVE  BreakerInv'
  BY <1>6, <1>l, <1>t, MoveSteps, CallerMoves DEF ExpireFailures, BreakerInv
<1>7. ASSUME NEW c \in Callers, CountFailures(c)
      PROVE  BreakerInv'
  <2>1. CASE Cardinality(failed) >= Threshold
    <3>1. failed \subseteq Countable(c) /\ Countable(c) \subseteq 0..Horizon
      <4>1. caller[c].age \in 0..MaxDelay /\ \A age \in failed : age \in Nat /\ age <= caller[c].age + FailWindow
        BY <1>7, <1>t DEF CountFailures, BreakerInv
      <4>2. \A age \in failed : age \in 0..Horizon
        BY <4>1, <1>t DEF Horizon
      <4> QED
        BY <4>1, <4>2 DEF BreakerInv, Countable
    <3>2. Cardinality(Countable(c)) >= Threshold
      BY <3>1, <2>1, ReportedIsFinite DEF BreakerAssumption
    <3>3. caller'[c].at = "open" /\ caller'[c].age = caller[c].age
      BY <1>7, <2>1, <1>l, <1>t, MoveSteps DEF CountFailures
    <3> QED
      BY <1>7, <2>1, <1>l, <1>t, <3>2, <3>3, MoveSteps, CallerMoves DEF CountFailures, Countable
  <2>2. CASE ~(Cardinality(failed) >= Threshold)
    BY <1>7, <2>2, <1>t, RestSteps, CallerMoves DEF CountFailures
  <2> QED
    BY <2>1, <2>2
<1>8. ASSUME NEW c \in Callers, Open(c)
      PROVE  BreakerInv'
  <2>1. Cardinality(Countable(c)) >= Threshold /\ Countable(c) \subseteq reported
    BY <1>8 DEF Open, BreakerInv, Countable
  <2>2. earned' = TRUE
    <3>1. /\ Cardinality(Countable(c)) \in Nat /\ Cardinality(reported) \in Nat
          /\ Cardinality(Countable(c)) <= Cardinality(reported)
      BY <2>1, ReportedIsFinite DEF BreakerInv
    <3>2. Cardinality(reported) >= Threshold
      BY <2>1, <3>1 DEF BreakerAssumption
    <3> QED
      BY <1>8, <3>2 DEF Open
  <2>3. earned' = earned
    BY <2>2 DEF BreakerInv, OpenIsEarned
  <2> QED
    BY <1>8, <1>t, <2>3, RestSteps, CallerMoves DEF Open
<1>9. ASSUME NEW c \in Callers, LookState(c)
      PROVE  BreakerInv'
  <2>1. CASE Move(c, "clear")
    BY <1>9, <2>1, <1>l, <1>t, MoveSteps, CallerMoves DEF LookState
  <2>2. CASE Rest(c)
    BY <1>9, <2>2, <1>t, RestSteps, CallerMoves DEF LookState
  <2> QED
    BY <1>9, <2>1, <2>2 DEF LookState
<1>10. ASSUME NEW c \in Callers, Clear(c)
       PROVE  BreakerInv'
  BY <1>10, <1>l, <1>t, MoveSteps, CallerMoves DEF Clear
<1>11. ASSUME NEW c \in Callers, Forget(c)
       PROVE  BreakerInv'
  BY <1>11, <1>t, RestSteps DEF Forget, BreakerInv, Countable, OpenIsEarned
<1>12. ASSUME NEW c \in Callers, Drop(c)
       PROVE  BreakerInv'
  BY <1>12, <1>t, RestSteps, CallerMoves DEF Drop
<1>13. CASE BreakerTick
  <2>1. /\ failed' \subseteq {age + 1 : age \in failed} /\ earned' = earned
        /\ reported' = {age + 1 : age \in {a \in reported : a < Horizon}}
    BY <1>13 DEF BreakerTick, Aged
  <2>2. /\ caller' \in [Callers -> [at: CallerStep, age: 0..MaxDelay]]
        /\ \A c \in Callers :
             /\ caller'[c].at = caller[c].at
             /\ caller[c].at \in {"expire", "count", "open"}
                  => caller'[c].age = caller[c].age + 1 /\ caller[c].age + 1 <= MaxDelay
    BY <1>13, <1>t DEF BreakerTick
  <2>3. failed' \subseteq Nat /\ reported' \subseteq 0..Horizon /\ failed' \cap (0..Horizon) \subseteq reported'
    BY <2>1, <1>t DEF BreakerInv, Horizon
  <2>4. ASSUME NEW c \in Callers, caller'[c].at \in {"expire", "count"}, NEW age \in failed'
        PROVE  age <= caller'[c].age + FailWindow
    <3>1. PICK a \in failed : age = a + 1
      BY <2>1
    <3>2. a \in Nat /\ a <= caller[c].age + FailWindow
      BY <2>2, <2>4 DEF BreakerInv
    <3> QED
      BY <3>1, <3>2, <2>2, <2>4, <1>t
  <2>5. ASSUME NEW c \in Callers, Is(c, "open")'
        PROVE  Cardinality(Countable(c)') >= Threshold
    <3>1. Cardinality(Countable(c)) >= Threshold /\ caller[c].at = "open"
      BY <2>2, <2>5 DEF BreakerInv
    <3>2. Countable(c)' \subseteq 0..Horizon /\ Countable(c) \subseteq Nat /\ Countable(c) \subseteq 0..Horizon
      <4>1. reported \subseteq 0..Horizon /\ Countable(c) \subseteq reported /\ Countable(c)' \subseteq reported'
        BY DEF Countable, BreakerInv
      <4>2. \A n \in 0..Horizon : n \in Nat
        OBVIOUS
      <4> QED
        BY <2>3, <4>1, <4>2
    <3>3. ASSUME NEW age \in Countable(c)
          PROVE  age + 1 \in Countable(c)'
      <4>1. age \in reported /\ age \in Nat /\ age <= caller[c].age + FailWindow
        BY <3>2 DEF Countable
      <4>2. caller'[c].age = caller[c].age + 1 /\ caller[c].age + 1 <= MaxDelay /\ caller[c].age \in Nat
        BY <2>2, <3>1, <1>t
      <4>3. age < Horizon
        BY <4>1, <4>2, <1>t DEF Horizon
      <4> QED
        BY <4>1, <4>2, <4>3, <2>1, <1>t DEF Countable
    <3>4. Cardinality(Countable(c)) <= Cardinality(Countable(c)')
      BY <3>2, <3>3, AgedAsMany
    <3>5. Cardinality(Countable(c)) \in Nat /\ Cardinality(Countable(c)') \in Nat
      BY <3>2, ReportedIsFinite
    <3> QED
      BY <3>1, <3>4, <3>5 DEF BreakerAssumption
  <2> QED
    BY <2>1, <2>2, <2>3, <2>4, <2>5 DEF BreakerInv, OpenIsEarned
<1> QED
  BY <1>1, <1>2, <1>3, <1>4, <1>5, <1>6, <1>7, <1>8, <1>9, <1>10, <1>11, <1>12, <1>13 DEF BreakerNext

(* The circuit opens only upon Threshold failures of different instants that *)
(* are no older than the window and the time a record takes: whatever       *)
(* callers interleave, a failure that one of them counts was reported, and   *)
(* no two of them age into one.                                            *)
THEOREM OpeningIsEarned ==
  ASSUME BreakerAssumption
  PROVE  BreakerSpec => []OpenIsEarned
<1>1. BreakerInit => BreakerInv
  BY BreakerAssumption, InitBreakerInv
<1>2. BreakerInv /\ [BreakerNext]_breakerVars => BreakerInv'
  BY BreakerAssumption, NextBreakerInv
<1>3. BreakerInv => OpenIsEarned
  BY DEF BreakerInv
<1> QED
  BY <1>1, <1>2, <1>3, PTL DEF BreakerSpec

-----------------------------------------------------------------------------
(* The rates, for any requests, pairs, routes, thresholds and lifetimes. *)

Bound == LastGoodTTL + MaxWork

Working == {"derived", "spot", "fetch", "keep", "keepGood", "good", "keepDerived", "keepDerivedGood"}

Query == [at: Working \cup {"idle", "goodDerived", "answered", "none"},
          pair: Pricing!Pairs \cup {Pricing!Idle.pair}, legs: Seq(Pricing!Direct),
          sum: Pricing!Snapshot, snap: Pricing!Snapshot, work: 0..MaxWork]

(* A snapshot of a derived pair that does not say it is stale is hardly      *)
(* older than one of its legs may be.                                      *)
FreshAsALeg(s, p, extra) ==
    ~s.stale => \E i \in DOMAIN Legs[p] : s.data <= Fresh[Legs[p][i]] + extra

(* In the cache a direct rate has the age it claims; the clock of a derived  *)
(* one starts again when it is computed.                                   *)
CachedOK(p) ==
    LET s == cached[p].snap IN
    cached[p].left # Pricing!Gone =>
        /\ p \in Pricing!Direct => s.data = s.at /\ ~s.stale
        /\ p \notin Pricing!Direct =>
             FreshAsALeg(s, p, MaxWork + s.at) /\ s.data <= Bound + MaxWork + s.at

(* A last good rate has no longer to live than its prices are young. *)
GoodOK(p) ==
    LET g == lastGood[p] IN
    g.left # Pricing!Gone =>
        g.data + g.left <= IF p \in Pricing!Direct THEN Bound ELSE Bound + Bound

Honest(q) ==
    /\ ~q.snap.stale => \E age \in Pricing!Recent(q.pair) : q.snap.data <= age + MaxWork
    /\ q.snap.data <= IF q.pair \in Pricing!Direct THEN Bound ELSE Bound + Bound

QueryOK(q) ==
    /\ q.at # "idle" => q.pair \in Pricing!Pairs
    /\ q.at \in {"derived", "keepDerived", "keepDerivedGood", "goodDerived"}
         => q.pair \notin Pricing!Direct
    /\ q.at \in Working /\ q.pair \in Pricing!Direct => q.legs = <<q.pair>>
    /\ q.at \in Working /\ q.pair \notin Pricing!Direct =>
         /\ \A i \in DOMAIN q.legs : \E j \in DOMAIN Legs[q.pair] : q.legs[i] = Legs[q.pair][j]
         /\ FreshAsALeg(q.sum, q.pair, q.work)
         /\ q.sum.data <= Bound + q.work
    /\ q.at \in Working \ {"keepDerived", "keepDerivedGood"} => q.legs # <<>>
    /\ q.at \in {"derived", "spot", "fetch"} => q.snap = Pricing!Current
    /\ q.at \in {"keep", "keepGood"} =>
         q.snap.data = q.snap.at /\ q.snap.data <= q.work /\ ~q.snap.stale
    /\ q.at = "answered" => Honest(q)

RatesInv ==
    /\ cached \in [Pricing!Pairs -> [snap: Pricing!Snapshot, left: Nat \cup {Pricing!Gone}]]
    /\ lastGood \in [Pricing!Pairs -> [data: Nat, made: BOOLEAN, left: Pricing!Gone..LastGoodTTL]]
    /\ request \in [Requests -> Query]
    /\ \A p \in Pricing!Pairs : CachedOK(p) /\ GoodOK(p)
    /\ \A r \in Requests : QueryOK(request[r])

LEMMA Sizes ==
  ASSUME Pricing!RatesAssumption
  PROVE  /\ LastGoodTTL \in Nat /\ MaxWork \in Nat /\ Bound \in Nat
         /\ Pricing!Gone = -1 /\ Pricing!Gone \notin Nat
         /\ Pricing!Current \in Pricing!Snapshot
         /\ \A p \in Pricing!Pairs : Fresh[p] \in Nat /\ TTL[p] \in Nat /\ Fresh[p] <= LastGoodTTL
         /\ Pricing!Direct \subseteq Pricing!Pairs
         /\ \A p \in Pricing!Pairs \ Pricing!Direct :
              /\ Legs[p] \in Seq(Pricing!Direct) /\ Legs[p] # <<>> /\ DOMAIN Legs[p] # {}
              /\ \A i \in DOMAIN Legs[p] : Legs[p][i] \in Pricing!Direct
<1>1. \A p \in Pricing!Pairs \ Pricing!Direct : p \in Pricing!Derived
  BY DEF Pricing!Direct
<1>2. \A p \in Pricing!Derived : Legs[p] \in Seq(Pricing!Direct) /\ Legs[p] # <<>>
  BY DEF Pricing!RatesAssumption
<1>3. LastGoodTTL \in Nat /\ MaxWork \in Nat /\ Bound \in Nat
  BY DEF Pricing!RatesAssumption, Bound
<1>4. Pricing!Gone = -1 /\ Pricing!Gone \notin Nat
  BY DEF Pricing!Gone
<1>5. Pricing!Current \in Pricing!Snapshot
  BY DEF Pricing!Current, Pricing!Snapshot
<1>6. \A p \in Pricing!Pairs : Fresh[p] \in Nat /\ TTL[p] \in Nat /\ Fresh[p] <= LastGoodTTL
  BY DEF Pricing!RatesAssumption
<1>7. \A p \in Pricing!Pairs \ Pricing!Direct :
        DOMAIN Legs[p] # {} /\ \A i \in DOMAIN Legs[p] : Legs[p][i] \in Pricing!Direct
  <2> SUFFICES ASSUME NEW p \in Pricing!Pairs \ Pricing!Direct
               PROVE  DOMAIN Legs[p] # {} /\ \A i \in DOMAIN Legs[p] : Legs[p][i] \in Pricing!Direct
    OBVIOUS
  <2>1. PICK legs \in Seq(Pricing!Direct) : legs = Legs[p] /\ legs # <<>>
    BY <1>1, <1>2
  <2>2. 1 \in DOMAIN legs /\ \A i \in DOMAIN legs : legs[i] \in Pricing!Direct
    BY <2>1
  <2> QED
    BY <2>1, <2>2
<1>8. Pricing!Direct \subseteq Pricing!Pairs
  BY DEF Pricing!Direct
<1> QED
  BY <1>1, <1>2, <1>3, <1>4, <1>5, <1>6, <1>7, <1>8

LEMMA IdleIsQuery ==
  ASSUME Pricing!RatesAssumption
  PROVE  Pricing!Idle \in Query /\ QueryOK(Pricing!Idle)
<1>1. Pricing!Idle \in Query
  BY Sizes DEF Pricing!Idle, Query
<1> QED
  BY <1>1 DEF Pricing!Idle, QueryOK, Working

LEMMA InitRates ==
  ASSUME Pricing!RatesAssumption, Pricing!Init
  PROVE  RatesInv
  BY Sizes, IdleIsQuery DEF Pricing!Init, Pricing!NoGood, RatesInv, CachedOK, GoodOK

LEMMA LargerOfTwo ==
  ASSUME NEW a \in Nat, NEW b \in Nat
  PROVE  Pricing!Max({a, b}) \in {a, b}
<1>1. \E x \in {a, b} : \A y \in {a, b} : x >= y
  OBVIOUS
<1> QED
  BY <1>1 DEF Pricing!Max

(* A request moves and leaves the cache alone. *)
LEMMA RequestMoves ==
  ASSUME RatesInv, NEW r \in Requests, NEW q \in Query, QueryOK(q),
         request' = [request EXCEPT ![r] = q], UNCHANGED <<cached, lastGood>>
  PROVE  RatesInv'
  BY DEF RatesInv, CachedOK, GoodOK

(* A request moves, and nothing but the cache did before. *)
LEMMA RequestStays ==
  ASSUME RatesInv, NEW r \in Requests, NEW q \in Query, QueryOK(q),
         request' = [request EXCEPT ![r] = q]
  PROVE  request' \in [Requests -> Query] /\ \A b \in Requests : QueryOK(request'[b])
  BY DEF RatesInv

LEMMA GoesTo ==
  ASSUME RatesInv, NEW r \in Requests, NEW label \in Working \cup {"goodDerived", "answered", "none"},
         Pricing!Goto(r, label)
  PROVE  /\ [request[r] EXCEPT !.at = label] \in Query
         /\ request' = [request EXCEPT ![r] = [request[r] EXCEPT !.at = label]]
  BY DEF RatesInv, Query, Pricing!Goto

(* What is answered, or added to the sum. *)
LEMMA Answers ==
  ASSUME Pricing!RatesAssumption, RatesInv, NEW r \in Requests, NEW s \in Pricing!Snapshot,
         Pricing!Answer(r, s), request[r].pair \in Pricing!Pairs,
         ~s.stale => \E age \in Pricing!Recent(request[r].pair) : s.data <= age + MaxWork,
         s.data <= IF request[r].pair \in Pricing!Direct THEN Bound ELSE Bound + Bound
  PROVE  \E q \in Query : QueryOK(q) /\ request' = [request EXCEPT ![r] = q]
<1> DEFINE q == [request[r] EXCEPT !.at = "answered", !.snap = [s EXCEPT !.at = 0]]
<1>1. [s EXCEPT !.at = 0] \in Pricing!Snapshot
  BY DEF Pricing!Snapshot
<1>2. request[r] \in Query
  BY DEF RatesInv
<1>3. q \in Query /\ q.at = "answered" /\ q.pair = request[r].pair /\ q.snap = [s EXCEPT !.at = 0]
  BY <1>1, <1>2 DEF Query
<1>4. q.snap.data = s.data /\ q.snap.stale = s.stale
  BY <1>3 DEF Pricing!Snapshot
<1>5. QueryOK(q)
  BY <1>3, <1>4 DEF QueryOK, Honest, Working
<1>6. request' = [request EXCEPT ![r] = q]
  BY <1>2 DEF Pricing!Answer, RatesInv
<1> QED
  BY <1>3, <1>5, <1>6

LEMMA Gets ==
  ASSUME Pricing!RatesAssumption, RatesInv, NEW r \in Requests, NEW s \in Pricing!Snapshot,
         request[r].at \in {"spot", "keepGood", "good"}, Pricing!Got(r, s),
         ~s.stale => s.data <= Fresh[Head(request[r].legs)] \/ s.data <= request[r].work,
         s.data <= Bound
  PROVE  \E q \in Query : QueryOK(q) /\ request' = [request EXCEPT ![r] = q]
<1>1. request[r] \in Query /\ QueryOK(request[r])
  BY DEF RatesInv
<1>2. /\ request[r].pair \in Pricing!Pairs /\ request[r].legs # <<>>
      /\ request[r].legs \in Seq(Pricing!Direct) /\ request[r].work \in 0..MaxWork
      /\ s.data \in Nat
  BY <1>1 DEF QueryOK, Working, Query, Pricing!Snapshot
<1>3. CASE request[r].pair \in Pricing!Direct
  <2>1. Head(request[r].legs) = request[r].pair
    BY <1>1, <1>3 DEF QueryOK, Working
  <2>2. ~s.stale => s.data <= Fresh[request[r].pair] + MaxWork
    BY SMTT(30), <1>2, <2>1, Sizes
  <2>3. Pricing!Recent(request[r].pair) = {Fresh[request[r].pair]}
    BY <1>3 DEF Pricing!Recent
  <2>4. Pricing!Answer(r, s)
    BY <1>3 DEF Pricing!Got
  <2> QED
    BY <1>2, <1>3, <2>2, <2>3, <2>4, Answers
<1>4. CASE request[r].pair \notin Pricing!Direct
  <2> DEFINE p == request[r].pair
             legs == request[r].legs
             rest == Tail(legs)
             sum == Pricing!Sum(request[r].sum, s)
             q == [request[r] EXCEPT !.at = IF rest = <<>> THEN "keepDerived" ELSE "spot",
                                     !.legs = rest, !.snap = Pricing!Current, !.sum = sum]
  <2>1. /\ rest \in Seq(Pricing!Direct)
        /\ \A i \in DOMAIN rest : i + 1 \in DOMAIN legs /\ rest[i] = legs[i + 1]
    BY <1>2
  <2>2. PICK j \in DOMAIN Legs[p] : Head(legs) = Legs[p][j]
    <3>1. 1 \in DOMAIN legs /\ Head(legs) = legs[1]
      BY <1>2
    <3> QED
      BY <3>1, <1>1, <1>4 DEF QueryOK, Working
  <2>3. request[r].sum \in Pricing!Snapshot /\ request[r].sum.data \in Nat
    BY <1>1 DEF Query, Pricing!Snapshot
  <2>4. /\ sum.data \in {request[r].sum.data, s.data} /\ sum.stale = (request[r].sum.stale \/ s.stale)
        /\ sum \in Pricing!Snapshot
    BY <2>3, <1>2, LargerOfTwo DEF Pricing!Sum, Pricing!Snapshot
  <2>5. FreshAsALeg(sum, p, request[r].work)
    <3> SUFFICES ASSUME ~sum.stale
                 PROVE  \E i \in DOMAIN Legs[p] : sum.data <= Fresh[Legs[p][i]] + request[r].work
      BY DEF FreshAsALeg
    <3>1. ~request[r].sum.stale /\ ~s.stale
      BY <2>4
    <3>2. PICK i \in DOMAIN Legs[p] : request[r].sum.data <= Fresh[Legs[p][i]] + request[r].work
      BY <3>1, <1>1, <1>4 DEF QueryOK, Working, FreshAsALeg
    <3>3. s.data <= Fresh[Legs[p][j]] + request[r].work
      <4>1. Fresh[Legs[p][j]] \in Nat
        BY <1>2, <1>4, Sizes
      <4> QED
        BY <4>1, <3>1, <1>2, <2>2
    <3> QED
      BY <3>2, <3>3, <2>4
  <2>6. sum.data <= Bound + request[r].work
    <3>1. request[r].sum.data <= Bound + request[r].work
      BY <1>1, <1>4 DEF QueryOK, Working
    <3>2. s.data <= Bound + request[r].work
      BY <1>2, Sizes
    <3> QED
      BY <3>1, <3>2, <2>4
  <2>7. /\ q \in Query /\ q.pair = p /\ q.legs = rest /\ q.snap = Pricing!Current /\ q.sum = sum
        /\ q.work = request[r].work /\ q.at = IF rest = <<>> THEN "keepDerived" ELSE "spot"
    BY <1>1, <2>1, <2>4, Sizes DEF Query, Working
  <2>8. \A i \in DOMAIN q.legs : \E k \in DOMAIN Legs[p] : q.legs[i] = Legs[p][k]
    BY <2>1, <2>7, <1>1, <1>4 DEF QueryOK, Working
  <2>9. QueryOK(q)
    BY <1>2, <1>4, <2>5, <2>6, <2>7, <2>8 DEF QueryOK, Working
  <2>10. request' = [request EXCEPT ![r] = q]
    BY <1>1, <1>4 DEF Pricing!Got, RatesInv
  <2> QED
    BY <2>7, <2>9, <2>10
<1> QED
  BY <1>3, <1>4

LEMMA CacheKeeps ==
  ASSUME Pricing!RatesAssumption, RatesInv, NEW p \in Pricing!Pairs, NEW s \in Pricing!Snapshot,
         Pricing!Keep(p, s),
         p \in Pricing!Direct => s.data = s.at /\ ~s.stale,
         p \notin Pricing!Direct => FreshAsALeg(s, p, MaxWork + s.at) /\ s.data <= Bound + MaxWork + s.at
  PROVE  /\ cached' \in [Pricing!Pairs -> [snap: Pricing!Snapshot, left: Nat \cup {Pricing!Gone}]]
         /\ \A o \in Pricing!Pairs : CachedOK(o)'
<1>1. CASE UNCHANGED cached
  BY <1>1 DEF RatesInv, CachedOK
<1>2. CASE cached' = [cached EXCEPT ![p] = [snap |-> s, left |-> TTL[p]]]
  <2>1. cached' \in [Pricing!Pairs -> [snap: Pricing!Snapshot, left: Nat \cup {Pricing!Gone}]]
    BY <1>2, Sizes DEF RatesInv
  <2>2. ASSUME NEW o \in Pricing!Pairs
        PROVE  CachedOK(o)'
    <3>1. CASE o = p
      BY <1>2, <3>1 DEF RatesInv, CachedOK
    <3>2. CASE o # p
      BY <1>2, <3>2 DEF RatesInv, CachedOK
    <3> QED
      BY <3>1, <3>2
  <2> QED
    BY <2>1, <2>2
<1> QED
  BY <1>1, <1>2 DEF Pricing!Keep

LEMMA GoodKeeps ==
  ASSUME Pricing!RatesAssumption, RatesInv, NEW p \in Pricing!Pairs, NEW s \in Pricing!Snapshot,
         Pricing!KeepGood(p, s),
         s.data <= IF p \in Pricing!Direct THEN MaxWork ELSE Bound + MaxWork
  PROVE  /\ lastGood' \in [Pricing!Pairs -> [data: Nat, made: BOOLEAN, left: Pricing!Gone..LastGoodTTL]]
         /\ \A o \in Pricing!Pairs : GoodOK(o)'
<1>1. CASE UNCHANGED lastGood
  BY <1>1 DEF RatesInv, GoodOK
<1>2. CASE lastGood' = [lastGood EXCEPT ![p] = [data |-> s.data, made |-> s.made, left |-> LastGoodTTL]]
  <2>1. /\ s.data \in Nat /\ s.made \in BOOLEAN /\ LastGoodTTL \in Nat /\ MaxWork \in Nat
        /\ LastGoodTTL \in Pricing!Gone..LastGoodTTL
    BY Sizes DEF Pricing!Snapshot
  <2>2. lastGood' \in [Pricing!Pairs -> [data: Nat, made: BOOLEAN, left: Pricing!Gone..LastGoodTTL]]
    BY <1>2, <2>1 DEF RatesInv
  <2>3. ASSUME NEW o \in Pricing!Pairs
        PROVE  GoodOK(o)'
    <3>1. CASE o = p
      <4>1. lastGood'[o].data = s.data /\ lastGood'[o].left = LastGoodTTL
        BY <1>2, <3>1 DEF RatesInv
      <4> QED
        BY <3>1, <4>1, <2>1 DEF GoodOK, Bound
    <3>2. CASE o # p
      BY <1>2, <3>2 DEF RatesInv, GoodOK
    <3> QED
      BY <3>1, <3>2
  <2> QED
    BY <2>2, <2>3
<1> QED
  BY <1>1, <1>2 DEF Pricing!KeepGood

(* What a request may learn of a pair from the cache. *)
LEMMA CacheTells ==
  ASSUME Pricing!RatesAssumption, RatesInv, NEW p \in Pricing!Pairs
  PROVE  /\ cached[p].snap \in Pricing!Snapshot
         /\ Pricing!Usable(p) /\ p \in Pricing!Direct =>
              /\ cached[p].snap.data <= Fresh[p]
              /\ cached[p].snap.data <= Bound
         /\ Pricing!Usable(p) /\ p \notin Pricing!Direct =>
              /\ ~cached[p].snap.stale =>
                   \E age \in Pricing!Recent(p) : cached[p].snap.data <= age + MaxWork
              /\ cached[p].snap.data <= Bound + Bound
         /\ Pricing!LastGood(p) \in Pricing!Snapshot
         /\ Pricing!LastGood(p).stale
         /\ lastGood[p].left # Pricing!Gone =>
              Pricing!LastGood(p).data <= IF p \in Pricing!Direct THEN Bound ELSE Bound + Bound
<1>1. /\ cached[p].snap \in Pricing!Snapshot /\ cached[p].snap.data \in Nat /\ cached[p].snap.at \in Nat
      /\ lastGood[p].data \in Nat /\ lastGood[p].made \in BOOLEAN
      /\ lastGood[p].left \in Pricing!Gone..LastGoodTTL
      /\ CachedOK(p) /\ GoodOK(p)
  BY DEF RatesInv, Pricing!Snapshot
<1>2. Fresh[p] \in Nat /\ Fresh[p] <= LastGoodTTL /\ LastGoodTTL \in Nat /\ MaxWork \in Nat
  BY Sizes
<1>3. ASSUME Pricing!Usable(p), p \in Pricing!Direct
      PROVE  cached[p].snap.data <= Fresh[p] /\ cached[p].snap.data <= Bound
  BY <1>1, <1>2, <1>3 DEF Pricing!Usable, CachedOK, Bound
<1>4. ASSUME Pricing!Usable(p), p \notin Pricing!Direct
      PROVE  /\ ~cached[p].snap.stale =>
                  \E age \in Pricing!Recent(p) : cached[p].snap.data <= age + MaxWork
             /\ cached[p].snap.data <= Bound + Bound
  <2> DEFINE s == cached[p].snap
  <2>1. s.at <= Fresh[p] /\ FreshAsALeg(s, p, MaxWork + s.at) /\ s.data <= Bound + MaxWork + s.at
    BY <1>1, <1>4 DEF Pricing!Usable, CachedOK
  <2>2. s.data <= Bound + Bound
    BY <2>1, <1>1, <1>2 DEF Bound
  <2>3. ASSUME ~s.stale
        PROVE  \E age \in Pricing!Recent(p) : s.data <= age + MaxWork
    <3>1. PICK i \in DOMAIN Legs[p] : s.data <= Fresh[Legs[p][i]] + (MaxWork + s.at)
      BY <2>1, <2>3 DEF FreshAsALeg
    <3>2. Fresh[Legs[p][i]] \in Nat
      BY <1>4, Sizes
    <3>3. Fresh[Legs[p][i]] + Fresh[p] \in Pricing!Recent(p)
      BY <1>4 DEF Pricing!Recent
    <3>4. s.data <= Fresh[Legs[p][i]] + Fresh[p] + MaxWork
      BY <3>1, <3>2, <2>1, <1>1, <1>2
    <3> QED
      BY <3>3, <3>4
  <2> QED
    BY <2>2, <2>3
<1>5. Pricing!LastGood(p) \in Pricing!Snapshot /\ Pricing!LastGood(p).stale
  BY <1>1 DEF Pricing!LastGood, Pricing!Snapshot
<1>6. ASSUME lastGood[p].left # Pricing!Gone
      PROVE  Pricing!LastGood(p).data <= IF p \in Pricing!Direct THEN Bound ELSE Bound + Bound
  <2>1. lastGood[p].left \in Nat
    BY <1>1, <1>2, <1>6 DEF Pricing!Gone
  <2> QED
    BY <1>1, <1>2, <1>6, <2>1 DEF GoodOK, Pricing!LastGood, Bound
<1> QED
  BY <1>1, <1>3, <1>4, <1>5, <1>6

LEMMA StepRates ==
  ASSUME Pricing!RatesAssumption, RatesInv, NEW r \in Requests, Pricing!Step(r)
  PROVE  RatesInv'
<1>q. request[r] \in Query /\ QueryOK(request[r])
  BY DEF RatesInv
<1>w. /\ request[r].legs \in Seq(Pricing!Direct) /\ request[r].work \in 0..MaxWork /\ MaxWork \in Nat
      /\ request[r].snap \in Pricing!Snapshot /\ request[r].sum \in Pricing!Snapshot
      /\ request[r].snap.data \in Nat /\ request[r].sum.data \in Nat /\ request[r].sum.at \in Nat
      /\ LastGoodTTL \in Nat
  BY <1>q, Sizes DEF Query, Pricing!Snapshot
<1>p. request[r].at # "idle" => request[r].pair \in Pricing!Pairs
  BY <1>q DEF QueryOK
<1>h. request[r].at \in {"spot", "fetch", "keep", "keepGood", "good"}
        => Head(request[r].legs) \in Pricing!Direct /\ Head(request[r].legs) \in Pricing!Pairs
  BY <1>q, <1>w, Sizes DEF QueryOK, Working
<1>1. ASSUME NEW p \in Asks[r], Pricing!Ask(r, p)
      PROVE  RatesInv'
  <2> DEFINE q == [Pricing!Idle EXCEPT !.at = IF p \in Pricing!Direct THEN "spot" ELSE "derived",
                                       !.pair = p,
                                       !.legs = IF p \in Pricing!Direct THEN <<p>> ELSE Legs[p]]
  <2>1. p \in Pricing!Pairs
    BY <1>1 DEF Pricing!RatesAssumption
  <2>2. Pricing!Idle \in Query
    BY IdleIsQuery
  <2>3. (IF p \in Pricing!Direct THEN <<p>> ELSE Legs[p]) \in Seq(Pricing!Direct) \ {<<>>}
    BY <2>1, Sizes
  <2>4. /\ q \in Query /\ q.at = IF p \in Pricing!Direct THEN "spot" ELSE "derived"
        /\ q.pair = p /\ q.legs = IF p \in Pricing!Direct THEN <<p>> ELSE Legs[p]
        /\ q.snap = Pricing!Current /\ q.sum = Pricing!Current /\ q.work = 0
    BY <2>1, <2>2, <2>3 DEF Query, Working, Pricing!Idle
  <2>5. p \notin Pricing!Direct => FreshAsALeg(Pricing!Current, p, 0) /\ Pricing!Current.data <= Bound + 0
    BY <2>1, Sizes DEF FreshAsALeg, Pricing!Current
  <2>6. QueryOK(q)
    BY <2>1, <2>3, <2>4, <2>5 DEF QueryOK, Working
  <2> QED
    BY <1>1, <2>4, <2>6, RequestMoves DEF Pricing!Ask
<1>2. CASE Pricing!ReadDerived(r)
  <2>1. request[r].at = "derived" /\ request[r].pair \notin Pricing!Direct
    BY <1>2, <1>q DEF Pricing!ReadDerived, Pricing!At, QueryOK
  <2>2. CASE Pricing!Usable(request[r].pair) /\ Pricing!Answer(r, cached[request[r].pair].snap)
    BY <1>2, <1>p, <2>1, <2>2, CacheTells, Answers, RequestMoves DEF Pricing!ReadDerived
  <2>3. CASE Pricing!Goto(r, "spot")
    <3>1. QueryOK([request[r] EXCEPT !.at = "spot"])
      BY <1>q, <2>1 DEF QueryOK, Query, Working
    <3> QED
      BY <1>2, <2>3, <3>1, GoesTo, RequestMoves DEF Pricing!ReadDerived, Working
  <2> QED
    BY <1>2, <2>2, <2>3 DEF Pricing!ReadDerived, Pricing!Miss, Pricing!Goto
<1>3. CASE Pricing!ReadSpot(r)
  <2>1. request[r].at = "spot"
    BY <1>3 DEF Pricing!ReadSpot, Pricing!At
  <2>2. CASE Pricing!Usable(Head(request[r].legs)) /\ Pricing!Got(r, cached[Head(request[r].legs)].snap)
    BY <1>3, <1>h, <2>1, <2>2, CacheTells, Gets, RequestMoves DEF Pricing!ReadSpot
  <2>3. CASE Pricing!Goto(r, "fetch")
    <3>1. QueryOK([request[r] EXCEPT !.at = "fetch"])
      BY <1>q, <2>1 DEF QueryOK, Query, Working
    <3> QED
      BY <1>3, <2>3, <3>1, GoesTo, RequestMoves DEF Pricing!ReadSpot, Working
  <2> QED
    BY <1>3, <2>2, <2>3 DEF Pricing!ReadSpot, Pricing!Miss, Pricing!Goto
<1>4. CASE Pricing!Aggregate(r)
  <2>1. request[r].at = "fetch" /\ request[r].snap = Pricing!Current
    BY <1>4, <1>q DEF Pricing!Aggregate, Pricing!At, QueryOK
  <2>2. CASE Pricing!Goto(r, "keep")
    <3>1. QueryOK([request[r] EXCEPT !.at = "keep"])
      BY <1>q, <1>w, <2>1 DEF QueryOK, Query, Working, Pricing!Current
    <3> QED
      BY <1>4, <2>2, <3>1, GoesTo, RequestMoves DEF Pricing!Aggregate, Working
  <2>3. CASE Pricing!Goto(r, "good")
    <3>1. QueryOK([request[r] EXCEPT !.at = "good"])
      BY <1>q, <2>1 DEF QueryOK, Query, Working
    <3> QED
      BY <1>4, <2>3, <3>1, GoesTo, RequestMoves DEF Pricing!Aggregate, Working
  <2>4. CASE request' = [request EXCEPT ![r].at = "keep", ![r].snap.made = TRUE]
    <3> DEFINE q == [request[r] EXCEPT !.at = "keep", !.snap = [Pricing!Current EXCEPT !.made = TRUE]]
    <3>1. request' = [request EXCEPT ![r] = q]
      BY <2>1, <2>4, <1>q DEF RatesInv, Query
    <3>2. /\ q \in Query /\ q.at = "keep" /\ q.pair = request[r].pair /\ q.legs = request[r].legs
          /\ q.sum = request[r].sum /\ q.work = request[r].work
          /\ q.snap.data = 0 /\ q.snap.at = 0 /\ q.snap.stale = FALSE
      BY <1>q DEF Query, Working, Pricing!Current, Pricing!Snapshot
    <3>3. QueryOK(q)
      BY <1>q, <1>w, <2>1, <3>2 DEF QueryOK, Working
    <3> QED
      BY <1>4, <3>1, <3>2, <3>3, RequestMoves DEF Pricing!Aggregate
  <2> QED
    BY <1>4, <2>2, <2>3, <2>4 DEF Pricing!Aggregate
<1>5. CASE Pricing!SetSpot(r)
  <2>1. /\ request[r].at = "keep" /\ request[r].snap.data = request[r].snap.at
        /\ ~request[r].snap.stale
    BY <1>5, <1>q DEF Pricing!SetSpot, Pricing!At, QueryOK
  <2>2. /\ cached' \in [Pricing!Pairs -> [snap: Pricing!Snapshot, left: Nat \cup {Pricing!Gone}]]
        /\ \A o \in Pricing!Pairs : CachedOK(o)'
    BY <1>5, <1>h, <1>w, <2>1, CacheKeeps DEF Pricing!SetSpot
  <2>3. QueryOK([request[r] EXCEPT !.at = "keepGood"])
    BY <1>q, <2>1 DEF QueryOK, Query, Working
  <2>4. request' \in [Requests -> Query] /\ \A b \in Requests : QueryOK(request'[b])
    BY <1>5, <2>3, GoesTo, RequestStays DEF Pricing!SetSpot, Working
  <2> QED
    BY <1>5, <2>2, <2>4 DEF Pricing!SetSpot, RatesInv, GoodOK
<1>6. CASE Pricing!SetLastGood(r)
  <2>1. request[r].at = "keepGood" /\ request[r].snap.data <= request[r].work
    BY <1>6, <1>q DEF Pricing!SetLastGood, Pricing!At, QueryOK
  <2>2. /\ lastGood' \in [Pricing!Pairs -> [data: Nat, made: BOOLEAN, left: Pricing!Gone..LastGoodTTL]]
        /\ \A o \in Pricing!Pairs : GoodOK(o)'
    BY <1>6, <1>h, <1>w, <2>1, GoodKeeps DEF Pricing!SetLastGood
  <2>3. \E q \in Query : QueryOK(q) /\ request' = [request EXCEPT ![r] = q]
    BY <1>6, <1>w, <2>1, Gets DEF Pricing!SetLastGood, Bound
  <2>4. request' \in [Requests -> Query] /\ \A b \in Requests : QueryOK(request'[b])
    BY <2>3, RequestStays
  <2> QED
    BY <1>6, <2>2, <2>4 DEF Pricing!SetLastGood, RatesInv, CachedOK
<1>7. CASE Pricing!ReadLastGood(r)
  <2>1. request[r].at = "good"
    BY <1>7 DEF Pricing!ReadLastGood, Pricing!At
  <2>2. CASE /\ lastGood[Head(request[r].legs)].left # Pricing!Gone
             /\ Pricing!Got(r, Pricing!LastGood(Head(request[r].legs)))
    BY <1>7, <1>h, <2>1, <2>2, CacheTells, Gets, RequestMoves DEF Pricing!ReadLastGood
  <2>3. CASE Pricing!Goto(r, "none") /\ request[r].pair \in Pricing!Direct
    <3>1. QueryOK([request[r] EXCEPT !.at = "none"])
      BY <1>q, <1>p, <2>1 DEF QueryOK, Query, Working
    <3> QED
      BY <1>7, <2>3, <3>1, GoesTo, RequestMoves DEF Pricing!ReadLastGood
  <2>4. CASE Pricing!Goto(r, "goodDerived") /\ request[r].pair \notin Pricing!Direct
    <3>1. QueryOK([request[r] EXCEPT !.at = "goodDerived"])
      BY <1>q, <1>p, <2>1, <2>4 DEF QueryOK, Query, Working
    <3> QED
      BY <1>7, <2>4, <3>1, GoesTo, RequestMoves DEF Pricing!ReadLastGood
  <2> QED
    BY <1>7, <2>2, <2>3, <2>4 DEF Pricing!ReadLastGood, Pricing!Miss, Pricing!Goto
<1>8. CASE Pricing!SetDerived(r)
  <2>1. /\ request[r].at = "keepDerived" /\ request[r].pair \notin Pricing!Direct
        /\ FreshAsALeg(request[r].sum, request[r].pair, request[r].work)
        /\ request[r].sum.data <= Bound + request[r].work
    BY <1>8, <1>q DEF Pricing!SetDerived, Pricing!At, QueryOK, Working
  <2>2. FreshAsALeg(request[r].sum, request[r].pair, MaxWork + request[r].sum.at)
    <3> SUFFICES ASSUME ~request[r].sum.stale
                 PROVE  \E i \in DOMAIN Legs[request[r].pair] :
                          request[r].sum.data <= Fresh[Legs[request[r].pair][i]]
                                                   + (MaxWork + request[r].sum.at)
      BY DEF FreshAsALeg
    <3>1. PICK i \in DOMAIN Legs[request[r].pair] :
            request[r].sum.data <= Fresh[Legs[request[r].pair][i]] + request[r].work
      BY <2>1 DEF FreshAsALeg
    <3>2. Fresh[Legs[request[r].pair][i]] \in Nat
      BY <2>1, <1>p, Sizes
    <3> QED
      BY SMTT(30), <3>1, <3>2, <1>w
  <2>3. request[r].sum.data <= Bound + MaxWork + request[r].sum.at
    BY SMTT(30), <2>1, <1>w, Sizes
  <2>4. /\ cached' \in [Pricing!Pairs -> [snap: Pricing!Snapshot, left: Nat \cup {Pricing!Gone}]]
        /\ \A o \in Pricing!Pairs : CachedOK(o)'
    BY <1>8, <1>p, <1>w, <2>1, <2>2, <2>3, CacheKeeps DEF Pricing!SetDerived
  <2>5. QueryOK([request[r] EXCEPT !.at = "keepDerivedGood"])
    BY <1>q, <2>1 DEF QueryOK, Query, Working
  <2>6. request' \in [Requests -> Query] /\ \A b \in Requests : QueryOK(request'[b])
    BY <1>8, <2>5, GoesTo, RequestStays DEF Pricing!SetDerived, Working
  <2> QED
    BY <1>8, <2>4, <2>6 DEF Pricing!SetDerived, RatesInv, GoodOK
<1>9. CASE Pricing!SetLastGoodDerived(r)
  <2> DEFINE p == request[r].pair
             s == request[r].sum
  <2>1. /\ request[r].at = "keepDerivedGood" /\ p \in Pricing!Pairs /\ p \notin Pricing!Direct
        /\ FreshAsALeg(s, p, request[r].work) /\ s.data <= Bound + request[r].work
    BY <1>9, <1>q DEF Pricing!SetLastGoodDerived, Pricing!At, QueryOK, Working
  <2>2. s.data <= Bound + MaxWork /\ s.data <= Bound + Bound
    BY <2>1, <1>w DEF Bound
  <2>3. ASSUME ~s.stale
        PROVE  \E age \in Pricing!Recent(p) : s.data <= age + MaxWork
    <3>1. PICK i \in DOMAIN Legs[p] : s.data <= Fresh[Legs[p][i]] + request[r].work
      BY <2>1, <2>3 DEF FreshAsALeg
    <3>2. Fresh[Legs[p][i]] \in Nat /\ Fresh[p] \in Nat
      BY <2>1, Sizes
    <3>3. Fresh[Legs[p][i]] + Fresh[p] \in Pricing!Recent(p)
      BY <2>1 DEF Pricing!Recent
    <3>4. s.data <= Fresh[Legs[p][i]] + Fresh[p] + MaxWork
      BY <3>1, <3>2, <1>w
    <3> QED
      BY <3>3, <3>4
  <2>4. /\ lastGood' \in [Pricing!Pairs -> [data: Nat, made: BOOLEAN, left: Pricing!Gone..LastGoodTTL]]
        /\ \A o \in Pricing!Pairs : GoodOK(o)'
    BY <1>9, <1>w, <2>1, <2>2, GoodKeeps DEF Pricing!SetLastGoodDerived
  <2>5. \E q \in Query : QueryOK(q) /\ request' = [request EXCEPT ![r] = q]
    BY <1>9, <1>w, <2>1, <2>2, <2>3, Answers DEF Pricing!SetLastGoodDerived
  <2>6. request' \in [Requests -> Query] /\ \A b \in Requests : QueryOK(request'[b])
    BY <2>5, RequestStays
  <2> QED
    BY <1>9, <2>4, <2>6 DEF Pricing!SetLastGoodDerived, RatesInv, CachedOK
<1>10. CASE Pricing!FallbackDerived(r)
  <2>1. request[r].at = "goodDerived" /\ request[r].pair \notin Pricing!Direct
    BY <1>10, <1>q DEF Pricing!FallbackDerived, Pricing!At, QueryOK
  <2>2. CASE /\ lastGood[request[r].pair].left # Pricing!Gone
             /\ Pricing!Answer(r, Pricing!LastGood(request[r].pair))
    BY <1>10, <1>p, <2>1, <2>2, CacheTells, Answers, RequestMoves DEF Pricing!FallbackDerived
  <2>3. CASE Pricing!Goto(r, "none")
    <3>1. QueryOK([request[r] EXCEPT !.at = "none"])
      BY <1>q, <1>p, <2>1 DEF QueryOK, Query, Working
    <3> QED
      BY <1>10, <2>3, <3>1, GoesTo, RequestMoves DEF Pricing!FallbackDerived
  <2> QED
    BY <1>10, <2>2, <2>3 DEF Pricing!FallbackDerived, Pricing!Miss, Pricing!Goto
<1>11. CASE Pricing!Return(r)
  BY <1>11, IdleIsQuery, RequestMoves DEF Pricing!Return
<1> QED
  BY <1>1, <1>2, <1>3, <1>4, <1>5, <1>6, <1>7, <1>8, <1>9, <1>10, <1>11 DEF Pricing!Step

(* Time: everything kept grows older together. *)
LEMMA OlderSnapshot ==
  ASSUME NEW s \in Pricing!Snapshot
  PROVE  /\ Pricing!Older(s) \in Pricing!Snapshot
         /\ s.data \in Nat /\ s.at \in Nat
         /\ Pricing!Older(s).data = s.data + 1
         /\ Pricing!Older(s).at = s.at + 1
         /\ Pricing!Older(s).stale = s.stale
<1>1. s.data \in Nat /\ s.at \in Nat /\ s.stale \in BOOLEAN /\ s.data + 1 \in Nat /\ s.at + 1 \in Nat
  BY DEF Pricing!Snapshot
<1>2. Pricing!Older(s) = [s EXCEPT !.data = s.data + 1, !.at = s.at + 1]
  BY DEF Pricing!Older, Pricing!Snapshot
<1>3. Pricing!Older(s) \in Pricing!Snapshot
  BY <1>1, <1>2 DEF Pricing!Snapshot
<1>4. /\ Pricing!Older(s).data = s.data + 1
      /\ Pricing!Older(s).at = s.at + 1
      /\ Pricing!Older(s).stale = s.stale
  BY <1>2 DEF Pricing!Snapshot
<1> QED
  BY <1>1, <1>3, <1>4

LEMMA OlderLeg ==
  ASSUME Pricing!RatesAssumption, NEW s \in Pricing!Snapshot, NEW t \in Pricing!Snapshot,
         NEW p \in Pricing!Pairs, p \notin Pricing!Direct, NEW extra \in Nat,
         t.stale = s.stale, t.data <= s.data + 1, FreshAsALeg(s, p, extra)
  PROVE  FreshAsALeg(t, p, extra + 1)
<1> SUFFICES ASSUME ~t.stale
             PROVE  \E i \in DOMAIN Legs[p] : t.data <= Fresh[Legs[p][i]] + (extra + 1)
  BY DEF FreshAsALeg
<1>1. PICK i \in DOMAIN Legs[p] : s.data <= Fresh[Legs[p][i]] + extra
  BY DEF FreshAsALeg
<1>2. Fresh[Legs[p][i]] \in Nat /\ s.data \in Nat /\ t.data \in Nat
  BY Sizes DEF Pricing!Snapshot
<1> QED
  BY <1>1, <1>2

LEMMA OlderCache ==
  ASSUME Pricing!RatesAssumption, RatesInv, Pricing!Tick
  PROVE  /\ cached' \in [Pricing!Pairs -> [snap: Pricing!Snapshot, left: Nat \cup {Pricing!Gone}]]
         /\ \A p \in Pricing!Pairs : CachedOK(p)'
<1>1. ASSUME NEW p \in Pricing!Pairs
      PROVE  /\ cached'[p] \in [snap: Pricing!Snapshot, left: Nat \cup {Pricing!Gone}]
             /\ CachedOK(p)'
  <2> DEFINE s == cached[p].snap
  <2>1. cached[p] \in [snap: Pricing!Snapshot, left: Nat \cup {Pricing!Gone}] /\ CachedOK(p)
    BY DEF RatesInv
  <2>2. CASE cached[p].left <= 0
    <3>1. cached'[p] = [snap |-> Pricing!Current, left |-> Pricing!Gone]
      BY <2>2 DEF Pricing!Tick
    <3> QED
      BY <3>1, Sizes DEF CachedOK
  <2>3. CASE ~(cached[p].left <= 0)
    <3>1. cached'[p] = [snap |-> Pricing!Older(s), left |-> cached[p].left - 1]
      BY <2>3 DEF Pricing!Tick
    <3>2. cached[p].left # Pricing!Gone /\ cached[p].left - 1 \in Nat /\ s \in Pricing!Snapshot
      BY <2>1, <2>3, Sizes
    <3>3. /\ Pricing!Older(s) \in Pricing!Snapshot /\ s.data \in Nat /\ s.at \in Nat
          /\ Pricing!Older(s).data = s.data + 1 /\ Pricing!Older(s).at = s.at + 1
          /\ Pricing!Older(s).stale = s.stale
      BY <3>2, OlderSnapshot
    <3>4. CASE p \in Pricing!Direct
      BY <2>1, <3>1, <3>2, <3>3, <3>4 DEF CachedOK
    <3>5. CASE p \notin Pricing!Direct
      <4>1. FreshAsALeg(s, p, MaxWork + s.at) /\ s.data <= Bound + MaxWork + s.at
        BY <2>1, <3>2, <3>5 DEF CachedOK
      <4>2. MaxWork + s.at \in Nat /\ (MaxWork + s.at) + 1 = MaxWork + (s.at + 1)
        <5>1. MaxWork \in Nat /\ s.at \in Nat
          BY <3>3, Sizes
        <5> QED
          BY <5>1
      <4>3. FreshAsALeg(Pricing!Older(s), p, MaxWork + (s.at + 1))
        BY <3>2, <3>3, <3>5, <4>1, <4>2, OlderLeg
      <4>4. s.data + 1 <= Bound + MaxWork + (s.at + 1)
        <5>1. MaxWork \in Nat /\ Bound \in Nat /\ s.data \in Nat /\ s.at \in Nat
          BY <3>3, Sizes
        <5> QED
          BY <5>1, <4>1
      <4> QED
        BY <3>1, <3>2, <3>3, <3>5, <4>3, <4>4 DEF CachedOK
    <3> QED
      BY <3>4, <3>5
  <2> QED
    BY <2>2, <2>3
<1>2. cached' = [p \in Pricing!Pairs |-> cached'[p]]
  BY DEF Pricing!Tick
<1> QED
  BY <1>1, <1>2

LEMMA OlderGood ==
  ASSUME Pricing!RatesAssumption, RatesInv, Pricing!Tick
  PROVE  /\ lastGood' \in [Pricing!Pairs -> [data: Nat, made: BOOLEAN, left: Pricing!Gone..LastGoodTTL]]
         /\ \A p \in Pricing!Pairs : GoodOK(p)'
<1>1. ASSUME NEW p \in Pricing!Pairs
      PROVE  /\ lastGood'[p] \in [data: Nat, made: BOOLEAN, left: Pricing!Gone..LastGoodTTL]
             /\ GoodOK(p)'
  <2>1. lastGood[p] \in [data: Nat, made: BOOLEAN, left: Pricing!Gone..LastGoodTTL] /\ GoodOK(p)
    BY DEF RatesInv
  <2>2. CASE lastGood[p].left <= 0
    <3>1. lastGood'[p] = [data |-> 0, made |-> FALSE, left |-> Pricing!Gone]
      BY <2>2 DEF Pricing!Tick, Pricing!NoGood
    <3> QED
      BY <3>1, Sizes DEF GoodOK
  <2>3. CASE ~(lastGood[p].left <= 0)
    <3>1. lastGood'[p] = [data |-> lastGood[p].data + 1, made |-> lastGood[p].made,
                          left |-> lastGood[p].left - 1]
      BY <2>1, <2>3 DEF Pricing!Tick
    <3>2. /\ lastGood[p].data \in Nat /\ lastGood[p].left \in 1..LastGoodTTL
          /\ lastGood[p].made \in BOOLEAN /\ lastGood[p].left # Pricing!Gone
      BY <2>1, <2>3, Sizes
    <3>3. lastGood'[p] \in [data: Nat, made: BOOLEAN, left: Pricing!Gone..LastGoodTTL]
      <4>1. LastGoodTTL \in Nat /\ Pricing!Gone = -1
        BY Sizes
      <4> QED
        BY <4>1, <3>1, <3>2
    <3>4. (lastGood[p].data + 1) + (lastGood[p].left - 1) = lastGood[p].data + lastGood[p].left
      BY <3>2
    <3> QED
      BY <2>1, <3>1, <3>2, <3>3, <3>4 DEF GoodOK
  <2> QED
    BY <2>2, <2>3
<1>2. lastGood' = [p \in Pricing!Pairs |-> lastGood'[p]]
  BY DEF Pricing!Tick
<1> QED
  BY <1>1, <1>2

LEMMA OlderQuery ==
  ASSUME Pricing!RatesAssumption, NEW q \in Query, QueryOK(q),
         q.at \notin {"answered", "none"}, q.work < MaxWork
  PROVE  Pricing!OlderRequest(q) \in Query /\ QueryOK(Pricing!OlderRequest(q))
<1>1. CASE q.at = "idle"
  BY <1>1 DEF Pricing!OlderRequest
<1>2. CASE q.at # "idle"
  <2> DEFINE n == Pricing!OlderRequest(q)
  <2>1. /\ q.snap \in Pricing!Snapshot /\ q.sum \in Pricing!Snapshot /\ q.work \in Nat
        /\ q.work + 1 \in 0..MaxWork /\ q.pair \in Pricing!Pairs
    BY <1>2, Sizes DEF Query, QueryOK
  <2>2. Pricing!Older(q.snap) \in Pricing!Snapshot /\ Pricing!Older(q.sum) \in Pricing!Snapshot
    BY <2>1, OlderSnapshot
  <2>3. n = [q EXCEPT !.work = q.work + 1,
                      !.snap = IF q.at \in {"keep", "keepGood"} THEN Pricing!Older(q.snap)
                               ELSE q.snap,
                      !.sum = IF q.pair \in Pricing!Derived /\ q.legs # Legs[q.pair]
                              THEN Pricing!Older(q.sum) ELSE q.sum]
    BY <1>2, <2>1 DEF Pricing!OlderRequest, Query
  <2>4. /\ n \in Query /\ n.at = q.at /\ n.pair = q.pair /\ n.legs = q.legs
        /\ n.work = q.work + 1 /\ n.sum \in {q.sum, Pricing!Older(q.sum)}
        /\ n.snap = IF q.at \in {"keep", "keepGood"} THEN Pricing!Older(q.snap) ELSE q.snap
    BY <2>1, <2>2, <2>3 DEF Query
  <2>5. /\ n.sum \in Pricing!Snapshot /\ n.sum.stale = q.sum.stale
        /\ n.sum.data \in Nat /\ q.sum.data \in Nat /\ n.sum.data <= q.sum.data + 1
    BY <2>1, <2>4, OlderSnapshot
  <2>6. ASSUME q.at \in Working, q.pair \notin Pricing!Direct
        PROVE  FreshAsALeg(n.sum, n.pair, n.work) /\ n.sum.data <= Bound + n.work
    <3>1. FreshAsALeg(q.sum, q.pair, q.work) /\ q.sum.data <= Bound + q.work
      BY <2>6 DEF QueryOK
    <3>2. FreshAsALeg(n.sum, q.pair, q.work + 1)
      BY <2>1, <2>5, <2>6, <3>1, OlderLeg
    <3>3. n.sum.data <= Bound + (q.work + 1)
      <4>1. Bound \in Nat /\ q.work \in Nat
        BY <2>1, Sizes
      <4> QED
        BY <4>1, <2>5, <3>1
    <3> QED
      BY <2>4, <3>2, <3>3
  <2>7. ASSUME q.at \in {"keep", "keepGood"}
        PROVE  n.snap.data = n.snap.at /\ n.snap.data <= n.work /\ ~n.snap.stale
    BY <2>1, <2>4, <2>7, OlderSnapshot DEF QueryOK
  <2>8. q.at \in {"derived", "spot", "fetch"} => n.snap = q.snap
    BY <2>4
  <2> HIDE DEF n
  <2>9. QueryOK(n)
    BY <2>4, <2>6, <2>7, <2>8 DEF QueryOK, Working
  <2> QED
    BY <2>4, <2>9 DEF n
<1> QED
  BY <1>1, <1>2

LEMMA NextRates ==
  ASSUME Pricing!RatesAssumption, RatesInv, [Pricing!Next]_ratesVars
  PROVE  RatesInv'
<1>1. CASE UNCHANGED ratesVars
  BY <1>1 DEF ratesVars, RatesInv, CachedOK, GoodOK
<1>2. CASE Pricing!Tick
  <2>1. ASSUME NEW r \in Requests
        PROVE  Pricing!OlderRequest(request[r]) \in Query /\ QueryOK(Pricing!OlderRequest(request[r]))
    <3>1. request[r] \in Query /\ QueryOK(request[r])
      BY DEF RatesInv
    <3>2. request[r].at \notin {"answered", "none"} /\ request[r].work < MaxWork
      BY <1>2 DEF Pricing!Tick, Pricing!At
    <3> QED
      BY <3>1, <3>2, OlderQuery
  <2>2. request' = [r \in Requests |-> Pricing!OlderRequest(request[r])]
    BY <1>2 DEF Pricing!Tick
  <2>3. request' \in [Requests -> Query] /\ \A r \in Requests : QueryOK(request'[r])
    BY <2>1, <2>2
  <2>4. /\ cached' \in [Pricing!Pairs -> [snap: Pricing!Snapshot, left: Nat \cup {Pricing!Gone}]]
        /\ \A p \in Pricing!Pairs : CachedOK(p)'
    BY <1>2, OlderCache
  <2>5. /\ lastGood' \in [Pricing!Pairs -> [data: Nat, made: BOOLEAN, left: Pricing!Gone..LastGoodTTL]]
        /\ \A p \in Pricing!Pairs : GoodOK(p)'
    BY <1>2, OlderGood
  <2> QED
    BY <2>3, <2>4, <2>5 DEF RatesInv
<1>3. ASSUME NEW r \in Requests, Pricing!Step(r)
      PROVE  RatesInv'
  BY <1>3, StepRates
<1> QED
  BY <1>1, <1>2, <1>3 DEF Pricing!Next

(* What a provider made up is only ever behind a rate of a pair that may     *)
(* rest on it.                                                             *)
MadeOK(q) ==
    /\ q.at \in {"keep", "keepGood"} /\ q.snap.made => Head(q.legs) \in BuiltIn
    /\ q.at \in Working /\ q.sum.made => Pricing!MayBeMade(q.pair)
    /\ q.at = "answered" /\ q.snap.made => Pricing!MayBeMade(q.pair)

MadeInv ==
    /\ \A p \in Pricing!Pairs : cached[p].snap.made \/ lastGood[p].made => Pricing!MayBeMade(p)
    /\ \A r \in Requests : MadeOK(request[r])

LEMMA IdleIsNotMade == MadeOK(Pricing!Idle)
  BY DEF MadeOK, Working, Pricing!Idle, Pricing!Current

LEMMA InitMade ==
  ASSUME Pricing!Init
  PROVE  MadeInv
  BY IdleIsNotMade DEF Pricing!Init, Pricing!NoGood, Pricing!Current, MadeInv

(* One request moves. *)
LEMMA MadeMoves ==
  ASSUME RatesInv, MadeInv, NEW r \in Requests, NEW q, MadeOK(q),
         request' = [request EXCEPT ![r] = q]
  PROVE  \A b \in Requests : MadeOK(request'[b])
  BY DEF RatesInv, MadeInv

LEMMA AnswersMade ==
  ASSUME RatesInv, MadeInv, NEW r \in Requests, NEW s \in Pricing!Snapshot, Pricing!Answer(r, s),
         s.made => Pricing!MayBeMade(request[r].pair)
  PROVE  \A b \in Requests : MadeOK(request'[b])
<1> DEFINE q == [request[r] EXCEPT !.at = "answered", !.snap = [s EXCEPT !.at = 0]]
<1>1. request[r] \in Query /\ request' = [request EXCEPT ![r] = q]
  BY DEF RatesInv, Pricing!Answer
<1>2. q.at = "answered" /\ q.pair = request[r].pair /\ q.snap.made = s.made
  BY <1>1 DEF Query, Pricing!Snapshot
<1>3. MadeOK(q)
  BY <1>2 DEF MadeOK, Working
<1> QED
  BY <1>1, <1>3, MadeMoves

(* A leg that may be made up makes the rate derived from it one that may. *)
LEMMA GetsMade ==
  ASSUME Pricing!RatesAssumption, RatesInv, MadeInv, NEW r \in Requests, NEW s \in Pricing!Snapshot,
         request[r].at \in {"spot", "keepGood", "good"}, Pricing!Got(r, s),
         s.made => Pricing!MayBeMade(Head(request[r].legs))
  PROVE  \A b \in Requests : MadeOK(request'[b])
<1>1. /\ request[r] \in Query /\ QueryOK(request[r]) /\ MadeOK(request[r])
      /\ request[r].pair \in Pricing!Pairs /\ request[r].at \in Working
      /\ request[r].legs \in Seq(Pricing!Direct) /\ request[r].legs # <<>>
      /\ request[r].sum \in Pricing!Snapshot
  BY DEF RatesInv, MadeInv, QueryOK, Query, Working
<1>2. CASE request[r].pair \in Pricing!Direct
  <2>1. Head(request[r].legs) = request[r].pair
    BY <1>1, <1>2 DEF QueryOK
  <2> QED
    BY <1>2, <2>1, AnswersMade DEF Pricing!Got
<1>3. CASE request[r].pair \notin Pricing!Direct
  <2> DEFINE p == request[r].pair
             rest == Tail(request[r].legs)
             q == [request[r] EXCEPT !.at = IF rest = <<>> THEN "keepDerived" ELSE "spot",
                                     !.legs = rest, !.snap = Pricing!Current,
                                     !.sum = Pricing!Sum(request[r].sum, s)]
  <2>1. PICK j \in DOMAIN Legs[p] : Head(request[r].legs) = Legs[p][j]
    <3>1. 1 \in DOMAIN request[r].legs /\ Head(request[r].legs) = request[r].legs[1]
      BY <1>1
    <3> QED
      BY <3>1, <1>1, <1>3 DEF QueryOK
  <2>2. Legs[p][j] \in Pricing!Direct
    BY <1>1, <1>3, Sizes
  <2>3. Pricing!MayBeMade(Legs[p][j]) => Pricing!MayBeMade(p)
    BY <1>3, <2>2 DEF Pricing!MayBeMade
  <2>4. q.sum.made => Pricing!MayBeMade(p)
    <3>1. q.sum = Pricing!Sum(request[r].sum, s)
      BY <1>1 DEF Query
    <3>2. q.sum.made = (request[r].sum.made \/ s.made)
      BY <3>1 DEF Pricing!Sum
    <3> QED
      BY <3>2, <2>1, <2>3, <1>1 DEF MadeOK
  <2>5. q.pair = p /\ q.at \in {"keepDerived", "spot"}
    BY <1>1 DEF Query
  <2>6. MadeOK(q)
    BY <2>4, <2>5 DEF MadeOK
  <2>7. request' = [request EXCEPT ![r] = q]
    BY <1>1, <1>3 DEF Pricing!Got, RatesInv
  <2> QED
    BY <2>6, <2>7, MadeMoves
<1> QED
  BY <1>2, <1>3

LEMMA GoesMade ==
  ASSUME RatesInv, MadeInv, NEW r \in Requests,
         NEW label \in Working \cup {"goodDerived", "answered", "none"}, Pricing!Goto(r, label),
         label # "answered",
         label \in {"keep", "keepGood"} =>
           request[r].at = "keep" \/ ~request[r].snap.made,
         label \in Working => request[r].at \in Working
  PROVE  \A b \in Requests : MadeOK(request'[b])
<1> DEFINE q == [request[r] EXCEPT !.at = label]
<1>1. /\ request[r] \in Query /\ MadeOK(request[r])
      /\ request' = [request EXCEPT ![r] = q]
  BY GoesTo DEF RatesInv, MadeInv
<1>2. /\ q.at = label /\ q.pair = request[r].pair /\ q.legs = request[r].legs
      /\ q.sum = request[r].sum /\ q.snap = request[r].snap
  BY <1>1 DEF Query
<1>3. MadeOK(q)
  BY <1>1, <1>2 DEF MadeOK
<1> QED
  BY <1>1, <1>3, MadeMoves

LEMMA CacheMade ==
  ASSUME RatesInv, MadeInv, NEW p \in Pricing!Pairs, NEW s \in Pricing!Snapshot,
         Pricing!Keep(p, s), s.made => Pricing!MayBeMade(p)
  PROVE  \A o \in Pricing!Pairs : cached'[o].snap.made => Pricing!MayBeMade(o)
  BY DEF RatesInv, MadeInv, Pricing!Keep

LEMMA GoodMade ==
  ASSUME RatesInv, MadeInv, NEW p \in Pricing!Pairs, NEW s \in Pricing!Snapshot,
         Pricing!KeepGood(p, s), s.made => Pricing!MayBeMade(p)
  PROVE  \A o \in Pricing!Pairs : lastGood'[o].made => Pricing!MayBeMade(o)
  BY DEF RatesInv, MadeInv, Pricing!KeepGood

LEMMA StepMade ==
  ASSUME Pricing!RatesAssumption, RatesInv, MadeInv, NEW r \in Requests, Pricing!Step(r)
  PROVE  MadeInv'
<1>q. /\ request[r] \in Query /\ QueryOK(request[r]) /\ MadeOK(request[r])
      /\ request[r].snap \in Pricing!Snapshot /\ request[r].sum \in Pricing!Snapshot
  BY DEF RatesInv, MadeInv, Query
<1>p. request[r].at # "idle" => request[r].pair \in Pricing!Pairs
  BY <1>q DEF QueryOK
<1>h. request[r].at \in {"spot", "fetch", "keep", "keepGood", "good"}
        => Head(request[r].legs) \in Pricing!Direct /\ Head(request[r].legs) \in Pricing!Pairs
  BY <1>q, Sizes DEF Query, QueryOK, Working
<1>c. /\ \A p \in Pricing!Pairs : Pricing!LastGood(p) \in Pricing!Snapshot
      /\ \A p \in Pricing!Pairs : cached[p].snap \in Pricing!Snapshot
      /\ \A p \in Pricing!Pairs : Pricing!LastGood(p).made => Pricing!MayBeMade(p)
      /\ \A p \in Pricing!Pairs : cached[p].snap.made => Pricing!MayBeMade(p)
  BY CacheTells DEF MadeInv, Pricing!LastGood
<1>k. ASSUME UNCHANGED <<cached, lastGood>>, \A b \in Requests : MadeOK(request'[b])
      PROVE  MadeInv'
  BY <1>k DEF MadeInv
<1>1. ASSUME NEW p \in Asks[r], Pricing!Ask(r, p)
      PROVE  MadeInv'
  <2> DEFINE q == [Pricing!Idle EXCEPT !.at = IF p \in Pricing!Direct THEN "spot" ELSE "derived",
                                       !.pair = p,
                                       !.legs = IF p \in Pricing!Direct THEN <<p>> ELSE Legs[p]]
  <2>1. q.at \in {"spot", "derived"} /\ q.sum = Pricing!Current
    BY DEF Pricing!Idle
  <2>2. MadeOK(q)
    BY <2>1 DEF MadeOK, Pricing!Current
  <2>3. request' = [request EXCEPT ![r] = q] /\ UNCHANGED <<cached, lastGood>>
    BY <1>1 DEF Pricing!Ask
  <2> QED
    BY <1>k, <2>2, <2>3, MadeMoves
<1>2. CASE Pricing!ReadDerived(r)
  <2>1. request[r].at = "derived" /\ UNCHANGED <<cached, lastGood>>
    BY <1>2 DEF Pricing!ReadDerived, Pricing!At
  <2>2. CASE Pricing!Answer(r, cached[request[r].pair].snap)
    BY <1>c, <1>k, <1>p, <2>1, <2>2, AnswersMade
  <2>3. CASE Pricing!Goto(r, "spot")
    BY <1>k, <2>1, <2>3, GoesMade DEF Working
  <2> QED
    BY <1>2, <2>2, <2>3 DEF Pricing!ReadDerived, Pricing!Miss, Pricing!Goto
<1>3. CASE Pricing!ReadSpot(r)
  <2>1. request[r].at = "spot" /\ UNCHANGED <<cached, lastGood>>
    BY <1>3 DEF Pricing!ReadSpot, Pricing!At
  <2>2. CASE Pricing!Got(r, cached[Head(request[r].legs)].snap)
    BY <1>c, <1>h, <1>k, <2>1, <2>2, GetsMade
  <2>3. CASE Pricing!Goto(r, "fetch")
    BY <1>k, <2>1, <2>3, GoesMade DEF Working
  <2> QED
    BY <1>3, <2>2, <2>3 DEF Pricing!ReadSpot, Pricing!Miss, Pricing!Goto
<1>4. CASE Pricing!Aggregate(r)
  <2>1. /\ request[r].at = "fetch" /\ request[r].snap = Pricing!Current
        /\ ~request[r].snap.made /\ UNCHANGED <<cached, lastGood>>
    BY <1>4, <1>q DEF Pricing!Aggregate, Pricing!At, QueryOK, Pricing!Current
  <2>2. CASE Pricing!Goto(r, "keep")
    BY <1>k, <2>1, <2>2, GoesMade DEF Working
  <2>3. CASE Pricing!Goto(r, "good")
    BY <1>k, <2>1, <2>3, GoesMade DEF Working
  <2>4. CASE /\ Head(request[r].legs) \in BuiltIn
             /\ request' = [request EXCEPT ![r].at = "keep", ![r].snap.made = TRUE]
    <3> DEFINE q == [request[r] EXCEPT !.at = "keep", !.snap.made = TRUE]
    <3>1. request' = [request EXCEPT ![r] = q]
      BY <2>4, <1>q DEF RatesInv
    <3>2. q.at = "keep" /\ q.pair = request[r].pair /\ q.legs = request[r].legs /\ q.sum = request[r].sum
      BY <1>q DEF Query
    <3>3. MadeOK(q)
      BY <1>q, <2>1, <2>4, <3>2 DEF MadeOK, Working
    <3> QED
      BY <1>k, <2>1, <3>1, <3>3, MadeMoves
  <2> QED
    BY <1>4, <2>2, <2>3, <2>4 DEF Pricing!Aggregate
<1>5. CASE Pricing!SetSpot(r)
  <2>1. /\ request[r].at = "keep" /\ UNCHANGED lastGood
        /\ Pricing!Keep(Head(request[r].legs), request[r].snap) /\ Pricing!Goto(r, "keepGood")
    BY <1>5 DEF Pricing!SetSpot, Pricing!At
  <2>2. request[r].snap.made => Pricing!MayBeMade(Head(request[r].legs))
    BY <1>h, <1>q, <2>1 DEF MadeOK, Pricing!MayBeMade
  <2>3. \A b \in Requests : MadeOK(request'[b])
    BY <2>1, GoesMade DEF Working
  <2>4. \A o \in Pricing!Pairs : cached'[o].snap.made => Pricing!MayBeMade(o)
    BY <1>h, <1>q, <2>1, <2>2, CacheMade
  <2> QED
    BY <2>1, <2>3, <2>4 DEF MadeInv
<1>6. CASE Pricing!SetLastGood(r)
  <2>1. /\ request[r].at = "keepGood" /\ UNCHANGED cached
        /\ Pricing!KeepGood(Head(request[r].legs), request[r].snap)
        /\ Pricing!Got(r, request[r].snap)
    BY <1>6 DEF Pricing!SetLastGood, Pricing!At
  <2>2. request[r].snap.made => Pricing!MayBeMade(Head(request[r].legs))
    BY <1>h, <1>q, <2>1 DEF MadeOK, Pricing!MayBeMade
  <2>3. \A b \in Requests : MadeOK(request'[b])
    BY <1>q, <2>1, <2>2, GetsMade
  <2>4. \A o \in Pricing!Pairs : lastGood'[o].made => Pricing!MayBeMade(o)
    BY <1>h, <1>q, <2>1, <2>2, GoodMade
  <2> QED
    BY <2>1, <2>3, <2>4 DEF MadeInv
<1>7. CASE Pricing!ReadLastGood(r)
  <2>1. request[r].at = "good" /\ UNCHANGED <<cached, lastGood>>
    BY <1>7 DEF Pricing!ReadLastGood, Pricing!At
  <2>2. CASE Pricing!Got(r, Pricing!LastGood(Head(request[r].legs)))
    BY <1>c, <1>h, <1>k, <2>1, <2>2, GetsMade
  <2>3. CASE \E label \in {"none", "goodDerived"} : Pricing!Goto(r, label)
    BY <1>k, <2>1, <2>3, GoesMade DEF Working
  <2> QED
    BY <1>7, <2>2, <2>3 DEF Pricing!ReadLastGood, Pricing!Miss, Pricing!Goto
<1>8. CASE Pricing!SetDerived(r)
  <2>1. /\ request[r].at = "keepDerived" /\ UNCHANGED lastGood
        /\ Pricing!Keep(request[r].pair, request[r].sum) /\ Pricing!Goto(r, "keepDerivedGood")
    BY <1>8 DEF Pricing!SetDerived, Pricing!At
  <2>2. request[r].sum.made => Pricing!MayBeMade(request[r].pair)
    BY <1>q, <2>1 DEF MadeOK, Working
  <2>3. \A b \in Requests : MadeOK(request'[b])
    BY <2>1, GoesMade DEF Working
  <2>4. \A o \in Pricing!Pairs : cached'[o].snap.made => Pricing!MayBeMade(o)
    BY <1>p, <1>q, <2>1, <2>2, CacheMade
  <2> QED
    BY <2>1, <2>3, <2>4 DEF MadeInv
<1>9. CASE Pricing!SetLastGoodDerived(r)
  <2>1. /\ request[r].at = "keepDerivedGood" /\ UNCHANGED cached
        /\ Pricing!KeepGood(request[r].pair, request[r].sum)
        /\ Pricing!Answer(r, request[r].sum)
    BY <1>9 DEF Pricing!SetLastGoodDerived, Pricing!At
  <2>2. request[r].sum.made => Pricing!MayBeMade(request[r].pair)
    BY <1>q, <2>1 DEF MadeOK, Working
  <2>3. \A b \in Requests : MadeOK(request'[b])
    BY <1>q, <2>1, <2>2, AnswersMade
  <2>4. \A o \in Pricing!Pairs : lastGood'[o].made => Pricing!MayBeMade(o)
    BY <1>p, <1>q, <2>1, <2>2, GoodMade
  <2> QED
    BY <2>1, <2>3, <2>4 DEF MadeInv
<1>10. CASE Pricing!FallbackDerived(r)
  <2>1. request[r].at = "goodDerived" /\ UNCHANGED <<cached, lastGood>>
    BY <1>10 DEF Pricing!FallbackDerived, Pricing!At
  <2>2. CASE Pricing!Answer(r, Pricing!LastGood(request[r].pair))
    BY <1>c, <1>k, <1>p, <2>1, <2>2, AnswersMade
  <2>3. CASE Pricing!Goto(r, "none")
    BY <1>k, <2>1, <2>3, GoesMade DEF Working
  <2> QED
    BY <1>10, <2>2, <2>3 DEF Pricing!FallbackDerived, Pricing!Miss, Pricing!Goto
<1>11. CASE Pricing!Return(r)
  BY <1>11, <1>k, IdleIsNotMade, MadeMoves DEF Pricing!Return
<1> QED
  BY <1>1, <1>2, <1>3, <1>4, <1>5, <1>6, <1>7, <1>8, <1>9, <1>10, <1>11 DEF Pricing!Step

LEMMA TickMade ==
  ASSUME RatesInv, MadeInv, Pricing!Tick
  PROVE  MadeInv'
<1>1. \A s \in Pricing!Snapshot : Pricing!Older(s).made = s.made
  BY DEF Pricing!Older, Pricing!Snapshot
<1>2. ASSUME NEW p \in Pricing!Pairs, cached'[p].snap.made \/ lastGood'[p].made
      PROVE  Pricing!MayBeMade(p)
  <2>1. cached'[p].snap.made => cached[p].snap.made
    <3>1. cached[p].snap \in Pricing!Snapshot
      BY DEF RatesInv
    <3>2. cached'[p].snap \in {Pricing!Current, Pricing!Older(cached[p].snap)}
      BY DEF Pricing!Tick
    <3> QED
      BY <1>1, <3>1, <3>2 DEF Pricing!Current
  <2>2. lastGood'[p].made => lastGood[p].made
    BY DEF Pricing!Tick, Pricing!NoGood, RatesInv
  <2> QED
    BY <1>2, <2>1, <2>2 DEF MadeInv
<1>3. ASSUME NEW r \in Requests
      PROVE  MadeOK(request'[r])
  <2> DEFINE q == request[r]
             n == request'[r]
  <2>1. /\ q \in Query /\ MadeOK(q) /\ q.snap \in Pricing!Snapshot /\ q.sum \in Pricing!Snapshot
        /\ n = Pricing!OlderRequest(q)
    BY DEF RatesInv, MadeInv, Query, Pricing!Tick
  <2>2. CASE q.at = "idle"
    BY <2>1, <2>2 DEF Pricing!OlderRequest
  <2>3. CASE q.at # "idle"
    <3>1. /\ n.at = q.at /\ n.pair = q.pair /\ n.legs = q.legs
          /\ n.snap \in {q.snap, Pricing!Older(q.snap)} /\ n.sum \in {q.sum, Pricing!Older(q.sum)}
      BY <2>1, <2>3 DEF Pricing!OlderRequest, Query
    <3>2. n.snap.made = q.snap.made /\ n.sum.made = q.sum.made
      BY <1>1, <2>1, <3>1
    <3> QED
      BY <2>1, <3>1, <3>2 DEF MadeOK
  <2> QED
    BY <2>2, <2>3
<1> QED
  BY <1>2, <1>3 DEF MadeInv

LEMMA NextMade ==
  ASSUME Pricing!RatesAssumption, RatesInv, MadeInv, [Pricing!Next]_ratesVars
  PROVE  MadeInv'
<1>1. CASE UNCHANGED ratesVars
  BY <1>1 DEF ratesVars, MadeInv
<1> QED
  BY <1>1, StepMade, TickMade DEF Pricing!Next

(* No rate a provider quoted is passed off as newer than it is, nor lives on *)
(* without end, whatever requests overlap, however late they write and      *)
(* whichever calls of Redis fail (RatesService.getRate); and what a provider*)
(* made up reaches no pair but those it is a leg of.                        *)
THEOREM RatesHonest == Spec => []RatesAreHonest
<1>1. Init => RatesInv /\ MadeInv
  BY OperationsAssumption, InitRates, InitMade DEF Init, OperationsAssumption
<1>2. RatesInv /\ MadeInv /\ [Next]_vars => (RatesInv /\ MadeInv)'
  <2> SUFFICES ASSUME RatesInv, MadeInv, [Next]_vars
               PROVE  [Pricing!Next]_ratesVars
    BY OperationsAssumption, NextRates, NextMade DEF OperationsAssumption
  <2> QED
    BY DEF Next, vars
<1>3. RatesInv /\ MadeInv => RatesAreHonest
  <2> SUFFICES ASSUME RatesInv, MadeInv, NEW r \in Requests, request[r].at = "answered"
               PROVE  /\ ~request[r].snap.stale =>
                           \E age \in Pricing!Recent(request[r].pair) :
                               request[r].snap.data <= age + MaxWork
                      /\ request[r].snap.data <=
                           (IF request[r].pair \in Pricing!Direct THEN 1 ELSE 2)
                             * (LastGoodTTL + MaxWork)
                      /\ request[r].snap.made => Pricing!MayBeMade(request[r].pair)
    BY DEF RatesAreHonest, Pricing!RatesAreHonest, Pricing!At
  <2>1. Honest(request[r]) /\ MadeOK(request[r])
    BY DEF RatesInv, MadeInv, QueryOK
  <2>2. 1 * (LastGoodTTL + MaxWork) = Bound /\ 2 * (LastGoodTTL + MaxWork) = Bound + Bound
    BY OperationsAssumption, Sizes DEF Bound, OperationsAssumption
  <2> QED
    BY <2>1, <2>2 DEF Honest, MadeOK
<1> QED
  BY <1>1, <1>2, <1>3, PTL DEF Spec

=============================================================================
