----------------------------- MODULE Retention -----------------------------
(***************************************************************************)
(* PsbtRetentionService.archiveOldPsbts: the nightly job, which runs in     *)
(* every instance at the same time, over old rows that are settled or       *)
(* failed.  Each is uploaded as the job read it, then stripped of its       *)
(* contents.  The S3 bucket is configured.  Meanwhile the event consumer    *)
(* may come back to an old row (a replay from the start of the stream):     *)
(* such rows are kept apart.                                               *)
(***************************************************************************)
EXTENDS FiniteSets, Naturals

CONSTANTS
    Jobs,         \* instances of the job
    Psbts,        \* old rows
    MaxBreaks     \* bound on uploads that fail and jobs that die

VARIABLES
    psbt,       \* each row: its status (final: settled or failed), which contents it has
    bucket,     \* the contents under the row's key, the last upload wins
    touched,    \* history: rows signed again
    job,        \* each job: its candidates with the contents it read, where it is
    breaks

retentionVars == <<psbt, bucket, touched, job, breaks>>

(* Contents: what was signed first, what was signed again, the marker that  *)
(* the job leaves.                                                         *)
Contents == {"first", "second", "[archived]"}

Row == Psbts \X Contents

RetentionTypeOK ==
    /\ psbt \in [Psbts -> [status: {"final", "signed", "archived"}, contents: Contents]]
    /\ bucket \in [Psbts -> Contents \cup {"nothing"}]
    /\ touched \subseteq Psbts
    /\ job \in [Jobs -> [todo: SUBSET Row, uploaded: SUBSET Row]]
    /\ breaks \in 0..MaxBreaks

NoWork == [todo |-> {}, uploaded |-> {}]

RetentionInit ==
    /\ psbt = [p \in Psbts |-> [status |-> "final", contents |-> "first"]]
    /\ bucket = [p \in Psbts |-> "nothing"]
    /\ touched = {}
    /\ job = [j \in Jobs |-> NoWork]
    /\ breaks = 0

-----------------------------------------------------------------------------

Break == breaks < MaxBreaks /\ breaks' = breaks + 1

(* The candidates, with the contents the job will upload. *)
FindCandidates(j) ==
    /\ job[j] = NoWork
    /\ job' = [job EXCEPT ![j].todo =
                  {<<p, psbt[p].contents>> : p \in {q \in Psbts : psbt[q].status = "final"}}]
    /\ UNCHANGED <<psbt, bucket, touched, breaks>>

UploadAndGoOn(j) ==
    /\ job[j].uploaded = {}
    /\ \E row \in job[j].todo :
         /\ job' = [job EXCEPT ![j] = [todo |-> @.todo \ {row}, uploaded |-> {row}]]
         /\ \/ bucket' = [bucket EXCEPT ![row[1]] = row[2]] /\ UNCHANGED breaks
            \/ Break /\ UNCHANGED bucket
    /\ UNCHANGED <<psbt, touched>>

(* uploadToS3; a candidate whose upload fails, in truth or by its answer,   *)
(* is left for another night.                                              *)
Upload(j) ==
    /\ job[j].uploaded = {}
    /\ \E row \in job[j].todo :
         \/ /\ bucket' = [bucket EXCEPT ![row[1]] = row[2]]
            /\ job' = [job EXCEPT ![j] = [todo |-> @.todo \ {row}, uploaded |-> {row}]]
            /\ UNCHANGED breaks
         \/ /\ Break
            /\ bucket' \in {bucket, [bucket EXCEPT ![row[1]] = row[2]]}
            /\ job' = [job EXCEPT ![j].todo = @ \ {row}]
    /\ UNCHANGED <<psbt, touched>>

(* The update names the row, not the state it was read in. *)
MarkArchived(j) ==
    /\ \E row \in job[j].uploaded :
         psbt' = [psbt EXCEPT ![row[1]] = [status |-> "archived", contents |-> "[archived]"]]
    /\ job' = [job EXCEPT ![j].uploaded = {}]
    /\ UNCHANGED <<bucket, touched, breaks>>

(* The database fails, or the process dies. *)
EndJob(j) ==
    /\ job[j] # NoWork
    /\ Break
    /\ job' = [job EXCEPT ![j] = NoWork]
    /\ UNCHANGED <<psbt, bucket, touched>>

(* handlePayoutCommitted takes a row that is neither signed nor broadcast   *)
(* through signing again, and updatedAt with it.                           *)
SignAgain(p) ==
    /\ psbt[p].status # "signed"
    /\ psbt' = [psbt EXCEPT ![p] = [status |-> "signed", contents |-> "second"]]
    /\ touched' = touched \cup {p}
    /\ UNCHANGED <<bucket, job, breaks>>

RetentionNext ==
    \/ \E j \in Jobs : FindCandidates(j) \/ Upload(j) \/ MarkArchived(j) \/ EndJob(j)
    \/ \E p \in Psbts : SignAgain(p)

RetentionSpec == RetentionInit /\ [][RetentionNext]_retentionVars

-----------------------------------------------------------------------------
(* Properties. *)

(* No PSBT is lost to archival: what was signed first is in its row or in   *)
(* the bucket, unless it was signed again; failed uploads, jobs that die    *)
(* and jobs of other instances over the same rows do not change that, and   *)
(* the marker itself is never archived.                                    *)
ArchivedIsStored ==
    \A p \in Psbts :
       /\ psbt[p].contents = "first" \/ p \in touched \/ bucket[p] = "first"
       /\ bucket[p] # "[archived]"

=============================================================================
