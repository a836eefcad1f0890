---------------------------- MODULE EvidenceStore ---------------------------
(***************************************************************************)
(* The directory of one alert case                                         *)
(* (src/alert_reviewer/guardian_evidence_store.py): a ".lock" file, one    *)
(* "<revision>.json" per evidence revision, "HEAD.json" that names the     *)
(* current one, and the ".tmp" file of a write in progress.                *)
(*                                                                         *)
(* Each operator below the line is one file-system call, or one check that *)
(* reads the directory; GuardianCases orders them.  Cases have directories *)
(* of their own and do not interact, so one case is modelled.              *)
(***************************************************************************)
EXTENDS Naturals, FiniteSets

CONSTANTS
    Proc,          \* threads or processes that may open the case
    Revision,      \* the identifiers uuid4 may produce
    Evidence,      \* contents of IMMUTABLE_FIELDS
    Conclusion,    \* validated conclusions of the analyst
    MaxRevisions,  \* MAX_REVISIONS
    NoProc, NoRev, NoReport

\* analysis_status, with the conclusions when it is "completed".
Final == Conclusion \cup {"no_data"}
Analysis == Final \cup {"pending", "unavailable"}

Report == [evidence : Evidence,
           prev     : Revision \cup {NoRev},   \* previous_revision_id
           analysis : Analysis]

ASSUME StoreAssumption ==
    /\ NoProc \notin Proc
    /\ NoRev \notin Revision
    /\ NoReport \notin Report
    /\ IsFiniteSet(Revision)
    /\ MaxRevisions \in Nat
    /\ Conclusion \cap {"no_data", "pending", "unavailable"} = {}

VARIABLES
    lock,   \* whose file .lock is (the inode its owner remembers), or NoProc
    file,   \* file[r]: the report in r.json, or NoReport
    head,   \* HEAD.json: [rev, count], with rev = NoRev when there is no file
    temps,  \* processes inside _atomic_write, with their .tmp file
    debris  \* whether the directory holds the .tmp file of a write that ended

storeVars == <<lock, file, head, temps, debris>>

StoreTypeOK ==
    /\ lock \in Proc \cup {NoProc}
    /\ file \in [Revision -> Report \cup {NoReport}]
    /\ head \in [rev : Revision \cup {NoRev}, count : Nat]
    /\ temps \subseteq Proc
    /\ debris \in BOOLEAN

StoreInit ==
    /\ lock = NoProc
    /\ file = [r \in Revision |-> NoReport]
    /\ head = [rev |-> NoRev, count |-> 0]
    /\ temps = {}
    /\ debris = FALSE

-----------------------------------------------------------------------------
(* GuardianEvidenceCase._chain *)

Files == {r \in Revision : file[r] # NoReport}

\* No file but .lock, HEAD.json and revisions.
NoTempFile == temps = {} /\ ~ debris

\* Walk[i]: the revision i links behind HEAD.
Walk[i \in Nat] ==
    IF i = 0 THEN head.rev
    ELSE IF Walk[i - 1] \in Files THEN file[Walk[i - 1]].prev ELSE NoRev

\* The chain the walk visits is every revision file, once.
Chain == {Walk[i] : i \in 0..(head.count - 1)}

\* Defective variant of ChainOK: a directory without HEAD.json is an empty case.
ChainOKNoHead ==
    /\ NoTempFile
    /\ Cardinality(Files) <= MaxRevisions
    /\ \/ head.rev = NoRev
       \/ head.count = Cardinality(Files) /\ Chain = Files /\ Walk[head.count] = NoRev

\* Defective variant of ChainOK: revisions outside the chain are ignored.
ChainOKPartial ==
    /\ NoTempFile
    /\ Cardinality(Files) <= MaxRevisions
    /\ Chain \subseteq Files /\ Walk[head.count] = NoRev

\* The check every read and write starts with; when it fails they raise.
ChainOK ==
    /\ NoTempFile
    /\ Cardinality(Files) <= MaxRevisions
    /\ IF head.rev = NoRev
       THEN Files = {}
       ELSE /\ head.count = Cardinality(Files)
            /\ Chain = Files
            /\ Walk[head.count] = NoRev

\* _check_active, then _chain: the reads of one check, which are several calls,
\* are taken together.  While the lock excludes, nobody writes between them; in
\* a meddled case they may also see a mixture, which is not modelled.
Readable(p) == lock = p /\ ChainOK

-----------------------------------------------------------------------------
(* GuardianEvidenceStore.locked *)

\* Defective variant of TakeLock: the lock file is opened without "x".
TakeLockShared(p) == lock' = p

\* open("xb"): only when there is no lock file.
TakeLock(p) == lock = NoProc /\ lock' = p

RemoveLock == lock # NoProc /\ lock' = NoProc

-----------------------------------------------------------------------------
(* _atomic_write *)

\* NamedTemporaryFile, write, fsync.
WriteTemp(p) == temps' = temps \cup {p}

\* temporary.unlink(missing_ok=True): the file of this call, no earlier one.
DropTemp(p) == temps' = temps \ {p} /\ UNCHANGED debris

\* The call ends without unlinking its file, which no later call knows of.
AbandonTemp(p) ==
    /\ temps' = temps \ {p}
    /\ debris' = (debris \/ p \in temps)


\* Defective variant of LinkFile: an existing revision may be replaced.
LinkFileOver(r, report) == file' = [file EXCEPT ![r] = report]

\* os.link: refuses to replace a file.
LinkFile(r, report) ==
    /\ file[r] = NoReport
    /\ file' = [file EXCEPT ![r] = report]

\* os.replace of a revision consumes the temporary file.
ReplaceFile(p, r, report) ==
    /\ file' = [file EXCEPT ![r] = report]
    /\ temps' = temps \ {p}

ReplaceHead(p, r, n) ==
    /\ head' = [rev |-> r, count |-> n]
    /\ temps' = temps \ {p}
=============================================================================
