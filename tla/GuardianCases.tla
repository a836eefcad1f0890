---------------------------- MODULE GuardianCases ---------------------------
(***************************************************************************)
(* GuardianCaseReview.conclude (src/alert_reviewer/guardian_cases.py) over *)
(* the directory of one case.  Every file-system call is a step of its     *)
(* own, between two of which the process may crash and an operator may     *)
(* remove the lock of a crashed process.                                   *)
(*                                                                         *)
(* Rejections of what is stored (hash, schema, clock, size) and I/O errors *)
(* end a session through Fail at any step.  AGENT_BUSY changes nothing and *)
(* is no action.                                                           *)
(***************************************************************************)
EXTENDS EvidenceStore

CONSTANT Empty  \* evidence without transactions

ASSUME CasesAssumption == Empty \subseteq Evidence

VARIABLES
    pc,       \* pc[p]: the next call of p's session, "idle" without a session
    wanted,   \* wanted[p]: expected_revision of a refresh; NoRev when not one
    mine,     \* mine[p]: revision_id of the report p holds in memory
    work,     \* work[p]: that report
    count,    \* count[p]: revision_count p will write into HEAD.json
    answered  \* history: what sessions had ready to return

sessionVars == <<pc, wanted, mine, work, count>>
vars == <<storeVars, sessionVars, answered>>

Session == {"load", "query", "create", "stage", "link", "drop", "stageHead",
            "commit", "analyze", "update", "stageWork", "rewrite", "answer",
            "unlock", "unlink"}

TypeOK ==
    /\ StoreTypeOK
    /\ pc \in [Proc -> Session \cup {"idle"}]
    /\ wanted \in [Proc -> Revision \cup {NoRev}]
    /\ mine \in [Proc -> Revision \cup {NoRev}]
    /\ work \in [Proc -> Report \cup {NoReport}]
    /\ count \in [Proc -> Nat]
    /\ answered \subseteq [rev : Revision, analysis : Analysis]

Init ==
    /\ StoreInit
    /\ pc = [p \in Proc |-> "idle"]
    /\ wanted = [p \in Proc |-> NoRev]
    /\ mine = [p \in Proc |-> NoRev]
    /\ work = [p \in Proc |-> NoReport]
    /\ count = [p \in Proc |-> 0]
    /\ answered = {}

At(p, label) == pc[p] = label
GoTo(p, label) == pc' = [pc EXCEPT ![p] = label]

\* The body of the with block is left: its variables are not used again.
Leave(p, label) ==
    /\ GoTo(p, label)
    /\ wanted' = [wanted EXCEPT ![p] = NoRev]
    /\ mine' = [mine EXCEPT ![p] = NoRev]
    /\ work' = [work EXCEPT ![p] = NoReport]
    /\ count' = [count EXCEPT ![p] = 0]

Hold(p, r, report) ==
    /\ mine' = [mine EXCEPT ![p] = r]
    /\ work' = [work EXCEPT ![p] = report]

-----------------------------------------------------------------------------
(* Opening the case *)

\* A conclude request, plain (NoRev) or a refresh of the revision r.
Acquire(p, r) ==
    /\ At(p, "idle")
    /\ TakeLock(p)
    /\ GoTo(p, "load")
    /\ wanted' = [wanted EXCEPT ![p] = r]
    /\ UNCHANGED <<file, head, temps, debris, mine, work, count, answered>>

\* Defective variant of LoadSaved: a completed analysis is run again.
LoadSavedAgain(p) ==
    /\ At(p, "load") /\ Readable(p)
    /\ wanted[p] = NoRev /\ head.rev # NoRev
    /\ Hold(p, head.rev, file[head.rev])
    /\ GoTo(p, "analyze")
    /\ UNCHANGED <<storeVars, wanted, count, answered>>

\* load_latest finds a revision and no refresh is asked for.
LoadSaved(p) ==
    /\ At(p, "load") /\ Readable(p)
    /\ wanted[p] = NoRev /\ head.rev # NoRev
    /\ Hold(p, head.rev, file[head.rev])
    /\ GoTo(p, IF file[head.rev].analysis \in Final THEN "answer" ELSE "analyze")
    /\ UNCHANGED <<storeVars, wanted, count, answered>>

\* Defective variant of LoadForQuery: any revision may be refreshed.
LoadForQueryAny(p) ==
    /\ At(p, "load") /\ Readable(p)
    /\ wanted[p] = NoRev => head.rev = NoRev
    /\ GoTo(p, "query")
    /\ UNCHANGED <<storeVars, wanted, mine, work, count, answered>>

\* An empty case, or a refresh of the revision that is still the latest.
LoadForQuery(p) ==
    /\ At(p, "load") /\ Readable(p)
    /\ wanted[p] = head.rev
    /\ GoTo(p, "query")
    /\ UNCHANGED <<storeVars, wanted, mine, work, count, answered>>

-----------------------------------------------------------------------------
(* New evidence: the Athena query and GuardianEvidenceCase.create *)

Query(p, e) ==
    /\ At(p, "query")
    /\ work' = [work EXCEPT ![p] =
                  [evidence |-> e, prev |-> NoRev, analysis |-> "pending"]]
    /\ GoTo(p, "create")
    /\ UNCHANGED <<storeVars, wanted, mine, count, answered>>

\* Defective variant of Create: the bound is off by one.
CreateBeyond(p, r) ==
    /\ At(p, "create") /\ Readable(p)
    /\ Cardinality(Files) <= MaxRevisions
    /\ file[r] = NoReport
    /\ Hold(p, r, [work[p] EXCEPT !.prev = head.rev])
    /\ count' = [count EXCEPT ![p] = Cardinality(Files) + 1]
    /\ GoTo(p, "stage")
    /\ UNCHANGED <<storeVars, wanted, answered>>

\* Defective variant of Create: the new revision is not linked to the previous one.
CreateUnlinked(p, r) ==
    /\ At(p, "create") /\ Readable(p)
    /\ Cardinality(Files) < MaxRevisions
    /\ file[r] = NoReport
    /\ Hold(p, r, work[p])
    /\ count' = [count EXCEPT ![p] = Cardinality(Files) + 1]
    /\ GoTo(p, "stage")
    /\ UNCHANGED <<storeVars, wanted, answered>>

\* The identity and the link of the new revision r, fixed before any write.
Create(p, r) ==
    /\ At(p, "create") /\ Readable(p)
    /\ Cardinality(Files) < MaxRevisions
    /\ file[r] = NoReport
    /\ Hold(p, r, [work[p] EXCEPT !.prev = head.rev])
    /\ count' = [count EXCEPT ![p] = Cardinality(Files) + 1]
    /\ GoTo(p, "stage")
    /\ UNCHANGED <<storeVars, wanted, answered>>

\* The temporary file of whichever write comes next.
Stage(p) ==
    /\ WriteTemp(p)
    /\ \/ At(p, "stage") /\ GoTo(p, "link")
       \/ At(p, "stageHead") /\ GoTo(p, "commit")
       \/ At(p, "stageWork") /\ GoTo(p, "rewrite")
    /\ UNCHANGED <<lock, file, head, debris, wanted, mine, work, count, answered>>

Link(p) ==
    /\ At(p, "link")
    /\ LinkFile(mine[p], work[p])
    /\ GoTo(p, "drop")
    /\ UNCHANGED <<lock, head, temps, debris, wanted, mine, work, count, answered>>

Unstage(p) ==
    /\ At(p, "drop")
    /\ DropTemp(p)
    /\ GoTo(p, "stageHead")
    /\ UNCHANGED <<lock, file, head, wanted, mine, work, count, answered>>

CommitHead(p) ==
    /\ At(p, "commit")
    /\ ReplaceHead(p, mine[p], count[p])
    /\ GoTo(p, "analyze")
    /\ UNCHANGED <<lock, file, debris, wanted, mine, work, count, answered>>

-----------------------------------------------------------------------------
(* The analysis and GuardianEvidenceCase.update *)

\* Defective variant of Outcomes: the error code takes the place of the status.
OutcomesError(report) ==
    IF report.evidence \in Empty THEN {"no_data"} ELSE Conclusion \cup {"AI_UNAVAILABLE"}

\* Outcomes of _analyze that it returns; anything else it raises.
Outcomes(report) ==
    IF report.evidence \in Empty THEN {"no_data"} ELSE Conclusion \cup {"unavailable"}

Analyze(p) ==
    /\ At(p, "analyze")
    /\ \E x \in Outcomes(work[p]) : work' = [work EXCEPT ![p].analysis = x]
    /\ GoTo(p, "update")
    /\ UNCHANGED <<storeVars, wanted, mine, count, answered>>

SameFrozen(a, b) == a.evidence = b.evidence /\ a.prev = b.prev

\* Only HEAD is updated, and only its analysis may differ.
Update(p) ==
    /\ At(p, "update") /\ Readable(p)
    /\ mine[p] = head.rev
    /\ SameFrozen(work[p], file[head.rev])
    /\ GoTo(p, "stageWork")
    /\ UNCHANGED <<storeVars, wanted, mine, work, count, answered>>

Rewrite(p) ==
    /\ At(p, "rewrite")
    /\ ReplaceFile(p, mine[p], work[p])
    /\ GoTo(p, "answer")
    /\ UNCHANGED <<lock, head, debris, wanted, mine, work, count, answered>>

-----------------------------------------------------------------------------
(* Leaving the case *)

\* list_revisions reads the chain again; only then the answer is returned.
Answer(p) ==
    /\ At(p, "answer") /\ Readable(p)
    /\ answered' = answered \cup {[rev |-> mine[p], analysis |-> work[p].analysis]}
    /\ Leave(p, "unlock")
    /\ UNCHANGED storeVars

\* Any call before the unlock raises.  The temporary file of the write goes with
\* it, unless the unlink itself is the call that raises.
Fail(p) ==
    /\ pc[p] \in Session \ {"unlock", "unlink"}
    /\ Leave(p, "unlock")
    /\ DropTemp(p) \/ AbandonTemp(p)
    /\ UNCHANGED <<lock, file, head, answered>>

\* The lock is still the file this session opened.
CheckLock(p) ==
    /\ At(p, "unlock")
    /\ GoTo(p, IF lock = p THEN "unlink" ELSE "idle")
    /\ UNCHANGED <<storeVars, wanted, mine, work, count, answered>>

Unlink(p) ==
    /\ At(p, "unlink")
    /\ lock' = NoProc
    /\ GoTo(p, "idle")
    /\ UNCHANGED <<file, head, temps, debris, wanted, mine, work, count, answered>>

\* The process dies, or the unlink of its lock fails.
Crash(p) ==
    /\ pc[p] \in Session
    /\ Leave(p, "idle")
    /\ AbandonTemp(p)
    /\ UNCHANGED <<lock, file, head, answered>>

-----------------------------------------------------------------------------
(* The operator *)

\* The runbook's recovery: the lock of a process that is known to be dead.
ClearStaleLock ==
    /\ lock # NoProc /\ At(lock, "idle")
    /\ RemoveLock
    /\ UNCHANGED <<file, head, temps, debris, sessionVars, answered>>

\* What the runbook forbids: a lock removed without looking whose it is.
ClearAnyLock ==
    /\ RemoveLock
    /\ UNCHANGED <<file, head, temps, debris, sessionVars, answered>>

Step(p) ==
    \/ \E r \in Revision \cup {NoRev} : Acquire(p, r)
    \/ LoadSaved(p) \/ LoadForQuery(p)
    \/ \E e \in Evidence : Query(p, e)
    \/ \E r \in Revision : Create(p, r)
    \/ Stage(p) \/ Link(p) \/ Unstage(p) \/ CommitHead(p)
    \/ Analyze(p) \/ Update(p) \/ Rewrite(p) \/ Answer(p)
    \/ Fail(p) \/ CheckLock(p) \/ Unlink(p) \/ Crash(p)

Next == ClearStaleLock \/ \E p \in Proc : Step(p)

Spec == Init /\ [][Next]_vars

\* A second system, in which locks disappear under running sessions.
MeddledNext == ClearAnyLock \/ \E p \in Proc : Step(p)

MeddledSpec == Init /\ [][MeddledNext]_vars

-----------------------------------------------------------------------------
(* Properties *)

\* Revisions that HEAD reaches; the others were linked and not yet committed.
Committed == {r \in Files : file[r].prev # head.rev}
Uncommitted == Files \ Committed

\* An answer never reports a revision without analysis, the revision stays in
\* the chain, and a conclusion once returned is the one on disk ever after.
AnswersStand ==
    \A a \in answered :
        /\ a.analysis # "pending"
        /\ a.rev \in Committed
        /\ a.analysis \in Final => file[a.rev].analysis = a.analysis

\* "An orphan or a temporary file, and nothing else, closes a case": a case
\* directory that holds neither can be read, whatever crashed before, also
\* when it holds MAX_REVISIONS revisions.
OnlyOrphansBlock == NoTempFile /\ Uncommitted = {} => ChainOK

\* p linked its revision and has not committed it yet.
Committing(p) == pc[p] \in {"drop", "stageHead", "commit"}

\* What a session that died or failed left behind.
Residue ==
    \/ debris
    \/ \E r \in Uncommitted : \A p \in Proc : ~(Committing(p) /\ mine[p] = r)

\* "An orphan must be inspected, never silently replaced by a new query": once
\* a crash or a failed call left an orphan or a temporary file, no session writes
\* to the case, not even one of the same process.
FailsClosed == [][Residue => UNCHANGED <<file, head>>]_vars

\* "se conserva la primera respuesta valida", "no modifica los bytes de las
\* anteriores": a revision with a conclusion, and every revision HEAD has moved
\* on from, is never written again.
FirstConclusionKept ==
    [][\A r \in Files :
          file[r].analysis \in Final \/ (r \in Committed /\ r # head.rev)
             => file'[r] = file[r]]_vars

\* "expected_revision se comprueba antes de consultar": HEAD moves on only from
\* the revision the requester named, or, for a plain request, from nothing.
SupersedesWhatWasSeen ==
    [][head' # head => \E p \in Proc : At(p, "commit") /\ wanted[p] = head.rev]_vars

\* "Only the current revision's derived analysis may then change": the evidence
\* and the link of a revision file survive even sessions whose lock was removed.
EvidenceIsFrozen ==
    [][\A r \in Files : r \in Files' /\ SameFrozen(file[r], file'[r])]_vars

\* Even if sessions overlap because a lock was removed, a case that can still
\* be read has every revision it ever answered from in its chain.
AnsweredNeverForgotten ==
    ChainOK /\ head.rev # NoRev => \A a \in answered : a.rev \in Chain

\* "Do not unlink a replaced lock belonging to another process": a session that
\* leaves removes its own lock file, or none.
UnlinksOwnLock == [][\A p \in Proc : Unlink(p) => lock \in {p, NoProc}]_vars

\* The case implements the append-only ledger.
Ledger == INSTANCE EvidenceLedger WITH
    entry <- [r \in Revision |-> IF r \in Committed THEN file[r] ELSE NoReport],
    latest <- head.rev

KeepsLedger == Ledger!Spec
=============================================================================
