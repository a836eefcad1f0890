------------------------- MODULE GuardianCasesProofs ------------------------
(***************************************************************************)
(* Proofs about GuardianCases, for every set of processes, revisions,      *)
(* contents and conclusions and every revision limit.  The argument:       *)
(*                                                                         *)
(*   ReadableClean     a directory that passes ChainOK has no uncommitted  *)
(*                     revision: HEAD counts the committed ones;           *)
(*   CommitGrows       moving HEAD to the one uncommitted revision commits *)
(*                     that revision and uncommits none;                   *)
(*   StepTypes, StepSession, StepDirectory, StepLocal                      *)
(*                     the four parts of IInv, action by action;           *)
(*   CasesInvariant    IInv is inductive, and the properties follow;       *)
(*   FrozenInvariant   what is left of it when the lock may disappear, and *)
(*                     that evidence is frozen even then.                  *)
(*   ChainInvariant    the walk from HEAD reaches exactly what is          *)
(*                     committed: by induction over its length, every link *)
(*                     and rewrite leaves the walk as it is (WalkStays)    *)
(*                     and a new HEAD puts one step before it (WalkShifts);*)
(***************************************************************************)
EXTENDS GuardianCases, InductionLemmas

\* The lock excludes: a session that runs owns it.
SessionInv == \A p \in Proc : pc[p] # "idle" => lock = p

\* HEAD is committed and counts what is; links lead to committed revisions.
DirectoryInv ==
    /\ head.count = Cardinality(Committed)
    /\ head.rev # NoRev => head.rev \in Committed
    /\ \A r \in Files : file[r].prev \in Committed \cup {NoRev}

Draft(report) == report \in Report /\ report.analysis = "pending"

\* What a session knows of the directory, by the call it is about to make.
Requested(p) ==
    /\ pc[p] \in {"query", "create", "stage", "link", "drop", "stageHead", "commit"}
          => wanted[p] = head.rev
    /\ pc[p] = "create" => Draft(work[p])
    /\ pc[p] \in Session \ {"load", "unlock", "unlink"} => temps \subseteq {p} /\ ~ debris

Linking(p) ==
    pc[p] \in {"stage", "link"} =>
        /\ Uncommitted = {}
        /\ mine[p] \in Revision /\ file[mine[p]] = NoReport
        /\ Draft(work[p]) /\ work[p].prev = head.rev
        /\ count[p] = head.count + 1

Linked(p) ==
    Committing(p) =>
        /\ mine[p] \in Revision /\ Uncommitted = {mine[p]}
        /\ Draft(work[p]) /\ work[p] = file[mine[p]]
        /\ count[p] = head.count + 1

Analysed(report) ==
    /\ report.analysis # "pending"
    /\ (report.analysis = "no_data") <=> (report.evidence \in Empty)

Current(p) ==
    /\ Uncommitted = {}
    /\ head.rev # NoRev /\ mine[p] = head.rev
    /\ work[p] \in Report

Analysing(p) ==
    /\ pc[p] \in {"analyze", "update", "stageWork", "rewrite"} =>
        /\ Current(p)
        /\ SameFrozen(work[p], file[head.rev])
        /\ file[head.rev].analysis \notin Final
    /\ pc[p] \in {"update", "stageWork", "rewrite"} => Analysed(work[p])
    /\ pc[p] = "answer" =>
        Current(p) /\ work[p] = file[head.rev] /\ work[p].analysis # "pending"

Local(p) == Requested(p) /\ Linking(p) /\ Linked(p) /\ Analysing(p)

IInv ==
    /\ TypeOK
    /\ SessionInv
    /\ DirectoryInv
    /\ \A p \in Proc : Local(p)
    /\ AnswersStand

-----------------------------------------------------------------------------
(* Facts about one directory *)

LEMMA FinalAnalysis == Final \subseteq Analysis /\ "pending" \notin Final
BY StoreAssumption DEF Final, Analysis

LEMMA FilesFinite == IsFiniteSet(Files) /\ IsFiniteSet(Committed)
<1>1. Files \subseteq Revision /\ Committed \subseteq Files
    BY DEF Files, Committed
<1>2. QED
    BY <1>1, StoreAssumption, FS_Subset

\* A directory that passes _chain holds no uncommitted revision.
LEMMA ReadableClean ==
    ASSUME DirectoryInv, ChainOK
    PROVE  /\ Uncommitted = {}
           /\ NoTempFile
           /\ head.count = Cardinality(Files)
           /\ head.rev = NoRev => Files = {}
<1>1. Committed \subseteq Files
    BY DEF Committed
<1>2. NoTempFile /\ (head.rev = NoRev => Files = {})
    BY DEF ChainOK
<1>3. CASE head.rev = NoRev
    <2>1. Files = {} /\ Committed = {}
        BY <1>1, <1>2, <1>3
    <2>2. QED
        BY <1>2, <2>1 DEF Uncommitted, DirectoryInv
<1>4. CASE head.rev # NoRev
    <2>1. Cardinality(Committed) = Cardinality(Files)
        BY <1>4 DEF ChainOK, DirectoryInv
    <2>2. Committed = Files
        BY <1>1, <2>1, FilesFinite, FS_Subset
    <2>3. QED
        BY <1>2, <2>1, <2>2 DEF Uncommitted, DirectoryInv
<1>5. QED
    BY <1>3, <1>4

\* A step that writes neither a revision nor HEAD leaves the chain as it is.
LEMMA DirectorySame ==
    ASSUME UNCHANGED <<file, head>>
    PROVE  Files' = Files /\ Committed' = Committed /\ Uncommitted' = Uncommitted
BY DEF Files, Committed, Uncommitted

\* A linked revision is a new, uncommitted file.
LEMMA LinkAdds ==
    ASSUME StoreTypeOK, NEW r \in Revision, NEW report \in Report,
           file[r] = NoReport, report.prev = head.rev,
           file' = [file EXCEPT ![r] = report], UNCHANGED head
    PROVE  /\ Files' = Files \cup {r}
           /\ r \notin Files
           /\ Committed' = Committed
           /\ Uncommitted' = Uncommitted \cup {r}
<1>1. report # NoReport
    BY StoreAssumption
<1>2. Files' = Files \cup {r} /\ r \notin Files
    BY <1>1 DEF Files, StoreTypeOK
<1>3. Committed' = Committed
    BY <1>2 DEF Committed, StoreTypeOK
<1>4. QED
    BY <1>2, <1>3 DEF Uncommitted, Committed

\* HEAD moved to the one uncommitted revision commits it and keeps the others.
LEMMA CommitGrows ==
    ASSUME StoreTypeOK, DirectoryInv, NEW r \in Revision,
           Uncommitted = {r}, UNCHANGED file,
           head' = [rev |-> r, count |-> head.count + 1]
    PROVE  /\ Files' = Files
           /\ Committed' = Files
           /\ Uncommitted' = {}
           /\ head'.rev \in Committed'
           /\ head'.count = Cardinality(Committed')
<1>1. Files' = Files /\ r \in Files /\ r \notin Committed /\ Files = Committed \cup {r}
    BY DEF Files, Uncommitted, Committed
<1>2. r # NoRev
    BY StoreAssumption
<1>3. \A x \in Files : file[x].prev # r
    BY <1>1, <1>2 DEF DirectoryInv
<1>4. Committed' = Files
    BY <1>1, <1>3 DEF Committed
<1>5. Cardinality(Files) = Cardinality(Committed) + 1
    BY <1>1, FilesFinite, FS_AddElement
<1>6. QED
    BY <1>1, <1>4, <1>5 DEF Uncommitted, DirectoryInv

\* A rewritten analysis changes neither the files nor their links.
LEMMA RewriteKeeps ==
    ASSUME StoreTypeOK, NEW r \in Files, NEW report \in Report,
           SameFrozen(report, file[r]),
           file' = [file EXCEPT ![r] = report], UNCHANGED head
    PROVE  Files' = Files /\ Committed' = Committed /\ Uncommitted' = Uncommitted
<1>1. report # NoReport /\ report.prev = file[r].prev /\ r \in Revision
    BY StoreAssumption DEF SameFrozen, Files
<1>2. Files' = Files
    BY <1>1 DEF Files, StoreTypeOK
<1>3. \A x \in Files : file'[x].prev = file[x].prev
    BY <1>1, <1>2 DEF StoreTypeOK, Files
<1>4. QED
    BY <1>2, <1>3 DEF Committed, Uncommitted

-----------------------------------------------------------------------------
(* Sessions *)

\* Every step of p moves p only; no other session runs meanwhile.
LEMMA OthersIdle ==
    ASSUME TypeOK, SessionInv, NEW p \in Proc, Step(p)
    PROVE  \A q \in Proc \ {p} : pc[q] = "idle" /\ pc'[q] = "idle"
<1>1. pc[p] # "idle" \/ lock = NoProc
    BY DEF Step, Acquire, TakeLock, At, LoadSaved, LoadForQuery, Query, Create,
           Stage, Link, Unstage, CommitHead, Analyze, Update, Rewrite, Answer,
           Fail, CheckLock, Unlink, Crash, Session
<1>2. \A q \in Proc \ {p} : pc[q] = "idle"
    BY <1>1, StoreAssumption DEF SessionInv
<1>3. \E s : pc' = [pc EXCEPT ![p] = s]
    BY DEF Step, Acquire, GoTo, LoadSaved, LoadForQuery, Query, Create,
           Stage, Link, Unstage, CommitHead, Analyze, Update, Rewrite, Answer,
           Fail, CheckLock, Unlink, Crash, Leave
<1>4. QED
    BY <1>2, <1>3 DEF TypeOK

\* A session that does not run claims nothing.
LEMMA IdleLocal == \A q \in Proc : pc[q] = "idle" => Local(q)
BY DEF Local, Requested, Linking, Linked, Analysing, Committing, Session

\* The lock changes hands only when its owner leaves, or is not running.
LEMMA StepSession ==
    ASSUME TypeOK, SessionInv, NEW p \in Proc, Step(p)
    PROVE  SessionInv'
<1>1. \A q \in Proc \ {p} : pc'[q] = "idle"
    BY OthersIdle
<1>2. pc'[p] # "idle" => lock' = p
    <2>1. CASE \E r \in Revision \cup {NoRev} : Acquire(p, r)
        BY <2>1 DEF Acquire, TakeLock
    <2>2. CASE CheckLock(p) \/ Unlink(p) \/ Crash(p)
        BY <2>2 DEF CheckLock, Unlink, Crash, Leave, GoTo, At, TypeOK, storeVars,
                    SessionInv
    <2>3. CASE /\ ~ CheckLock(p) /\ ~ Unlink(p) /\ ~ Crash(p)
               /\ ~ \E r \in Revision \cup {NoRev} : Acquire(p, r)
        <3>1. pc[p] # "idle" /\ lock' = lock
            BY <2>3 DEF Step, LoadSaved, LoadForQuery, Query, Create, Stage, Link,
                        Unstage, CommitHead, Analyze, Update, Rewrite, Answer,
                        Fail, At, Session, storeVars
        <3>2. QED
            BY <3>1 DEF SessionInv
    <2>4. QED
        BY <2>1, <2>2, <2>3
<1>3. QED
    BY <1>1, <1>2 DEF SessionInv

-----------------------------------------------------------------------------
(* Types *)

LEMMA OutcomesTypes ==
    ASSUME NEW report \in Report, NEW x \in Outcomes(report)
    PROVE  /\ x \in Analysis /\ [report EXCEPT !.analysis = x] \in Report
           /\ Analysed([report EXCEPT !.analysis = x])
<1>1. x \in Analysis
    BY DEF Outcomes, Analysis, Final
<1>2. x # "pending" /\ ((x = "no_data") <=> (report.evidence \in Empty))
    BY StoreAssumption DEF Outcomes
<1>3. QED
    BY <1>1, <1>2 DEF Report, Analysed

LEMMA StepTypes ==
    ASSUME IInv, NEW p \in Proc, Step(p)
    PROVE  TypeOK'
<1> USE DEF IInv, TypeOK, StoreTypeOK
<1>1. Local(p)
    OBVIOUS
<1>2. CASE \E r \in Revision \cup {NoRev} : Acquire(p, r)
    BY <1>2 DEF Acquire, TakeLock, GoTo, Session
<1>3. CASE LoadSaved(p)
    <2>1. head.rev \in Revision /\ file[head.rev] \in Report \cup {NoReport}
        BY <1>3 DEF LoadSaved
    <2>2. QED
        BY <1>3, <2>1 DEF LoadSaved, Hold, GoTo, Session, storeVars
<1>4. CASE LoadForQuery(p) \/ Update(p) \/ CheckLock(p)
    BY <1>4 DEF LoadForQuery, Update, CheckLock, GoTo, Session, storeVars
<1>5. CASE \E e \in Evidence : Query(p, e)
    <2>1. PICK e \in Evidence : Query(p, e)
        BY <1>5
    <2>2. [evidence |-> e, prev |-> NoRev, analysis |-> "pending"] \in Report
        BY DEF Report, Analysis
    <2>3. QED
        BY <2>1, <2>2 DEF Query, GoTo, Session, storeVars
<1>6. CASE \E r \in Revision : Create(p, r)
    <2>1. PICK r \in Revision : Create(p, r)
        BY <1>6
    <2>2. work[p] \in Report
        BY <1>1, <2>1 DEF Local, Requested, Draft, Create, At
    <2>3. [work[p] EXCEPT !.prev = head.rev] \in Report
        BY <2>2 DEF Report
    <2>4. Cardinality(Files) \in Nat
        BY FilesFinite, FS_CardinalityType
    <2>5. QED
        BY <2>1, <2>3, <2>4 DEF Create, Hold, GoTo, Session, storeVars
<1>7. CASE Stage(p) \/ Unstage(p)
    BY <1>7 DEF Stage, Unstage, WriteTemp, DropTemp, GoTo, Session
<1>8. CASE Link(p)
    <2>1. work[p] \in Report
        BY <1>1, <1>8 DEF Local, Linking, Draft, Link, At
    <2>2. QED
        BY <1>8, <2>1 DEF Link, LinkFile, GoTo, Session
<1>9. CASE CommitHead(p)
    BY <1>9 DEF CommitHead, ReplaceHead, GoTo, Session
<1>10. CASE Analyze(p)
    <2>1. work[p] \in Report
        BY <1>1, <1>10 DEF Local, Analysing, Current, Analyze, At
    <2>2. PICK x \in Outcomes(work[p]) : work' = [work EXCEPT ![p].analysis = x]
        BY <1>10 DEF Analyze
    <2>3. work' = [work EXCEPT ![p] = [work[p] EXCEPT !.analysis = x]]
        BY <2>2
    <2>4. [work[p] EXCEPT !.analysis = x] \in Report
        BY <2>1, OutcomesTypes
    <2>5. work' \in [Proc -> Report \cup {NoReport}]
        BY <2>3, <2>4
    <2>6. QED
        BY <1>10, <2>5 DEF Analyze, GoTo, Session, storeVars
<1>11. CASE Rewrite(p)
    BY <1>11 DEF Rewrite, ReplaceFile, GoTo, Session
<1>12. CASE Answer(p)
    <2>1. mine[p] \in Revision /\ work[p] \in Report
        BY <1>1, <1>12 DEF Local, Analysing, Current, Answer, At
    <2>2. [rev |-> mine[p], analysis |-> work[p].analysis]
             \in [rev : Revision, analysis : Analysis]
        BY <2>1 DEF Report
    <2>3. QED
        BY <1>12, <2>2 DEF Answer, Leave, GoTo, Session, storeVars
<1>13. CASE Fail(p) \/ Crash(p)
    <2>1. debris' \in BOOLEAN
        BY <1>13, Zenon DEF Fail, Crash, DropTemp, AbandonTemp
    <2>2. temps' = temps \ {p} /\ UNCHANGED <<lock, file, head, answered>>
        BY <1>13 DEF Fail, Crash, DropTemp, AbandonTemp
    <2>3. Leave(p, "unlock") \/ Leave(p, "idle")
        BY <1>13 DEF Fail, Crash
    <2>4. QED
        BY <2>1, <2>2, <2>3 DEF Leave, GoTo, Session
<1>14. CASE Unlink(p)
    BY <1>14 DEF Unlink, GoTo, Session
<1>15. QED
    BY <1>2, <1>3, <1>4, <1>5, <1>6, <1>7, <1>8, <1>9, <1>10, <1>11, <1>12,
       <1>13, <1>14 DEF Step

-----------------------------------------------------------------------------
(* The directory and the answers *)

\* Only three calls write a revision or HEAD, and only Answer answers.
LEMMA OtherStepsKeep ==
    ASSUME NEW p \in Proc, Step(p), ~ Link(p), ~ CommitHead(p), ~ Rewrite(p)
    PROVE  UNCHANGED <<file, head>>
BY DEF Step, Acquire, LoadSaved, LoadForQuery, Query, Create, Stage, Unstage,
       Analyze, Update, Answer, Fail, CheckLock, Unlink, Crash, storeVars

LEMMA OnlyAnswerAnswers ==
    ASSUME NEW p \in Proc, Step(p), ~ Answer(p)
    PROVE  answered' = answered
BY DEF Step, Acquire, LoadSaved, LoadForQuery, Query, Create, Stage, Link, Unstage,
       CommitHead, Rewrite, Analyze, Update, Fail, CheckLock, Unlink, Crash

\* What the three writes do to the chain, and to the reports of the others.
LEMMA LinkEffect ==
    ASSUME IInv, NEW p \in Proc, Link(p)
    PROVE  /\ mine[p] \in Revision /\ mine[p] \notin Files
           /\ Files' = Files \cup {mine[p]}
           /\ Committed' = Committed /\ Uncommitted' = {mine[p]}
           /\ file' = [file EXCEPT ![mine[p]] = work[p]]
           /\ Draft(work[p]) /\ work[p].prev = head.rev
           /\ count[p] = head.count + 1
<1>1. /\ Uncommitted = {} /\ mine[p] \in Revision /\ file[mine[p]] = NoReport
      /\ Draft(work[p]) /\ work[p].prev = head.rev /\ count[p] = head.count + 1
    BY DEF IInv, Local, Linking, Link, At
<1>2. file' = [file EXCEPT ![mine[p]] = work[p]] /\ UNCHANGED head
    BY DEF Link, LinkFile
<1>3. QED
    BY <1>1, <1>2, LinkAdds DEF IInv, TypeOK, Draft

LEMMA CommitEffect ==
    ASSUME IInv, NEW p \in Proc, CommitHead(p)
    PROVE  /\ UNCHANGED file
           /\ head' = [rev |-> mine[p], count |-> head.count + 1]
           /\ mine[p] \in Files /\ mine[p] # NoRev
           /\ Files' = Files /\ Committed' = Files /\ Uncommitted' = {}
           /\ head'.rev \in Committed' /\ head'.count = Cardinality(Committed')
           /\ Draft(work[p]) /\ work[p] = file[mine[p]]
           /\ Uncommitted = {mine[p]}
<1>1. /\ mine[p] \in Revision /\ Uncommitted = {mine[p]} /\ count[p] = head.count + 1
      /\ Draft(work[p]) /\ work[p] = file[mine[p]]
    BY DEF IInv, Local, Linked, Committing, CommitHead, At
<1>2. UNCHANGED file /\ head' = [rev |-> mine[p], count |-> head.count + 1]
    BY <1>1 DEF CommitHead, ReplaceHead
<1>3. mine[p] \in Files /\ mine[p] # NoRev
    BY <1>1, StoreAssumption DEF Uncommitted
<1>4. QED
    BY <1>1, <1>2, <1>3, CommitGrows DEF IInv, TypeOK

LEMMA RewriteEffect ==
    ASSUME IInv, NEW p \in Proc, Rewrite(p)
    PROVE  /\ UNCHANGED head
           /\ head.rev \in Committed /\ mine[p] = head.rev /\ Uncommitted = {}
           /\ file' = [file EXCEPT ![head.rev] = work[p]]
           /\ file'[head.rev] = work[p]
           /\ work[p] \in Report /\ SameFrozen(work[p], file[head.rev])
           /\ Analysed(work[p]) /\ file[head.rev].analysis \notin Final
           /\ Files' = Files /\ Committed' = Committed /\ Uncommitted' = Uncommitted
<1>1. /\ Current(p) /\ Analysed(work[p]) /\ SameFrozen(work[p], file[head.rev])
      /\ file[head.rev].analysis \notin Final
    BY DEF IInv, Local, Analysing, Rewrite, At
<1>2. UNCHANGED head /\ file' = [file EXCEPT ![mine[p]] = work[p]]
    BY DEF Rewrite, ReplaceFile
<1>3. /\ head.rev \in Committed /\ head.rev \in Files /\ mine[p] = head.rev
      /\ Uncommitted = {} /\ work[p] \in Report
    BY <1>1 DEF Current, IInv, DirectoryInv, Committed
<1>4. file' = [file EXCEPT ![head.rev] = work[p]]
    BY <1>2, <1>3
<1>5. file'[head.rev] = work[p]
    BY <1>3, <1>4 DEF IInv, TypeOK, StoreTypeOK, Files
<1>6. Files' = Files /\ Committed' = Committed /\ Uncommitted' = Uncommitted
    BY <1>1, <1>2, <1>3, <1>4, RewriteKeeps DEF IInv, TypeOK
<1>7. QED
    BY <1>1, <1>2, <1>3, <1>4, <1>5, <1>6

LEMMA StepDirectory ==
    ASSUME IInv, NEW p \in Proc, Step(p)
    PROVE  DirectoryInv'
<1> USE DEF DirectoryInv
<1>1. DirectoryInv
    BY DEF IInv
<1>2. CASE Link(p)
    <2>1. UNCHANGED head
        BY <1>2 DEF Link
    <2>2. \A r \in Files' : file'[r].prev \in Committed \cup {NoRev}
        BY <1>1, <1>2, LinkEffect DEF IInv, TypeOK, StoreTypeOK, Files
    <2>3. QED
        BY <1>1, <1>2, <2>1, <2>2, LinkEffect
<1>3. CASE CommitHead(p)
    <2>1. Committed \subseteq Files
        BY DEF Committed
    <2>2. QED
        BY <1>1, <1>3, <2>1, CommitEffect
<1>4. CASE Rewrite(p)
    <2>1. \A r \in Files : file'[r].prev = file[r].prev
        BY <1>4, RewriteEffect DEF SameFrozen, IInv, TypeOK, StoreTypeOK, Files
    <2>2. QED
        BY <1>1, <1>4, <2>1, RewriteEffect
<1>5. CASE UNCHANGED <<file, head>>
    BY <1>1, <1>5, DirectorySame
<1>6. QED
    BY <1>2, <1>3, <1>4, <1>5, OtherStepsKeep

LEMMA StepAnswers ==
    ASSUME IInv, NEW p \in Proc, Step(p)
    PROVE  AnswersStand'
<1> USE DEF AnswersStand
<1>1. AnswersStand /\ Committed \subseteq Files /\ Files \subseteq Revision
    BY DEF IInv, Committed, Files
<1>2. CASE Link(p)
    <2>1. \A r \in Files : file'[r] = file[r]
        BY <1>2, LinkEffect DEF IInv, TypeOK, StoreTypeOK, Files
    <2>2. answered' = answered
        BY <1>2 DEF Link
    <2>3. QED
        BY <1>1, <1>2, <2>1, <2>2, LinkEffect
<1>3. CASE CommitHead(p)
    <2>1. answered' = answered
        BY <1>3 DEF CommitHead
    <2>2. QED
        BY <1>1, <1>3, <2>1, CommitEffect
<1>4. CASE Rewrite(p)
    <2>1. \A r \in Files : file[r].analysis \in Final => file'[r] = file[r]
        BY <1>4, RewriteEffect DEF IInv, TypeOK, StoreTypeOK, Files
    <2>2. answered' = answered
        BY <1>4 DEF Rewrite
    <2>3. QED
        BY <1>1, <1>4, <2>1, <2>2, RewriteEffect
<1>5. CASE Answer(p)
    <2>1. /\ Uncommitted = {} /\ head.rev # NoRev /\ mine[p] = head.rev
          /\ work[p] = file[head.rev] /\ work[p].analysis # "pending"
        BY <1>5 DEF IInv, Local, Analysing, Current, Answer, At
    <2>2. mine[p] \in Committed /\ work[p] = file[mine[p]]
        BY <2>1 DEF IInv, DirectoryInv
    <2>3. UNCHANGED <<file, head>>
        BY <1>5 DEF Answer, storeVars
    <2>4. answered' = answered \cup {[rev |-> mine[p], analysis |-> work[p].analysis]}
        BY <1>5 DEF Answer
    <2>5. Committed' = Committed
        BY <2>3, DirectorySame
    <2>6. QED
        BY <1>1, <2>1, <2>2, <2>3, <2>4, <2>5
<1>6. CASE UNCHANGED <<file, head>> /\ ~ Answer(p)
    BY <1>1, <1>6, DirectorySame, OnlyAnswerAnswers
<1>7. QED
    BY <1>2, <1>3, <1>4, <1>5, <1>6, OtherStepsKeep

-----------------------------------------------------------------------------
(* What the session that moves knows afterwards *)

LEMMA StepLocal ==
    ASSUME IInv, NEW p \in Proc, Step(p)
    PROVE  Local(p)'
<1> USE DEF Local, Requested, Linking, Linked, Analysing, Committing, Current,
            Session, GoTo, At
<1>1. /\ TypeOK /\ DirectoryInv /\ Local(p)
      /\ pc \in [Proc -> Session \cup {"idle"}]
      /\ wanted \in [Proc -> Revision \cup {NoRev}]
      /\ mine \in [Proc -> Revision \cup {NoRev}]
      /\ work \in [Proc -> Report \cup {NoReport}]
      /\ count \in [Proc -> Nat]
      /\ file \in [Revision -> Report \cup {NoReport}]
      /\ temps \subseteq Proc
    BY DEF IInv, TypeOK, StoreTypeOK
<1>2. CASE pc'[p] \in {"idle", "load", "unlock", "unlink"}
    BY <1>2
<1>3. CASE LoadSaved(p)
    <2>1. /\ Uncommitted = {} /\ temps = {} /\ ~ debris /\ head.rev \in Files
        BY <1>1, <1>3, ReadableClean DEF NoTempFile, LoadSaved, Readable, DirectoryInv, Committed
    <2>2. file[head.rev] \in Report /\ head.rev \in Revision
        BY <1>1, <2>1 DEF Files
    <2>3. /\ mine'[p] = head.rev /\ work'[p] = file[head.rev]
          /\ pc'[p] = IF file[head.rev].analysis \in Final THEN "answer" ELSE "analyze"
          /\ UNCHANGED <<file, head, temps, debris>> /\ head.rev # NoRev
        BY <1>1, <1>3 DEF LoadSaved, Hold, storeVars
    <2>4. Uncommitted' = {}
        BY <2>1, <2>3, DirectorySame
    <2>5. QED
        BY <2>1, <2>2, <2>3, <2>4, FinalAnalysis DEF SameFrozen
<1>4. CASE LoadForQuery(p)
    <2>1. temps = {} /\ ~ debris
        BY <1>1, <1>4, ReadableClean DEF NoTempFile, LoadForQuery, Readable
    <2>2. /\ pc'[p] = "query" /\ wanted'[p] = head.rev
          /\ UNCHANGED <<head, temps, debris>>
        BY <1>1, <1>4 DEF LoadForQuery, storeVars
    <2>3. QED
        BY <2>1, <2>2
<1>5. CASE \E e \in Evidence : Query(p, e)
    <2>1. PICK e \in Evidence : Query(p, e)
        BY <1>5
    <2>2. /\ pc'[p] = "create" /\ wanted' = wanted /\ UNCHANGED <<head, temps, debris>>
          /\ work'[p] = [evidence |-> e, prev |-> NoRev, analysis |-> "pending"]
        BY <1>1, <2>1 DEF Query, storeVars
    <2>3. Draft(work'[p])
        BY <2>2 DEF Draft, Report, Analysis
    <2>4. wanted[p] = head.rev /\ temps \subseteq {p} /\ ~ debris
        BY <1>1, <2>1 DEF Query
    <2>5. QED
        BY <2>2, <2>3, <2>4 DEF Draft
<1>6. CASE \E r \in Revision : Create(p, r)
    <2>1. PICK r \in Revision : Create(p, r)
        BY <1>6
    <2>2. Uncommitted = {} /\ temps = {} /\ ~ debris /\ Cardinality(Files) = head.count
        BY <1>1, <2>1, ReadableClean DEF NoTempFile, Create, Readable
    <2>3. Draft(work[p]) /\ wanted[p] = head.rev
        BY <1>1, <2>1 DEF Create
    <2>4. /\ pc'[p] = "stage" /\ wanted' = wanted /\ UNCHANGED <<file, head, temps, debris>>
          /\ mine'[p] = r /\ file[r] = NoReport
          /\ work'[p] = [work[p] EXCEPT !.prev = head.rev]
          /\ count'[p] = head.count + 1
        BY <1>1, <2>1, <2>2 DEF Create, Hold, storeVars
    <2>5. Draft(work'[p]) /\ work'[p].prev = head.rev
        BY <1>1, <2>3, <2>4 DEF Draft, Report, TypeOK, StoreTypeOK
    <2>6. Uncommitted' = {}
        BY <2>2, <2>4, DirectorySame
    <2>7. QED
        BY <2>2, <2>3, <2>4, <2>5, <2>6 DEF Draft
<1>7. CASE Stage(p) \/ Unstage(p)
    <2>1. /\ UNCHANGED <<file, head, wanted, mine, work, count>>
          /\ temps' \subseteq temps \cup {p} /\ debris' = debris
          /\ \/ pc[p] = "stage" /\ pc'[p] = "link"
             \/ pc[p] = "stageHead" /\ pc'[p] = "commit"
             \/ pc[p] = "stageWork" /\ pc'[p] = "rewrite"
             \/ pc[p] = "drop" /\ pc'[p] = "stageHead"
        BY <1>1, <1>7 DEF Stage, Unstage, WriteTemp, DropTemp
    <2>2. Uncommitted' = Uncommitted
        BY <2>1, DirectorySame
    <2>3. QED
        BY <1>1, <2>1, <2>2
<1>8. CASE Link(p)
    <2>1. /\ pc[p] = "link" /\ pc'[p] = "drop"
          /\ UNCHANGED <<head, temps, debris, wanted, mine, work, count>>
        BY <1>1, <1>8 DEF Link
    <2>2. file'[mine[p]] = work[p]
        BY <1>1, <1>8, LinkEffect DEF IInv
    <2>3. QED
        BY <1>1, <1>8, <2>1, <2>2, LinkEffect
<1>9. CASE CommitHead(p)
    <2>1. /\ pc[p] = "commit" /\ pc'[p] = "analyze"
          /\ UNCHANGED <<file, mine, work, debris>> /\ temps' = temps \ {p}
        BY <1>1, <1>9 DEF CommitHead, ReplaceHead
    <2>2. head'.rev = mine[p]
        BY <1>9, CommitEffect
    <2>3. QED
        BY <1>1, <1>9, <2>1, <2>2, CommitEffect, FinalAnalysis DEF SameFrozen, Draft
<1>10. CASE Analyze(p)
    <2>1. PICK x \in Outcomes(work[p]) : work' = [work EXCEPT ![p].analysis = x]
        BY <1>10 DEF Analyze
    <2>2. /\ pc[p] = "analyze" /\ pc'[p] = "update"
          /\ UNCHANGED <<file, head, temps, debris, mine>>
        BY <1>1, <1>10 DEF Analyze, storeVars
    <2>3. work'[p] = [work[p] EXCEPT !.analysis = x] /\ work[p] \in Report
        BY <1>1, <2>1, <2>2
    <2>4. work'[p] \in Report /\ Analysed(work'[p])
        BY <2>3, OutcomesTypes
    <2>5. SameFrozen(work'[p], file[head.rev])
        BY <1>1, <2>2, <2>3 DEF SameFrozen, Report
    <2>6. Uncommitted' = Uncommitted
        BY <2>2, DirectorySame
    <2>7. QED
        BY <1>1, <2>2, <2>4, <2>5, <2>6 DEF SameFrozen, Analysed
<1>11. CASE Update(p)
    <2>1. /\ pc[p] = "update" /\ pc'[p] = "stageWork"
          /\ UNCHANGED <<file, head, temps, debris, mine, work>>
        BY <1>1, <1>11 DEF Update, storeVars
    <2>2. Uncommitted' = Uncommitted
        BY <2>1, DirectorySame
    <2>3. QED
        BY <1>1, <2>1, <2>2 DEF SameFrozen, Analysed
<1>12. CASE Rewrite(p)
    <2>1. /\ pc[p] = "rewrite" /\ pc'[p] = "answer" /\ UNCHANGED <<head, mine, work, debris>>
          /\ temps' = temps \ {p}
        BY <1>1, <1>12 DEF Rewrite, ReplaceFile
    <2>2. QED
        BY <1>1, <1>12, <2>1, RewriteEffect DEF Analysed
<1>13. CASE \/ \E r \in Revision \cup {NoRev} : Acquire(p, r)
            \/ Answer(p) \/ Fail(p) \/ CheckLock(p) \/ Unlink(p) \/ Crash(p)
    BY <1>1, <1>2, <1>13 DEF Acquire, Answer, Fail, CheckLock, Unlink, Crash, Leave
<1>14. QED
    BY <1>3, <1>4, <1>5, <1>6, <1>7, <1>8, <1>9, <1>10, <1>11, <1>12, <1>13 DEF Step

-----------------------------------------------------------------------------
(* The invariant *)

LEMMA InitInvariant == Init => IInv
<1> SUFFICES ASSUME Init PROVE IInv
    OBVIOUS
<1>1. TypeOK
    BY DEF Init, StoreInit, TypeOK, StoreTypeOK
<1>2. SessionInv /\ \A p \in Proc : Local(p)
    BY IdleLocal DEF Init, SessionInv
<1>3. Files = {} /\ Committed = {}
    BY DEF Init, StoreInit, Files, Committed
<1>4. DirectoryInv /\ AnswersStand
    BY <1>3, FS_EmptySet DEF Init, StoreInit, DirectoryInv, AnswersStand
<1>5. QED
    BY <1>1, <1>2, <1>4 DEF IInv

LEMMA IdleLocalPrimed ==
    ASSUME NEW q \in Proc, pc'[q] = "idle" PROVE Local(q)'
BY DEF Local, Requested, Linking, Linked, Analysing, Committing, Session

\* The lock removed by the operator belonged to no running session.
LEMMA ClearInvariant ==
    ASSUME IInv, ClearStaleLock PROVE IInv'
<1>1. UNCHANGED <<file, head, temps, debris, pc, wanted, mine, work, count, answered>>
    BY DEF ClearStaleLock, sessionVars
<1>2. \A p \in Proc : pc[p] = "idle"
    BY StoreAssumption DEF IInv, SessionInv, ClearStaleLock, At
<1>3. TypeOK'
    BY <1>1 DEF IInv, TypeOK, StoreTypeOK, ClearStaleLock, RemoveLock
<1>4. SessionInv' /\ \A p \in Proc : Local(p)'
    BY <1>1, <1>2, IdleLocalPrimed DEF SessionInv
<1>5. DirectoryInv' /\ AnswersStand'
    BY <1>1, DirectorySame DEF IInv, DirectoryInv, AnswersStand
<1>6. QED
    BY <1>3, <1>4, <1>5 DEF IInv

LEMMA StutterInvariant ==
    ASSUME IInv, UNCHANGED vars PROVE IInv'
<1>1. UNCHANGED <<lock, file, head, temps, debris, pc, wanted, mine, work, count, answered>>
    BY DEF vars, storeVars, sessionVars
<1>2. Files' = Files /\ Committed' = Committed /\ Uncommitted' = Uncommitted
    BY <1>1, DirectorySame
<1>3. TypeOK' /\ SessionInv' /\ DirectoryInv' /\ AnswersStand'
    BY <1>1, <1>2 DEF IInv, TypeOK, StoreTypeOK, SessionInv, DirectoryInv, AnswersStand
<1>4. \A p \in Proc : Local(p)'
    BY <1>1, <1>2 DEF IInv, Local, Requested, Linking, Linked, Analysing, Current,
                      Committing
<1>5. QED
    BY <1>3, <1>4 DEF IInv

\* The inductive invariant: the lock owner is the only writer, HEAD counts the
\* committed revisions, and each session knows what stage of a write it is in.
THEOREM CasesInvariant == Spec => []IInv
<1>1. IInv /\ [Next]_vars => IInv'
    <2> SUFFICES ASSUME IInv, [Next]_vars PROVE IInv'
        OBVIOUS
    <2>1. CASE \E p \in Proc : Step(p)
        <3>1. PICK p \in Proc : Step(p)
            BY <2>1
        <3>2. TypeOK /\ SessionInv
            BY DEF IInv
        <3>3. TypeOK' /\ SessionInv' /\ DirectoryInv' /\ AnswersStand' /\ Local(p)'
            BY <3>1, <3>2, StepTypes, StepSession, StepDirectory, StepAnswers, StepLocal
        <3>4. \A q \in Proc : Local(q)'
            BY <3>1, <3>2, <3>3, OthersIdle, IdleLocalPrimed
        <3>5. QED
            BY <3>3, <3>4 DEF IInv
    <2>2. QED
        BY <2>1, ClearInvariant, StutterInvariant DEF Next
<1>2. QED
    BY <1>1, InitInvariant, PTL DEF Spec

\* Lock, files, HEAD and the sessions' variables keep their types.
THEOREM CasesTypes == Spec => []TypeOK
<1>1. IInv => TypeOK
    BY DEF IInv
<1>2. QED
    BY <1>1, CasesInvariant, PTL

\* No answer reports a pending analysis, loses its revision or is contradicted
\* by a later conclusion of the same revision.
THEOREM AnswersSafety == Spec => []AnswersStand
<1>1. IInv => AnswersStand
    BY DEF IInv
<1>2. QED
    BY <1>1, CasesInvariant, PTL

-----------------------------------------------------------------------------
(* What a step may never do *)

\* Only the three writes change a revision or HEAD.
LEMMA Writers ==
    ASSUME [Next]_vars
    PROVE  \/ UNCHANGED <<file, head>>
           \/ \E p \in Proc : Link(p) \/ CommitHead(p) \/ Rewrite(p)
<1>1. CASE \E p \in Proc : Step(p)
    BY <1>1, OtherStepsKeep
<1>2. CASE ClearStaleLock \/ UNCHANGED vars
    BY <1>2 DEF ClearStaleLock, vars, storeVars
<1>3. QED
    BY <1>1, <1>2 DEF Next

\* While a session writes, there is no residue of another one.
LEMMA NoResidue ==
    ASSUME IInv, NEW p \in Proc, Link(p) \/ CommitHead(p) \/ Rewrite(p)
    PROVE  ~ Residue
<1>1. pc[p] \in {"link", "commit", "rewrite"} /\ ~ debris
    BY DEF Link, CommitHead, Rewrite, At, IInv, Local, Requested, Session
<1>2. CASE Link(p) \/ Rewrite(p)
    <2>1. Uncommitted = {}
        BY <1>2 DEF Link, Rewrite, At, IInv, Local, Linking, Analysing, Current
    <2>2. QED
        BY <1>1, <2>1 DEF Residue
<1>3. CASE CommitHead(p)
    <2>1. Uncommitted = {mine[p]} /\ Committing(p)
        BY <1>3, CommitEffect DEF CommitHead, Committing, At
    <2>2. QED
        BY <1>1, <2>1 DEF Residue
<1>4. QED
    BY <1>2, <1>3

\* After a crash or a failed call left an orphan or a temporary file, nothing more
\* is written, by any process.
THEOREM ClosedAfterCrash == Spec => FailsClosed
<1>1. IInv /\ [Next]_vars => [Residue => UNCHANGED <<file, head>>]_vars
    BY Writers, NoResidue
<1>2. QED
    BY <1>1, CasesInvariant, PTL DEF Spec, FailsClosed

\* Conclusions and superseded revisions are never written again.
THEOREM ConclusionFinality == Spec => FirstConclusionKept
<1> DEFINE Kept == \A r \in Files :
                      file[r].analysis \in Final \/ (r \in Committed /\ r # head.rev)
                         => file'[r] = file[r]
<1>1. ASSUME IInv, [Next]_vars PROVE Kept
    <2>1. file \in [Revision -> Report \cup {NoReport}] /\ Files \subseteq Revision
        BY <1>1 DEF IInv, TypeOK, StoreTypeOK, Files
    <2>2. ASSUME NEW p \in Proc, Link(p) PROVE Kept
        BY <1>1, <2>1, <2>2, LinkEffect
    <2>3. ASSUME NEW p \in Proc, CommitHead(p) PROVE Kept
        BY <1>1, <2>3, CommitEffect
    <2>4. ASSUME NEW p \in Proc, Rewrite(p) PROVE Kept
        BY <1>1, <2>1, <2>4, RewriteEffect
    <2>5. QED
        BY <1>1, <2>2, <2>3, <2>4, Writers
<1>2. IInv /\ [Next]_vars => [Kept]_vars
    BY <1>1
<1>3. QED
    BY <1>2, CasesInvariant, PTL DEF Spec, FirstConclusionKept

\* HEAD moves on only from the revision the requester named.
THEOREM NoStaleRefresh == Spec => SupersedesWhatWasSeen
<1> DEFINE Seen == head' # head => \E p \in Proc : At(p, "commit") /\ wanted[p] = head.rev
<1>1. ASSUME IInv, [Next]_vars PROVE Seen
    <2>1. ASSUME NEW p \in Proc, CommitHead(p) PROVE Seen
        BY <1>1, <2>1 DEF CommitHead, At, IInv, Local, Requested
    <2>2. ASSUME NEW p \in Proc, Link(p) \/ Rewrite(p) PROVE Seen
        BY <2>2 DEF Link, Rewrite
    <2>3. QED
        BY <1>1, <2>1, <2>2, Writers
<1>2. IInv /\ [Next]_vars => [Seen]_vars
    BY <1>1
<1>3. QED
    BY <1>2, CasesInvariant, PTL DEF Spec, SupersedesWhatWasSeen

-----------------------------------------------------------------------------
(* The case implements EvidenceLedger *)

\* The ledger a directory stands for: the committed reports.
Entry == [r \in Revision |-> IF r \in Committed THEN file[r] ELSE NoReport]

LEMMA LedgerInit == Init => Ledger!Init
<1>1. ASSUME Init PROVE Committed = {}
    BY <1>1 DEF Init, StoreInit, Files, Committed
<1>2. QED
    BY <1>1 DEF Init, StoreInit, Ledger!Init

\* Moving HEAD appends the linked revision to the ledger.
LEMMA CommitAppends ==
    ASSUME IInv, NEW p \in Proc, CommitHead(p)
    PROVE  \E r \in Revision, e \in Evidence : Ledger!Append(r, e)
<1>1. /\ mine[p] \in Revision /\ mine[p] \in Files /\ mine[p] \notin Committed
      /\ Files = Committed \cup {mine[p]}
    BY CommitEffect DEF Files, Uncommitted, Committed
<1>2. file[mine[p]] \in Report /\ file[mine[p]].analysis = "pending"
    BY CommitEffect DEF Draft
<1>3. file[mine[p]].prev = head.rev
    BY <1>1 DEF Committed
<1>4. /\ file[mine[p]].evidence \in Evidence
      /\ file[mine[p]] = [evidence |-> file[mine[p]].evidence, prev |-> head.rev,
                          analysis |-> "pending"]
    BY <1>2, <1>3 DEF Report
<1>5. Entry[mine[p]] = NoReport
    BY <1>1 DEF Entry
<1>6. Entry' = [Entry EXCEPT ![mine[p]] = file[mine[p]]]
    BY <1>1, CommitEffect DEF Entry
<1>7. head'.rev = mine[p] /\ answered' = answered
    BY CommitEffect DEF CommitHead
<1>8. PICK r \in Revision, e \in Evidence :
          r = mine[p] /\ e = file[mine[p]].evidence
    BY <1>1, <1>4
<1>9. Ledger!Append(r, e)
    BY <1>4, <1>5, <1>6, <1>7, <1>8 DEF Ledger!Append, Entry
<1>10. QED
    BY <1>9

\* Rewriting the current revision is the ledger's analysis.
LEMMA RewriteAnalyses ==
    ASSUME IInv, NEW p \in Proc, Rewrite(p)
    PROVE  \E x \in Ledger!Final \cup {"unavailable"} : Ledger!Analyse(x)
<1>1. /\ head.rev \in Committed /\ head.rev \in Files /\ head.rev \in Revision
      /\ file \in [Revision -> Report \cup {NoReport}]
    BY RewriteEffect DEF Committed, Files, IInv, TypeOK, StoreTypeOK
<1>2. /\ work[p] \in Report /\ SameFrozen(work[p], file[head.rev]) /\ Analysed(work[p])
      /\ file[head.rev].analysis \notin Final /\ head'.rev = head.rev
      /\ file' = [file EXCEPT ![head.rev] = work[p]] /\ Committed' = Committed
    BY RewriteEffect
<1>3. file[head.rev] \in Report
    BY <1>1 DEF Files
<1>4. PICK x \in Final \cup {"unavailable"} : x = work[p].analysis
    BY <1>2 DEF Report, Analysis, Analysed
<1>5. work[p] = [file[head.rev] EXCEPT !.analysis = x]
    BY <1>2, <1>3, <1>4 DEF Report, SameFrozen
<1>6. Entry[head.rev] = file[head.rev]
    BY <1>1 DEF Entry
<1>7. Entry' = [Entry EXCEPT ![head.rev] = work[p]]
    BY <1>1, <1>2 DEF Entry
<1>8. Entry' = [Entry EXCEPT ![head.rev].analysis = x]
    BY <1>5, <1>6, <1>7
<1>9. (x = "no_data") <=> (file[head.rev].evidence \in Empty)
    BY <1>2, <1>4 DEF Analysed, SameFrozen
<1>10. head.rev # NoRev /\ answered' = answered
    BY <1>1, StoreAssumption DEF Rewrite
<1>11. Ledger!Analyse(x)
    BY <1>2, <1>6, <1>8, <1>9, <1>10 DEF Ledger!Analyse, Ledger!Final, Final, Entry
<1>12. x \in Ledger!Final \cup {"unavailable"}
    BY DEF Ledger!Final, Final
<1>13. QED
    BY <1>11, <1>12

\* An answer is the stored report of the latest revision.
LEMMA AnswerAnswers ==
    ASSUME IInv, NEW p \in Proc, Answer(p)
    PROVE  Ledger!Answer
<1>1. /\ head.rev # NoRev /\ mine[p] = head.rev
      /\ work[p] = file[head.rev] /\ work[p].analysis # "pending"
    BY DEF IInv, Local, Analysing, Current, Answer, At
<1>2. head.rev \in Committed /\ head.rev \in Revision
    BY <1>1 DEF IInv, DirectoryInv, Committed, Files
<1>3. Entry[head.rev] = work[p]
    BY <1>1, <1>2 DEF Entry
<1>4. UNCHANGED <<file, head>>
    BY DEF Answer, storeVars
<1>5. Entry' = Entry
    BY <1>4, DirectorySame DEF Entry
<1>6. answered' = answered \cup {[rev |-> head.rev, analysis |-> work[p].analysis]}
    BY <1>1 DEF Answer
<1>7. QED
    BY <1>1, <1>3, <1>4, <1>5, <1>6 DEF Ledger!Answer, Entry

LEMMA LinkStutters ==
    ASSUME IInv, NEW p \in Proc, Link(p)
    PROVE  UNCHANGED Ledger!vars
<1>1. \A r \in Committed : file'[r] = file[r]
    BY LinkEffect DEF IInv, TypeOK, StoreTypeOK, Files, Committed
<1>2. Entry' = Entry
    BY <1>1, LinkEffect DEF Entry
<1>3. QED
    BY <1>2 DEF Link, Ledger!vars, Entry

LEMMA NextKeepsLedger ==
    ASSUME IInv, [Next]_vars
    PROVE  [Ledger!Next]_(Ledger!vars)
<1>1. CASE \E p \in Proc : Step(p)
    <2>1. PICK p \in Proc : Step(p)
        BY <1>1
    <2>2. CASE CommitHead(p)
        BY <2>2, CommitAppends DEF Ledger!Next
    <2>3. CASE Rewrite(p)
        BY <2>3, RewriteAnalyses DEF Ledger!Next
    <2>4. CASE Answer(p)
        BY <2>4, AnswerAnswers DEF Ledger!Next
    <2>5. CASE Link(p)
        BY <2>5, LinkStutters
    <2>6. CASE UNCHANGED <<file, head, answered>>
        BY <2>6, DirectorySame DEF Ledger!vars
    <2>7. QED
        BY <2>1, <2>2, <2>3, <2>4, <2>5, <2>6, OtherStepsKeep, OnlyAnswerAnswers
<1>2. CASE ClearStaleLock \/ UNCHANGED vars
    <2>1. UNCHANGED <<file, head, answered>>
        BY <1>2 DEF ClearStaleLock, vars, storeVars
    <2>2. QED
        BY <2>1, DirectorySame DEF Ledger!vars
<1>3. QED
    BY <1>1, <1>2 DEF Next

\* Sessions over files, with crashes, implement the append-only ledger.
THEOREM LedgerRefinement == Spec => KeepsLedger
<1>1. QED
    BY LedgerInit, CasesInvariant, NextKeepsLedger, PTL
    DEF Spec, KeepsLedger, Ledger!Spec

-----------------------------------------------------------------------------
(* The chain *)

\* Behind HEAD the walk follows the links, and stays at NoRev once it is there.
WalkFollows ==
    /\ Walk[0] = head.rev
    /\ \A i \in Nat : Walk[i + 1] = IF Walk[i] \in Files THEN file[Walk[i]].prev
                                    ELSE NoRev

LEMMA WalkSteps == StoreTypeOK => WalkFollows
<1> SUFFICES ASSUME StoreTypeOK PROVE WalkFollows
    OBVIOUS
<1> DEFINE Ids == Revision \cup {NoRev}
           back == [x \in Nat \X Ids |->
                       IF x[2] \in Files THEN file[x[2]].prev ELSE NoRev]
           IsWalk(w) == w = [i \in Nat |->
                                IF i = 0 THEN head.rev
                                ELSE IF w[i - 1] \in Files THEN file[w[i - 1]].prev
                                     ELSE NoRev]
<1>1. back \in [Nat \X Ids -> Ids] /\ head.rev \in Ids
    BY DEF StoreTypeOK, Files, Report
<1>2. PICK w \in [Nat -> Ids] : Recurs(w, head.rev, back)
    <2> HIDE DEF Ids, back
    <2>1. QED
        BY <1>1, NatRecursion
<1>3. ASSUME NEW i \in Nat, i # 0
      PROVE  w[i] = IF w[i - 1] \in Files THEN file[w[i - 1]].prev ELSE NoRev
    <2>1. i - 1 \in Nat /\ (i - 1) + 1 = i
        BY <1>3
    <2>2. w[i] = back[<<i - 1, w[i - 1]>>]
        BY <1>2, <2>1 DEF Recurs
    <2>3. QED
        BY <2>1, <2>2
<1>4. IsWalk(w)
    BY <1>2, <1>3 DEF Recurs
<1>5. Walk = CHOOSE v : IsWalk(v)
    BY DEF Walk
<1>6. IsWalk(Walk)
    <2> HIDE DEF IsWalk
    <2>1. QED
        BY <1>4, <1>5
<1>7. QED
    BY <1>6 DEF WalkFollows

LEMMA WalkStepsNext == StoreTypeOK' => WalkFollows'
BY WalkSteps, PTL

\* A case directory holds at most MaxRevisions files, and HEAD reaches what is
\* committed: every such file once, and then the end of the chain.
ChainInv ==
    /\ Cardinality(Files) <= MaxRevisions
    /\ \A p \in Proc : pc[p] \in {"stage", "link"} => Cardinality(Files) < MaxRevisions
    /\ Chain = Committed
    /\ Walk[head.count] = NoRev

\* As long as HEAD stays and the committed links do, the walk is the same.
LEMMA WalkStays ==
    ASSUME StoreTypeOK, StoreTypeOK', UNCHANGED head, Chain \subseteq Files,
           \A r \in Chain : r \in Files' /\ file'[r].prev = file[r].prev
    PROVE  Chain' = Chain /\ Walk'[head.count] = Walk[head.count]
<1>1. WalkFollows /\ WalkFollows' /\ head.count \in Nat
    BY WalkSteps, WalkStepsNext DEF StoreTypeOK
<1> DEFINE Same == {i \in Nat : i <= head.count => Walk'[i] = Walk[i]}
<1>2. 0 \in Same
    BY <1>1 DEF WalkFollows
<1>3. ASSUME NEW i \in Nat, i \in Same PROVE i + 1 \in Same
    <2>1. CASE i + 1 <= head.count
        <3>1. Walk'[i] = Walk[i] /\ i \in 0..(head.count - 1)
            BY <1>1, <1>3, <2>1
        <3>2. Walk[i] \in Chain
            BY <3>1 DEF Chain
        <3>3. QED
            BY <1>1, <3>1, <3>2 DEF WalkFollows
    <2>2. QED
        BY <2>1
<1> HIDE DEF Same
<1>4. Nat \subseteq Same
    BY <1>2, <1>3, NatSetInduction
<1>5. \A i \in 0..head.count : Walk'[i] = Walk[i]
    BY <1>1, <1>4 DEF Same
<1>6. \A i \in 0..(head.count - 1) : i \in 0..head.count
    BY <1>1
<1>7. QED
    BY <1>1, <1>5, <1>6 DEF Chain

\* HEAD moved to a revision linked to the old one walks one step more.
LEMMA WalkShifts ==
    ASSUME StoreTypeOK, StoreTypeOK', UNCHANGED file, NEW r \in Files,
           file[r].prev = head.rev, head' = [rev |-> r, count |-> head.count + 1]
    PROVE  Chain' = Chain \cup {r} /\ Walk'[head'.count] = Walk[head.count]
<1>1. /\ WalkFollows /\ WalkFollows' /\ Files' = Files
      /\ head.count \in Nat /\ head'.rev = r /\ head'.count = head.count + 1
    BY WalkSteps, WalkStepsNext DEF StoreTypeOK, Files
<1> DEFINE Shifted == {i \in Nat : Walk'[i + 1] = Walk[i]}
<1>2. Walk'[0] = r /\ 0 \in Shifted
    <2>1. Walk'[0] = r /\ Walk[0] = head.rev
        BY <1>1 DEF WalkFollows
    <2>2. Walk'[0 + 1] = head.rev
        BY <1>1, <2>1 DEF WalkFollows
    <2>3. QED
        BY <2>1, <2>2
<1>3. ASSUME NEW i \in Nat, i \in Shifted PROVE i + 1 \in Shifted
    <2>1. i + 1 \in Nat /\ Walk'[i + 1] = Walk[i]
        BY <1>3
    <2>2. QED
        BY <1>1, <2>1 DEF WalkFollows
<1> HIDE DEF Shifted
<1>4. \A i \in Nat : Walk'[i + 1] = Walk[i]
    <2>1. Nat \subseteq Shifted
        BY <1>2, <1>3, NatSetInduction
    <2>2. QED
        BY <2>1 DEF Shifted
<1>5. Chain' \subseteq Chain \cup {r}
    <2> SUFFICES ASSUME NEW i \in 0..head.count PROVE Walk'[i] \in Chain \cup {r}
        BY <1>1 DEF Chain
    <2>1. CASE i = 0
        BY <1>2, <2>1
    <2>2. CASE i # 0
        <3>1. i - 1 \in 0..(head.count - 1) /\ i - 1 \in Nat /\ (i - 1) + 1 = i
            BY <1>1, <2>2
        <3>2. QED
            BY <1>4, <3>1 DEF Chain
    <2>3. QED
        BY <2>1, <2>2
<1>6. r \in Chain'
    <2>1. 0 \in 0..(head'.count - 1)
        BY <1>1
    <2>2. QED
        BY <1>2, <2>1 DEF Chain
<1>7. Chain \subseteq Chain'
    <2> SUFFICES ASSUME NEW i \in 0..(head.count - 1) PROVE Walk[i] \in Chain'
        BY DEF Chain
    <2>1. i \in Nat /\ i + 1 \in 0..(head'.count - 1) /\ Walk[i] = Walk'[i + 1]
        BY <1>1, <1>4
    <2>2. QED
        BY <2>1 DEF Chain
<1>8. QED
    BY <1>1, <1>4, <1>5, <1>6, <1>7

LEMMA ChainInit == Init => ChainInv
<1> SUFFICES ASSUME Init PROVE ChainInv
    OBVIOUS
<1>1. StoreTypeOK /\ Files = {} /\ Committed = {}
    BY DEF Init, StoreInit, StoreTypeOK, Files, Committed
<1>2. head.count = 0 /\ head.rev = NoRev
    BY DEF Init, StoreInit
<1>3. 0..(head.count - 1) = {}
    BY <1>2
<1>4. Chain = {}
    BY <1>3 DEF Chain
<1>5. Walk[head.count] = NoRev
    BY <1>1, <1>2, WalkSteps DEF WalkFollows
<1>6. \A p \in Proc : pc[p] = "idle"
    BY DEF Init
<1>7. QED
    BY <1>1, <1>4, <1>5, <1>6, FS_EmptySet, StoreAssumption DEF ChainInv

\* The number of files grows only by the link of a session that found room,
\* and whoever is about to link found it.
LEMMA StepRoom ==
    ASSUME IInv, IInv', ChainInv, NEW p \in Proc, Step(p)
    PROVE  /\ Cardinality(Files') <= MaxRevisions
           /\ \A q \in Proc : pc'[q] \in {"stage", "link"}
                                 => Cardinality(Files') < MaxRevisions
<1>1. /\ pc \in [Proc -> Session \cup {"idle"}]
      /\ Cardinality(Files) \in Nat /\ MaxRevisions \in Nat
    BY FilesFinite, FS_CardinalityType, StoreAssumption DEF IInv, TypeOK
<1>2. \A q \in Proc \ {p} : pc'[q] = "idle"
    BY OthersIdle DEF IInv
<1>3. CASE Link(p)
    <2>1. pc[p] = "link" /\ pc'[p] = "drop"
        BY <1>1, <1>3 DEF Link, At, GoTo
    <2>2. Cardinality(Files') = Cardinality(Files) + 1
        BY <1>3, LinkEffect, FilesFinite, FS_AddElement, SMTT(60)
    <2>3. Cardinality(Files) < MaxRevisions
        BY <2>1 DEF ChainInv
    <2>4. QED
        BY <1>1, <1>2, <2>1, <2>2, <2>3
<1>4. CASE ~ Link(p)
    <2>1. Files' = Files
        BY <1>4, CommitEffect, RewriteEffect, OtherStepsKeep, DirectorySame
    <2>2. pc'[p] \in {"stage", "link"} =>
              pc[p] = "stage" \/ \E r \in Revision : Create(p, r)
        BY <1>1, <1>4 DEF Step, Acquire, LoadSaved, LoadForQuery, Query, Stage, Unstage,
              CommitHead, Analyze, Update, Rewrite, Answer, Fail, CheckLock, Unlink,
              Crash, Leave, GoTo, At
    <2>3. (\E r \in Revision : Create(p, r)) => Cardinality(Files) < MaxRevisions
        BY DEF Create
    <2>4. QED
        BY <1>2, <2>1, <2>2, <2>3 DEF ChainInv
<1>5. QED
    BY <1>3, <1>4

LEMMA StepChain ==
    ASSUME IInv, IInv', ChainInv, NEW p \in Proc, Step(p)
    PROVE  Chain' = Committed' /\ Walk'[head'.count] = NoRev
<1>1. /\ StoreTypeOK /\ StoreTypeOK' /\ file \in [Revision -> Report \cup {NoReport}]
      /\ Chain = Committed /\ Walk[head.count] = NoRev
      /\ Committed \subseteq Files /\ Files \subseteq Revision
    BY DEF IInv, TypeOK, StoreTypeOK, ChainInv, Committed, Files
<1>2. CASE CommitHead(p)
    <2>1. /\ mine[p] \in Files /\ mine[p] \in Uncommitted /\ Committed' = Files
          /\ head' = [rev |-> mine[p], count |-> head.count + 1] /\ UNCHANGED file
          /\ Files = Committed \cup {mine[p]}
        BY <1>1, <1>2, CommitEffect DEF Uncommitted
    <2>2. file[mine[p]].prev = head.rev
        BY <2>1 DEF Uncommitted, Committed
    <2>3. QED
        BY <1>1, <2>1, <2>2, WalkShifts
<1>3. CASE ~ CommitHead(p)
    <2>1. UNCHANGED head /\ Committed' = Committed
        BY <1>3, LinkEffect, RewriteEffect, OtherStepsKeep, DirectorySame DEF Link
    <2>2. \A r \in Committed : r \in Files' /\ file'[r].prev = file[r].prev
        <3>1. CASE Link(p)
            BY <1>1, <3>1, LinkEffect
        <3>2. CASE Rewrite(p)
            BY <1>1, <3>2, RewriteEffect DEF SameFrozen
        <3>3. CASE UNCHANGED <<file, head>>
            BY <1>1, <3>3, DirectorySame
        <3>4. QED
            BY <1>3, <3>1, <3>2, <3>3, OtherStepsKeep
    <2>3. QED
        BY <1>1, <2>1, <2>2, WalkStays
<1>4. QED
    BY <1>2, <1>3

\* A step that touches neither files nor HEAD nor a session's place keeps it.
LEMMA ChainSame ==
    ASSUME IInv, IInv', ChainInv, UNCHANGED <<file, head, pc>>
    PROVE  ChainInv'
<1>1. StoreTypeOK /\ StoreTypeOK' /\ Committed \subseteq Files
    BY DEF IInv, TypeOK, Committed
<1>2. Files' = Files /\ Committed' = Committed
    BY DirectorySame
<1>3. Chain' = Chain /\ Walk'[head.count] = Walk[head.count]
    BY <1>1, <1>2, WalkStays DEF ChainInv
<1>4. QED
    BY <1>2, <1>3 DEF ChainInv

\* What HEAD reaches is what is committed, and there is never too much of it.
THEOREM ChainInvariant == Spec => []ChainInv
<1>1. IInv /\ IInv' /\ ChainInv /\ [Next]_vars => ChainInv'
    <2> SUFFICES ASSUME IInv, IInv', ChainInv, [Next]_vars PROVE ChainInv'
        OBVIOUS
    <2>1. CASE \E p \in Proc : Step(p)
        BY <2>1, StepRoom, StepChain DEF ChainInv
    <2>2. CASE ClearStaleLock \/ UNCHANGED vars
        <3>1. UNCHANGED <<file, head, pc>>
            BY <2>2 DEF ClearStaleLock, vars, storeVars, sessionVars
        <3>2. QED
            BY <3>1, ChainSame
    <2>3. QED
        BY <2>1, <2>2 DEF Next
<1>2. QED
    BY <1>1, ChainInit, CasesInvariant, PTL DEF Spec

\* Whatever crashed, a case directory without a temporary file and without an
\* orphan passes every check of _chain: only those two close a case.
THEOREM OnlyResidueCloses == Spec => []OnlyOrphansBlock
<1>1. ASSUME IInv, ChainInv, NoTempFile, Uncommitted = {} PROVE ChainOK
    <2>1. /\ Files = Committed /\ Chain = Files /\ Walk[head.count] = NoRev
          /\ Cardinality(Files) <= MaxRevisions /\ head.count = Cardinality(Files)
          /\ head.count \in Nat
        BY <1>1 DEF IInv, ChainInv, DirectoryInv, Uncommitted, Committed, TypeOK, StoreTypeOK
    <2>2. CASE head.rev = NoRev
        <3>1. Walk[0] = NoRev
            BY <1>1, <2>2, WalkSteps DEF WalkFollows, IInv, TypeOK
        <3>2. NoRev \notin Chain
            BY <2>1, StoreAssumption DEF Files
        <3>3. 0 \notin 0..(head.count - 1)
            BY <3>1, <3>2 DEF Chain
        <3>4. head.count = 0
            BY <2>1, <3>3
        <3>5. Files = {}
            BY <2>1, <3>4, FilesFinite, FS_EmptySet
        <3>6. QED
            BY <1>1, <2>1, <2>2, <3>5 DEF ChainOK
    <2>3. CASE head.rev # NoRev
        BY <1>1, <2>1, <2>3 DEF ChainOK
    <2>4. QED
        BY <2>2, <2>3
<1>2. IInv /\ ChainInv => OnlyOrphansBlock
    BY <1>1 DEF OnlyOrphansBlock
<1>3. QED
    BY <1>2, CasesInvariant, ChainInvariant, PTL

-----------------------------------------------------------------------------
(* Without a lock *)

\* What needs no exclusion: HEAD and the sessions name files that exist, and a
\* session about to rewrite one holds its frozen fields.
Holding(p) ==
    /\ pc[p] \in {"stage", "link"} => mine[p] \in Revision
    /\ Committing(p) \/ pc[p] \in {"analyze", "update", "stageWork", "rewrite", "answer"}
          => mine[p] \in Files
    /\ Committing(p) \/ pc[p] \in {"create", "stage", "link", "analyze", "update",
                                   "stageWork", "rewrite"}
          => work[p] \in Report
    /\ pc[p] \in {"stageWork", "rewrite"} => SameFrozen(work[p], file[mine[p]])

FrozenInv ==
    /\ pc \in [Proc -> Session \cup {"idle"}]
    /\ mine \in [Proc -> Revision \cup {NoRev}]
    /\ work \in [Proc -> Report \cup {NoReport}]
    /\ file \in [Revision -> Report \cup {NoReport}]
    /\ head.rev \in Files \cup {NoRev}
    /\ \A p \in Proc : Holding(p)
    /\ \A a \in answered : a.rev \in Files

\* The evidence and the link of every file that exists.
Frozen == \A r \in Files : r \in Files' /\ SameFrozen(file[r], file'[r])

LEMMA StepFrozen ==
    ASSUME FrozenInv, NEW p \in Proc, Step(p)
    PROVE  Frozen
<1>1. CASE Link(p)
    <2>1. file[mine[p]] = NoReport /\ file' = [file EXCEPT ![mine[p]] = work[p]]
        BY <1>1 DEF Link, LinkFile
    <2>2. QED
        BY <2>1 DEF Frozen, Files, SameFrozen, FrozenInv
<1>2. CASE Rewrite(p)
    <2>1. /\ mine[p] \in Files /\ work[p] \in Report
          /\ SameFrozen(work[p], file[mine[p]])
          /\ file' = [file EXCEPT ![mine[p]] = work[p]]
        BY <1>2 DEF FrozenInv, Holding, Rewrite, ReplaceFile, At
    <2>2. work[p] # NoReport
        BY <2>1, StoreAssumption
    <2>3. QED
        BY <2>1, <2>2 DEF Frozen, Files, SameFrozen, FrozenInv
<1>3. CASE file' = file
    BY <1>3 DEF Frozen, Files, SameFrozen
<1>4. QED
    BY <1>1, <1>2, <1>3, OtherStepsKeep DEF CommitHead

\* What another session holds is not taken from it.
LEMMA OthersHold ==
    ASSUME FrozenInv, Frozen, NEW p \in Proc, Step(p), NEW q \in Proc \ {p}
    PROVE  Holding(q)'
<1>1. pc'[q] = pc[q] /\ mine'[q] = mine[q] /\ work'[q] = work[q]
    BY DEF FrozenInv, Step, Acquire, GoTo, LoadSaved, LoadForQuery, Query, Create,
           Hold, Stage, Link, Unstage, CommitHead, Analyze, Update, Rewrite, Answer,
           Fail, CheckLock, Unlink, Crash, Leave
<1>2. Holding(q)
    BY DEF FrozenInv
<1>3. QED
    BY <1>1, <1>2 DEF Frozen, Holding, SameFrozen, Committing

LEMMA MoverHolds ==
    ASSUME FrozenInv, Frozen, NEW p \in Proc, Step(p)
    PROVE  /\ Holding(p)'
           /\ work'[p] \in Report \cup {NoReport}
<1> USE DEF Holding, Committing, GoTo, At
<1>1. /\ Holding(p)
      /\ pc \in [Proc -> Session \cup {"idle"}]
      /\ mine \in [Proc -> Revision \cup {NoRev}]
      /\ work \in [Proc -> Report \cup {NoReport}]
      /\ file \in [Revision -> Report \cup {NoReport}]
      /\ head.rev \in Files \cup {NoRev} /\ Files \subseteq Revision
    BY DEF FrozenInv, Files
<1>2. CASE LoadSaved(p)
    <2>1. /\ head.rev \in Files /\ UNCHANGED file
          /\ pc'[p] \in {"answer", "analyze"}
          /\ mine'[p] = head.rev /\ work'[p] = file[head.rev]
        BY <1>1, <1>2 DEF LoadSaved, Hold, storeVars
    <2>2. file[head.rev] \in Report
        BY <1>1, <2>1 DEF Files
    <2>3. QED
        BY <2>1, <2>2 DEF Files
<1>3. CASE \E e \in Evidence : Query(p, e)
    <2>1. PICK e \in Evidence : Query(p, e)
        BY <1>3
    <2>2. /\ pc'[p] = "create"
          /\ work'[p] = [evidence |-> e, prev |-> NoRev, analysis |-> "pending"]
        BY <1>1, <2>1 DEF Query
    <2>3. work'[p] \in Report
        BY <2>2 DEF Report, Analysis
    <2>4. QED
        BY <2>2, <2>3
<1>4. CASE \E r \in Revision : Create(p, r)
    <2>1. PICK r \in Revision : Create(p, r)
        BY <1>4
    <2>2. /\ work[p] \in Report /\ pc'[p] = "stage" /\ mine'[p] = r
          /\ work'[p] = [work[p] EXCEPT !.prev = head.rev]
        BY <1>1, <2>1 DEF Create, Hold
    <2>3. work'[p] \in Report
        BY <1>1, <2>2 DEF Report
    <2>4. QED
        BY <2>2, <2>3
<1>5. CASE Link(p)
    <2>1. /\ pc[p] = "link" /\ pc'[p] = "drop" /\ UNCHANGED <<mine, work>>
          /\ file' = [file EXCEPT ![mine[p]] = work[p]]
        BY <1>1, <1>5 DEF Link, LinkFile
    <2>2. mine[p] \in Revision /\ work[p] \in Report /\ work[p] # NoReport
        BY <1>1, <2>1, StoreAssumption
    <2>3. mine[p] \in Files'
        BY <1>1, <2>1, <2>2 DEF Files
    <2>4. QED
        BY <1>1, <2>1, <2>2, <2>3
<1>6. CASE Analyze(p)
    <2>1. PICK x \in Outcomes(work[p]) : work' = [work EXCEPT ![p].analysis = x]
        BY <1>6 DEF Analyze
    <2>2. pc[p] = "analyze" /\ pc'[p] = "update" /\ UNCHANGED <<file, mine>>
        BY <1>1, <1>6 DEF Analyze, storeVars
    <2>3. work[p] \in Report /\ work'[p] = [work[p] EXCEPT !.analysis = x]
        BY <1>1, <2>1, <2>2
    <2>4. work'[p] \in Report
        BY <2>3, OutcomesTypes
    <2>5. QED
        BY <1>1, <2>2, <2>4 DEF Files
<1>7. CASE Update(p)
    <2>1. /\ pc[p] = "update" /\ pc'[p] = "stageWork" /\ UNCHANGED <<file, mine, work>>
          /\ SameFrozen(work[p], file[mine[p]])
        BY <1>1, <1>7 DEF Update, storeVars
    <2>2. QED
        BY <1>1, <2>1 DEF Files, SameFrozen
<1>8. CASE Stage(p) \/ Unstage(p) \/ CommitHead(p)
    <2>1. /\ UNCHANGED <<file, mine, work>>
          /\ \/ pc[p] = "stage" /\ pc'[p] = "link"
             \/ pc[p] = "stageHead" /\ pc'[p] = "commit"
             \/ pc[p] = "stageWork" /\ pc'[p] = "rewrite"
             \/ pc[p] = "drop" /\ pc'[p] = "stageHead"
             \/ pc[p] = "commit" /\ pc'[p] = "analyze"
        BY <1>1, <1>8 DEF Stage, Unstage, CommitHead
    <2>2. QED
        BY <1>1, <2>1 DEF Files, SameFrozen
<1>9. CASE Rewrite(p)
    <2>1. pc[p] = "rewrite" /\ pc'[p] = "answer" /\ UNCHANGED <<mine, work>>
        BY <1>1, <1>9 DEF Rewrite
    <2>2. mine[p] \in Files'
        BY <1>1, <2>1 DEF Frozen
    <2>3. QED
        BY <1>1, <2>1, <2>2
<1>10. CASE \/ \E r \in Revision \cup {NoRev} : Acquire(p, r)
            \/ LoadForQuery(p) \/ Answer(p) \/ Fail(p) \/ CheckLock(p)
            \/ Unlink(p) \/ Crash(p)
    <2>1. pc'[p] \in {"idle", "load", "query", "unlock", "unlink"}
        BY <1>1, <1>10 DEF Acquire, LoadForQuery, Answer, Fail, CheckLock, Unlink,
                           Crash, Leave
    <2>2. work'[p] = work[p] \/ work'[p] = NoReport
        BY <1>1, <1>10 DEF Acquire, LoadForQuery, Answer, Fail, CheckLock, Unlink,
                           Crash, Leave
    <2>3. QED
        BY <1>1, <2>1, <2>2
<1>11. QED
    BY <1>2, <1>3, <1>4, <1>5, <1>6, <1>7, <1>8, <1>9, <1>10 DEF Step

LEMMA FrozenTypes ==
    ASSUME FrozenInv, Frozen, NEW p \in Proc, Step(p)
    PROVE  /\ pc' \in [Proc -> Session \cup {"idle"}]
           /\ mine' \in [Proc -> Revision \cup {NoRev}]
           /\ work' \in [Proc -> Report \cup {NoReport}]
           /\ file' \in [Revision -> Report \cup {NoReport}]
           /\ head'.rev \in Files' \cup {NoRev}
<1> USE DEF FrozenInv
<1>1. pc' \in [Proc -> Session \cup {"idle"}]
    BY DEF Step, Acquire, GoTo, LoadSaved, LoadForQuery, Query, Create, Stage, Link,
           Unstage, CommitHead, Analyze, Update, Rewrite, Answer, Fail, CheckLock,
           Unlink, Crash, Leave, Session
<1>2. \/ mine' = mine
      \/ \E r \in Revision \cup {NoRev} : mine' = [mine EXCEPT ![p] = r]
    BY DEF Step, Acquire, LoadSaved, LoadForQuery, Query, Create, Hold, Stage, Link,
           Unstage, CommitHead, Analyze, Update, Rewrite, Answer, Fail, CheckLock,
           Unlink, Crash, Leave, Files
<1>3. work' \in [Proc -> Report \cup {NoReport}]
    <2>1. \E x : work' = [work EXCEPT ![p] = x]
        <3>1. CASE Analyze(p)
            BY <3>1 DEF Analyze
        <3>2. CASE ~ Analyze(p)
            <4>1. work' = work \/ \E x : work' = [work EXCEPT ![p] = x]
                BY <3>2 DEF Step, Acquire, LoadSaved, LoadForQuery, Query, Create, Hold,
                       Stage, Link, Unstage, CommitHead, Update, Rewrite, Answer,
                       Fail, CheckLock, Unlink, Crash, Leave
            <4>2. work = [work EXCEPT ![p] = work[p]]
                OBVIOUS
            <4>3. QED
                BY <4>1, <4>2
        <3>3. QED
            BY <3>1, <3>2
    <2>2. work'[p] \in Report \cup {NoReport}
        BY MoverHolds
    <2>3. QED
        BY <2>1, <2>2
<1>4. /\ file' \in [Revision -> Report \cup {NoReport}]
      /\ head'.rev \in Files \cup {NoRev}
    <2>1. CASE UNCHANGED <<file, head>>
        BY <2>1
    <2>2. CASE Link(p) \/ Rewrite(p)
        <3>1. work[p] \in Report
            BY <2>2 DEF Link, Rewrite, At, Holding
        <3>2. file' = [file EXCEPT ![mine[p]] = work[p]] /\ head' = head
            BY <2>2 DEF Link, LinkFile, Rewrite, ReplaceFile
        <3>3. QED
            BY <3>1, <3>2
    <2>3. CASE CommitHead(p)
        BY <2>3 DEF CommitHead, ReplaceHead, At, Holding, Committing
    <2>4. QED
        BY <2>1, <2>2, <2>3, OtherStepsKeep
<1>5. QED
    BY <1>1, <1>2, <1>3, <1>4 DEF Frozen

\* A session answers from a file that exists, and no file goes away.
LEMMA AnswersOnFile ==
    ASSUME FrozenInv, Frozen, NEW p \in Proc, Step(p)
    PROVE  \A a \in answered' : a.rev \in Files'
<1>1. \A a \in answered : a.rev \in Files'
    BY DEF FrozenInv, Frozen
<1>2. CASE Answer(p)
    <2>1. mine[p] \in Files'
        BY <1>2 DEF Answer, At, FrozenInv, Holding, Frozen
    <2>2. answered' = answered \cup {[rev |-> mine[p], analysis |-> work[p].analysis]}
        BY <1>2 DEF Answer
    <2>3. QED
        BY <1>1, <2>1, <2>2
<1>3. QED
    BY <1>1, <1>2, OnlyAnswerAnswers

\* The invariant of sessions whose locks may be removed under them.
THEOREM FrozenInvariant == MeddledSpec => [](FrozenInv)
<1>1. Init => FrozenInv
    BY DEF Init, StoreInit, FrozenInv, Holding, Committing, Session
<1>2. FrozenInv /\ [MeddledNext]_vars => FrozenInv'
    <2> SUFFICES ASSUME FrozenInv, [MeddledNext]_vars PROVE FrozenInv'
        OBVIOUS
    <2>1. CASE \E p \in Proc : Step(p)
        <3>1. PICK p \in Proc : Step(p)
            BY <2>1
        <3>2. Frozen
            BY <3>1, StepFrozen
        <3>3. \A q \in Proc : Holding(q)'
            BY <3>1, <3>2, MoverHolds, OthersHold
        <3>4. QED
            BY <3>1, <3>2, <3>3, FrozenTypes, AnswersOnFile DEF FrozenInv
    <2>2. CASE ClearAnyLock \/ UNCHANGED vars
        <3>1. UNCHANGED <<pc, mine, work, file, head, answered>>
            BY <2>2 DEF ClearAnyLock, vars, storeVars, sessionVars
        <3>2. QED
            BY <3>1 DEF FrozenInv, Holding, Committing, Files, SameFrozen
    <2>3. QED
        BY <2>1, <2>2 DEF MeddledNext
<1>3. QED
    BY <1>1, <1>2, PTL DEF MeddledSpec

\* No session ever changes the evidence or the link of a revision file, even
\* when locks are removed under running sessions.
THEOREM FrozenEvidence == MeddledSpec => EvidenceIsFrozen
<1>1. FrozenInv /\ [MeddledNext]_vars => [Frozen]_vars
    <2>1. ASSUME UNCHANGED file PROVE Frozen
        BY <2>1 DEF Frozen, Files, SameFrozen
    <2>2. QED
        BY <2>1, StepFrozen DEF MeddledNext, ClearAnyLock
<1>2. QED
    BY <1>1, FrozenInvariant, PTL DEF MeddledSpec, EvidenceIsFrozen, Frozen

\* However sessions overlap, a case that can still be read has every revision
\* it ever answered from in its chain: the check demands every file there.
THEOREM AnsweredOnChain == MeddledSpec => []AnsweredNeverForgotten
<1>1. FrozenInv => AnsweredNeverForgotten
    BY DEF FrozenInv, AnsweredNeverForgotten, ChainOK
<1>2. QED
    BY <1>1, FrozenInvariant, PTL

=============================================================================
