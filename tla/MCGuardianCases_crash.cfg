SPECIFICATION Spec
CONSTANTS
    Proc = {p1, p2}
    Revision = {r1, r2, r3, r4}
    Evidence = {none, some}
    Empty = {none}
    Conclusion = {c1, c2}
    MaxRevisions = 3
    NoProc = NoProc
    NoRev = NoRev
    NoReport = NoReport
SYMMETRY MCAlike
INVARIANTS
    TypeOK
    AnswersStand
    OnlyOrphansBlock
PROPERTIES
    FailsClosed
    FirstConclusionKept
    SupersedesWhatWasSeen
    KeepsLedger
