SPECIFICATION MeddledSpec
CONSTANTS
    Proc = {p1, p2}
    Revision = {r1, r2, r3}
    Evidence = {none, some}
    Empty = {none}
    Conclusion = {c1}
    MaxRevisions = 2
    NoProc = NoProc
    NoRev = NoRev
    NoReport = NoReport
SYMMETRY MCAlike
PROPERTIES
    UnlinksOwnLock
