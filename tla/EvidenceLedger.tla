---------------------------- MODULE EvidenceLedger --------------------------
(***************************************************************************)
(* What a case directory promises its readers, without lock, files or      *)
(* crashes (src/alert_reviewer/guardian_evidence_store.py, module comment; *)
(* src/docs/historical-analysis.md, the list of evidence rules): a chain   *)
(* of revisions that only grows, in which only the latest one may still    *)
(* receive its analysis, and whose first conclusion stands.                *)
(***************************************************************************)
EXTENDS Naturals

CONSTANTS Revision, Evidence, Empty, Conclusion, NoRev, NoReport

Final == Conclusion \cup {"no_data"}

VARIABLES
    entry,    \* entry[r]: the committed report of r, or NoReport
    latest,   \* the revision HEAD names, or NoRev
    answered  \* the answers given so far

vars == <<entry, latest, answered>>

Init ==
    /\ entry = [r \in Revision |-> NoReport]
    /\ latest = NoRev
    /\ answered = {}

\* Evidence is committed before it is analysed, linked to what it supersedes.
Append(r, e) ==
    /\ entry[r] = NoReport
    /\ entry' = [entry EXCEPT ![r] =
                    [evidence |-> e, prev |-> latest, analysis |-> "pending"]]
    /\ latest' = r
    /\ UNCHANGED answered

\* Only the latest revision is analysed, and only until it has a conclusion.
Analyse(x) ==
    /\ latest # NoRev
    /\ entry[latest].analysis \notin Final
    /\ (x = "no_data") <=> (entry[latest].evidence \in Empty)
    /\ entry' = [entry EXCEPT ![latest].analysis = x]
    /\ UNCHANGED <<latest, answered>>

\* An answer reports the latest revision as stored, after an analysis attempt.
Answer ==
    /\ latest # NoRev
    /\ entry[latest].analysis # "pending"
    /\ answered' = answered \cup {[rev |-> latest, analysis |-> entry[latest].analysis]}
    /\ UNCHANGED <<entry, latest>>

Next ==
    \/ \E r \in Revision, e \in Evidence : Append(r, e)
    \/ \E x \in Final \cup {"unavailable"} : Analyse(x)
    \/ Answer

Spec == Init /\ [][Next]_vars
=============================================================================
