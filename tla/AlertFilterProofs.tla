-------------------------- MODULE AlertFilterProofs -------------------------
(***************************************************************************)
(* Proofs about AlertFilter, for every alert, whatever its fields hold,    *)
(* and every policy that FilterPolicy accepts.  The decision is a sequence *)
(* of checks of which the first failure counts, so most arguments have two *)
(* halves: an accepted alert passed every check (V1Passes, V2Passes), and  *)
(* a rejected one names a check that does fail (FirstFailureFinds).        *)
(***************************************************************************)
EXTENDS AlertFilter, InductionLemmas, SequenceTheorems

IInv == DOMAIN alert = Fields /\ outcome = EvaluateAlert(alert)

LEMMA FilterInvariant == Spec => []IInv
<1>1. Init => IInv
    BY SeedsAssumption DEF Init, IInv
<1>2. IInv /\ [Next]_vars => IInv'
    BY DEF IInv, Next, Republish, vars
<1>3. QED
    BY <1>1, <1>2, PTL DEF Spec

-----------------------------------------------------------------------------
(* Sequences of checks *)

\* Either all hold, or the reason is that of one that does not.
LEMMA FirstFailureFinds ==
    ASSUME NEW n \in Nat, NEW checks, DOMAIN checks = 1..n
    PROVE  \/ FirstFailure(checks) = "none" /\ \A i \in 1..n : checks[i][1]
           \/ \E i \in 1..n : ~ checks[i][1] /\ FirstFailure(checks) = checks[i][2]
<1> DEFINE failed == {i \in DOMAIN checks : ~ checks[i][1]}
           first == CHOOSE i \in failed : \A j \in failed : i <= j
<1>1. CASE failed = {}
    BY <1>1 DEF FirstFailure
<1>2. CASE failed # {}
    <2>1. \E i \in failed : \A j \in failed : i <= j
        <3>1. failed \subseteq Nat
            OBVIOUS
        <3> HIDE DEF failed
        <3>2. QED
            BY <1>2, <3>1, LeastNatural
    <2>2. first \in failed
        BY <2>1
    <2>3. FirstFailure(checks) = checks[first][2]
        BY <1>2 DEF FirstFailure
    <2>4. QED
        BY <2>2, <2>3
<1>3. QED
    BY <1>1, <1>2

\* Two sequences of checks, one after the other.
LEMMA Concatenated ==
    ASSUME NEW m \in Nat, NEW n \in Nat, NEW s, NEW t,
           s = [i \in 1..m |-> s[i]], t = [i \in 1..n |-> t[i]]
    PROVE  /\ s \o t = [i \in 1..(m + n) |-> (s \o t)[i]]
           /\ \A i \in 1..m : (s \o t)[i] = s[i]
           /\ \A i \in 1..n : (s \o t)[m + i] = t[i]
<1> DEFINE S == {s[i] : i \in 1..m} \cup {t[i] : i \in 1..n}
<1>1. s \in [1..m -> S] /\ t \in [1..n -> S]
    OBVIOUS
<1>2. s \in Seq(S) /\ t \in Seq(S)
    BY <1>1, IsASeq, SMTT(60)
<1>3. Len(s) = m /\ Len(t) = n
    BY <1>1, <1>2, LenProperties
<1>4. s \o t \in Seq(S) /\ Len(s \o t) = m + n
    BY <1>2, <1>3, ConcatProperties
<1>5. \A i \in 1..(m + n) : (s \o t)[i] = IF i <= m THEN s[i] ELSE t[i - m]
    BY <1>2, <1>3, ConcatProperties
<1>6. s \o t \in [1..(m + n) -> S]
    BY <1>4, LenProperties
<1>7. QED
    BY <1>5, <1>6, SMTT(60)

ProofChecks(a) == EvidenceChecks(a) \o DeclaredChecks(a) \o PriorityChecks(a)

LEMMA ProofChecksParts ==
    ASSUME NEW a
    PROVE  /\ DOMAIN ProofChecks(a) = 1..22
           /\ \A i \in 1..14 : ProofChecks(a)[i] = EvidenceChecks(a)[i]
           /\ \A i \in 1..2 : ProofChecks(a)[14 + i] = DeclaredChecks(a)[i]
           /\ \A i \in 1..6 : ProofChecks(a)[16 + i] = PriorityChecks(a)[i]
<1> DEFINE both == EvidenceChecks(a) \o DeclaredChecks(a)
<1>1. EvidenceChecks(a) = [i \in 1..14 |-> EvidenceChecks(a)[i]]
    BY DEF EvidenceChecks
<1>2. DeclaredChecks(a) = [i \in 1..2 |-> DeclaredChecks(a)[i]]
    BY DEF DeclaredChecks
<1>3. PriorityChecks(a) = [i \in 1..6 |-> PriorityChecks(a)[i]]
    BY DEF PriorityChecks
<1>4. /\ both = [i \in 1..16 |-> both[i]]
      /\ \A i \in 1..14 : both[i] = EvidenceChecks(a)[i]
      /\ \A i \in 1..2 : both[14 + i] = DeclaredChecks(a)[i]
    BY <1>1, <1>2, Concatenated, SMTT(60)
<1> HIDE DEF both
<1>5. /\ both \o PriorityChecks(a) = [i \in 1..22 |-> (both \o PriorityChecks(a))[i]]
      /\ \A i \in 1..16 : (both \o PriorityChecks(a))[i] = both[i]
      /\ \A i \in 1..6 : (both \o PriorityChecks(a))[16 + i] = PriorityChecks(a)[i]
    BY <1>3, <1>4, Concatenated, SMTT(60)
<1>6. ProofChecks(a) = both \o PriorityChecks(a)
    BY DEF both, ProofChecks
<1>7. QED
    BY <1>4, <1>5, <1>6, SMTT(60)

-----------------------------------------------------------------------------
(* Contract v1 *)

\* What the checks on the shape of a v1 alert leave: the contract but for forms.
V1Shape(a) ==
    /\ Present(a.text) /\ Present(a.timestamp) /\ a.criticality \in Criticality
    /\ IsRate(a.rate) /\ IsCount(a.total) /\ IsCount(a.declined)
    /\ \A x \in {a.rolling, a.q10, a.q50, a.q90} : Optional(x, IsRate)
    /\ Optional(a.priority, IsScore) /\ Optional(a.dc90, IsCount)
    /\ a.superseded \in {Absent, "2.0"}

\* The shape of v1, as the checks before the policy leave it.
LEMMA V1Passes ==
    ASSUME NEW a, FirstFailure(V1Checks(a)) = "none"
    PROVE  /\ a.schema = "1.0" /\ V1Shape(a)
           /\ a.declined <= a.total /\ a.total >= Policy.minimum_transactions
           /\ RoundPercent(a.total, a.rate) + a.declined <= a.total + 1
<1>1. DOMAIN V1Checks(a) = 1..13
    BY DEF V1Checks
<1>2. \A i \in 1..13 : V1Checks(a)[i][2] # "none"
    BY DEF V1Checks
<1>3. \A i \in 1..13 : V1Checks(a)[i][1]
    BY <1>1, <1>2, FirstFailureFinds
<1>4. /\ V1Checks(a)[1][1] /\ V1Checks(a)[2][1] /\ V1Checks(a)[3][1]
      /\ V1Checks(a)[4][1] /\ V1Checks(a)[6][1] /\ V1Checks(a)[7][1]
      /\ V1Checks(a)[8][1] /\ V1Checks(a)[9][1] /\ V1Checks(a)[10][1]
      /\ V1Checks(a)[11][1] /\ V1Checks(a)[12][1] /\ V1Checks(a)[13][1]
    BY <1>3
<1>5. QED
    BY <1>4 DEF V1Checks, V1Shape

\* What the typed contract takes is rejected for no form of a field.
LEMMA V1FormAgrees ==
    ASSUME NEW a, a.schema = "1.0", KipuAlert(a)
    PROVE  FirstFailure(V1Checks(a)) \notin FieldReasons
<1>1. DOMAIN V1Checks(a) = 1..13
    BY DEF V1Checks
<1>2. /\ V1Checks(a)[1][1] /\ V1Checks(a)[2][1] /\ V1Checks(a)[3][1]
      /\ V1Checks(a)[4][1] /\ V1Checks(a)[6][1] /\ V1Checks(a)[7][1]
      /\ V1Checks(a)[11][1] /\ V1Checks(a)[12][1] /\ V1Checks(a)[13][1]
    <2>1. Present(a.text) /\ Present(a.timestamp)
        BY DEF KipuAlert, ContractBase, Strict, Present
    <2>2. QED
        BY <2>1 DEF V1Checks, KipuAlert, ContractBase
<1>3. \A i \in {5, 8, 9, 10} : V1Checks(a)[i][2] \notin FieldReasons
    BY DEF V1Checks, FieldReasons
<1>4. \A i \in 1..13 : i \in {5, 8, 9, 10} \/ V1Checks(a)[i][1]
    BY <1>2
<1>5. QED
    BY <1>1, <1>3, <1>4, FirstFailureFinds DEF FieldReasons

\* The gates pass together, or one names itself.
LEMMA V1GatesDecide ==
    ASSUME NEW a
    PROVE  \/ /\ FirstFailure(V1Gates(a)) = "none"
              /\ Ascending(<<a.q10, a.q50, a.q90>>)
              /\ a.criticality = Policy.required_criticality
              /\ a.declined >= Policy.minimum_declined_count
           \/ /\ FirstFailure(V1Gates(a)) = "INVALID_QUANTILES"
              /\ ~ Ascending(<<a.q10, a.q50, a.q90>>)
           \/ /\ FirstFailure(V1Gates(a)) = "NON_CRITICAL_ALERT"
              /\ a.criticality # Policy.required_criticality
           \/ /\ FirstFailure(V1Gates(a)) = "INSUFFICIENT_DECLINE_IMPACT"
              /\ ~ (a.declined >= Policy.minimum_declined_count)
<1>1. DOMAIN V1Gates(a) = 1..3
    BY DEF V1Gates
<1>2. \/ FirstFailure(V1Gates(a)) = "none" /\ \A i \in {1, 2, 3} : V1Gates(a)[i][1]
      \/ \E i \in {1, 2, 3} :
            ~ V1Gates(a)[i][1] /\ FirstFailure(V1Gates(a)) = V1Gates(a)[i][2]
    <2>1. 1..3 = {1, 2, 3} /\ 3 \in Nat
        OBVIOUS
    <2>2. QED
        BY <1>1, <2>1, FirstFailureFinds, Zenon
<1>3. /\ V1Gates(a)[1][1] = Ascending(<<a.q10, a.q50, a.q90>>)
      /\ V1Gates(a)[1][2] = "INVALID_QUANTILES"
      /\ V1Gates(a)[2][1] = (a.criticality = Policy.required_criticality)
      /\ V1Gates(a)[2][2] = "NON_CRITICAL_ALERT"
      /\ V1Gates(a)[3][1] = (a.declined >= Policy.minimum_declined_count)
      /\ V1Gates(a)[3][2] = "INSUFFICIENT_DECLINE_IMPACT"
    BY DEF V1Gates
<1>4. QED
    BY <1>2, <1>3

LEMMA V1SignalReasons ==
    ASSUME NEW a PROVE V1Signals(a) \cap FieldReasons = {}
BY DEF V1Signals, FieldReasons

-----------------------------------------------------------------------------
(* The two validators *)

\* How EvaluateV1 ends.
LEMMA V1Ends ==
    ASSUME NEW a
    PROVE  \/ /\ FirstFailure(V1Checks(a)) # "none"
              /\ EvaluateV1(a) = Rejected(FirstFailure(V1Checks(a)))
           \/ /\ FirstFailure(V1Checks(a)) = "none"
              /\ FirstFailure(V1Gates(a)) # "none"
              /\ EvaluateV1(a) = Rejected(FirstFailure(V1Gates(a)))
           \/ /\ FirstFailure(V1Checks(a)) = "none"
              /\ FirstFailure(V1Gates(a)) = "none"
              /\ V1Signals(a) = {}
              /\ EvaluateV1(a) = Rejected("NO_CRITICAL_SIGNAL")
           \/ /\ FirstFailure(V1Checks(a)) = "none"
              /\ FirstFailure(V1Gates(a)) = "none"
              /\ V1Signals(a) # {}
              /\ EvaluateV1(a) = Accepted(V1Signals(a))
<1>1. CASE FirstFailure(V1Checks(a)) # "none"
    BY <1>1 DEF EvaluateV1
<1>2. CASE FirstFailure(V1Checks(a)) = "none" /\ FirstFailure(V1Gates(a)) # "none"
    BY <1>2 DEF EvaluateV1
<1>3. CASE FirstFailure(V1Checks(a)) = "none" /\ FirstFailure(V1Gates(a)) = "none"
    BY <1>3 DEF EvaluateV1
<1>4. QED
    BY <1>1, <1>2, <1>3

LEMMA V1Agree ==
    ASSUME NEW a, a.schema = "1.0"
    PROVE  /\ EvaluateV1(a).accepted => (KipuAlert(a) <=> ~ PydanticRefuses(a))
           /\ KipuAlert(a) => EvaluateV1(a).reasons \cap FieldReasons = {}
<1>1. FirstFailure(V1Gates(a)) \notin FieldReasons
    BY V1GatesDecide DEF FieldReasons
<1>2. "NO_CRITICAL_SIGNAL" \notin FieldReasons
    BY DEF FieldReasons
<1>3. ASSUME EvaluateV1(a).accepted PROVE KipuAlert(a) <=> ~ PydanticRefuses(a)
    <2>1. V1Shape(a)
        BY <1>3, V1Ends, V1Passes DEF Rejected
    <2>2. QED
        BY <2>1 DEF V1Shape, KipuAlert, ContractBase, PydanticRefuses, Present
<1>4. QED
    BY <1>1, <1>2, <1>3, V1Ends, V1FormAgrees, V1SignalReasons DEF Rejected, Accepted

\* The thresholds a v2 alert declares, and how they may fail.
LEMMA ThresholdsDecide ==
    ASSUME NEW raw
    PROVE  /\ ThresholdReason(raw) \notin FieldReasons
           /\ ThresholdReason(raw) = "none" => KipuPolicyThresholds(raw)
<1>1. ThresholdReason(raw) \in {"none", "INVALID_V2_METADATA", "PRODUCER_POLICY_DRIFT"}
    BY DEF ThresholdReason
<1>2. ASSUME ThresholdReason(raw) = "none" PROVE KipuPolicyThresholds(raw)
    <2>1. Present(raw) /\ DOMAIN raw = DOMAIN ExpectedThresholds
        BY <1>2 DEF ThresholdReason
    <2>2. \A i \in DOMAIN ThresholdNames : IsNumber(raw[ThresholdNames[i]])
        BY <1>2, <2>1 DEF ThresholdReason
    <2>3. \A f \in DOMAIN ExpectedThresholds :
              \E i \in DOMAIN ThresholdNames : f = ThresholdNames[i]
        BY DEF ExpectedThresholds
    <2>4. QED
        BY <2>1, <2>2, <2>3 DEF KipuPolicyThresholds
<1>3. QED
    BY <1>1, <1>2 DEF FieldReasons

\* What the checks on the shape of a v2 alert leave.
V2Shape(a) ==
    /\ Present(a.text) /\ Present(a.timestamp) /\ Present(a.published) /\ Present(a.observed)
    /\ a.producer = "expected" /\ a.batch # Bad
    /\ KipuPolicyThresholds(a.thresholds)
    /\ IsCount(a.window) /\ a.window # 0 /\ a.criticality \in Criticality
    /\ IsRate(a.rate) /\ CountsInRange(a)
    /\ Optional(a.rolling, IsRate) /\ Optional(a.historical, IsRate)
    /\ Optional(a.amount, IsCount) /\ Present(a.codes) /\ a.criteria \in 0..4
    /\ \A flag \in {a.flagMerchant, a.flagGlobal, a.flagSpike} : flag \in BOOLEAN
    /\ \A x \in {a.zRate, a.zDeclines, a.change, a.forestMerchant, a.forestGlobal} :
          Optional(x, IsNumber)
    /\ \A x \in {a.avgDeclines, a.q95Declines, a.ratio, a.baseline, a.oldest} :
          Optional(x, IsCount)

LEMMA V2Passes ==
    ASSUME NEW a, FirstFailure(V2Checks(a)) = "none"
    PROVE  V2Shape(a)
<1>1. DOMAIN V2Checks(a) = 1..18
    BY DEF V2Checks
<1>2. \A i \in 1..18 : i = 5 \/ V2Checks(a)[i][2] # "none"
    BY DEF V2Checks
<1>3. /\ V2Checks(a)[5][1] <=> (ThresholdReason(a.thresholds) = "none")
      /\ V2Checks(a)[5][2] = ThresholdReason(a.thresholds)
    BY DEF V2Checks
<1>4. \A i \in 1..18 : V2Checks(a)[i][1]
    <2> SUFFICES ASSUME NEW i \in 1..18, ~ V2Checks(a)[i][1],
                        FirstFailure(V2Checks(a)) = V2Checks(a)[i][2]
                 PROVE  FALSE
        BY <1>1, FirstFailureFinds
    <2>1. i = 5
        BY <1>2
    <2>2. QED
        BY <1>3, <2>1
<1>5. KipuPolicyThresholds(a.thresholds)
    <2>1. V2Checks(a)[5][1]
        BY <1>4
    <2>2. QED
        BY <1>3, <2>1, ThresholdsDecide, Zenon
<1>6. /\ V2Checks(a)[1][1] /\ V2Checks(a)[2][1] /\ V2Checks(a)[3][1]
      /\ V2Checks(a)[4][1] /\ V2Checks(a)[6][1] /\ V2Checks(a)[7][1]
      /\ V2Checks(a)[9][1] /\ V2Checks(a)[10][1]
    BY <1>4
<1>7. /\ V2Checks(a)[12][1] /\ V2Checks(a)[13][1] /\ V2Checks(a)[14][1]
      /\ V2Checks(a)[15][1] /\ V2Checks(a)[16][1] /\ V2Checks(a)[17][1]
      /\ V2Checks(a)[18][1]
    BY <1>4
<1>8. /\ Present(a.text) /\ Present(a.timestamp) /\ Present(a.published) /\ Present(a.observed)
      /\ a.producer = "expected" /\ a.batch # Bad
      /\ IsCount(a.window) /\ a.window # 0 /\ a.criticality \in Criticality
      /\ IsRate(a.rate) /\ CountsInRange(a)
    BY <1>6 DEF V2Checks
<1>9. /\ Optional(a.rolling, IsRate) /\ Optional(a.historical, IsRate)
      /\ Optional(a.amount, IsCount) /\ Present(a.codes) /\ a.criteria \in 0..4
      /\ \A flag \in {a.flagMerchant, a.flagGlobal, a.flagSpike} : flag \in BOOLEAN
      /\ \A x \in {a.zRate, a.zDeclines, a.change, a.forestMerchant, a.forestGlobal} :
            Optional(x, IsNumber)
      /\ \A x \in {a.avgDeclines, a.q95Declines, a.ratio, a.baseline, a.oldest} :
            Optional(x, IsCount)
    BY <1>7 DEF V2Checks
<1>10. QED
    BY <1>5, <1>8, <1>9, Zenon DEF V2Shape

LEMMA V2FormAgrees ==
    ASSUME NEW a, KipuAlertV2(a)
    PROVE  FirstFailure(V2Checks(a)) \notin FieldReasons
<1>1. DOMAIN V2Checks(a) = 1..18
    BY DEF V2Checks
<1>2. /\ V2Checks(a)[1][1] /\ V2Checks(a)[2][1] /\ V2Checks(a)[7][1]
      /\ V2Checks(a)[9][1]
    <2>1. Present(a.text) /\ Present(a.timestamp) /\ Present(a.published)
        BY DEF KipuAlertV2, ContractBase, Strict, Present
    <2>2. QED
        BY <2>1 DEF V2Checks, KipuAlertV2, ContractBase
<1>3. /\ V2Checks(a)[12][1] /\ V2Checks(a)[13][1] /\ V2Checks(a)[14][1]
      /\ V2Checks(a)[16][1] /\ V2Checks(a)[17][1] /\ V2Checks(a)[18][1]
    BY DEF V2Checks, KipuAlertV2, ContractBase
<1>4. \A i \in {3, 4, 6, 8, 10, 11, 15} : V2Checks(a)[i][2] \notin FieldReasons
    BY DEF V2Checks, FieldReasons
<1>5. V2Checks(a)[5][2] = ThresholdReason(a.thresholds)
    BY DEF V2Checks
<1>6. \A i \in 1..18 : V2Checks(a)[i][1] \/ i \in {3, 4, 5, 6, 8, 10, 11, 15}
    BY <1>2, <1>3
<1>7. "none" \notin FieldReasons
    BY DEF FieldReasons
<1>8. SUFFICES ASSUME NEW i \in 1..18, ~ V2Checks(a)[i][1]
               PROVE  V2Checks(a)[i][2] \notin FieldReasons
    BY <1>1, <1>7, FirstFailureFinds
<1>9. CASE i = 5
    BY <1>5, <1>9, ThresholdsDecide, Zenon
<1>10. QED
    BY <1>4, <1>6, <1>8, <1>9

\* An accepted v2 alert passed the checks on its shape and on its proof.
LEMMA V2Accepts ==
    ASSUME NEW a, EvaluateV2(a).accepted
    PROVE  /\ V2Shape(a)
           /\ \A i \in 1..14 : EvidenceChecks(a)[i][1]
           /\ \A i \in 1..2 : DeclaredChecks(a)[i][1]
           /\ \A i \in 1..6 : PriorityChecks(a)[i][1]
<1>1. FirstFailure(V2Checks(a)) = "none" /\ FirstFailure(ProofChecks(a)) = "none"
    BY DEF EvaluateV2, ProofChecks, Rejected, Accepted
<1>2. V2Shape(a)
    BY <1>1, V2Passes
<1>3. \A i \in 1..14 : EvidenceChecks(a)[i][2] # "none"
    BY DEF EvidenceChecks
<1>4. \A i \in 1..2 : DeclaredChecks(a)[i][2] # "none"
    BY DEF DeclaredChecks
<1>5. \A i \in 1..6 : PriorityChecks(a)[i][2] # "none"
    BY DEF PriorityChecks
<1>6. SUFFICES \A i \in 1..22 : ProofChecks(a)[i][2] # "none"
    <2>1. ASSUME \A i \in 1..22 : ProofChecks(a)[i][2] # "none"
          PROVE  \A i \in 1..22 : ProofChecks(a)[i][1]
        <3>1. DOMAIN ProofChecks(a) = 1..22 /\ 22 \in Nat
            BY ProofChecksParts
        <3>2. QED
            BY <1>1, <2>1, <3>1, FirstFailureFinds
    <2>2. /\ \A i \in 1..14 : i \in 1..22
          /\ \A i \in 1..2 : 14 + i \in 1..22
          /\ \A i \in 1..6 : 16 + i \in 1..22
        OBVIOUS
    <2>3. QED
        BY <1>2, <2>1, <2>2, ProofChecksParts
<1>7. TAKE i \in 1..22
<1>8. CASE i \in 1..14
    BY <1>3, <1>8, ProofChecksParts
<1>9. CASE i \in 15..16
    <2>1. i - 14 \in 1..2 /\ 14 + (i - 14) = i
        BY <1>9
    <2>2. QED
        BY <1>4, <2>1, ProofChecksParts
<1>10. CASE i \in 17..22
    <2>1. i - 16 \in 1..6 /\ 16 + (i - 16) = i
        BY <1>10
    <2>2. QED
        BY <1>5, <2>1, ProofChecksParts
<1>11. QED
    BY <1>8, <1>9, <1>10

LEMMA ProofFormAgrees ==
    ASSUME NEW a, KipuAlertV2(a)
    PROVE  FirstFailure(ProofChecks(a)) \notin FieldReasons
<1>1. \A i \in 1..14 : EvidenceChecks(a)[i][2] \notin FieldReasons
    BY DEF EvidenceChecks, FieldReasons
<1>2. \A i \in 1..2 : DeclaredChecks(a)[i][2] \notin FieldReasons
    BY DEF DeclaredChecks, FieldReasons
<1>3. \A i \in {1, 3, 5, 6} : PriorityChecks(a)[i][2] \notin FieldReasons
    BY DEF PriorityChecks, FieldReasons
<1>4. PriorityChecks(a)[2][1] /\ PriorityChecks(a)[4][1]
    BY DEF PriorityChecks, KipuAlertV2, KipuPriorityComponents
<1>5. \A i \in 1..6 : PriorityChecks(a)[i][1] \/ PriorityChecks(a)[i][2] \notin FieldReasons
    BY <1>3, <1>4
<1>6. SUFFICES ASSUME NEW i \in 1..22, ~ ProofChecks(a)[i][1]
               PROVE  ProofChecks(a)[i][2] \notin FieldReasons
    <2>1. DOMAIN ProofChecks(a) = 1..22 /\ 22 \in Nat
        BY ProofChecksParts
    <2>2. "none" \notin FieldReasons
        BY DEF FieldReasons
    <2>3. QED
        BY <2>1, <2>2, FirstFailureFinds
<1>7. CASE i \in 1..14
    BY <1>1, <1>7, ProofChecksParts
<1>8. CASE i \in 15..16
    <2>1. i - 14 \in 1..2 /\ 14 + (i - 14) = i
        BY <1>8
    <2>2. QED
        BY <1>2, <2>1, ProofChecksParts
<1>9. CASE i \in 17..22
    <2>1. i - 16 \in 1..6 /\ 16 + (i - 16) = i
        BY <1>9
    <2>2. ProofChecks(a)[i] = PriorityChecks(a)[i - 16]
        BY <2>1, ProofChecksParts
    <2>3. QED
        BY <1>5, <1>6, <2>1, <2>2
<1>10. QED
    BY <1>7, <1>8, <1>9

LEMMA ActualReasons ==
    ASSUME NEW a PROVE ActualCodes(a) \cap FieldReasons = {}
BY DEF ActualCodes, SignalCodes, CriteriaCodes, MLCodes, FieldReasons

\* The scores recomputed from the metrics are within their ranges.
LEMMA ScoreRanges ==
    ASSUME NEW a
    PROVE  /\ VolumeScore(a) \in {0, 5, 10, 20, 30}
           /\ ApprovalScore(a) \in {5, 15, 30, 40}
           /\ AnomalyScore(a) \in 0..30
<1>1. VolumeScore(a) \in {0, 5, 10, 20, 30}
    BY DEF VolumeScore, Steps
<1>2. ApprovalScore(a) \in {5, 15, 30, 40}
    BY DEF ApprovalScore
<1>3. AnomalyScore(a) \in 0..30
    BY DEF AnomalyScore, AtMost
<1>4. QED
    BY <1>1, <1>2, <1>3

LEMMA V2Agree ==
    ASSUME NEW a, a.schema = "2.0"
    PROVE  /\ EvaluateV2(a).accepted => (KipuAlertV2(a) <=> ~ PydanticRefuses(a))
           /\ KipuAlertV2(a) => EvaluateV2(a).reasons \cap FieldReasons = {}
<1>1. ASSUME EvaluateV2(a).accepted PROVE KipuAlertV2(a) <=> ~ PydanticRefuses(a)
    <2>1. /\ V2Shape(a)
          /\ PriorityChecks(a)[2][1] /\ PriorityChecks(a)[5][1]
        BY <1>1, V2Accepts
    <2>2. IsScore(a.priority) /\ a.components = Components(a) /\ Present(a.components)
        <3>1. PriorityChecks(a)[4][1]
            BY <1>1, V2Accepts
        <3>2. QED
            BY <2>1, <3>1 DEF PriorityChecks
    <2>3. KipuPriorityComponents(a.components)
        BY <2>2, ScoreRanges DEF KipuPriorityComponents, Components
    <2>4. IsCount(a.total) /\ IsCount(a.declined) /\ IsCount(a.approved) /\ IsCount(a.unknown)
        BY <2>1 DEF V2Shape, CountsInRange, Counts
    <2>5. ASSUME ~ PydanticRefuses(a) PROVE KipuAlertV2(a)
        <3>1. /\ a.text \notin {Absent, Bad, "loose"} /\ Strict(a.timestamp)
              /\ a.unread # Bad
              /\ Strict(a.published) /\ a.observed \notin {Absent, Bad, "loose"}
            BY <2>1, <2>5 DEF PydanticRefuses, V2Shape, Present
        <3>2. QED
            BY <2>1, <2>2, <2>3, <2>4, <3>1, Zenon DEF V2Shape, KipuAlertV2, ContractBase
    <2>6. KipuAlertV2(a) => ~ PydanticRefuses(a)
        BY DEF KipuAlertV2, ContractBase, PydanticRefuses
    <2>7. QED
        BY <2>5, <2>6
<1>2. \/ EvaluateV2(a).reasons = {FirstFailure(V2Checks(a))}
      \/ EvaluateV2(a).reasons = {FirstFailure(ProofChecks(a))}
      \/ EvaluateV2(a).reasons = ActualCodes(a)
    BY DEF EvaluateV2, ProofChecks, Rejected, Accepted
<1>3. QED
    BY <1>1, <1>2, V2FormAgrees, ProofFormAgrees, ActualReasons

\* Whatever an alert holds, of what the filter accepts the typed contract refuses
\* exactly the forms and the fields that only pydantic judges, and what it takes
\* the filter never rejects for the form of a field.
THEOREM Agreement == Spec => []ValidatorsAgree
<1>1. ASSUME IInv PROVE ValidatorsAgree
    <2>1. CASE alert.schema = "2.0"
        BY <1>1, <2>1, V2Agree
        DEF IInv, EvaluateAlert, ValidatorsAgree, Contract
    <2>2. CASE alert.schema # "2.0"
        <3>1. outcome = EvaluateV1(alert)
            BY <1>1, <2>2 DEF IInv, EvaluateAlert
        <3>2. outcome.accepted => alert.schema = "1.0"
            BY <3>1, V1Ends, V1Passes DEF Rejected
        <3>3. QED
            BY <2>2, <3>1, <3>2, V1Agree DEF ValidatorsAgree, Contract
    <2>3. QED
        BY <2>1, <2>2
<1>2. QED
    BY <1>1, FilterInvariant, PTL

-----------------------------------------------------------------------------
(* Only severe alerts *)

LEMMA CodesFinite == IsFiniteSet(SignalCodes)
<1> DEFINE s1 == {"LOW_APPROVAL_RATE"} \cup {"APPROVAL_RATE_MAD_DROP"}
           s2 == s1 \cup {"DECLINES_ABOVE_P95"}
           s3 == s2 \cup {"DECLINES_DOUBLED"}
           s4 == s3 \cup {"ML_MERCHANT_ANOMALY"}
           s5 == s4 \cup {"ML_GLOBAL_ANOMALY"}
           s6 == s5 \cup {"VOLUME_SPIKE"}
<1>1. SignalCodes = s6
    BY DEF SignalCodes, CriteriaCodes, MLCodes
<1>2. \A S, x : IsFiniteSet(S) => IsFiniteSet(S \cup {x})
    BY FS_AddElement
<1>3. IsFiniteSet(s1)
    BY <1>2, FS_Singleton
<1> HIDE DEF s1
<1>4. IsFiniteSet(s2)
    BY <1>2, <1>3
<1> HIDE DEF s2
<1>5. IsFiniteSet(s3)
    BY <1>2, <1>4
<1> HIDE DEF s3
<1>6. IsFiniteSet(s4)
    BY <1>2, <1>5
<1> HIDE DEF s4
<1>7. IsFiniteSet(s5)
    BY <1>2, <1>6
<1> HIDE DEF s5
<1>8. IsFiniteSet(s6)
    BY <1>2, <1>7
<1>9. QED
    BY <1>1, <1>8

LEMMA TwoMembers ==
    ASSUME NEW S, IsFiniteSet(S), NEW x \in S, NEW y \in S, x # y
    PROVE  Cardinality(S) >= 2
<1>1. IsFiniteSet({x}) /\ Cardinality({x}) = 1
    BY FS_Singleton
<1>2. Cardinality({x} \cup {y}) = 2
    BY <1>1, FS_AddElement
<1>3. {x} \cup {y} \in SUBSET S /\ Cardinality(S) \in Nat
    BY FS_CardinalityType
<1>4. Cardinality({x} \cup {y}) <= Cardinality(S)
    BY <1>3, FS_Subset
<1>5. QED
    BY <1>2, <1>3, <1>4

\* The points of one code alone are at most 15, if the rate itself adds none.
LEMMA OneCodeScores ==
    ASSUME NEW a, IsRate(a.rate), Policy.ta_critical_threshold \in 0..100,
           a.rate >= Policy.ta_critical_threshold,
           \A x, y \in ActualCodes(a) : x = y
    PROVE  AnomalyScore(a) <= 15
<1> DEFINE codes == ActualCodes(a)
<1>1. ~ (a.rate < Policy.ta_critical_threshold)
    BY SMTT(60) DEF IsRate
<1>2. AnomalyScore(a) =
        AtMost((IF "DECLINES_ABOVE_P95" \in codes THEN 15 ELSE 0)
               + (IF "LOW_APPROVAL_RATE" \in codes THEN 10 ELSE 0)
               + (IF "APPROVAL_RATE_MAD_DROP" \in codes THEN 10 ELSE 0)
               + (IF a.rate < Policy.ta_critical_threshold THEN 15 ELSE 0)
               + (IF "ML_MERCHANT_ANOMALY" \in codes THEN 12 ELSE 0)
               + (IF "ML_GLOBAL_ANOMALY" \in codes THEN 8 ELSE 0)
               + (IF "VOLUME_SPIKE" \in codes THEN 15 ELSE 0), 30)
    BY DEF AnomalyScore
<1> HIDE DEF codes
<1>3. \A x, y \in codes : x = y
    BY DEF codes
<1>4. QED
    BY <1>1, <1>2, <1>3 DEF AtMost

LEMMA Severe ==
    ASSUME NEW a, EvaluateV2(a).accepted,
           Policy.critical_priority >= 70, Policy.ta_critical_threshold <= 65
    PROVE  /\ a.rate < 75
           /\ a.rate >= 65 => VolumeScore(a) = 30 /\ Cardinality(ActualCodes(a)) >= 2
<1>1. IsRate(a.rate)
    BY V2Accepts DEF V2Shape
<1>2. /\ PriorityChecks(a)[2][1] /\ PriorityChecks(a)[3][1]
      /\ PriorityChecks(a)[6][1]
    BY V2Accepts
<1>3. /\ a.priority = VolumeScore(a) + ApprovalScore(a) + AnomalyScore(a)
      /\ a.priority \in 0..100 /\ a.priority >= Policy.critical_priority
    BY <1>2 DEF PriorityChecks, IsScore, ExpectedPriority
<1>4. /\ Policy.ta_critical_threshold \in 0..100
      /\ Policy.critical_priority <= 100
    BY PolicyAssumption DEF PolicyOK
<1>5. Policy.critical_priority \in Nat
    BY PolicyAssumption DEF PolicyOK
<1>6. VolumeScore(a) + ApprovalScore(a) + AnomalyScore(a) >= 70
    BY <1>3, <1>5
<1>7. a.rate < 75
    BY <1>1, <1>6, ScoreRanges DEF ApprovalScore, IsRate
<1>8. ASSUME a.rate >= 65
      PROVE  VolumeScore(a) = 30 /\ Cardinality(ActualCodes(a)) >= 2
    <2>1. ApprovalScore(a) = 15
        BY <1>1, <1>7, <1>8 DEF ApprovalScore, IsRate
    <2>2. VolumeScore(a) = 30 /\ AnomalyScore(a) >= 25
        BY <1>6, <2>1, ScoreRanges
    <2>3. a.rate >= Policy.ta_critical_threshold
        BY <1>1, <1>4, <1>8 DEF IsRate
    <2>4. \E x, y \in ActualCodes(a) : x # y
        <3>1. ~ (AnomalyScore(a) <= 15)
            BY <2>2, ScoreRanges
        <3>2. QED
            BY <1>1, <1>4, <2>3, <3>1, OneCodeScores
    <2>5. IsFiniteSet(ActualCodes(a))
        BY CodesFinite, FS_Subset DEF ActualCodes
    <2>6. QED
        BY <2>2, <2>4, <2>5, TwoMembers
<1>9. QED
    BY <1>7, <1>8

\* With the thresholds FilterPolicy has by default, or stricter ones, no alert
\* is accepted at a rate of 75 percent, nor at 65 without the greatest volume
\* score and two signals: no combination of codes makes up for the rate.
THEOREM SevereAlertsOnly ==
    ASSUME Policy.critical_priority >= 70, Policy.ta_critical_threshold <= 65
    PROVE  Spec => []OnlySevereAccepted
<1>1. IInv => OnlySevereAccepted
    BY Severe DEF IInv, OnlySevereAccepted, EvaluateAlert
<1>2. QED
    BY <1>1, FilterInvariant, PTL

-----------------------------------------------------------------------------
(* The derived fields of v2 *)

\* What the checks on the evidence of an accepted alert say of it.
LEMMA EvidenceHolds ==
    ASSUME NEW a, EvaluateV2(a).accepted
    PROVE  /\ Given(a.change) <=> Doubling(a)
           /\ Given(a.change) =>
                a.change * a.avgDeclines = 100 * (a.declined - a.avgDeclines)
           /\ ~ Given(a.forestMerchant) => ~ a.flagMerchant
           /\ Given(a.forestMerchant) => a.flagMerchant = MLSupported(a.forestMerchant)
           /\ ~ Given(a.forestGlobal) => ~ a.flagGlobal
           /\ Given(a.forestGlobal) => a.flagGlobal = MLSupported(a.forestGlobal)
           /\ SpikeGiven(a) => SpikeComplete(a)
           /\ SpikeComplete(a) => RatioOfCounts(a)
           /\ a.flagSpike = SpikeSupported(a)
<1>1. /\ EvidenceChecks(a)[5][1] /\ EvidenceChecks(a)[6][1] /\ EvidenceChecks(a)[7][1]
      /\ EvidenceChecks(a)[8][1] /\ EvidenceChecks(a)[9][1] /\ EvidenceChecks(a)[10][1]
      /\ EvidenceChecks(a)[11][1] /\ EvidenceChecks(a)[12][1]
      /\ EvidenceChecks(a)[13][1] /\ EvidenceChecks(a)[14][1]
    BY V2Accepts
<1>2. QED
    BY <1>1 DEF EvidenceChecks

\* The metrics of two alerts are the same.
SameMetrics(a, b) ==
    /\ a.rate = b.rate /\ a.total = b.total /\ a.declined = b.declined
    /\ a.amount = b.amount /\ a.zRate = b.zRate /\ a.zDeclines = b.zDeclines
    /\ a.avgDeclines = b.avgDeclines /\ a.q95Declines = b.q95Declines
    /\ a.baseline = b.baseline /\ a.oldest = b.oldest
    /\ a.forestMerchant = b.forestMerchant /\ a.forestGlobal = b.forestGlobal

LEMMA SameRatio ==
    ASSUME NEW a, NEW b, EvaluateV2(a).accepted, EvaluateV2(b).accepted, SameMetrics(a, b)
    PROVE  a.ratio = b.ratio
<1>1. /\ Optional(a.ratio, IsCount) /\ Optional(b.ratio, IsCount)
      /\ Optional(a.baseline, IsCount) /\ IsCount(a.total)
    <2>1. V2Shape(a) /\ V2Shape(b)
        BY V2Accepts
    <2>2. IsCount(a.total)
        BY <2>1 DEF V2Shape, CountsInRange, Counts
    <2>3. QED
        BY <2>1, <2>2 DEF V2Shape
<1>2. /\ SpikeGiven(a) => SpikeComplete(a) /\ RatioOfCounts(a)
      /\ SpikeGiven(b) => SpikeComplete(b) /\ RatioOfCounts(b)
    BY EvidenceHolds
<1>3. a.baseline = b.baseline /\ a.oldest = b.oldest /\ a.total = b.total
    BY DEF SameMetrics
<1>4. CASE a.baseline = Absent /\ a.oldest = Absent
    BY <1>2, <1>3, <1>4 DEF SpikeGiven, SpikeComplete, Given
<1>5. CASE ~ (a.baseline = Absent /\ a.oldest = Absent)
    <2>1. SpikeGiven(a) /\ SpikeGiven(b)
        BY <1>3, <1>5 DEF SpikeGiven
    <2>2. /\ a.ratio \in Nat /\ b.ratio \in Nat /\ a.baseline \in Nat /\ a.total \in Nat
        BY <1>1, <1>2, <2>1 DEF SpikeComplete, Given, Optional, IsCount
    <2>3. a.ratio * (10 * a.baseline + 1) = b.ratio * (10 * a.baseline + 1)
        BY <1>2, <1>3, <2>1 DEF RatioOfCounts
    <2>4. QED
        <3>1. ASSUME NEW x \in Nat, NEW y \in Nat, NEW k \in Nat, k # 0, x * k = y * k
              PROVE  x = y
            BY <3>1
        <3>2. 10 * a.baseline + 1 \in Nat /\ 10 * a.baseline + 1 # 0
            BY <2>2
        <3>3. QED
            BY <2>2, <2>3, <3>1, <3>2
<1>6. QED
    BY <1>4, <1>5

LEMMA SameChange ==
    ASSUME NEW a, NEW b, EvaluateV2(a).accepted, EvaluateV2(b).accepted, SameMetrics(a, b)
    PROVE  a.change = b.change
<1>1. /\ Optional(a.change, IsNumber) /\ Optional(b.change, IsNumber)
      /\ Optional(a.avgDeclines, IsCount)
    BY V2Accepts DEF V2Shape
<1>2. /\ Given(a.change) <=> Doubling(a)
      /\ Given(b.change) <=> Doubling(b)
      /\ Doubling(a) <=> Doubling(b)
    BY EvidenceHolds DEF SameMetrics, Doubling
<1>3. CASE ~ Doubling(a)
    BY <1>2, <1>3 DEF Given
<1>4. CASE Doubling(a)
    <2>1. /\ a.change \in Int /\ b.change \in Int /\ a.avgDeclines \in Nat
          /\ a.avgDeclines > Policy.doubling_min_mean
        BY <1>1, <1>2, <1>4 DEF Given, Optional, IsNumber, IsCount, Doubling
    <2>2. Policy.doubling_min_mean \in Nat
        BY PolicyAssumption DEF PolicyOK
    <2>3. a.avgDeclines # 0
        BY <2>1, <2>2
    <2>4. a.change * a.avgDeclines = b.change * a.avgDeclines
        BY <1>2, <1>4, EvidenceHolds DEF SameMetrics
    <2>5. ASSUME NEW x \in Int, NEW y \in Int, NEW k \in Nat, k # 0, x * k = y * k
          PROVE  x = y
        BY <2>5
    <2>6. QED
        BY <2>1, <2>3, <2>4, <2>5
<1>5. QED
    BY <1>3, <1>4

LEMMA SameDerived ==
    ASSUME NEW a, NEW b, EvaluateV2(a).accepted, EvaluateV2(b).accepted, SameMetrics(a, b)
    PROVE  \A f \in Declared : a[f] = b[f]
<1>1. a.ratio = b.ratio /\ a.change = b.change
    BY SameRatio, SameChange
<1>2. SpikeSupported(a) <=> SpikeSupported(b)
    BY <1>1 DEF SpikeSupported, SpikeComplete, SameMetrics
<1>3. ActualCodes(a) = ActualCodes(b)
    BY <1>2 DEF ActualCodes, Doubling, SameMetrics
<1>4. /\ a.codes = ActualCodes(a) /\ b.codes = ActualCodes(b)
      /\ a.criteria = Cardinality(ActualCodes(a) \cap CriteriaCodes)
      /\ b.criteria = Cardinality(ActualCodes(b) \cap CriteriaCodes)
    <2>1. /\ DeclaredChecks(a)[1][1] /\ DeclaredChecks(a)[2][1]
          /\ DeclaredChecks(b)[1][1] /\ DeclaredChecks(b)[2][1]
        BY V2Accepts
    <2>2. QED
        BY <2>1 DEF DeclaredChecks
<1>5. /\ VolumeScore(a) = VolumeScore(b) /\ ApprovalScore(a) = ApprovalScore(b)
      /\ AnomalyScore(a) = AnomalyScore(b)
    BY <1>3 DEF VolumeScore, ApprovalScore, AnomalyScore, SameMetrics
<1>6. /\ a.priority = ExpectedPriority(a) /\ a.components = Components(a)
      /\ b.priority = ExpectedPriority(b) /\ b.components = Components(b)
    <2>1. /\ PriorityChecks(a)[3][1] /\ PriorityChecks(a)[5][1]
          /\ PriorityChecks(b)[3][1] /\ PriorityChecks(b)[5][1]
        BY V2Accepts
    <2>2. QED
        BY <2>1 DEF PriorityChecks
<1>7. a.priority = b.priority /\ a.components = b.components
    BY <1>5, <1>6 DEF ExpectedPriority, Components
<1>8. \A flag \in {a.flagMerchant, a.flagGlobal, a.flagSpike,
                   b.flagMerchant, b.flagGlobal, b.flagSpike} : flag \in BOOLEAN
    BY V2Accepts DEF V2Shape
<1>9. a.flagMerchant = b.flagMerchant /\ a.flagGlobal = b.flagGlobal
    BY <1>8, EvidenceHolds DEF SameMetrics
<1>10. a.flagSpike = b.flagSpike
    BY <1>2, <1>8, EvidenceHolds
<1>11. QED
    BY <1>1, <1>3, <1>4, <1>7, <1>9, <1>10 DEF Declared

\* An accepted v2 alert sent again with other derived fields only is rejected:
\* the metrics leave one value for each of them.
THEOREM DerivedProved == Spec => DerivedFieldsAreProved
<1> DEFINE Rederived ==
        (/\ alert.schema = "2.0" /\ outcome.accepted
         /\ \A f \in DOMAIN alert \ Declared : alert'[f] = alert[f])
        => ~outcome'.accepted
<1>1. IInv /\ IInv' /\ [Next]_vars => [Rederived]_vars
    <2> SUFFICES ASSUME IInv, IInv', NEW f \in DOMAIN Domain, NEW v, Republish(f, v),
                        alert.schema = "2.0", outcome.accepted, outcome'.accepted,
                        \A g \in DOMAIN alert \ Declared : alert'[g] = alert[g]
                 PROVE  FALSE
        BY DEF Next
    <2>1. DOMAIN alert = Fields /\ f \in Fields
        BY SeedsAssumption DEF IInv
    <2>2. alert'[f] = v /\ v # alert[f]
        BY <2>1 DEF Republish
    <2>3. f \in Declared
        BY <2>1, <2>2
    <2>4. \A g \in Fields \ Declared : alert'[g] = alert[g]
        BY <2>1
    <2>5. alert'.schema = "2.0" /\ SameMetrics(alert, alert')
        <3>1. /\ {"schema", "rate", "total", "declined", "amount", "zRate", "zDeclines",
                  "avgDeclines", "q95Declines", "baseline", "oldest", "forestMerchant",
                  "forestGlobal"} \subseteq Fields \ Declared
            BY DEF Fields, Declared
        <3>2. QED
            BY <2>4, <3>1 DEF SameMetrics
    <2>6. EvaluateV2(alert).accepted /\ EvaluateV2(alert').accepted
        BY <2>5 DEF IInv, EvaluateAlert
    <2>7. alert'[f] = alert[f]
        BY <2>3, <2>5, <2>6, SameDerived
    <2>8. QED
        BY <2>2, <2>7
<1>2. QED
    BY <1>1, FilterInvariant, PTL DEF Spec, DerivedFieldsAreProved

-----------------------------------------------------------------------------
(* A v1 alert that gets worse *)

\* Where two alerts of which one is worse agree.
LEMMA WorseAgrees ==
    ASSUME NEW a, NEW b, DOMAIN a = Fields, Worse(a, b)
    PROVE  /\ a.text = b.text /\ a.schema = b.schema /\ a.timestamp = b.timestamp
           /\ a.superseded = b.superseded /\ a.criticality = b.criticality
           /\ a.total = b.total /\ a.q10 = b.q10 /\ a.q50 = b.q50 /\ a.q90 = b.q90
           /\ a.dc90 = b.dc90 /\ a.priority = b.priority
<1>1. {"text", "schema", "timestamp", "superseded", "criticality", "total", "q10",
       "q50", "q90", "dc90", "priority"} \subseteq DOMAIN a \ {"rate", "declined", "rolling"}
    BY DEF Fields
<1>2. QED
    BY <1>1 DEF Worse

\* The checks of v1 that a worse alert may fail are the two on its counts.
LEMMA WorseChecks ==
    ASSUME NEW a, NEW b, DOMAIN a = Fields, Worse(a, b),
           FirstFailure(V1Checks(a)) = "none"
    PROVE  FirstFailure(V1Checks(b)) \in {"none", "INVALID_COUNTS", "INCONSISTENT_COUNTS"}
<1>1. DOMAIN V1Checks(a) = 1..13 /\ DOMAIN V1Checks(b) = 1..13
    BY DEF V1Checks
<1>2. \A i \in 1..13 : V1Checks(a)[i][2] # "none"
    BY DEF V1Checks
<1>3. \A i \in 1..13 : V1Checks(a)[i][1]
    BY <1>1, <1>2, FirstFailureFinds
<1>4. /\ V1Checks(a)[1][1] /\ V1Checks(a)[2][1] /\ V1Checks(a)[3][1]
      /\ V1Checks(a)[4][1] /\ V1Checks(a)[5][1] /\ V1Checks(a)[6][1]
      /\ V1Checks(a)[9][1] /\ V1Checks(a)[11][1] /\ V1Checks(a)[12][1]
      /\ V1Checks(a)[13][1]
    BY <1>3
<1>5. IsRate(b.rate)
    BY DEF Worse
<1>6. /\ V1Checks(b)[1][1] /\ V1Checks(b)[2][1] /\ V1Checks(b)[3][1]
      /\ V1Checks(b)[4][1] /\ V1Checks(b)[5][1] /\ V1Checks(b)[6][1]
      /\ V1Checks(b)[7][1] /\ V1Checks(b)[9][1]
    <2>1. V1Checks(b)[1][1] /\ V1Checks(b)[2][1] /\ V1Checks(b)[3][1]
        BY <1>4, WorseAgrees DEF V1Checks
    <2>2. V1Checks(b)[4][1] /\ V1Checks(b)[5][1] /\ V1Checks(b)[6][1]
        BY <1>4, WorseAgrees DEF V1Checks
    <2>3. V1Checks(b)[9][1]
        BY <1>4, WorseAgrees DEF V1Checks
    <2>4. V1Checks(b)[7][1]
        BY <1>5 DEF V1Checks
    <2> QED  BY <2>1, <2>2, <2>3, <2>4
<1>7. Optional(b.rolling, IsRate)
    <2>1. Optional(a.rolling, IsRate)
        BY <1>4 DEF V1Checks
    <2>2. QED
        BY <2>1 DEF Worse, Optional
<1>8. V1Checks(b)[11][1] /\ V1Checks(b)[12][1] /\ V1Checks(b)[13][1]
    BY <1>4, <1>7, WorseAgrees DEF V1Checks
<1>9. /\ V1Checks(b)[8][2] = "INVALID_COUNTS"
      /\ V1Checks(b)[10][2] = "INCONSISTENT_COUNTS"
    BY DEF V1Checks
<1>10. \A i \in 1..13 : i \in {8, 10} \/ V1Checks(b)[i][1]
    BY <1>6, <1>8
<1>11. QED
    BY <1>1, <1>9, <1>10, FirstFailureFinds

\* No signal of an alert is lost when it gets worse.
LEMMA WorseSignals ==
    ASSUME NEW a, NEW b, DOMAIN a = Fields, Worse(a, b), V1Shape(a)
    PROVE  V1Signals(a) \subseteq V1Signals(b)
<1>1. /\ a.rate \in Nat /\ b.rate \in Nat /\ b.rate <= a.rate /\ a.total \in Nat
      /\ a.declined \in Nat /\ b.declined \in Nat /\ a.declined <= b.declined
      /\ a.total = b.total
    <2>1. IsRate(a.rate) /\ IsCount(a.total) /\ IsCount(a.declined)
        BY DEF V1Shape
    <2>2. /\ IsRate(b.rate) /\ b.rate <= a.rate
          /\ IsCount(b.declined) /\ b.declined >= a.declined
        BY DEF Worse
    <2>3. a.total = b.total
        BY WorseAgrees
    <2>4. QED
        BY <2>1, <2>2, <2>3 DEF IsRate, IsCount
<1>2. Given(a.rolling) => /\ Given(b.rolling) /\ a.rolling \in Nat /\ b.rolling \in Nat
                          /\ a.rolling <= b.rolling
    BY ValuesAssumption
    DEF Worse, V1Shape, IsRate, Optional, Given
<1>3. Given(a.q10) => a.q10 \in Nat
    BY DEF V1Shape, Optional, IsRate, Given
<1>4. Given(a.dc90) => a.dc90 \in Nat
    BY DEF V1Shape, Optional, IsCount, Given
<1>5. ASSUME NEW limit, limit.rate \in 0..100, limit.drop \in Nat, Deteriorated(a, limit)
      PROVE  Deteriorated(b, limit)
    BY <1>1, <1>2, <1>5 DEF Deteriorated
<1>6. /\ Policy.mass_impact.rate \in 0..100 /\ Policy.severe.rate \in 0..100
      /\ Policy.extreme.rate \in 0..100 /\ Policy.collapse.rate \in 0..100
      /\ Policy.severe.drop \in Nat /\ Policy.extreme.drop \in Nat
      /\ Policy.collapse.drop \in Nat /\ Policy.q10_gap \in Nat
      /\ Policy.excess_count \in Nat /\ Policy.excess_ratio \in Nat
    BY PolicyAssumption DEF PolicyOK
<1>7. BelowQuantile(a) => BelowQuantile(b)
    BY <1>1, <1>3, <1>6, WorseAgrees DEF BelowQuantile
<1>8. ExcessDeclines(a) => ExcessDeclines(b)
    <2> DEFINE share == a.total * Policy.excess_ratio
    <2>1. share \in Nat
        BY <1>1, <1>6
    <2> HIDE DEF share
    <2>2. a.dc90 = b.dc90 /\ b.total * Policy.excess_ratio = share
        BY <1>1, WorseAgrees DEF share
    <2>3. SUFFICES ASSUME ExcessDeclines(a) PROVE ExcessDeclines(b)
        OBVIOUS
    <2>4. /\ Given(a.dc90) /\ a.total >= Policy.predictive_minimum_transactions
          /\ a.declined - a.dc90 >= Policy.excess_count
          /\ 100 * (a.declined - a.dc90) >= share
        BY <2>3 DEF ExcessDeclines, share
    <2>5. /\ b.declined - a.dc90 >= Policy.excess_count
          /\ 100 * (b.declined - a.dc90) >= share
        BY <1>1, <1>4, <1>6, <2>1, <2>4
    <2>6. QED
        BY <1>1, <2>2, <2>4, <2>5 DEF ExcessDeclines
<1>9. (a.total >= Policy.mass_impact.total /\ a.rate <= Policy.mass_impact.rate)
      => (b.total >= Policy.mass_impact.total /\ b.rate <= Policy.mass_impact.rate)
    BY <1>1, <1>6
<1>10. /\ Deteriorated(a, Policy.severe) => Deteriorated(b, Policy.severe)
       /\ Deteriorated(a, Policy.extreme) => Deteriorated(b, Policy.extreme)
       /\ Deteriorated(a, Policy.collapse) => Deteriorated(b, Policy.collapse)
    BY <1>5, <1>6
<1>11. QED
    BY <1>7, <1>8, <1>9, <1>10 DEF V1Signals

LEMMA WorseAccepted ==
    ASSUME NEW a, NEW b, DOMAIN a = Fields, Worse(a, b), EvaluateV1(a).accepted
    PROVE  \/ EvaluateV1(b).accepted
           \/ EvaluateV1(b).reasons \subseteq {"INVALID_COUNTS", "INCONSISTENT_COUNTS"}
<1>1. /\ FirstFailure(V1Checks(a)) = "none" /\ FirstFailure(V1Gates(a)) = "none"
      /\ V1Signals(a) # {}
    BY V1Ends DEF Rejected
<1>2. FirstFailure(V1Checks(b)) \in {"none", "INVALID_COUNTS", "INCONSISTENT_COUNTS"}
    BY <1>1, WorseChecks
<1>3. V1Signals(b) # {}
    BY <1>1, V1Passes, WorseSignals
<1>4. FirstFailure(V1Gates(b)) = "none"
    <2>1. /\ Ascending(<<a.q10, a.q50, a.q90>>)
          /\ a.criticality = Policy.required_criticality
          /\ a.declined >= Policy.minimum_declined_count
        BY <1>1, V1GatesDecide
    <2>2. <<a.q10, a.q50, a.q90>> = <<b.q10, b.q50, b.q90>> /\ a.criticality = b.criticality
        BY WorseAgrees
    <2>3. b.declined >= Policy.minimum_declined_count
        <3>1. a.declined \in Nat /\ b.declined \in Nat /\ a.declined <= b.declined
            BY <1>1, V1Passes DEF Worse, V1Shape, IsCount
        <3>2. Policy.minimum_declined_count \in Nat
            BY PolicyAssumption DEF PolicyOK
        <3>3. QED
            BY <2>1, <3>1, <3>2
    <2>4. Ascending(<<b.q10, b.q50, b.q90>>)
        BY <2>1, <2>2, Zenon
    <2>5. QED
        BY <2>1, <2>2, <2>3, <2>4, V1GatesDecide
<1>5. QED
    BY <1>2, <1>3, <1>4, V1Ends DEF Rejected, Accepted

\* An accepted v1 alert published again with a lower rate, more declines or a
\* higher average stays accepted, or is rejected for counts that contradict
\* each other: no gate and no signal of the filter loses a worse alert.
THEOREM WorseningAccepted == Spec => WorseningStaysAccepted
<1> DEFINE Kept ==
        (alert.schema = "1.0" /\ outcome.accepted /\ Worse(alert, alert'))
        => \/ outcome'.accepted
           \/ outcome'.reasons \subseteq {"INVALID_COUNTS", "INCONSISTENT_COUNTS"}
<1>1. IInv /\ IInv' => Kept
    <2> SUFFICES ASSUME IInv, IInv', alert.schema = "1.0", outcome.accepted,
                        Worse(alert, alert')
                 PROVE  \/ outcome'.accepted
                        \/ outcome'.reasons
                             \subseteq {"INVALID_COUNTS", "INCONSISTENT_COUNTS"}
        OBVIOUS
    <2>1. DOMAIN alert = Fields
        BY DEF IInv
    <2>2. alert'.schema = "1.0"
        BY <2>1, WorseAgrees
    <2>3. outcome = EvaluateV1(alert) /\ outcome' = EvaluateV1(alert')
        BY <2>2 DEF IInv, EvaluateAlert
    <2>4. QED
        BY <2>1, <2>3, WorseAccepted
<1>2. QED
    BY <1>1, FilterInvariant, PTL DEF WorseningStaysAccepted

=============================================================================
