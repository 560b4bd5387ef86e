------------------------ MODULE ReconcileCommandProofs ------------------------
(***************************************************************************)
(* Theorems about ReconcileCommand, for every number of polls, every set   *)
(* of balances and bounds and every blockhash: what its verdict says of    *)
(* the cluster.  That the command ends is liveness and left to TLC.        *)
(***************************************************************************)
EXTENDS ReconcileCommand, TLAPS

(* What was observed so far, and what the cluster was then; the verdict is *)
(* that of the facts.                                                      *)
Observations ==
    /\ facts.expected = "self-transfer-probe"
    /\ facts.signed <=> tx # "absent"
    /\ facts.fundingBlocked => ~facts.signed
    /\ facts.signed \/ phase \in {"report", "done"}
    /\ facts.confirmation \in {"confirmed", "finalized"} =>
          tx \in {"confirmed", "finalized"}
    /\ facts.confirmation = "dropped" => height > LastValidHeight
    /\ verdict = IF phase = "done" THEN BuildReconciliationReport(facts)
                 ELSE "none"

(* The polls are counted before they are judged.                           *)
PollsCounted ==
    /\ phase = "status" => poll < PollBound
    /\ phase = "height" => poll <= PollBound

CommandInv ==
    /\ TypeOK /\ Observations /\ PollsCounted
    /\ tx = "pending" => purse # 0

-----------------------------------------------------------------------------
(* Lemmas about the operators.                                             *)

LEMMA TheObserved == ASSUME NEW x PROVE The(Observed(x)) = x
  BY DEF The, Observed

LEMMA PollBoundType == PollBound \in 1..HardMaxPolls
  BY PollsAssumption DEF PollBound, Least

FactSpace == Facts(Purses, Amounts, {BaseFee}, Bounds)

(* A verdict is one of the eight.                                          *)
LEMMA VerdictType ==
    ASSUME NEW f
    PROVE  BuildReconciliationReport(f) \in RECONCILIATION_VERDICTS
  BY DEF BuildReconciliationReport, ConfirmationVerdict, ConfirmedVerdict,
         DroppedVerdict, CompareExpected, RECONCILIATION_VERDICTS

(* A verdict that allows is that of an attempt that sent nothing, or of    *)
(* balances that were both observed around a transaction that was tracked. *)
LEMMA SafeNeedsObservations ==
    ASSUME NEW f, Safe(f)
    PROVE  \/ f.fundingBlocked \/ ~f.signed
           \/ /\ DeltaComputed(f)
              /\ f.confirmation \in {"confirmed", "finalized", "dropped"}
  BY DEF Safe, BuildReconciliationReport, ConfirmationVerdict,
         ConfirmedVerdict, DroppedVerdict, CompareExpected,
         RECONCILIATION_CONTINUATION_SAFE_VERDICTS

LEMMA EarlyExitsAreSafe ==
    ASSUME NEW f, f.expected \in EXPECTED_EFFECT_KINDS,
           f.fundingBlocked \/ ~f.signed
    PROVE  Safe(f)
  BY DEF Safe, BuildReconciliationReport,
         RECONCILIATION_CONTINUATION_SAFE_VERDICTS

LEMMA UnsupportedIsUnsafe ==
    ASSUME NEW f, Safe(f) PROVE f.expected \in EXPECTED_EFFECT_KINDS
  BY DEF Safe, BuildReconciliationReport,
         RECONCILIATION_CONTINUATION_SAFE_VERDICTS

(* Whatever the facts, the loss of one of them does not help.              *)
LEMMA WeakerIsNotSafer ==
    ASSUME NEW f \in FactSpace, NEW g \in Weaker(f), Safe(g)
    PROVE  Safe(f)
<1>1. /\ g.expected = f.expected
      /\ g.fundingBlocked = f.fundingBlocked /\ g.signed = f.signed
      /\ \/ g.pre = Unobserved \/ g.post = Unobserved
         \/ g.confirmation \in {"rpc-unavailable", "timeout", NotTracked}
  BY DEF Weaker, FactSpace, Facts
<1>2. f.expected \in EXPECTED_EFFECT_KINDS
  BY <1>1, UnsupportedIsUnsafe
<1>3. f.fundingBlocked \/ ~f.signed
  BY <1>1, SafeNeedsObservations DEF DeltaComputed, NotTracked
<1> QED
  BY <1>2, <1>3, EarlyExitsAreSafe

(* "reconciled", when nothing was dropped, is the probe's own effect.      *)
LEMMA ReconciledNeedsProbe ==
    ASSUME NEW f \in FactSpace, f.expected = "self-transfer-probe",
           BuildReconciliationReport(f) = "reconciled",
           f.confirmation # "dropped"
    PROVE  /\ f.confirmation \in {"confirmed", "finalized"}
           /\ f.pre # Unobserved /\ f.post # Unobserved
           /\ ProbeEffectMatches(f)
<1>1. ConfirmationVerdict(f) = "reconciled"
  BY DEF BuildReconciliationReport, EXPECTED_EFFECT_KINDS
<1>2. f.confirmation \in {"confirmed", "finalized"}
      /\ ConfirmedVerdict(f) = "reconciled"
  BY <1>1 DEF ConfirmationVerdict, NotTracked
<1> QED
  BY <1>2 DEF ConfirmedVerdict, CompareExpected, DeltaComputed

-----------------------------------------------------------------------------
(* The invariant: initially, and one lemma for each kind of step.          *)

LEMMA CInit == Init => CommandInv
<1> SUFFICES ASSUME Init PROVE CommandInv
  OBVIOUS
<1>1. /\ facts \in FactSpace
      /\ facts.expected = "self-transfer-probe"
      /\ facts.confirmation = NotTracked
      /\ facts.fundingBlocked => ~facts.signed
      /\ facts.signed \in BOOLEAN
  BY DEF Init, FactSpace, Facts
<1>2. TypeOK
  <2>1. phase \in Phases
    BY <1>1 DEF Init, Phases
  <2>2. poll \in 0..HardMaxPolls
    BY PollsAssumption DEF Init
  <2>3. unrecognized \in BOOLEAN
    BY DEF Init
  <2>4. facts \in Facts(Purses, Amounts, {BaseFee}, Bounds)
    BY <1>1 DEF FactSpace
  <2>5. verdict \in RECONCILIATION_VERDICTS \cup {"none"}
    BY DEF Init
  <2>6. tx \in Landed \cup {"absent", "pending"}
    BY <1>1 DEF Init
  <2>7. height \in 0..LastValidHeight + 1 /\ purse \in Purses
    BY HeightAssumption DEF Init
  <2> QED
    BY <2>1, <2>2, <2>4, <2>5, <2>6, <2>7, <2>3 DEF TypeOK
<1>3. Observations
  BY <1>1 DEF Init, Observations, NotTracked
<1>4. PollsCounted
  BY PollBoundType, PollsAssumption DEF Init, PollsCounted
<1>5. tx = "pending" => purse # 0
  BY DEF Init
<1> QED
  BY <1>2, <1>3, <1>4, <1>5 DEF CommandInv

(* A classification: the facts keep all but their confirmation.            *)
LEMMA Classified ==
    ASSUME CommandInv, facts.signed, NEW outcome \in CONFIRMATION_OUTCOMES,
           Classify(outcome)
    PROVE  /\ facts' \in FactSpace /\ phase' = "fee"
           /\ facts'.expected = facts.expected
           /\ facts'.signed = facts.signed
           /\ facts'.fundingBlocked = facts.fundingBlocked
           /\ facts'.confirmation = outcome
<1>1. facts \in FactSpace
  BY DEF CommandInv, TypeOK, FactSpace
<1> QED
  BY <1>1 DEF Classify, FactSpace, Facts

(* The end of an iteration.                                                *)
LEMMA Polled ==
    ASSUME CommandInv, facts.signed, NEW seen, NextPoll(seen)
    PROVE  \/ phase' = "status" /\ poll' < PollBound /\ facts' = facts
           \/ \E outcome \in {"unknown", "timeout"} : Classify(outcome)
  BY DEF NextPoll

(* What the steps of the poll loop have in common.                         *)
LEMMA LoopStep ==
    ASSUME CommandInv, UNCHANGED <<verdict, cluster>>, verdict = "none",
           facts.signed, poll' \in 0..PollBound, unrecognized' \in BOOLEAN,
           \/ phase' = "status" /\ poll' < PollBound /\ facts' = facts
           \/ phase' = "height" /\ facts' = facts
           \/ \E outcome \in CONFIRMATION_OUTCOMES :
                 /\ Classify(outcome)
                 /\ outcome \in {"confirmed", "finalized"} =>
                       tx \in {"confirmed", "finalized"}
                 /\ outcome = "dropped" => height > LastValidHeight
    PROVE  CommandInv'
<1>1. facts \in FactSpace
  BY DEF CommandInv, TypeOK, FactSpace
<1>2. /\ facts' \in FactSpace
      /\ facts'.expected = facts.expected /\ facts'.signed = facts.signed
      /\ facts'.fundingBlocked = facts.fundingBlocked
      /\ phase' \in {"status", "height", "fee"}
      /\ phase' = "status" => poll' < PollBound
      /\ facts'.confirmation \in {"confirmed", "finalized"} =>
            tx \in {"confirmed", "finalized"}
      /\ facts'.confirmation = "dropped" => height > LastValidHeight
  <2>1. CASE facts' = facts /\ phase' \in {"status", "height"}
             /\ (phase' = "status" => poll' < PollBound)
    BY <1>1, <2>1 DEF CommandInv, Observations
  <2>2. CASE \E outcome \in CONFIRMATION_OUTCOMES :
                 /\ Classify(outcome)
                 /\ outcome \in {"confirmed", "finalized"} =>
                       tx \in {"confirmed", "finalized"}
                 /\ outcome = "dropped" => height > LastValidHeight
    BY <2>2, Classified
  <2> QED
    BY <2>1, <2>2
<1>3. TypeOK'
  BY <1>2, PollBoundType, PollsAssumption
     DEF CommandInv, TypeOK, Phases, cluster, FactSpace
<1>4. Observations'
  BY <1>2 DEF CommandInv, Observations, cluster
<1>5. PollsCounted'
  BY <1>2, PollBoundType, PollsAssumption DEF PollsCounted, PollBound
<1> QED
  BY <1>3, <1>4, <1>5 DEF CommandInv, cluster

LEMMA StatusKeeps ==
    ASSUME CommandInv, StatusThrows \/ StatusAnswered PROVE CommandInv'
<1>1. /\ phase = "status" /\ verdict = "none" /\ facts.signed
      /\ poll < PollBound /\ poll' = poll + 1 /\ poll \in Nat
  BY DEF CommandInv, TypeOK, Observations, PollsCounted, StatusThrows,
         StatusAnswered
<1>2. poll' \in 0..PollBound /\ unrecognized \in BOOLEAN
  BY <1>1, PollBoundType, PollsAssumption DEF CommandInv, TypeOK
<1>3. CASE StatusThrows
  BY <1>1, <1>2, <1>3, LoopStep DEF StatusThrows, CONFIRMATION_OUTCOMES
<1>4. CASE StatusAnswered
  <2>1. PICK answer \in StatusAnswers :
           /\ unrecognized' = (unrecognized \/ answer = "unrecognized")
           /\ CASE answer = "error" -> Classify("signature-error")
                [] answer \in {"confirmed", "finalized"} -> Classify(answer)
                [] answer = "null" /\ DropDetection ->
                       phase' = "height" /\ UNCHANGED facts
                [] OTHER -> NextPoll(unrecognized')
    BY <1>4 DEF StatusAnswered
  <2>2. unrecognized' \in BOOLEAN
    BY <2>1
  <2>3. answer \in {"confirmed", "finalized"} => tx \in {"confirmed", "finalized"}
    BY <2>1 DEF StatusAnswers
  <2>4. \/ NextPoll(unrecognized')
        \/ phase' = "height" /\ facts' = facts
        \/ Classify("signature-error")
        \/ answer \in {"confirmed", "finalized"} /\ Classify(answer)
    BY <2>1
  <2>5. \/ phase' = "status" /\ poll' < PollBound /\ facts' = facts
        \/ phase' = "height" /\ facts' = facts
        \/ \E outcome \in CONFIRMATION_OUTCOMES :
              /\ Classify(outcome)
              /\ outcome \in {"confirmed", "finalized"} =>
                    tx \in {"confirmed", "finalized"}
              /\ outcome = "dropped" => height > LastValidHeight
    BY <1>1, <2>3, <2>4, Polled DEF CONFIRMATION_OUTCOMES
  <2> QED
    BY <1>1, <1>2, <1>4, <2>2, <2>5, LoopStep DEF StatusAnswered
<1> QED
  BY <1>3, <1>4

LEMMA HeightKeeps ==
    ASSUME CommandInv, ReadHeight \/ HeightThrows PROVE CommandInv'
<1>1. /\ phase = "height" /\ verdict = "none" /\ facts.signed
      /\ poll' = poll /\ poll \in 0..PollBound
      /\ unrecognized' \in BOOLEAN
      /\ UNCHANGED <<verdict, cluster>>
  BY PollBoundType, PollsAssumption
     DEF CommandInv, TypeOK, Observations, PollsCounted, ReadHeight,
         HeightThrows
<1>2. \/ NextPoll(unrecognized)
      \/ height > LastValidHeight /\ Classify("dropped")
  BY DEF ReadHeight, HeightThrows
<1>3. \/ phase' = "status" /\ poll' < PollBound /\ facts' = facts
      \/ \E outcome \in CONFIRMATION_OUTCOMES :
            /\ Classify(outcome)
            /\ outcome \in {"confirmed", "finalized"} =>
                  tx \in {"confirmed", "finalized"}
            /\ outcome = "dropped" => height > LastValidHeight
  BY <1>1, <1>2, Polled DEF CONFIRMATION_OUTCOMES
<1> QED
  BY <1>1, <1>3, LoopStep

(* The reads after the loop leave the confirmation alone.                  *)
LEMMA ReadsKeep ==
    ASSUME CommandInv, ReadFee \/ ReadPost PROVE CommandInv'
<1>1. facts \in FactSpace
  BY DEF CommandInv, TypeOK, FactSpace
<1>2. VisibleBalance \in Purses
  BY DEF VisibleBalance, CommandInv, TypeOK
<1>3. /\ facts' \in FactSpace
      /\ facts'.expected = facts.expected /\ facts'.signed = facts.signed
      /\ facts'.fundingBlocked = facts.fundingBlocked
      /\ facts'.confirmation = facts.confirmation
  <2>1. CASE ReadFee
    <3>1. PICK fee \in Optional({BaseFee}) : facts' = [facts EXCEPT !.fee = fee]
      BY <2>1 DEF ReadFee, Optional
    <3> QED
      BY <1>1, <3>1 DEF FactSpace, Facts
  <2>2. CASE ReadPost
    <3>1. PICK post \in Optional(Purses), tokenPost \in Optional(Amounts) :
             facts' = [facts EXCEPT !.post = post, !.tokenPost = tokenPost]
      BY <1>2, <2>2 DEF ReadPost, Optional
    <3> QED
      BY <1>1, <3>1 DEF FactSpace, Facts
  <2> QED
    BY <2>1, <2>2
<1>4. /\ phase \in {"fee", "post"} /\ phase' \in {"post", "report"}
      /\ UNCHANGED <<poll, unrecognized, verdict, cluster>>
  BY DEF ReadFee, ReadPost
<1>5. TypeOK'
  BY <1>3, <1>4 DEF CommandInv, TypeOK, Phases, FactSpace, cluster
<1>6. Observations'
  BY <1>3, <1>4 DEF CommandInv, Observations, cluster
<1> QED
  BY <1>4, <1>5, <1>6 DEF CommandInv, PollsCounted, cluster

LEMMA ReportKeeps == ASSUME CommandInv, Report PROVE CommandInv'
<1>1. TypeOK'
  BY VerdictType DEF Report, CommandInv, TypeOK, Phases, cluster
<1>2. Observations'
  BY DEF Report, CommandInv, Observations, cluster
<1> QED
  BY <1>1, <1>2 DEF Report, CommandInv, PollsCounted, cluster

LEMMA ClusterKeeps ==
    ASSUME CommandInv, Land \/ Advance \/ GrowHeight \/ Stranger
    PROVE  CommandInv'
<1>1. /\ UNCHANGED command
      /\ tx' = tx \/ (tx # "absent" /\ tx' \in Landed)
      /\ tx \in {"confirmed", "finalized"} => tx' \in {"confirmed", "finalized"}
      /\ height' \in 0..LastValidHeight + 1 /\ height' >= height
  BY HeightAssumption
     DEF Land, Advance, GrowHeight, Stranger, Landed, CommandInv, TypeOK
<1>2. purse' \in Purses /\ (tx' = "pending" => purse' # 0)
  BY PursesAssumption
     DEF Land, Advance, GrowHeight, Stranger, CommandInv, TypeOK, BaseFee
<1>3. TypeOK'
  BY <1>1, <1>2 DEF CommandInv, TypeOK, command
<1>4. Observations'
  BY <1>1, HeightAssumption DEF CommandInv, Observations, command, Landed, TypeOK
<1>5. PollsCounted'
  BY <1>1 DEF CommandInv, PollsCounted, command
<1> QED
  BY <1>2, <1>3, <1>4, <1>5 DEF CommandInv

LEMMA CStep == CommandInv /\ [Next]_vars => CommandInv'
<1> SUFFICES ASSUME CommandInv, [Next]_vars PROVE CommandInv'
  OBVIOUS
<1>1. CASE UNCHANGED vars
  BY <1>1 DEF vars, CommandInv, TypeOK, Observations, PollsCounted
<1>2. CASE Next
  BY <1>2, StatusKeeps, HeightKeeps, ReadsKeep, ReportKeeps, ClusterKeeps
     DEF Next, Step
<1> QED
  BY <1>1, <1>2

THEOREM CommandInvariant == Spec => []CommandInv
  BY CInit, CStep, PTL DEF Spec

-----------------------------------------------------------------------------
(* The properties the runs check.                                          *)

(* Type correctness; with it the bound on the polls, whatever was asked.   *)
THEOREM TypeCorrect == Spec => []TypeOK
<1>1. CommandInv => TypeOK
  BY DEF CommandInv
<1> QED
  BY <1>1, CommandInvariant, PTL

(* A reconciled attempt is on the cluster and cost what was seen.          *)
THEOREM ReconciledIsConfirmed == Spec => []ReconciledMeansConfirmed
<1>1. CommandInv => ReconciledMeansConfirmed
  <2> SUFFICES ASSUME CommandInv, verdict = "reconciled",
                      facts.confirmation # "dropped"
               PROVE  /\ tx \in {"confirmed", "finalized"}
                      /\ The(facts.pre) - The(facts.post) \in 0..facts.maxFee
                      /\ facts.fee # Unobserved =>
                            The(facts.pre) - The(facts.post) = BaseFee
    BY DEF ReconciledMeansConfirmed
  <2>1. /\ facts \in FactSpace
        /\ facts.expected = "self-transfer-probe"
        /\ BuildReconciliationReport(facts) = "reconciled"
    BY DEF CommandInv, TypeOK, Observations, FactSpace
  <2>2. /\ facts.confirmation \in {"confirmed", "finalized"}
        /\ facts.pre # Unobserved /\ facts.post # Unobserved
        /\ ProbeEffectMatches(facts)
    BY <2>1, ReconciledNeedsProbe
  <2>3. PICK before \in Purses : facts.pre = Observed(before)
    BY <2>1, <2>2 DEF FactSpace, Facts, Optional
  <2>4. PICK after \in Purses : facts.post = Observed(after)
    BY <2>1, <2>2 DEF FactSpace, Facts, Optional
  <2>5. /\ The(facts.pre) = before /\ before \in Nat
        /\ The(facts.post) = after /\ after \in Nat
        /\ facts.maxFee \in Nat
    BY <2>1, <2>3, <2>4, TheObserved, PursesAssumption, BoundsAssumption
       DEF FactSpace, Facts
  <2>6. facts.fee # Unobserved => The(facts.fee) = BaseFee
    BY <2>1, TheObserved DEF FactSpace, Facts, Optional
  <2>7. tx \in {"confirmed", "finalized"}
    BY <2>2 DEF CommandInv, Observations
  <2> QED
    BY <2>2, <2>5, <2>6, <2>7 DEF ProbeEffectMatches, SolDelta, BaseFee
<1> QED
  BY <1>1, CommandInvariant, PTL

(* What is said not to have been sent was never on the cluster.            *)
THEOREM NotSentIsAbsent == Spec => []NotSentMeansAbsent
<1>1. CommandInv => NotSentMeansAbsent
  <2> SUFFICES ASSUME CommandInv, verdict \in {"not-sent", "funding-blocked"}
               PROVE  tx = "absent"
    BY DEF NotSentMeansAbsent
  <2>1. BuildReconciliationReport(facts) \in {"not-sent", "funding-blocked"}
    BY DEF CommandInv, Observations
  <2>2. facts.fundingBlocked \/ ~facts.signed
    BY <2>1 DEF BuildReconciliationReport, ConfirmationVerdict,
       ConfirmedVerdict, DroppedVerdict, CompareExpected
  <2> QED
    BY <2>2 DEF CommandInv, Observations
<1> QED
  BY <1>1, CommandInvariant, PTL

(* A lost observation never turns a verdict that blocks into one that      *)
(* allows.                                                                 *)
THEOREM LossNeverHelps == Spec => []LostObservationNeverHelps
<1>1. CommandInv => LostObservationNeverHelps
  BY WeakerIsNotSafer
     DEF CommandInv, TypeOK, FactSpace, LostObservationNeverHelps
<1> QED
  BY <1>1, CommandInvariant, PTL

(* A transaction that was claimed dropped cannot land any more.            *)
THEOREM DroppedForGood == Spec => DropIsFinal
<1>1. CommandInv /\ [Next]_vars
        => [facts.confirmation = "dropped" /\ tx = "pending"
               => tx' = "pending"]_vars
  <2> SUFFICES ASSUME CommandInv, Next, facts.confirmation = "dropped",
                      tx = "pending"
               PROVE  tx' = "pending"
    OBVIOUS
  <2>1. height > LastValidHeight /\ height \in Nat
    BY HeightAssumption DEF CommandInv, Observations, TypeOK
  <2>2. ~Land /\ ~Advance
    BY <2>1, HeightAssumption DEF Land, Advance
  <2> QED
    BY <2>2 DEF Next, Step, StatusThrows, StatusAnswered, ReadHeight,
       HeightThrows, ReadFee, ReadPost, Report, GrowHeight, Stranger, cluster
<1> QED
  BY <1>1, CommandInvariant, PTL DEF Spec, DropIsFinal
=============================================================================
