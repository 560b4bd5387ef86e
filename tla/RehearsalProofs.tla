---------------------------- MODULE RehearsalProofs ----------------------------
(***************************************************************************)
(* Proofs about the rehearsal, for every set of mints, whatever an earlier *)
(* rehearsal left in the directory, and however many rehearsals follow one *)
(* another.                                                                *)
(***************************************************************************)
EXTENDS Rehearsal, TokenRiskProofs, TLAPS

USE DEF RehearseModes

-----------------------------------------------------------------------------
(* What the record of the stages becomes.                                  *)

LEMMA ExecutedType ==
    ASSUME NEW r \in Runs, NEW fs \in SUBSET (FileNames \cup Mints), NEW written
    PROVE  /\ Executed(r, fs, written) \in Runs
           /\ Executed(r, fs, written).evidence = r.evidence
           /\ Executed(r, fs, written).mode = r.mode
           /\ Executed(r, fs, written).notExecuted = r.notExecuted
  BY DEF Executed, Runs

LEMMA NotExecutedType ==
    ASSUME NEW r \in Runs
    PROVE  /\ NotExecuted(r) \in Runs
           /\ NotExecuted(r).evidence = r.evidence
           /\ NotExecuted(r).mode = r.mode
           /\ NotExecuted(r).notExecuted = r.notExecuted + 1
  BY DEF NotExecuted, Runs

EvidenceFields ==
    {"stageError", "quoteAttempted", "buildAttempted", "buildRefused",
     "buildSucceeded", "simAttempted", "simFailed", "simOk"}

LEMMA LearnType ==
    ASSUME NEW r \in Runs, NEW field \in EvidenceFields
    PROVE  /\ Learn(r, field, TRUE) \in Runs
           /\ Learn(r, field, TRUE).evidence = [r.evidence EXCEPT ![field] = TRUE]
           /\ Learn(r, field, TRUE).mode = r.mode
           /\ Learn(r, field, TRUE).notExecuted = r.notExecuted
<1>1. r.evidence \in Evidence
  BY DEF Runs
<1>2. [r.evidence EXCEPT ![field] = TRUE] \in Evidence
  BY <1>1 DEF Evidence, EvidenceFields
<1> QED
  BY <1>2 DEF Learn, Runs

-----------------------------------------------------------------------------
(* Stage by stage.  Early is what the stages before the build keep.        *)

RInv == TypeOK /\ StageEvidence /\ EndsOnCandidate

Early == {"candidates", "risk", "quotes", "prepare", "bundle", "build"}

Keeps(r) ==
    /\ r \in Runs
    /\ r.mode = run.mode
    /\ r.evidence = run.evidence

LEMMA EarlyKeeps ==
    ASSUME RInv, pc \in Early, pc' \in Early, Keeps(run'),
           files' \in Directories, risk' \in [Mints -> LeftReadings \cup {"none"}],
           KeepResults
    PROVE  RInv'
<1>1. TypeOK'
  BY DEF RInv, TypeOK, Keeps, KeepResults, Early, Stages
<1>2. StageEvidence'
  BY DEF RInv, StageEvidence, Keeps, Early
<1>3. EndsOnCandidate'
  BY DEF EndsOnCandidate, Early
<1> QED
  BY <1>1, <1>2, <1>3 DEF RInv

(* A stage that goes wrong may end the rehearsal.                          *)
LEMMA EarlyEnds ==
    ASSUME RInv, pc \in Early, pc' = "report", run' \in Runs,
           run'.mode = run.mode, run'.notExecuted > 0,
           files' \in Directories, risk' = risk, KeepResults
    PROVE  RInv'
<1>1. TypeOK'
  BY DEF RInv, TypeOK, KeepResults, Early, Stages
<1>2. StageEvidence'
  BY DEF StageEvidence
<1>3. EndsOnCandidate'
  BY DEF EndsOnCandidate
<1> QED
  BY <1>1, <1>2, <1>3 DEF RInv

(* Files that a stage writes.                                              *)
LEMMA WriteType ==
    ASSUME files \in Directories
    PROVE  /\ Write("candidates", "list") => files' \in Directories
           /\ \A says \in {"observed", "unobserved"} :
                 Write("quotes", says) => files' \in Directories
           /\ Write("prepared", "routequote") => files' \in Directories
           /\ Write("bundle", "verdict") => files' \in Directories
           /\ Write("envelope", "unsigned") => files' \in Directories
           /\ \A says \in {"simulated-ok", "simulated-failed"} :
                 Write("simulation", says) => files' \in Directories
  BY DEF Write, Directories

LEMMA Launches ==
    ASSUME RInv, LaunchRehearsal PROVE RInv'
<1>1. PICK mode \in Modes, force \in BOOLEAN :
         Goto("candidates", [NoRun EXCEPT !.mode = mode, !.force = force])
  BY DEF LaunchRehearsal
<1>2. NoEvidence \in Evidence
  BY DEF NoEvidence, Evidence
<1>3. pc' = "candidates" /\ run'.evidence = NoEvidence /\ run'.mode = mode
  BY <1>1 DEF Goto, NoRun
<1>4. run' \in Runs
  BY <1>1, <1>2 DEF Goto, NoRun, Runs
<1>5. TypeOK'
  BY <1>3, <1>4 DEF LaunchRehearsal, RInv, TypeOK, Stages
<1>6. StageEvidence'
  BY <1>3 DEF StageEvidence, NoEvidence
<1>7. EndsOnCandidate'
  BY <1>3 DEF EndsOnCandidate
<1> QED
  BY <1>5, <1>6, <1>7 DEF RInv

LEMMA CandidatesKeep ==
    ASSUME RInv, CandidatesStage PROVE RInv'
<1> USE DEF Goto
<1>1. pc = "candidates" /\ run \in Runs /\ files \in Directories /\ risk' = risk
      /\ risk \in [Mints -> LeftReadings \cup {"none"}] /\ KeepResults
  BY DEF CandidatesStage, RInv, TypeOK
<1>2. CASE pc' = "risk"
  <2>1. run' = run \/ run' = Executed(run, {"candidates"}, {})
    BY <1>2 DEF CandidatesStage
  <2>2. Keeps(run')
    BY <1>1, <2>1, ExecutedType DEF Keeps, FileNames
  <2>3. files' \in Directories
    BY <1>1, <1>2, WriteType DEF CandidatesStage
  <2> QED
    BY <1>1, <1>2, <2>2, <2>3, EarlyKeeps DEF Early
<1>3. CASE pc' # "risk"
  <2>1. pc' = "report" /\ run' = NotExecuted(run) /\ files' = files
    BY <1>3 DEF CandidatesStage
  <2>2. run' \in Runs /\ run'.mode = run.mode /\ run'.notExecuted > 0
    BY <1>1, <2>1, NotExecutedType DEF Runs
  <2> QED
    BY <1>1, <2>1, <2>2, EarlyEnds DEF Early
<1> QED
  BY <1>2, <1>3

LEMMA ReadingType == \A f : ReadingOf(f) \in Readings
  BY DEF ReadingOf, Readings

LEMMA RiskKeeps ==
    ASSUME RInv, RiskStage PROVE RInv'
<1> USE DEF Goto
<1>1. /\ pc = "risk" /\ pc' = "quotes" /\ run \in Runs
      /\ files' = files /\ files \in Directories /\ KeepResults
      /\ risk \in [Mints -> LeftReadings \cup {"none"}]
  BY DEF RiskStage, AutoRisk, RInv, TypeOK
<1>2. CASE risk' = risk /\ \E reading \in OperatorRisk \cup {"none"} :
                              run' = [run EXCEPT !.operatorRisk = reading]
  <2>1. Keeps(run')
    BY <1>1, <1>2 DEF Keeps, Runs
  <2> QED
    BY <1>1, <1>2, <2>1, EarlyKeeps DEF Early
<1>3. CASE \E answered \in SUBSET Mints, facts \in [Mints -> ChainFacts] :
              AutoRisk(answered, facts)
  <2>1. PICK answered \in SUBSET Mints, facts \in [Mints -> ChainFacts] :
           AutoRisk(answered, facts)
    BY <1>3
  <2>2. risk' \in [Mints -> LeftReadings \cup {"none"}]
    BY <1>1, <2>1, ReadingType DEF AutoRisk, LeftReadings
  <2> DEFINE known == IF Target \in answered THEN {facts[Target]} ELSE {}
             r == [run EXCEPT !.autoRisk = risk'[Target] # "none",
                              !.read = known]
             reported == {m \in Mints : risk'[m] # "none"}
  <2>3. known \in SUBSET ChainFacts
    BY <2>1
  <2>4. run' = Executed(r, reported, answered) \/ run' = NotExecuted(r)
    BY <2>1 DEF AutoRisk
  <2>5. reported \in SUBSET (FileNames \cup Mints)
    OBVIOUS
  <2> HIDE DEF known, reported
  <2>6. r \in Runs /\ r.mode = run.mode /\ r.evidence = run.evidence
    BY <1>1, <2>3 DEF Runs
  <2> HIDE DEF r
  <2>7. Keeps(run')
    BY <2>4, <2>5, <2>6, ExecutedType, NotExecutedType DEF Keeps
  <2> QED
    BY <1>1, <2>2, <2>7, EarlyKeeps DEF Early
<1> QED
  BY <1>2, <1>3 DEF RiskStage

LEMMA QuotesKeep ==
    ASSUME RInv, QuotesStage PROVE RInv'
<1> USE DEF Goto
<1>1. /\ pc = "quotes" /\ pc' \in {"bundle", "prepare"} /\ run \in Runs
      /\ risk' = risk /\ KeepResults /\ files \in Directories
      /\ risk \in [Mints -> LeftReadings \cup {"none"}]
  BY DEF QuotesStage, RInv, TypeOK
<1>2. files' \in Directories
  BY <1>1, WriteType DEF QuotesStage
<1> DEFINE attempted == Learn(run, "quoteAttempted", TRUE)
<1>3. \/ \E route \in {"observed", "unobserved"} :
            run' = [run EXCEPT !.route = route]
      \/ run' = run \/ run' = attempted \/ run' = NotExecuted(attempted)
  BY DEF QuotesStage
<1>4. /\ attempted \in Runs /\ attempted.mode = run.mode
      /\ attempted.evidence = [run.evidence EXCEPT !["quoteAttempted"] = TRUE]
  BY <1>1, LearnType DEF EvidenceFields
<1> HIDE DEF attempted
<1>5. /\ run' \in Runs /\ run'.mode = run.mode
      /\ \/ run'.evidence = run.evidence
         \/ run'.evidence = [run.evidence EXCEPT !["quoteAttempted"] = TRUE]
  <2>1. CASE \E route \in {"observed", "unobserved"} :
                run' = [run EXCEPT !.route = route]
    BY <1>1, <2>1 DEF Runs
  <2>2. CASE run' = run \/ run' = attempted \/ run' = NotExecuted(attempted)
    BY <1>1, <1>4, <2>2, NotExecutedType
  <2> QED
    BY <1>3, <2>1, <2>2
<1>6. TypeOK'
  BY <1>1, <1>2, <1>5 DEF RInv, TypeOK, KeepResults, Stages
<1>7. StageEvidence'
  <2>1. run.evidence \in Evidence
    BY <1>1 DEF Runs
  <2> QED
    BY <1>1, <1>5, <2>1 DEF RInv, StageEvidence, Evidence
<1>8. EndsOnCandidate'
  BY <1>1 DEF EndsOnCandidate
<1> QED
  BY <1>6, <1>7, <1>8 DEF RInv

LEMMA PrepareKeeps ==
    ASSUME RInv, PrepareStage PROVE RInv'
<1> USE DEF Goto
<1>1. /\ pc = "prepare" /\ pc' = "bundle" /\ run \in Runs
      /\ risk' = risk /\ KeepResults /\ files \in Directories
      /\ risk \in [Mints -> LeftReadings \cup {"none"}]
  BY DEF PrepareStage, RInv, TypeOK
<1>2. files' \in Directories
  BY <1>1, WriteType DEF PrepareStage
<1> DEFINE r == [run EXCEPT !.route = files["quotes"]]
<1>3. files["quotes"] \in {"none", "observed", "unobserved"}
  BY <1>1 DEF Directories
<1>4. r \in Runs /\ r.mode = run.mode /\ r.evidence = run.evidence
  BY <1>1, <1>3 DEF Runs
<1>5. run' \in {r, NotExecuted(r), NotExecuted(run)}
  BY DEF PrepareStage
<1> HIDE DEF r
<1>6. Keeps(run')
  BY <1>1, <1>4, <1>5, NotExecutedType DEF Keeps
<1> QED
  BY <1>1, <1>2, <1>6, EarlyKeeps DEF Early

LEMMA DryRunKeeps ==
    ASSUME RInv, DryRunStage PROVE RInv'
<1> USE DEF Goto
<1>1. /\ pc = "bundle" /\ run \in Runs /\ run.mode \in Modes
      /\ risk' = risk /\ KeepResults /\ files \in Directories
      /\ risk \in [Mints -> LeftReadings \cup {"none"}]
  BY DEF DryRunStage, RInv, TypeOK
<1>2. files' \in Directories
  BY <1>1, WriteType DEF DryRunStage
<1>3. CASE pc' = "build" /\ run' \in {run, NotExecuted(run)}
  <2>1. Keeps(run')
    BY <1>1, <1>3, NotExecutedType DEF Keeps
  <2> QED
    BY <1>1, <1>2, <1>3, <2>1, EarlyKeeps DEF Early
<1>4. CASE /\ pc' = "report"
           /\ run' = NotExecuted(Learn(run, "stageError", TRUE))
  <2> DEFINE l == Learn(run, "stageError", TRUE)
  <2>1. l \in Runs /\ l.mode = run.mode
    BY <1>1, LearnType DEF EvidenceFields
  <2>2. run' = NotExecuted(l)
    BY <1>4
  <2> HIDE DEF l
  <2>4. /\ run' \in Runs /\ run'.mode = run.mode
        /\ run'.notExecuted = l.notExecuted + 1
    BY <2>1, <2>2, NotExecutedType
  <2>3. run'.notExecuted > 0
    BY <2>1, <2>4 DEF Runs
  <2> QED
    BY <1>1, <1>2, <1>4, <2>3, <2>4, EarlyEnds DEF Early
<1> QED
  BY <1>3, <1>4 DEF DryRunStage

-----------------------------------------------------------------------------
(* The stages from the build on.                                           *)

LEMMA LateKeeps ==
    ASSUME RInv, pc # "idle", pc' \in {"simulate", "devnet", "score"},
           run' \in Runs, run'.mode = run.mode, files' \in Directories,
           risk' = risk, KeepResults, StageEvidence'
    PROVE  RInv'
<1>1. TypeOK'
  BY DEF RInv, TypeOK, KeepResults, Stages
<1>2. EndsOnCandidate'
  BY DEF EndsOnCandidate
<1> QED
  BY <1>1, <1>2 DEF RInv

LEMMA BuildKeeps ==
    ASSUME RInv, BuildStage PROVE RInv'
<1> USE DEF Goto
<1>1. /\ pc = "build" /\ run \in Runs /\ risk' = risk /\ KeepResults
      /\ files \in Directories
  BY DEF BuildStage, RInv, TypeOK
<1>2. files' \in Directories
  BY <1>1, WriteType DEF BuildStage
<1> DEFINE e == run.evidence
           attempted == Learn(run, "buildAttempted", TRUE)
<1>3. e \in Evidence
  BY <1>1 DEF Runs
<1>4. /\ ~e.stageError /\ ~e.buildAttempted /\ ~e.buildRefused
      /\ ~e.buildSucceeded /\ ~e.simAttempted /\ ~e.simOk /\ ~e.simFailed
  BY <1>1, <1>3 DEF RInv, StageEvidence, Evidence
<1>5. /\ attempted \in Runs /\ attempted.mode = run.mode
      /\ attempted.evidence = [e EXCEPT !["buildAttempted"] = TRUE]
  BY <1>1, LearnType DEF EvidenceFields
<1>6. CASE pc' = "devnet" /\ run' = run
  <2>1. StageEvidence'
    BY <1>3, <1>4, <1>6 DEF StageEvidence
  <2> QED
    BY <1>1, <1>2, <1>6, <2>1, LateKeeps
<1>7. CASE /\ pc' = "simulate"
           /\ run' = Learn(attempted, "buildSucceeded", TRUE)
  <2> HIDE DEF attempted
  <2>1. /\ run' \in Runs /\ run'.mode = run.mode
        /\ run'.evidence = [attempted.evidence EXCEPT !["buildSucceeded"] = TRUE]
    BY <1>5, <1>7, LearnType DEF EvidenceFields
  <2>3. StageEvidence'
    BY <1>1, <1>3, <1>4, <1>5, <1>7, <2>1 DEF StageEvidence, Evidence
  <2> QED
    BY <1>1, <1>2, <1>7, <2>1, <2>3, LateKeeps
<1>8. CASE /\ pc' = "devnet"
           /\ run' = NotExecuted(Learn(attempted, "buildRefused", TRUE))
  <2> DEFINE refused == Learn(attempted, "buildRefused", TRUE)
  <2> HIDE DEF attempted
  <2>1. /\ refused \in Runs /\ refused.mode = run.mode
        /\ refused.evidence = [attempted.evidence EXCEPT !["buildRefused"] = TRUE]
    BY <1>5, LearnType DEF EvidenceFields
  <2>2. run' = NotExecuted(refused)
    BY <1>8
  <2> HIDE DEF refused
  <2>3. /\ run' \in Runs /\ run'.mode = run.mode
        /\ run'.evidence = refused.evidence
    BY <2>1, <2>2, NotExecutedType
  <2>5. run'.evidence = [e EXCEPT !.buildAttempted = TRUE, !.buildRefused = TRUE]
    BY <1>5, <2>1, <2>3
  <2>6. LET f == run'.evidence
        IN  /\ ~f.stageError /\ f.buildAttempted /\ f.buildRefused
            /\ ~f.buildSucceeded /\ ~f.simAttempted /\ ~f.simOk /\ ~f.simFailed
    BY <1>3, <1>4, <2>5 DEF Evidence
  <2>7. StageEvidence'
    BY <1>1, <1>8, <2>3, <2>6 DEF StageEvidence
  <2> QED
    BY <1>1, <1>2, <1>8, <2>3, <2>7, LateKeeps
<1> QED
  BY <1>6, <1>7, <1>8 DEF BuildStage

LEMMA SimulateKeeps ==
    ASSUME RInv, SimulateStage PROVE RInv'
<1> USE DEF Goto
<1>1. /\ pc = "simulate" /\ pc' = "devnet" /\ run \in Runs /\ risk' = risk
      /\ KeepResults /\ files \in Directories
  BY DEF SimulateStage, RInv, TypeOK
<1>2. files' \in Directories
  BY <1>1, WriteType DEF SimulateStage
<1> DEFINE e == run.evidence
           attempted == Learn(run, "simAttempted", TRUE)
<1>3. e \in Evidence
  BY <1>1 DEF Runs
<1>4. /\ ~e.stageError /\ e.buildAttempted /\ ~e.buildRefused
      /\ e.buildSucceeded /\ ~e.simAttempted /\ ~e.simOk /\ ~e.simFailed
  BY <1>1, <1>3 DEF RInv, StageEvidence, Evidence
<1>5. /\ attempted \in Runs /\ attempted.mode = run.mode
      /\ attempted.evidence = [e EXCEPT !["simAttempted"] = TRUE]
  BY <1>1, LearnType DEF EvidenceFields
<1> HIDE DEF attempted
<1>0. PICK r \in {attempted, NotExecuted(attempted)} : \E written :
        run' \in {Executed(Learn(r, "simOk", TRUE), {"simulation"}, written),
                  NotExecuted(r), NotExecuted(Learn(r, "simFailed", TRUE))}
  BY DEF SimulateStage, attempted
<1>6. PICK written :
        run' \in {Executed(Learn(r, "simOk", TRUE), {"simulation"}, written),
                  NotExecuted(r), NotExecuted(Learn(r, "simFailed", TRUE))}
  BY <1>0
<1>7. /\ r \in Runs /\ r.mode = run.mode /\ r.evidence = attempted.evidence
  BY <1>5, NotExecutedType
<1>8. \E field \in {"simOk", "simFailed"} :
          /\ run' \in Runs /\ run'.mode = run.mode
          /\ \/ run'.evidence = r.evidence
             \/ run'.evidence = [r.evidence EXCEPT ![field] = TRUE]
  <2> DEFINE ok == Learn(r, "simOk", TRUE)
             failed == Learn(r, "simFailed", TRUE)
  <2>1. /\ ok \in Runs /\ ok.mode = run.mode
        /\ ok.evidence = [r.evidence EXCEPT !["simOk"] = TRUE]
    BY <1>5, <1>7, LearnType DEF EvidenceFields
  <2>5. /\ failed \in Runs /\ failed.mode = run.mode
        /\ failed.evidence = [r.evidence EXCEPT !["simFailed"] = TRUE]
    BY <1>5, <1>7, LearnType DEF EvidenceFields
  <2>6. run' \in {Executed(ok, {"simulation"}, written), NotExecuted(r),
                  NotExecuted(failed)}
    BY <1>6
  <2> HIDE DEF ok, failed
  <2>2. CASE run' = NotExecuted(r)
    BY <1>7, <2>2, NotExecutedType
  <2>3. CASE run' = NotExecuted(failed)
    BY <2>3, <2>5, NotExecutedType
  <2>4. CASE run' = Executed(ok, {"simulation"}, written)
    BY <2>1, <2>4, ExecutedType DEF FileNames
  <2> QED
    BY <2>2, <2>3, <2>4, <2>6
<1>9. StageEvidence'
  BY <1>1, <1>3, <1>4, <1>5, <1>7, <1>8 DEF StageEvidence, Evidence
<1> QED
  BY <1>1, <1>2, <1>8, <1>9, LateKeeps

LEMMA DevnetKeepsEvidence ==
    ASSUME RInv, DevnetStage
    PROVE  run' \in Runs /\ run'.mode = run.mode /\ run'.evidence = run.evidence
<1> USE DEF Goto
<1>1. run \in Runs
  BY DEF RInv, TypeOK
<1>2. \/ run' = run
      \/ \E good \in SUBSET FileNames : \E written :
            run' \in {Executed(run, good, written),
                      NotExecuted(Executed(run, good, written))}
  <2>1. CASE run' = run
    BY <2>1
  <2>2. CASE \E wrote \in {{}, {"devnet"}, {"devnet", "reconciliation"}} :
               LET good == {f \in {"devnet", "reconciliation"} :
                                files'[f] \in {"rehearsed", "reconciled"}}
                   r == Executed(run, good, wrote)
               IN  run' = r \/ run' = NotExecuted(r)
    BY <2>2 DEF FileNames
  <2> QED
    BY <2>1, <2>2 DEF DevnetStage
<1>3. CASE run' = run
  BY <1>1, <1>3
<1>4. CASE run' # run
  <2>0. PICK good \in SUBSET FileNames : \E written :
           run' \in {Executed(run, good, written),
                     NotExecuted(Executed(run, good, written))}
    BY <1>2, <1>4
  <2>1. PICK written :
           run' \in {Executed(run, good, written),
                     NotExecuted(Executed(run, good, written))}
    BY <2>0
  <2> DEFINE r == Executed(run, good, written)
  <2>2. /\ r \in Runs /\ r.mode = run.mode /\ r.evidence = run.evidence
    BY <1>1, ExecutedType
  <2>3. run' \in {r, NotExecuted(r)}
    BY <2>1
  <2> HIDE DEF r
  <2> QED
    BY <2>2, <2>3, NotExecutedType
<1> QED
  BY <1>3, <1>4

LEMMA DevnetKeeps ==
    ASSUME RInv, DevnetStage PROVE RInv'
<1> USE DEF Goto
<1>1. /\ pc = "devnet" /\ pc' = "score" /\ run \in Runs /\ risk' = risk
      /\ KeepResults /\ files \in Directories
  BY DEF DevnetStage, RInv, TypeOK
<1>2. files' \in Directories
  BY <1>1 DEF DevnetStage, Directories
<1>3. StageEvidence'
  BY <1>1, DevnetKeepsEvidence DEF RInv, StageEvidence
<1> QED
  BY <1>1, <1>2, <1>3, DevnetKeepsEvidence, LateKeeps

-----------------------------------------------------------------------------
(* The fold.                                                               *)

LEMMA FoldedType ==
    ASSUME RInv, pc = "score", NEW assembled \in BOOLEAN, NEW scored \in BOOLEAN,
           NEW readiness \in BOOLEAN, NEW fresh \in BOOLEAN
    PROVE  LET f == FoldedEvidence(assembled, scored, readiness, fresh)
           IN  /\ f \in Evidence
               /\ f.stageError = run.evidence.stageError
               /\ f.assessed <=> assembled /\ AnyFacts(Readings)
               /\ f.rejected <=> assembled /\ AnyFacts({"rejected"})
               /\ f.critical <=> assembled /\ AnyFacts({"critical"})
               /\ f.token2022 <=> assembled /\
                      AnyFacts({"token2022", "extension", "undecided"})
               /\ f.quoteAttempted = run.evidence.quoteAttempted
               /\ f.quoteFresh = fresh
               /\ f.buildAttempted = run.evidence.buildAttempted
               /\ f.buildRefused = run.evidence.buildRefused
               /\ f.buildSucceeded = run.evidence.buildSucceeded
               /\ f.simAttempted = run.evidence.simAttempted
               /\ f.simFailed = run.evidence.simFailed
               /\ f.simOk = run.evidence.simOk
               /\ f.scored = scored /\ f.readiness = readiness
<1> DEFINE assessed == assembled /\ AnyFacts(Readings)
           rejected == assembled /\ AnyFacts({"rejected"})
           critical == assembled /\ AnyFacts({"critical"})
           token2022 == assembled /\
                            AnyFacts({"token2022", "extension", "undecided"})
           observed == assembled /\ run.route = "observed"
<1>1. run.evidence \in Evidence
  BY DEF RInv, TypeOK, Runs
<1>2. /\ assessed \in BOOLEAN /\ rejected \in BOOLEAN /\ critical \in BOOLEAN
      /\ token2022 \in BOOLEAN /\ observed \in BOOLEAN
  BY Zenon DEF AnyFacts
<1>3. FoldedEvidence(assembled, scored, readiness, fresh) =
         [run.evidence EXCEPT !.assessed = assessed, !.rejected = rejected,
             !.critical = critical, !.token2022 = token2022,
             !.quoteObserved = observed, !.quoteFresh = fresh,
             !.scored = scored, !.readiness = readiness]
  BY DEF FoldedEvidence
<1> HIDE DEF assessed, rejected, critical, token2022, observed
<1> DEFINE f == FoldedEvidence(assembled, scored, readiness, fresh)
<1>4. /\ f = [run.evidence EXCEPT !.assessed = assessed, !.rejected = rejected,
             !.critical = critical, !.token2022 = token2022,
             !.quoteObserved = observed, !.quoteFresh = fresh,
             !.scored = scored, !.readiness = readiness]
      /\ DOMAIN run.evidence =
             {"stageError", "assessed", "rejected", "critical", "token2022",
              "quoteAttempted", "quoteObserved", "quoteFresh",
              "buildAttempted", "buildRefused", "buildSucceeded",
              "simAttempted", "simFailed", "simOk", "scored", "readiness"}
  BY <1>1, <1>3 DEF Evidence
<1> HIDE DEF f
<1>5. f.assessed = assessed /\ f.rejected = rejected /\ f.critical = critical
  BY <1>4
<1>6. f.token2022 = token2022 /\ f.quoteObserved = observed
  BY <1>4
<1>7. f.quoteFresh = fresh /\ f.scored = scored /\ f.readiness = readiness
  BY <1>4
<1>8. /\ f.stageError = run.evidence.stageError
      /\ f.quoteAttempted = run.evidence.quoteAttempted
  BY <1>4
<1>9. /\ f.buildAttempted = run.evidence.buildAttempted
      /\ f.buildRefused = run.evidence.buildRefused
      /\ f.buildSucceeded = run.evidence.buildSucceeded
  BY <1>4
<1>10. /\ f.simAttempted = run.evidence.simAttempted
       /\ f.simFailed = run.evidence.simFailed
       /\ f.simOk = run.evidence.simOk
  BY <1>4
<1>11. f \in Evidence
  <2>1. f = [stageError |-> f.stageError, assessed |-> f.assessed,
             rejected |-> f.rejected, critical |-> f.critical,
             token2022 |-> f.token2022, quoteAttempted |-> f.quoteAttempted,
             quoteObserved |-> f.quoteObserved, quoteFresh |-> f.quoteFresh,
             buildAttempted |-> f.buildAttempted,
             buildRefused |-> f.buildRefused,
             buildSucceeded |-> f.buildSucceeded,
             simAttempted |-> f.simAttempted, simFailed |-> f.simFailed,
             simOk |-> f.simOk, scored |-> f.scored,
             readiness |-> f.readiness]
    BY <1>4
  <2> QED
    BY <1>1, <1>2, <1>5, <1>6, <1>7, <1>8, <1>9, <1>10, <2>1 DEF Evidence
<1> QED
  BY <1>5, <1>6, <1>7, <1>8, <1>9, <1>10, <1>11
     DEF f, assessed, rejected, critical, token2022

LEMMA CandidateType ==
    ASSUME NEW e \in Evidence
    PROVE  /\ BuildCandidate(e) \in Candidates
           /\ BuildCandidate(e).evidence = e
           /\ BuildCandidate(e).verdict = CandidateVerdict(e)
<1>1. CandidateVerdict(e) \in CandidateVerdicts
  BY DEF CandidateVerdict, CandidateVerdicts
<1> QED
  BY <1>1 DEF BuildCandidate, Candidates

(* A complete verdict is that of complete evidence without a blocking risk.*)
LEMMA CompleteVerdict ==
    ASSUME NEW e, CandidateVerdict(e) = "dryrun-complete-blocked-live"
    PROVE  Complete(e) /\ ~RiskBlocking(e)
  BY DEF CandidateVerdict

(* What a fold does: a mainnet dry run that counts no miss has left a      *)
(* candidate, the fold of its evidence, whose verdict is complete.         *)
LEMMA FoldStep ==
    ASSUME RInv, FoldStage
    PROVE  /\ pc = "score" /\ pc' = "report" /\ run' \in Runs
           /\ run'.mode = run.mode
           /\ UNCHANGED <<files, risk, report, rehearsals>>
           /\ \/ /\ UNCHANGED candidate
                 /\ run.mode # "mainnet-dry-run" \/ run'.notExecuted > 0
              \/ \E assembled, scored, readiness, fresh \in BOOLEAN :
                    LET c == BuildCandidate(FoldedEvidence(
                                 assembled, scored, readiness, fresh))
                    IN  /\ fresh => readiness /\ run.evidence.quoteAttempted
                        /\ candidate' = {c}
                        /\ \/ c.verdict = "dryrun-complete-blocked-live"
                           \/ run'.notExecuted > 0
<1>1. /\ run \in Runs /\ pc = "score" /\ pc' = "report"
      /\ UNCHANGED <<files, risk, report, rehearsals>>
  BY DEF RInv, TypeOK, FoldStage, Goto
<1>2. PICK assembled \in BOOLEAN, scored \in BOOLEAN, readiness \in BOOLEAN,
           fresh \in BOOLEAN :
         /\ scored => assembled
         /\ readiness => EffectiveRisk # "unreadable"
         /\ fresh => /\ readiness /\ run.evidence.quoteAttempted
                     /\ files["quotes"] # "none"
         /\ LET c == BuildCandidate(FoldedEvidence(
                         assembled, scored, readiness, fresh))
                n == run.notExecuted + Misses(scored, readiness)
                last == [NoRun EXCEPT !.mode = run.mode,
                                      !.borrowed = run.borrowed]
                Last(count) == [last EXCEPT !.notExecuted = count]
            IN  \/ /\ ~Mainnet
                   /\ Goto("report", Last(n))
                   /\ UNCHANGED candidate
                \/ /\ Mainnet
                   /\ candidate' = {c}
                   /\ Goto("report",
                           Last(IF c.verdict = "dryrun-complete-blocked-live"
                                THEN n ELSE n + 1))
                \/ /\ Mainnet
                   /\ Goto("report", Last(n + 1))
                   /\ UNCHANGED candidate
  BY DEF FoldStage
<1> USE DEF Goto, Mainnet
<1> DEFINE n == run.notExecuted + Misses(scored, readiness)
           c == BuildCandidate(FoldedEvidence(
                    assembled, scored, readiness, fresh))
           last == [NoRun EXCEPT !.mode = run.mode, !.borrowed = run.borrowed]
<1>3. n \in Nat
  BY <1>1 DEF Misses, Runs
<1>4. NoEvidence \in Evidence
  BY DEF NoEvidence, Evidence
<1>5. last \in Runs /\ last.mode = run.mode
  BY <1>1, <1>4 DEF NoRun, Runs
<1> HIDE DEF n, c, last
<1>6. \A count \in Nat : LET l == [last EXCEPT !.notExecuted = count]
                         IN  /\ l \in Runs /\ l.mode = run.mode
                             /\ l.notExecuted = count
  BY <1>5 DEF Runs
<1>7. CASE run.mode # "mainnet-dry-run" /\ UNCHANGED candidate
           /\ run' = [last EXCEPT !.notExecuted = n]
  BY <1>1, <1>3, <1>6, <1>7
<1>8. CASE UNCHANGED candidate /\ run' = [last EXCEPT !.notExecuted = n + 1]
  BY <1>1, <1>3, <1>6, <1>8
<1>9. CASE /\ candidate' = {c}
           /\ run' = [last EXCEPT !.notExecuted =
                         IF c.verdict = "dryrun-complete-blocked-live"
                         THEN n ELSE n + 1]
  <2>1. /\ run' \in Runs /\ run'.mode = run.mode
        /\ \/ c.verdict = "dryrun-complete-blocked-live"
           \/ run'.notExecuted > 0
    BY <1>3, <1>6, <1>9
  <2> QED
    BY <1>1, <1>2, <1>9, <2>1 DEF c
<1> QED
  BY <1>2, <1>7, <1>8, <1>9 DEF n, c, last

LEMMA FoldKeeps ==
    ASSUME RInv, FoldStage PROVE RInv'
<1>0. pc = "score"
  BY FoldStep
<1>1. candidate' \subseteq Candidates
  <2>1. ASSUME NEW assembled \in BOOLEAN, NEW scored \in BOOLEAN,
               NEW readiness \in BOOLEAN, NEW fresh \in BOOLEAN
        PROVE  BuildCandidate(FoldedEvidence(
                   assembled, scored, readiness, fresh)) \in Candidates
    BY <1>0, FoldedType, CandidateType
  <2> QED
    BY <2>1, FoldStep DEF RInv, TypeOK
<1>2. TypeOK'
  BY <1>1, FoldStep DEF RInv, TypeOK, Stages
<1>3. StageEvidence'
  BY FoldStep DEF StageEvidence
<1>4. EndsOnCandidate'
  <2> SUFFICES ASSUME run'.mode = "mainnet-dry-run", run'.notExecuted = 0
               PROVE  \E c \in candidate' :
                         Complete(c.evidence) /\ ~RiskBlocking(c.evidence)
    BY DEF EndsOnCandidate, Mainnet
  <2>1. PICK assembled \in BOOLEAN, scored \in BOOLEAN,
             readiness \in BOOLEAN, fresh \in BOOLEAN :
           LET c == BuildCandidate(FoldedEvidence(
                        assembled, scored, readiness, fresh))
           IN  /\ candidate' = {c}
               /\ c.verdict = "dryrun-complete-blocked-live"
    BY FoldStep
  <2> DEFINE e == FoldedEvidence(assembled, scored, readiness, fresh)
  <2>2. e \in Evidence
    BY <1>0, FoldedType
  <2>3. /\ candidate' = {BuildCandidate(e)}
        /\ BuildCandidate(e).verdict = "dryrun-complete-blocked-live"
    BY <2>1
  <2> HIDE DEF e
  <2> QED
    BY <2>2, <2>3, CandidateType, CompleteVerdict
<1> QED
  BY <1>2, <1>3, <1>4 DEF RInv

-----------------------------------------------------------------------------
(* The invariant.                                                          *)

LEMMA FinishKeeps ==
    ASSUME RInv, FinishRehearsal \/ Die PROVE RInv'
<1> USE DEF Goto
<1>1. /\ pc' = "idle" /\ run' = NoRun
      /\ UNCHANGED <<files, risk, candidate, rehearsals>>
      /\ \/ report' = report
         \/ pc = "report" /\ report' = {Outcome(run)}
  BY DEF FinishRehearsal, Die
<1>2. NoRun \in Runs
  <2>1. NoEvidence \in Evidence
    BY DEF NoEvidence, Evidence
  <2> QED
    BY <2>1 DEF NoRun, Runs
<1>3. report' \subseteq [mode : Modes, rehearsed : BOOLEAN]
  <2>1. CASE report' = report
    BY <2>1 DEF RInv, TypeOK
  <2>2. CASE pc = "report" /\ report' = {Outcome(run)}
    <3>1. run.mode \in Modes
      BY <2>2 DEF RInv, TypeOK
    <3> QED
      BY <2>2, <3>1 DEF Outcome
  <2> QED
    BY <1>1, <2>1, <2>2
<1>4. TypeOK'
  BY <1>1, <1>2, <1>3 DEF RInv, TypeOK, Stages
<1>5. StageEvidence' /\ EndsOnCandidate'
  BY <1>1 DEF StageEvidence, EndsOnCandidate
<1> QED
  BY <1>4, <1>5 DEF RInv

LEMMA DyingKeeps ==
    ASSUME RInv, DieInReport PROVE RInv'
<1> USE DEF Goto
<1>1. /\ pc' = "idle" /\ run' = NoRun
      /\ UNCHANGED <<files, candidate, report, rehearsals>>
  BY DEF DieInReport
<1>2. risk' \in [Mints -> LeftReadings \cup {"none"}]
  BY ReadingType DEF DieInReport, RInv, TypeOK, LeftReadings
<1>3. NoRun \in Runs
  <2>1. NoEvidence \in Evidence
    BY DEF NoEvidence, Evidence
  <2> QED
    BY <2>1 DEF NoRun, Runs
<1>4. TypeOK'
  BY <1>1, <1>2, <1>3 DEF RInv, TypeOK, Stages
<1>5. StageEvidence' /\ EndsOnCandidate'
  BY <1>1 DEF StageEvidence, EndsOnCandidate
<1> QED
  BY <1>4, <1>5 DEF RInv

LEMMA RInit == RehearsalInit => RInv
<1> SUFFICES ASSUME RehearsalInit PROVE RInv
  OBVIOUS
<1>1. NoRun \in Runs
  <2>1. NoEvidence \in Evidence
    BY DEF NoEvidence, Evidence
  <2> QED
    BY <2>1 DEF NoRun, Runs
<1>2. TypeOK
  <2>1. files \in Directories
    BY DEF RehearsalInit
  <2>2. risk \in [Mints -> LeftReadings \cup {"none"}]
    BY RehearsalAssumption DEF RehearsalInit
  <2>3. report \subseteq [mode : Modes, rehearsed : BOOLEAN]
    <3>1. \/ report = {}
          \/ \E m \in Modes : report = {[mode |-> m, rehearsed |-> FALSE]}
      BY Zenon DEF RehearsalInit
    <3>2. CASE report = {}
      BY <3>2
    <3>3. CASE \E m \in Modes : report = {[mode |-> m, rehearsed |-> FALSE]}
      <4>1. PICK m \in Modes : report = {[mode |-> m, rehearsed |-> FALSE]}
        BY <3>3
      <4>2. [mode |-> m, rehearsed |-> FALSE] \in [mode : Modes, rehearsed : BOOLEAN]
        OBVIOUS
      <4> QED
        BY <4>1, <4>2
    <3> QED
      BY <3>1, <3>2, <3>3
  <2>4. /\ candidate \subseteq Candidates /\ rehearsals \in Nat
        /\ pc = "idle" /\ run \in Runs
    BY <1>1 DEF RehearsalInit
  <2> QED
    BY <2>1, <2>2, <2>3, <2>4 DEF TypeOK, Stages
<1>3. StageEvidence /\ EndsOnCandidate
  BY DEF RehearsalInit, StageEvidence, EndsOnCandidate
<1> QED
  BY <1>2, <1>3 DEF RInv

LEMMA RStep == RInv /\ [RehearsalNext]_rehearsalVars => RInv'
<1> SUFFICES ASSUME RInv, [RehearsalNext]_rehearsalVars PROVE RInv'
  OBVIOUS
<1>1. CASE UNCHANGED rehearsalVars
  BY <1>1 DEF rehearsalVars, RInv, TypeOK, StageEvidence, EndsOnCandidate,
              Mainnet
<1>2. CASE RehearsalNext
  BY <1>2, Launches, CandidatesKeep, RiskKeeps, QuotesKeep, PrepareKeeps,
     DryRunKeeps, BuildKeeps, SimulateKeeps, DevnetKeeps, FoldKeeps,
     FinishKeeps, DyingKeeps DEF RehearsalNext
<1> QED
  BY <1>1, <1>2

THEOREM RehearsalInvariant == RehearsalSpec => []RInv
  BY RInit, RStep, PTL DEF RehearsalSpec

-----------------------------------------------------------------------------
(* The properties the runs check.                                          *)

(* Type correctness of the rehearsal, whatever was left in its directory.  *)
THEOREM RehearsalTypeCorrect == RehearsalSpec => []TypeOK
<1>1. RInv => TypeOK
  BY DEF RInv
<1> QED
  BY <1>1, RehearsalInvariant, PTL

(* Of the steps of a rehearsal only the fold and the end change what a     *)
(* reader of the candidate and of the report sees.                         *)
LEMMA OnlyTheFold ==
    ASSUME RehearsalNext
    PROVE  /\ candidate' = candidate \/ FoldStage
           /\ report' = report \/ FinishRehearsal
<1>1. CASE \/ CandidatesStage \/ RiskStage \/ QuotesStage \/ PrepareStage
           \/ DryRunStage \/ BuildStage \/ SimulateStage \/ DevnetStage
  <2>1. KeepResults
    BY <1>1, Zenon DEF CandidatesStage, RiskStage, QuotesStage, PrepareStage,
            DryRunStage, BuildStage, SimulateStage, DevnetStage
  <2> QED
    BY <2>1 DEF KeepResults
<1>2. CASE LaunchRehearsal \/ FinishRehearsal \/ Die \/ DieInReport \/ FoldStage
  BY <1>2 DEF LaunchRehearsal, FinishRehearsal, Die, DieInReport, FoldStage
<1> QED
  BY <1>1, <1>2 DEF RehearsalNext

(* A mainnet dry run reported as rehearsed left a complete candidate.      *)
THEOREM RehearsedLeftACandidate == RehearsalSpec => RehearsedHasItsCandidate
<1>1. ASSUME RInv, [RehearsalNext]_rehearsalVars
      PROVE  [ReportsRehearsed =>
                 \E c \in candidate : Complete(c.evidence)
                                      /\ ~RiskBlocking(c.evidence)
             ]_rehearsalVars
  <2> SUFFICES ASSUME RehearsalNext, ReportsRehearsed
               PROVE  \E c \in candidate : Complete(c.evidence)
                                           /\ ~RiskBlocking(c.evidence)
    BY <1>1
  <2>1. report' = {Outcome(run)}
    BY OnlyTheFold DEF ReportsRehearsed, FinishRehearsal
  <2>2. run.mode = "mainnet-dry-run" /\ run.notExecuted = 0
    BY <2>1 DEF ReportsRehearsed, Outcome
  <2> QED
    BY <1>1, <2>2 DEF ReportsRehearsed, RInv, EndsOnCandidate, Mainnet
<1> QED
  BY <1>1, RehearsalInvariant, PTL DEF RehearsalSpec, RehearsedHasItsCandidate

-----------------------------------------------------------------------------
(* The refinement.                                                         *)

(* The evidence that is folded is such as one rehearsal can add up to.     *)
LEMMA FoldsConsistent ==
    ASSUME RInv, pc = "score", NEW assembled \in BOOLEAN, NEW scored \in BOOLEAN,
           NEW readiness \in BOOLEAN, NEW fresh \in BOOLEAN,
           fresh => readiness /\ run.evidence.quoteAttempted
    PROVE  Files!Consistent(FoldedEvidence(assembled, scored, readiness, fresh))
<1> DEFINE e == run.evidence
           f == FoldedEvidence(assembled, scored, readiness, fresh)
<1>1. /\ ~e.stageError
      /\ e.buildRefused \/ e.buildSucceeded <=> e.buildAttempted
      /\ ~(e.buildRefused /\ e.buildSucceeded)
      /\ e.simOk \/ e.simFailed => e.simAttempted
      /\ ~(e.simOk /\ e.simFailed)
      /\ e.simAttempted <=> e.buildSucceeded
  BY DEF RInv, StageEvidence
<1>2. /\ f.stageError = e.stageError
      /\ f.quoteAttempted = e.quoteAttempted
      /\ f.quoteFresh = fresh
      /\ f.buildAttempted = e.buildAttempted
      /\ f.buildRefused = e.buildRefused
      /\ f.buildSucceeded = e.buildSucceeded
      /\ f.simAttempted = e.simAttempted
      /\ f.simFailed = e.simFailed
      /\ f.simOk = e.simOk
      /\ f.readiness = readiness
  BY FoldedType
<1>3. /\ f.assessed <=> assembled /\ AnyFacts(Readings)
      /\ f.rejected <=> assembled /\ AnyFacts({"rejected"})
  BY FoldedType
<1>4. AnyFacts({"rejected"}) => AnyFacts(Readings)
  BY DEF AnyFacts, Readings
<1> HIDE DEF e, f
<1>5. f.rejected => f.assessed
  BY <1>3, <1>4
<1>6. f.quoteFresh => f.quoteAttempted /\ f.readiness
  BY <1>2 DEF e
<1>7. /\ f.buildRefused \/ f.buildSucceeded <=> f.buildAttempted
      /\ ~(f.buildRefused /\ f.buildSucceeded)
      /\ f.simAttempted <=> f.buildSucceeded
      /\ f.simOk \/ f.simFailed => f.simAttempted
      /\ ~(f.simOk /\ f.simFailed)
      /\ ~f.stageError
  BY <1>1, <1>2
<1>8. Files!Consistent(f)
  BY <1>5, <1>6, <1>7, Zenon DEF Files!Consistent
<1> QED
  BY <1>8 DEF f

LEMMA SameVerdict ==
    \A e : Files!CandidateVerdict(e) = CandidateVerdict(e)
  BY DEF CandidateVerdict, RiskBlocking, GoodQuote, Complete,
         Files!CandidateVerdict, Files!RiskBlocking, Files!GoodQuote,
         Files!Complete

LEMMA WriteElsewhere ==
    ASSUME RInv
    PROVE  \A f \in FileNames \ {"reconciliation"} : \A says :
              Write(f, says) => files'.reconciliation = files.reconciliation
  BY DEF RInv, TypeOK, Directories, FileNames, Write

LEMMA StepRefines ==
    ASSUME RInv, [RehearsalNext]_rehearsalVars
    PROVE  [Files!FilesNext]_Files!fileVars
<1>1. CASE UNCHANGED rehearsalVars
  BY <1>1 DEF rehearsalVars, Files!fileVars
<1>2. CASE candidate' = candidate /\ files'.reconciliation = files.reconciliation
  BY <1>2 DEF Files!fileVars
<1>3. CASE FoldStage
  <2>1. files'.reconciliation = files.reconciliation
    BY <1>3, FoldStep
  <2>2. CASE candidate' = candidate
    BY <2>1, <2>2 DEF Files!fileVars
  <2>3. CASE candidate' # candidate
    <3>1. PICK assembled \in BOOLEAN, scored \in BOOLEAN,
               readiness \in BOOLEAN, fresh \in BOOLEAN :
             /\ fresh => readiness /\ run.evidence.quoteAttempted
             /\ candidate' = {BuildCandidate(FoldedEvidence(
                                 assembled, scored, readiness, fresh))}
      BY <1>3, <2>3, FoldStep
    <3> DEFINE f == FoldedEvidence(assembled, scored, readiness, fresh)
    <3>2. f \in Evidence /\ Files!Consistent(f)
      BY <1>3, <3>1, FoldStep, FoldedType, FoldsConsistent
    <3>3. candidate' = {BuildCandidate(f)}
      BY <3>1
    <3> HIDE DEF f
    <3>4. Files!Fold
      BY <2>1, <3>2, <3>3, CandidateType, SameVerdict DEF Files!Fold
    <3> QED
      BY <3>4 DEF Files!FilesNext
  <2> QED
    BY <2>2, <2>3
<1>4. CASE DevnetStage
  <2>1. candidate' = candidate
    BY <1>4 DEF DevnetStage, KeepResults
  <2>2. \/ files'.reconciliation = files.reconciliation
        \/ files'.reconciliation \in {"reconciled", "blocked"}
    BY <1>4 DEF DevnetStage, RInv, TypeOK, Directories
  <2> QED
    BY <2>1, <2>2 DEF Files!fileVars, Files!FilesNext, Files!Reconcile
<1>5. ASSUME RehearsalNext, ~FoldStage, ~DevnetStage
      PROVE  candidate' = candidate
             /\ files'.reconciliation = files.reconciliation
  <2>1. candidate' = candidate
    BY <1>5, OnlyTheFold
  <2>2. files'.reconciliation = files.reconciliation
    <3>1. UNCHANGED files
          \/ \E f \in FileNames \ {"reconciliation"} : \E says : Write(f, says)
      <4>1. CASE \/ LaunchRehearsal \/ FinishRehearsal \/ Die \/ DieInReport
                 \/ RiskStage
        BY <4>1 DEF LaunchRehearsal, FinishRehearsal, Die, DieInReport, RiskStage
      <4>2. CASE CandidatesStage
        BY <4>2, Zenon DEF CandidatesStage, FileNames
      <4>3. CASE QuotesStage
        BY <4>3 DEF QuotesStage, FileNames
      <4>4. CASE PrepareStage
        BY <4>4 DEF PrepareStage, FileNames
      <4>5. CASE DryRunStage
        BY <4>5 DEF DryRunStage, FileNames
      <4>6. CASE BuildStage
        BY <4>6 DEF BuildStage, FileNames
      <4>7. CASE SimulateStage
        BY <4>7 DEF SimulateStage, FileNames
      <4> QED
        BY <1>5, <4>1, <4>2, <4>3, <4>4, <4>5, <4>6, <4>7 DEF RehearsalNext
    <3> QED
      BY <1>5, <3>1, WriteElsewhere
  <2> QED
    BY <2>1, <2>2
<1> QED
  BY <1>1, <1>2, <1>3, <1>4, <1>5

(* The rehearsal implements the evidence files its readers rely on.        *)
THEOREM EvidenceFilesImplemented == RehearsalSpec => ImplementsEvidenceFiles
<1>1. RehearsalInit => Files!FilesInit
  BY DEF RehearsalInit, Files!FilesInit, Directories
<1> QED
  BY <1>1, RehearsalInvariant, StepRefines, PTL
     DEF RehearsalSpec, ImplementsEvidenceFiles, Files!FilesSpec

-----------------------------------------------------------------------------
(* The swaps of a rehearsal.                                               *)

(* Strengthening: the report in risk/ of a target whose facts were read is *)
(* the reading of these facts, and no report of the operator outranks it.  *)
ReadFacts ==
    /\ pc \in {"candidates", "risk"} =>
          run.operatorRisk = "none" /\ run.read = {}
    /\ run.read # {} => run.operatorRisk = "none"
    /\ \A f \in run.read : risk[Target] = ReadingOf(f)

SameReads(r, q) ==
    /\ r.read = q.read /\ r.operatorRisk = q.operatorRisk
    /\ r.autoRisk = q.autoRisk

LEMMA ExecutedKeepsReads ==
    ASSUME NEW r \in Runs, NEW fs, NEW written
    PROVE  SameReads(Executed(r, fs, written), r)
  BY DEF SameReads, Executed, Runs

LEMMA StagesKeepReads ==
    ASSUME NEW r \in Runs
    PROVE  /\ SameReads(NotExecuted(r), r)
           /\ \A field \in EvidenceFields : SameReads(Learn(r, field, TRUE), r)
  BY DEF SameReads, NotExecuted, Learn, Runs

(* The stages after the second leave what was read alone.                  *)
LEMMA LaterStagesKeepReads ==
    ASSUME RInv, \/ QuotesStage \/ PrepareStage \/ DryRunStage \/ BuildStage
                 \/ SimulateStage \/ DevnetStage
    PROVE  /\ SameReads(run', run) /\ risk' = risk
           /\ pc' \notin {"candidates", "risk"}
<1> USE DEF Goto
<1>1. run \in Runs
  BY DEF RInv, TypeOK
<1>2. CASE QuotesStage
  <2> DEFINE a == Learn(run, "quoteAttempted", TRUE)
  <2>1. a \in Runs /\ SameReads(a, run)
    BY <1>1, LearnType, StagesKeepReads DEF EvidenceFields
  <2>2. \A route : SameReads([run EXCEPT !.route = route], run)
    BY <1>1 DEF Runs, SameReads
  <2>3. \/ \E route : run' = [run EXCEPT !.route = route]
        \/ run' \in {run, a, NotExecuted(a)}
    BY <1>2 DEF QuotesStage
  <2>4. risk' = risk /\ pc' \in {"bundle", "prepare"}
    BY <1>2 DEF QuotesStage
  <2> HIDE DEF a
  <2>5. SameReads(NotExecuted(a), a) /\ SameReads(run, run)
    BY <2>1, StagesKeepReads DEF SameReads
  <2> QED
    BY <2>1, <2>2, <2>3, <2>4, <2>5 DEF SameReads
<1>3. CASE PrepareStage
  <2> DEFINE r == [run EXCEPT !.route = files["quotes"]]
  <2>1. files["quotes"] \in {"none", "observed", "unobserved"}
    BY DEF RInv, TypeOK, Directories
  <2>2. r \in Runs /\ SameReads(r, run)
    BY <1>1, <2>1 DEF Runs, SameReads
  <2>3. run' \in {r, NotExecuted(r), NotExecuted(run)}
    BY <1>3 DEF PrepareStage
  <2>4. risk' = risk /\ pc' = "bundle"
    BY <1>3 DEF PrepareStage
  <2> HIDE DEF r
  <2> QED
    BY <1>1, <2>2, <2>3, <2>4, StagesKeepReads DEF SameReads
<1>4. CASE DryRunStage
  <2> DEFINE r == Learn(run, "stageError", TRUE)
  <2>1. run' \in {run, NotExecuted(run), NotExecuted(r)}
    BY <1>4 DEF DryRunStage
  <2>2. risk' = risk /\ pc' \in {"build", "report"}
    BY <1>4 DEF DryRunStage
  <2>3. r \in Runs /\ SameReads(r, run)
    BY <1>1, LearnType, StagesKeepReads DEF EvidenceFields
  <2> HIDE DEF r
  <2> QED
    BY <1>1, <2>1, <2>2, <2>3, StagesKeepReads DEF SameReads
<1>5. CASE BuildStage
  <2> DEFINE r == Learn(run, "buildAttempted", TRUE)
  <2>1. run' \in {run, Learn(r, "buildSucceeded", TRUE),
                  NotExecuted(Learn(r, "buildRefused", TRUE))}
    BY <1>5 DEF BuildStage
  <2>2. risk' = risk /\ pc' \in {"simulate", "devnet"}
    BY <1>5 DEF BuildStage
  <2>3. r \in Runs /\ SameReads(r, run)
    BY <1>1, LearnType, StagesKeepReads DEF EvidenceFields
  <2> HIDE DEF r
  <2>4. /\ Learn(r, "buildSucceeded", TRUE) \in Runs
        /\ SameReads(Learn(r, "buildSucceeded", TRUE), r)
        /\ Learn(r, "buildRefused", TRUE) \in Runs
        /\ SameReads(Learn(r, "buildRefused", TRUE), r)
    BY <2>3, LearnType, StagesKeepReads DEF EvidenceFields
  <2> QED
    BY <1>1, <2>1, <2>2, <2>3, <2>4, StagesKeepReads DEF SameReads
<1>6. CASE SimulateStage
  <2> DEFINE a == Learn(run, "simAttempted", TRUE)
  <2>1. a \in Runs /\ SameReads(a, run)
    BY <1>1, LearnType, StagesKeepReads DEF EvidenceFields
  <2>2. risk' = risk /\ pc' = "devnet"
    BY <1>6 DEF SimulateStage
  <2>3. \E r \in {a, NotExecuted(a)} : \E written :
           run' \in {Executed(Learn(r, "simOk", TRUE), {"simulation"}, written),
                     NotExecuted(r), NotExecuted(Learn(r, "simFailed", TRUE))}
    BY <1>6 DEF SimulateStage
  <2> HIDE DEF a
  <2>4. PICK r \in {a, NotExecuted(a)} : \E written :
           run' \in {Executed(Learn(r, "simOk", TRUE), {"simulation"}, written),
                     NotExecuted(r), NotExecuted(Learn(r, "simFailed", TRUE))}
    BY <2>3
  <2>5. PICK written :
           run' \in {Executed(Learn(r, "simOk", TRUE), {"simulation"}, written),
                     NotExecuted(r), NotExecuted(Learn(r, "simFailed", TRUE))}
    BY <2>4
  <2>6. r \in Runs /\ SameReads(r, run)
    BY <2>1, <2>4, NotExecutedType, StagesKeepReads DEF SameReads
  <2> DEFINE ok == Learn(r, "simOk", TRUE)
             failed == Learn(r, "simFailed", TRUE)
  <2>7. /\ ok \in Runs /\ SameReads(ok, r)
        /\ failed \in Runs /\ SameReads(failed, r)
    BY <2>6, LearnType, StagesKeepReads DEF EvidenceFields
  <2>8. run' \in {Executed(ok, {"simulation"}, written), NotExecuted(r),
                  NotExecuted(failed)}
    BY <2>5
  <2> HIDE DEF ok, failed
  <2>9. SameReads(run', run)
    <3>1. SameReads(Executed(ok, {"simulation"}, written), ok)
      BY <2>7, ExecutedKeepsReads
    <3>2. SameReads(NotExecuted(r), r) /\ SameReads(NotExecuted(failed), failed)
      BY <2>6, <2>7, StagesKeepReads
    <3> QED
      BY <2>6, <2>7, <2>8, <3>1, <3>2 DEF SameReads
  <2> QED
    BY <2>2, <2>9
<1>7. CASE DevnetStage
  <2>1. risk' = risk /\ pc' = "score"
    BY <1>7 DEF DevnetStage
  <2>2. \/ run' = run
        \/ \E good \in SUBSET FileNames : \E written :
              run' \in {Executed(run, good, written),
                        NotExecuted(Executed(run, good, written))}
    <3>1. CASE run' = run
      BY <3>1
    <3>2. CASE \E wrote \in {{}, {"devnet"}, {"devnet", "reconciliation"}} :
                 LET good == {f \in {"devnet", "reconciliation"} :
                                  files'[f] \in {"rehearsed", "reconciled"}}
                     r == Executed(run, good, wrote)
                 IN  run' = r \/ run' = NotExecuted(r)
      BY <3>2 DEF FileNames
    <3> QED
      BY <1>7, <3>1, <3>2 DEF DevnetStage
  <2>3. SameReads(run', run)
    <3>1. CASE run' = run
      BY <3>1 DEF SameReads
    <3>2. CASE run' # run
      <4>1. PICK good \in SUBSET FileNames : \E written :
               run' \in {Executed(run, good, written),
                         NotExecuted(Executed(run, good, written))}
        BY <2>2, <3>2
      <4>2. PICK written :
               run' \in {Executed(run, good, written),
                         NotExecuted(Executed(run, good, written))}
        BY <4>1
      <4> DEFINE r == Executed(run, good, written)
      <4>3. r \in Runs /\ SameReads(r, run)
        BY <1>1, ExecutedType, ExecutedKeepsReads
      <4>4. run' \in {r, NotExecuted(r)}
        BY <4>2
      <4> HIDE DEF r
      <4> QED
        BY <4>3, <4>4, StagesKeepReads DEF SameReads
    <3> QED
      BY <3>1, <3>2
  <2> QED
    BY <2>1, <2>3
<1> QED
  BY <1>2, <1>3, <1>4, <1>5, <1>6, <1>7

LEMMA ReadsInit == RehearsalInit => ReadFacts
  BY DEF RehearsalInit, ReadFacts, NoRun

(* The stage that reads the facts: what it read is what its report says.   *)
LEMMA RiskStageReads ==
    ASSUME RInv, ReadFacts, RiskStage PROVE ReadFacts'
<1> USE DEF Goto
<1>1. /\ run \in Runs /\ pc' = "quotes"
      /\ run.operatorRisk = "none" /\ run.read = {}
  BY DEF RInv, TypeOK, ReadFacts, RiskStage, AutoRisk
<1>2. CASE \E reading \in OperatorRisk \cup {"none"} :
              run' = [run EXCEPT !.operatorRisk = reading]
  <2>1. run'.read = {}
    BY <1>1, <1>2 DEF Runs
  <2> QED
    BY <1>1, <2>1 DEF ReadFacts
<1>3. CASE \E answered \in SUBSET Mints, facts \in [Mints -> ChainFacts] :
              AutoRisk(answered, facts)
  <2>1. PICK answered \in SUBSET Mints, facts \in [Mints -> ChainFacts] :
           AutoRisk(answered, facts)
    BY <1>3
  <2> DEFINE known == IF Target \in answered THEN {facts[Target]} ELSE {}
             r == [run EXCEPT !.autoRisk = risk'[Target] # "none",
                              !.read = known]
             reported == {m \in Mints : risk'[m] # "none"}
  <2>2. run' = Executed(r, reported, answered) \/ run' = NotExecuted(r)
    BY <2>1 DEF AutoRisk
  <2>3. known \in SUBSET ChainFacts
    BY <2>1
  <2>4. \A f \in known : risk'[Target] = ReadingOf(f)
    BY <2>1, RehearsalAssumption DEF AutoRisk
  <2> HIDE DEF known, reported
  <2>5. r \in Runs /\ r.read = known /\ r.operatorRisk = "none"
    BY <1>1, <2>3 DEF Runs
  <2> HIDE DEF r
  <2>6. run'.read = known /\ run'.operatorRisk = "none"
    <3>1. SameReads(Executed(r, reported, answered), r)
      BY <2>5, ExecutedKeepsReads
    <3>2. SameReads(NotExecuted(r), r)
      BY <2>5, StagesKeepReads
    <3> QED
      BY <2>2, <2>5, <3>1, <3>2 DEF SameReads
  <2> QED
    BY <1>1, <2>4, <2>6 DEF ReadFacts
<1> QED
  BY <1>2, <1>3 DEF RiskStage

LEMMA ReadsStep ==
    ASSUME RInv, ReadFacts, [RehearsalNext]_rehearsalVars PROVE ReadFacts'
<1> USE DEF Goto
<1>1. CASE UNCHANGED rehearsalVars
  BY <1>1 DEF rehearsalVars, ReadFacts
<1>2. CASE LaunchRehearsal
  <2>1. pc' = "candidates" /\ run'.read = {} /\ run'.operatorRisk = "none"
    BY <1>2 DEF LaunchRehearsal, NoRun
  <2> QED
    BY <2>1 DEF ReadFacts
<1>3. CASE CandidatesStage
  <2>1. run \in Runs /\ run.operatorRisk = "none" /\ run.read = {}
    BY <1>3 DEF RInv, TypeOK, ReadFacts, CandidatesStage
  <2>2. run' \in {run, Executed(run, {"candidates"}, {}), NotExecuted(run)}
    BY <1>3 DEF CandidatesStage
  <2>3. run'.operatorRisk = "none" /\ run'.read = {}
    <3>1. SameReads(Executed(run, {"candidates"}, {}), run)
      BY <2>1, ExecutedKeepsReads
    <3>2. SameReads(NotExecuted(run), run)
      BY <2>1, StagesKeepReads
    <3> QED
      BY <2>1, <2>2, <3>1, <3>2 DEF SameReads
  <2> QED
    BY <2>3 DEF ReadFacts
<1>4. CASE RiskStage
  BY <1>4, RiskStageReads
<1>5. CASE \/ QuotesStage \/ PrepareStage \/ DryRunStage \/ BuildStage
           \/ SimulateStage \/ DevnetStage
  BY <1>5, LaterStagesKeepReads DEF ReadFacts, SameReads
<1>6. CASE FoldStage
  <2>1. pc' = "report" /\ run'.read = {}
    BY <1>6 DEF FoldStage, NoRun
  <2> QED
    BY <2>1 DEF ReadFacts
<1>7. CASE FinishRehearsal \/ Die \/ DieInReport
  <2>1. pc' = "idle" /\ run'.read = {}
    BY <1>7 DEF FinishRehearsal, Die, DieInReport, NoRun
  <2> QED
    BY <2>1 DEF ReadFacts
<1> QED
  BY <1>1, <1>2, <1>3, <1>4, <1>5, <1>6, <1>7 DEF RehearsalNext

(* A swap is built over facts that were read only if none of them is       *)
(* rejected outright and their score is below the one that rejects,        *)
(* whatever an earlier rehearsal left in risk/.                            *)
THEOREM SwapsRestOnReadFacts == RehearsalSpec => SwapRestsOnReadFacts
<1>1. ASSUME RInv, ReadFacts, [RehearsalNext]_rehearsalVars
      PROVE  [WritesEnvelope =>
                 \A f \in run.read : ~DealBreaker(f) /\ Score(f) < RejectAt
             ]_rehearsalVars
  <2> SUFFICES ASSUME RehearsalNext, WritesEnvelope, NEW f \in run.read
               PROVE  ~DealBreaker(f) /\ Score(f) < RejectAt
    BY <1>1
  <2>1. BuildStage
    BY Zenon DEF WritesEnvelope, RehearsalNext, LaunchRehearsal,
           CandidatesStage, RiskStage, QuotesStage, PrepareStage, DryRunStage,
           SimulateStage, DevnetStage, FoldStage, FinishRehearsal, Die,
           DieInReport, Goto
  <2>2. EffectiveRisk # "none" /\ ~RefusesBuild(EffectiveRisk)
    BY <2>1 DEF WritesEnvelope, BuildStage, Goto
  <2>3. EffectiveRisk = ReadingOf(f)
    BY <1>1, <2>2 DEF EffectiveRisk, ReadFacts
  <2>4. Decision(f) # "REJECT"
    BY <2>2, <2>3 DEF ReadingOf, RefusesBuild
  <2>5. f \in Facts
    BY <1>1, RehearsalAssumption DEF RInv, TypeOK, Runs
  <2>6. ~DealBreaker(f)
    BY <2>4, <2>5, DealBreakersReject
  <2>7. Score(f) < RejectAt
    BY <2>4, ScoreType DEF Decision, RejectAt
  <2> QED
    BY <2>6, <2>7
<1> QED
  BY <1>1, ReadsInit, ReadsStep, RehearsalInvariant, RInit, RStep, PTL
     DEF RehearsalSpec, SwapRestsOnReadFacts

-----------------------------------------------------------------------------
(* What a complete candidate rests on.                                     *)

LEMMA BuiltInit == RehearsalInit => BuiltOnReading
  BY DEF RehearsalInit, BuiltOnReading

(* A stage that comes before the build, or ends the rehearsal, or that     *)
(* leaves no build that succeeded.                                         *)
LEMMA NothingBuilt ==
    ASSUME RInv', \/ pc' \notin {"simulate", "devnet", "score"}
                  \/ ~run'.evidence.buildSucceeded
    PROVE  BuiltOnReading'
  BY DEF BuiltOnReading, RInv, StageEvidence

(* A stage after the build leaves what the build was given alone.          *)
LEMMA SameRisk ==
    ASSUME SameReads(run', run), risk' = risk
    PROVE  EffectiveRisk' = EffectiveRisk
  BY DEF SameReads, EffectiveRisk

(* execution:build succeeds only over a file that it read.                 *)
LEMMA BuildReads ==
    ASSUME RInv, RInv', BuildStage PROVE BuiltOnReading'
<1> USE DEF Goto
<1>1. /\ pc = "build" /\ run \in Runs /\ SameReads(run', run) /\ risk' = risk
  BY LaterStagesKeepReads DEF BuildStage, RInv, TypeOK
<1>2. CASE pc' = "simulate"
  <2>1. EffectiveRisk \notin {"none", "unreadable"} /\ ~RefusesBuild(EffectiveRisk)
    BY <1>2 DEF BuildStage
  <2> QED
    BY <1>1, <2>1, SameRisk DEF BuiltOnReading
<1>3. CASE pc' # "simulate"
  <2>1. ~run.evidence.buildSucceeded
    BY <1>1 DEF RInv, StageEvidence
  <2> DEFINE attempted == Learn(run, "buildAttempted", TRUE)
             refused == Learn(attempted, "buildRefused", TRUE)
  <2>2. run' \in {run, NotExecuted(refused)}
    BY <1>3 DEF BuildStage
  <2>3. /\ attempted \in Runs
        /\ attempted.evidence = [run.evidence EXCEPT !["buildAttempted"] = TRUE]
    BY <1>1, LearnType DEF EvidenceFields
  <2> HIDE DEF attempted
  <2>4. /\ refused \in Runs
        /\ refused.evidence = [attempted.evidence EXCEPT !["buildRefused"] = TRUE]
    BY <2>3, LearnType DEF EvidenceFields
  <2> HIDE DEF refused
  <2>5. run.evidence \in Evidence
    BY <1>1 DEF Runs
  <2>6. ~refused.evidence.buildSucceeded
    BY <2>1, <2>3, <2>4, <2>5 DEF Evidence
  <2>7. ~run'.evidence.buildSucceeded
    BY <2>1, <2>2, <2>4, <2>6, NotExecutedType
  <2> QED
    BY <2>7, NothingBuilt
<1> QED
  BY <1>2, <1>3

LEMMA BuiltStep ==
    ASSUME RInv, RInv', BuiltOnReading, [RehearsalNext]_rehearsalVars
    PROVE  BuiltOnReading'
<1> USE DEF Goto
<1>1. CASE UNCHANGED rehearsalVars
  BY <1>1 DEF rehearsalVars, BuiltOnReading, EffectiveRisk
<1>2. CASE \/ LaunchRehearsal \/ CandidatesStage \/ RiskStage \/ QuotesStage
           \/ PrepareStage \/ DryRunStage \/ FoldStage \/ FinishRehearsal
           \/ Die \/ DieInReport
  <2>1. pc' \notin {"simulate", "devnet", "score"}
    BY <1>2, Zenon DEF LaunchRehearsal, CandidatesStage, RiskStage, AutoRisk,
            QuotesStage, PrepareStage, DryRunStage, FoldStage,
            FinishRehearsal, Die, DieInReport
  <2> QED
    BY <2>1, NothingBuilt
<1>3. CASE BuildStage
  BY <1>3, BuildReads
<1>4. CASE SimulateStage \/ DevnetStage
  <2>1. SameReads(run', run) /\ risk' = risk
    BY <1>4, LaterStagesKeepReads
  <2>2. pc \in {"simulate", "devnet"}
    BY <1>4 DEF SimulateStage, DevnetStage
  <2>3. run'.evidence.buildSucceeded => run.evidence.buildSucceeded
    <3>1. CASE SimulateStage
      BY <3>1 DEF SimulateStage, RInv, StageEvidence
    <3>2. CASE DevnetStage
      BY <3>2, DevnetKeepsEvidence
    <3> QED
      BY <1>4, <3>1, <3>2
  <2> QED
    BY <2>1, <2>2, <2>3, SameRisk DEF BuiltOnReading
<1> QED
  BY <1>1, <1>2, <1>3, <1>4 DEF RehearsalNext

(* A complete candidate rests on a clear reading of the mint its swap was  *)
(* built for, unless two reports were there of it, and on no reading in    *)
(* risk/ to the contrary, however old.                                     *)
THEOREM CompleteNeedsClearRisk == RehearsalSpec => CompleteRestsOnClearRisk
<1>1. ASSUME RInv, BuiltOnReading, [RehearsalNext]_rehearsalVars
      PROVE  [FoldsComplete =>
                 /\ \A m \in Mints : risk[m] \in {"none", "clear", "unreadable"}
                 /\ TwoReports \/ EffectiveRisk = "clear"
             ]_rehearsalVars
  <2> SUFFICES ASSUME RehearsalNext, FoldsComplete
               PROVE  /\ \A m \in Mints :
                            risk[m] \in {"none", "clear", "unreadable"}
                      /\ TwoReports \/ EffectiveRisk = "clear"
    BY <1>1
  <2>1. FoldStage /\ pc = "score"
    BY OnlyTheFold DEF FoldsComplete
  <2>2. PICK assembled \in BOOLEAN, scored \in BOOLEAN,
             readiness \in BOOLEAN, fresh \in BOOLEAN :
           candidate' = {BuildCandidate(FoldedEvidence(
                             assembled, scored, readiness, fresh))}
    BY <1>1, <2>1, FoldStep DEF FoldsComplete
  <2> DEFINE f == FoldedEvidence(assembled, scored, readiness, fresh)
             extensions == {"token2022", "extension", "undecided"}
  <2>3. /\ f \in Evidence
        /\ f.assessed <=> assembled /\ AnyFacts(Readings)
        /\ f.rejected <=> assembled /\ AnyFacts({"rejected"})
        /\ f.critical <=> assembled /\ AnyFacts({"critical"})
        /\ f.token2022 <=> assembled /\ AnyFacts(extensions)
        /\ f.buildAttempted = run.evidence.buildAttempted
        /\ f.buildSucceeded = run.evidence.buildSucceeded
    BY <1>1, <2>1, FoldedType
  <2>4. candidate' = {BuildCandidate(f)}
    BY <2>2
  <2> HIDE DEF f
  <2>5. CandidateVerdict(f) = "dryrun-complete-blocked-live"
    <3>1. PICK c \in candidate' : c.verdict = "dryrun-complete-blocked-live"
      BY DEF FoldsComplete
    <3>2. c = BuildCandidate(f)
      BY <2>4, <3>1
    <3>3. BuildCandidate(f).verdict = CandidateVerdict(f)
      BY <2>3, CandidateType
    <3> QED
      BY <3>1, <3>2, <3>3
  <2>6. Complete(f) /\ ~RiskBlocking(f)
    BY <2>5, CompleteVerdict
  <2>7. run.evidence.buildAttempted /\ run.evidence.buildSucceeded
    BY <2>3, <2>6 DEF Complete
  <2>8. assembled
    BY <2>3, <2>6 DEF Complete
  <2>9. ~AnyFacts({"rejected"}) /\ ~AnyFacts({"critical"}) /\ ~AnyFacts(extensions)
    BY <2>3, <2>6, <2>8 DEF RiskBlocking
  <2>10. \A m \in Mints :
            RiskFacts(m) \notin {"rejected", "critical", "token2022",
                                 "extension", "undecided"}
    BY <2>9 DEF AnyFacts
  <2>11. \A m \in Mints : risk[m] \in {"none", "clear", "unreadable"}
    BY <1>1, <2>10 DEF RiskFacts, RInv, TypeOK, Readings, LeftReadings
  <2>12. EffectiveRisk \notin {"none", "unreadable"}
    BY <1>1, <2>1, <2>7 DEF BuiltOnReading
  <2>13. CASE run.operatorRisk = "none"
    BY <2>11, <2>12, <2>13, RehearsalAssumption DEF EffectiveRisk
  <2>14. CASE run.operatorRisk # "none" /\ risk[Target] = "none"
    <3>1. RiskFacts(Target) = run.operatorRisk /\ EffectiveRisk = run.operatorRisk
      BY <2>7, <2>14 DEF RiskFacts, EffectiveRisk
    <3>2. run.operatorRisk \in FileReadings \cup {"none"}
      BY <1>1, RehearsalAssumption DEF RInv, TypeOK, Runs
    <3> QED
      BY <2>10, <2>11, <2>12, <3>1, <3>2, RehearsalAssumption
         DEF FileReadings, LeftReadings, Readings
  <2> QED
    BY <2>11, <2>13, <2>14 DEF TwoReports
<1> QED
  BY <1>1, BuiltInit, BuiltStep, RehearsalInvariant, RInit, RStep, PTL
     DEF RehearsalSpec, CompleteRestsOnClearRisk
=============================================================================
