------------------------------- MODULE Rehearsal -------------------------------
(***************************************************************************)
(* paper:sniper:rehearse (paperSniperRehearseReport of                     *)
(* apps/cli/src/commands.ts): the production commands one after another    *)
(* over one output directory, a record of every stage, and in              *)
(* mainnet-dry-run mode a release candidate folded from what the stages    *)
(* left.  A stage is judged by the exit code of its command or only by     *)
(* whether the file it should have written is there; files of an earlier   *)
(* rehearsal stay in the directory.  The chain, the providers and the Rust *)
(* engine answer as they like.                                             *)
(***************************************************************************)
EXTENDS Phase7Verdicts, TokenRisk

CONSTANTS Mints,           \* the mints of the candidate list
          Target,          \* the first of them, for which a swap is built
          ChainFacts,      \* bound: facts of a mint the chain may give
          OperatorRisk,    \* bound: what a --risk file may turn out to be
          Modes,           \* bound: modes the operator asks for
          LeftoverFiles,   \* bound: files an earlier rehearsal may have left
          LeftoverRisk,    \* bound: what risk files it may have left
          MaxRehearsals,   \* bound: rehearsals in a behaviour
          MaxMishaps       \* bound: stages that go wrong before the fold

RehearseModes == {"paper", "devnet", "mainnet-dry-run"}

(* What the file of a risk report turns out to be when it is opened: one   *)
(* that token:risk wrote, one that cannot be opened or parsed (a mistyped  *)
(* path, a write that a death cut short), or an operator's own JSON with a *)
(* severe extension and none of the three decisions.                       *)
LeftReadings == Readings \cup {"unreadable"}
FileReadings == LeftReadings \cup {"undecided"}

ASSUME RehearsalAssumption ==
    /\ Target \in Mints
    /\ ChainFacts \subseteq Facts
    /\ OperatorRisk \subseteq FileReadings /\ LeftoverRisk \subseteq LeftReadings
    /\ Modes \subseteq RehearseModes
    /\ MaxRehearsals \in Nat /\ MaxMishaps \in Nat

VARIABLES files,       \* the directory: what each file says, "none" if absent
          risk,        \* risk/risk.<mint>.json, "none" if absent
          candidate,   \* release-candidate.json, if there
          report,      \* rehearsal-report.json, if there
          rehearsals,  \* so far
          pc,          \* the next stage of the rehearsal under way
          run          \* its variables

rehearsalVars == <<files, risk, candidate, report, rehearsals, pc, run>>

Directories ==
    [candidates : {"none", "list"},
     quotes : {"none", "observed", "unobserved"},
     prepared : {"none", "routequote"},
     bundle : {"none", "verdict"},
     envelope : {"none", "unsigned"},
     simulation : {"none", "simulated-ok", "simulated-failed"},
     devnet : {"none", "rehearsed", "blocked"},
     reconciliation : {"none", "reconciled", "blocked"}]
FileNames == {"candidates", "quotes", "prepared", "bundle", "envelope",
              "simulation", "devnet", "reconciliation"}

NoEvidence ==
    [stageError |-> FALSE, assessed |-> FALSE, rejected |-> FALSE,
     critical |-> FALSE, token2022 |-> FALSE, quoteAttempted |-> FALSE,
     quoteObserved |-> FALSE, quoteFresh |-> FALSE, buildAttempted |-> FALSE,
     buildRefused |-> FALSE, buildSucceeded |-> FALSE, simAttempted |-> FALSE,
     simFailed |-> FALSE, simOk |-> FALSE, scored |-> FALSE,
     readiness |-> FALSE]

(* run.notExecuted counts the stages recorded as neither executed nor      *)
(* skipped; run.borrowed holds the files (and the mints of risk reports)   *)
(* that a stage recorded as executed rests on and that this rehearsal did  *)
(* not write; run.read the facts of the target that its auto-risk read.    *)
NoRun == [mode |-> "none", force |-> FALSE, notExecuted |-> 0,
          autoRisk |-> FALSE, operatorRisk |-> "none", read |-> {},
          route |-> "none", borrowed |-> {}, evidence |-> NoEvidence]

(* A directory that an earlier rehearsal may have left, died or ended      *)
(* before its fold, with or without the report of an                       *)
(* execution:session:reconcile.                                            *)
LeftBehind(d) ==
    /\ d.simulation # "none" => d.envelope # "none"
    /\ d.envelope # "none" \/ d.devnet # "none" => d.bundle # "none"
    /\ d.prepared # "none" => d.quotes # "none"

RehearsalInit ==
    /\ files \in {d \in Directories :
                    /\ LeftBehind(d)
                    /\ \A f \in FileNames \ LeftoverFiles : d[f] = "none"}
    /\ risk \in [Mints -> LeftoverRisk \cup {"none"}]
    /\ candidate = {}
    /\ report \in {{}} \cup {{[mode |-> m, rehearsed |-> FALSE]} : m \in Modes}
    /\ rehearsals = 0
    /\ pc = "idle"
    /\ run = NoRun

-----------------------------------------------------------------------------
Mainnet == run.mode = "mainnet-dry-run"

(* The refusal of every command that writes: exists, and no --force.       *)
CanWrite(there) == run.force \/ ~there

Writable(f) == CanWrite(files[f] # "none")

Goto(stage, r) == pc' = stage /\ run' = r

Write(f, says) == files' = [files EXCEPT ![f] = says]

KeepResults == UNCHANGED <<candidate, report, rehearsals>>

(* A stage recorded as executed that rests on files, some of them written. *)
Executed(r, fs, written) == [r EXCEPT !.borrowed = @ \cup (fs \ written)]
NotExecuted(r) == [r EXCEPT !.notExecuted = @ + 1]
Learn(r, field, value) == [r EXCEPT !.evidence[field] = value]

-----------------------------------------------------------------------------
(* The rehearsal refuses when a report of an earlier one is there.         *)
LaunchRehearsal ==
    /\ pc = "idle" /\ rehearsals < MaxRehearsals
    /\ \E mode \in Modes, force \in BOOLEAN :
          /\ force \/ report = {}
          /\ Goto("candidates", [NoRun EXCEPT !.mode = mode, !.force = force])
    /\ rehearsals' = rehearsals + 1
    /\ UNCHANGED <<files, risk, candidate, report>>

(* The replay snapshot writes its list only when a candidate is kept, and  *)
(* counts as good when it exits 0 and a list is there.                     *)
CandidatesStage ==
    /\ pc = "candidates"
    /\ \/ /\ Goto("risk", run)                   \* the operator's file
          /\ UNCHANGED files
       \/ /\ Writable("candidates")
          /\ Write("candidates", "list")
          /\ Goto("risk", run)
       \/ /\ Writable("candidates") /\ files["candidates"] # "none"
          /\ Goto("risk", Executed(run, {"candidates"}, {}))
          /\ UNCHANGED files                     \* nothing kept this time
       \/ /\ Goto("report", NotExecuted(run))
          /\ UNCHANGED files
    /\ UNCHANGED risk /\ KeepResults

(* Mutant: a report that is there is kept, whatever was read.              *)
AutoRiskKeepingOlder(answered, facts) ==
    /\ \A m \in answered : CanWrite(risk[m] # "none")
    /\ risk' = [m \in Mints |->
                   IF m \in answered /\ risk[m] = "none"
                   THEN ReadingOf(facts[m]) ELSE risk[m]]
    /\ LET r == [run EXCEPT !.autoRisk = risk'[Target] # "none",
                            !.read = IF Target \in answered
                                     THEN {facts[Target]} ELSE {}]
       IN  Goto("quotes", Executed(r, Mints, answered))

(* token:risk --deep for every mint: a report is written of a mint that    *)
(* answered, of another what was there before stays; the mints that have a *)
(* file are counted as fetched, and the bridge refuses one it cannot read. *)
AutoRisk(answered, facts) ==
    /\ \A m \in answered : CanWrite(risk[m] # "none")
    /\ risk' = [m \in Mints |->
                   IF m \in answered THEN ReadingOf(facts[m]) ELSE risk[m]]
    /\ LET reported == {m \in Mints : risk'[m] # "none"}
           r == [run EXCEPT !.autoRisk = risk'[Target] # "none",
                            !.read = IF Target \in answered
                                     THEN {facts[Target]} ELSE {}]
       IN  \/ /\ reported # {}                   \* and bridged
              /\ \A m \in reported : risk'[m] # "unreadable"
              /\ Goto("quotes", Executed(r, reported, answered))
           \/ Goto("quotes", NotExecuted(r))

RiskStage ==
    /\ pc = "risk"
    /\ \/ /\ \E reading \in OperatorRisk \cup {"none"} :   \* the operator's
                Goto("quotes", [run EXCEPT !.operatorRisk = reading])
          /\ UNCHANGED risk
       \/ /\ Mainnet
          /\ \E answered \in SUBSET Mints, facts \in [Mints -> ChainFacts] :
                AutoRisk(answered, facts)
    /\ UNCHANGED files /\ KeepResults

(* A quote fetch that is refused or fails leaves the report that was       *)
(* there.  A routequote of the operator is no attempt at a quote.          *)
QuotesStage ==
    /\ pc = "quotes"
    /\ \/ /\ \E route \in {"observed", "unobserved"} :
                Goto("bundle", [run EXCEPT !.route = route])
          /\ UNCHANGED files
       \/ /\ ~Mainnet
          /\ Goto("bundle", run)
          /\ UNCHANGED files
       \/ /\ Mainnet
          /\ LET attempted == Learn(run, "quoteAttempted", TRUE)
             IN  \/ /\ Writable("quotes")
                    /\ \E says \in {"observed", "unobserved"} :
                          Write("quotes", says)
                    /\ Goto("prepare", attempted)
                 \/ /\ Goto("prepare", NotExecuted(attempted))
                    /\ UNCHANGED files
    /\ UNCHANGED risk /\ KeepResults

(* The routequote is prepared from the quotes that are there, those of an  *)
(* earlier rehearsal included; engine:quote:score may be unavailable.      *)
PrepareStage ==
    /\ pc = "prepare"
    /\ \/ /\ files["quotes"] # "none" /\ Writable("prepared")
          /\ Write("prepared", "routequote")
          /\ \E scored \in BOOLEAN :
                LET r == [run EXCEPT !.route = files["quotes"]]
                IN  Goto("bundle", IF scored THEN r ELSE NotExecuted(r))
       \/ /\ Goto("bundle", NotExecuted(run))
          /\ UNCHANGED files
    /\ UNCHANGED risk /\ KeepResults

(* The paper dry run; refused, it ends the rehearsal.                      *)
DryRunStage ==
    /\ pc = "bundle"
    /\ \/ /\ Writable("bundle")
          /\ Write("bundle", "verdict")
          /\ \/ Goto("build", run)               \* reviewable-paper-only
             \/ Goto("build", NotExecuted(run))
       \/ /\ Goto("report", NotExecuted(Learn(run, "stageError", TRUE)))
          /\ UNCHANGED files
    /\ UNCHANGED risk /\ KeepResults

(* What the path that the build is given leads to: --risk, else the file   *)
(* of the target under auto-risk; "none" when there is no path.            *)
EffectiveRisk ==
    IF run.operatorRisk # "none" THEN run.operatorRisk
    ELSE IF run.autoRisk THEN risk[Target] ELSE "none"

(* Mutant: a build that was refused is simulated all the same when an      *)
(* envelope is there.                                                      *)
BuildStageOverLeftover ==
    /\ pc = "build"
    /\ LET attempted == Learn(run, "buildAttempted", TRUE)
           refused == NotExecuted(Learn(attempted, "buildRefused", TRUE))
       IN  \/ /\ Goto("devnet", run)
              /\ UNCHANGED files
           \/ /\ Mainnet /\ EffectiveRisk # "none"
              /\ \/ /\ EffectiveRisk # "unreadable"
                    /\ ~RefusesBuild(EffectiveRisk)
                    /\ Writable("envelope")
                    /\ Write("envelope", "unsigned")
                    /\ Goto("simulate",
                            Learn(attempted, "buildSucceeded", TRUE))
                 \/ /\ Goto(IF files["envelope"] = "none"
                            THEN "devnet" ELSE "simulate", refused)
                    /\ UNCHANGED files
    /\ UNCHANGED risk /\ KeepResults

(* execution:build, attempted whenever a risk path and the other options   *)
(* are given: it opens the file itself, and it may refuse for many reasons *)
(* besides what it finds there.                                            *)
BuildStage ==
    /\ pc = "build"
    /\ LET attempted == Learn(run, "buildAttempted", TRUE)
           refused == NotExecuted(Learn(attempted, "buildRefused", TRUE))
       IN  \/ /\ Goto("devnet", run)             \* an option is missing
              /\ UNCHANGED files
           \/ /\ Mainnet /\ EffectiveRisk # "none"
              /\ \/ /\ EffectiveRisk # "unreadable"
                    /\ ~RefusesBuild(EffectiveRisk)
                    /\ Writable("envelope")
                    /\ Write("envelope", "unsigned")
                    /\ Goto("simulate",
                            Learn(attempted, "buildSucceeded", TRUE))
                 \/ /\ Goto("devnet", refused)
                    /\ UNCHANGED files
    /\ UNCHANGED risk /\ KeepResults

(* paper:simulation:tx; it may refuse, for want of an RPC endpoint or of a *)
(* mode that may read, or because of --force.  The outcome is read from    *)
(* the file that is there after it.  Any outcome other than simulated-ok   *)
(* is a failure, the provider being away included.  engine:tx:inspect may  *)
(* be unavailable.                                                         *)
SimulateStage ==
    /\ pc = "simulate"
    /\ \E wrote \in BOOLEAN, inspected \in BOOLEAN :
          /\ IF wrote
             THEN /\ Writable("simulation")
                  /\ \E says \in {"simulated-ok", "simulated-failed"} :
                        Write("simulation", says)
             ELSE UNCHANGED files
          /\ LET says == files'["simulation"]
                 attempted == Learn(run, "simAttempted", TRUE)
                 r == IF inspected THEN attempted ELSE NotExecuted(attempted)
             IN  Goto("devnet",
                      CASE says = "simulated-ok" ->
                               Executed(Learn(r, "simOk", TRUE),
                                        {"simulation"},
                                        IF wrote THEN {"simulation"} ELSE {})
                        [] says = "none" -> NotExecuted(r)
                        [] OTHER -> NotExecuted(Learn(r, "simFailed", TRUE)))
    /\ UNCHANGED risk /\ KeepResults

(* execution:devnet:rehearse, behind --devnet-send: refused before it      *)
(* writes anything, or its report, and then most often its reconciliation. *)
(* Both outcomes are read from the files that are there after it.          *)
DevnetStage ==
    /\ pc = "devnet"
    /\ \/ /\ Goto("score", run)                  \* skipped
          /\ UNCHANGED files
       \/ /\ run.mode = "devnet"
          /\ \E wrote \in {{}, {"devnet"}, {"devnet", "reconciliation"}},
                outcome \in {"rehearsed", "blocked"},
                verdict \in {"reconciled", "blocked"} :
                LET good == {f \in {"devnet", "reconciliation"} :
                                files'[f] \in {"rehearsed", "reconciled"}}
                    r == Executed(run, good, wrote)
                IN  /\ wrote # {} => Writable("devnet")
                    /\ files' = [files EXCEPT
                          !["devnet"] =
                              IF "devnet" \in wrote THEN outcome ELSE @,
                          !["reconciliation"] =
                              IF "reconciliation" \in wrote
                              THEN verdict ELSE @]
                    /\ Goto("score", IF good = {"devnet", "reconciliation"}
                                     THEN r ELSE NotExecuted(r))
    /\ UNCHANGED risk /\ KeepResults

-----------------------------------------------------------------------------
(* The risk file a candidate is scored with: its own under risk/, whoever  *)
(* left it and whether or not it can be read, else for the target of a     *)
(* build the operator's.                                                   *)
RiskFacts(m) ==
    IF risk[m] # "none" THEN risk[m]
    ELSE IF m = Target /\ run.evidence.buildAttempted THEN run.operatorRisk
    ELSE "none"

AnyFacts(readings) == \E m \in Mints : RiskFacts(m) \in readings

(* The score input is the one source of the risk and quote facts: a file   *)
(* that cannot be read gives none, one without a decision its flags only,  *)
(* and nothing is learned when the input cannot be assembled.  Scores and  *)
(* readiness count by their exit codes.  The age of the quotes is judged   *)
(* by their own stamps and the cap that was given, if one was.             *)
FoldedEvidence(assembled, scored, readiness, quoteFresh) ==
    [run.evidence EXCEPT
        !.assessed = assembled /\ AnyFacts(Readings),
        !.rejected = assembled /\ AnyFacts({"rejected"}),
        !.critical = assembled /\ AnyFacts({"critical"}),
        !.token2022 =
            assembled /\ AnyFacts({"token2022", "extension", "undecided"}),
        !.quoteObserved = assembled /\ run.route = "observed",
        !.quoteFresh = quoteFresh,
        !.scored = scored,
        !.readiness = readiness]

Misses(scored, readiness) ==
    (IF scored THEN 0 ELSE 1) + (IF readiness THEN 0 ELSE 1)

(* candidate-score, whose input may fail to be assembled, readiness, which *)
(* refuses a risk file that it cannot read, and, in mainnet-dry-run mode,  *)
(* the release candidate, written over one that is there; the builder or   *)
(* the write may throw.                                                    *)
FoldStage ==
    /\ pc = "score"
    /\ \E assembled, scored, readiness, quoteFresh \in BOOLEAN :
          /\ scored => assembled
          /\ readiness => EffectiveRisk # "unreadable"
          /\ quoteFresh => /\ readiness /\ run.evidence.quoteAttempted
                           /\ files["quotes"] # "none"
          /\ LET c == BuildCandidate(FoldedEvidence(
                          assembled, scored, readiness, quoteFresh))
                 n == run.notExecuted + Misses(scored, readiness)
                 last == [NoRun EXCEPT !.mode = run.mode,
                                       !.borrowed = run.borrowed]
                 Last(count) == [last EXCEPT !.notExecuted = count]
             IN  \/ /\ ~Mainnet
                    /\ Goto("report", Last(n))
                    /\ UNCHANGED candidate
                 \/ /\ Mainnet
                    /\ candidate' = {c}
                    /\ Goto("report",
                            Last(IF c.verdict = "dryrun-complete-blocked-live"
                                 THEN n ELSE n + 1))
                 \/ /\ Mainnet
                    /\ Goto("report", Last(n + 1))
                    /\ UNCHANGED candidate
    /\ UNCHANGED <<files, risk, report, rehearsals>>

(* Mutant: a rehearsal is good when it came to its end.                    *)
OutcomeAlwaysRehearsed(r) == [mode |-> r.mode, rehearsed |-> TRUE]

(* Mutant: the mode is lost.                                               *)
OutcomeWithoutMode(r) == [mode |-> "none", rehearsed |-> r.notExecuted = 0]

(* rehearsed: every stage that was not skipped was executed.               *)
Outcome(r) == [mode |-> r.mode, rehearsed |-> r.notExecuted = 0]

FinishRehearsal ==
    /\ pc = "report"
    /\ report' = {Outcome(run)}
    /\ Goto("idle", NoRun)
    /\ UNCHANGED <<files, risk, candidate, rehearsals>>

(* The process dies or a directory cannot be made or the report cannot be  *)
(* written; what the stages wrote stays.                                   *)
Die ==
    /\ pc # "idle"
    /\ Goto("idle", NoRun)
    /\ UNCHANGED <<files, risk, candidate, report, rehearsals>>

(* The process dies in the middle of a risk report: it leaves the reports  *)
(* before that one whole, and that one torn.                               *)
DieInReport ==
    /\ pc = "risk" /\ Mainnet
    /\ \E answered \in SUBSET Mints, facts \in [Mints -> ChainFacts] :
          /\ \A m \in answered : CanWrite(risk[m] # "none")
          /\ \E torn \in answered :
                risk' = [m \in Mints |->
                            IF m = torn THEN "unreadable"
                            ELSE IF m \in answered THEN ReadingOf(facts[m])
                            ELSE risk[m]]
    /\ Goto("idle", NoRun)
    /\ UNCHANGED <<files, candidate, report, rehearsals>>

RehearsalNext ==
    /\ \/ LaunchRehearsal \/ CandidatesStage \/ RiskStage \/ QuotesStage
       \/ PrepareStage \/ DryRunStage \/ BuildStage \/ SimulateStage
       \/ DevnetStage \/ FoldStage \/ FinishRehearsal \/ Die
       \/ DieInReport
    /\ pc' = "report" \/ run'.notExecuted <= MaxMishaps

RehearsalSpec == RehearsalInit /\ [][RehearsalNext]_rehearsalVars

(* What the readers of its files are promised.                             *)
Files == INSTANCE EvidenceFiles WITH
             CandidateFiles <- SUBSET Candidates,
             reconciliation <- files.reconciliation

-----------------------------------------------------------------------------
(* Types.                                                                  *)
Runs == [mode : Modes \cup {"none"}, force : BOOLEAN, notExecuted : Nat,
         autoRisk : BOOLEAN, operatorRisk : OperatorRisk \cup {"none"},
         read : SUBSET ChainFacts,
         route : {"none", "observed", "unobserved"},
         borrowed : SUBSET (FileNames \cup Mints), evidence : Evidence]
Stages == {"idle", "candidates", "risk", "quotes", "prepare", "bundle",
           "build", "simulate", "devnet", "score", "report"}

TypeOK ==
    /\ files \in Directories
    /\ risk \in [Mints -> LeftReadings \cup {"none"}]
    /\ candidate \subseteq Candidates
    /\ report \subseteq [mode : Modes, rehearsed : BOOLEAN]
    /\ rehearsals \in Nat /\ pc \in Stages /\ run \in Runs
    /\ pc # "idle" => run.mode \in Modes

(* Strengthening: what the stages so far add up to.                        *)
StageEvidence ==
    LET e == run.evidence
    IN  pc \notin {"idle", "report"} =>
            /\ ~e.stageError
            /\ e.buildRefused \/ e.buildSucceeded <=> e.buildAttempted
            /\ ~(e.buildRefused /\ e.buildSucceeded)
            /\ e.simOk \/ e.simFailed => e.simAttempted
            /\ ~(e.simOk /\ e.simFailed)
            /\ e.buildAttempted => pc \in {"simulate", "devnet", "score"}
            /\ e.simAttempted <=> e.buildSucceeded /\ pc # "simulate"
            /\ pc = "simulate" => e.buildSucceeded

(* Strengthening: a swap that was built is built on a file that was read.  *)
BuiltOnReading ==
    pc \notin {"idle", "report"} /\ run.evidence.buildSucceeded =>
        /\ EffectiveRisk \notin {"none", "unreadable"}
        /\ ~RefusesBuild(EffectiveRisk)

(* Strengthening: a count of zero at the end of a mainnet dry run stands   *)
(* on a candidate.                                                         *)
EndsOnCandidate ==
    pc = "report" /\ Mainnet /\ run.notExecuted = 0 =>
        \E c \in candidate : Complete(c.evidence) /\ ~RiskBlocking(c.evidence)

(* The rehearsal implements what the readers of its files are promised     *)
(* (commands.ts:14838): whatever was left in the directory, whatever the   *)
(* providers answer and wherever a rehearsal dies, the candidate there     *)
(* folds evidence that the stages of one rehearsal can add up to, its      *)
(* verdict is that evidence's, and nothing but a devnet stage touches the  *)
(* reconciliation.                                                         *)
ImplementsEvidenceFiles == Files!FilesSpec

(* A release candidate comes out complete only if every report in risk/    *)
(* that can be read is clear, of this rehearsal or of an earlier one, and  *)
(* so is the one that the swap was built on; except when the operator gave *)
(* a --risk file next to one in risk/, which then speaks for its mint in   *)
(* the fold (commands.ts:14771) and not in the build (commands.ts:15189).  *)
FoldsComplete ==
    /\ pc = "score" /\ candidate' # candidate
    /\ \E c \in candidate' : c.verdict = "dryrun-complete-blocked-live"
TwoReports == run.operatorRisk # "none" /\ risk[Target] # "none"
CompleteRestsOnClearRisk ==
    [][FoldsComplete =>
          /\ \A m \in Mints : risk[m] \in {"none", "clear", "unreadable"}
          /\ TwoReports \/ EffectiveRisk = "clear"
      ]_rehearsalVars

(* A rehearsal that read the facts of its target itself builds a swap only *)
(* if nothing among them is rejected outright                              *)
(* (packages/risk/src/risk-flags.ts:96) and their score is below the one   *)
(* that rejects, whatever report an earlier rehearsal left in risk/.       *)
WritesEnvelope == pc = "build" /\ pc' = "simulate"
SwapRestsOnReadFacts ==
    [][WritesEnvelope =>
          \A f \in run.read : ~DealBreaker(f) /\ Score(f) < RejectAt
      ]_rehearsalVars

(* A mainnet dry run that is reported as rehearsed left a complete release *)
(* candidate: no stage of it was refused, blocked or unavailable           *)
(* (commands.ts:15691), the last one included.                             *)
ReportsRehearsed ==
    /\ pc = "report" /\ report' # report
    /\ [mode |-> "mainnet-dry-run", rehearsed |-> TRUE] \in report'
RehearsedHasItsCandidate ==
    [][ReportsRehearsed =>
          \E c \in candidate : Complete(c.evidence) /\ ~RiskBlocking(c.evidence)
      ]_rehearsalVars
=============================================================================
