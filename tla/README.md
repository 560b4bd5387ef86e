# A formal model of Sol-Maker

Sol-Maker (package scope `@soulmaker`) is a command-line program that screens Solana tokens, trades them
on paper, and - on devnet only - submits transactions. This directory holds TLA+ models of the parts of
the program that keep state across steps, the TLC configurations that check them, and proofs checked by
TLAPS. Paths below are relative to `src/`.

## 1. The system

| Component | State it keeps | Operations | What makes it correct |
|---|---|---|---|
| Session ledger and wall (`packages/execution/src/session.ts`) | an append-only JSONL file, one per workspace | append an entry, parse the file, `evaluateSessionContinuation` | no new attempt while an earlier submission is unaccounted for; a damaged file allows nothing |
| Devnet execution commands (`apps/cli/src/commands.ts`, `packages/execution/src/send.ts`, `rehearsal.ts`) | none of their own; local variables between awaits, the ledger, the chain | `execution:devnet:send`, `execution:devnet:rehearse`, `execution:session:reconcile`, `execution:session:acknowledge` | every submission is recorded; what is recorded is what happened |
| Reconciliation (`packages/execution/src/reconciliation.ts`) | none; one run of reads | `trackConfirmation`, `readBalanceSnapshot`, `buildReconciliationReport` | a verdict that allows a new attempt is justified by what the cluster did |
| Paper engine and journal (`packages/paper/src`) | an append-only JSONL journal; positions derived from it | `paper:run` (buys, sells, exits), replay | replay reproduces the run; caps hold over the replayed portfolio; money is conserved |
| Strategy (`packages/strategy/src`) | none; a snapshot of the paper portfolio | `strategy:plan`: entry gates, exits, conversion to paper candidates | exits fire for held positions; a plan's full exit closes the position |
| Rehearsal and release candidate (`paper:sniper:rehearse` in `commands.ts`, `packages/sniper/src/mainnet-dryrun-release-candidate.ts`) | an output directory of files, one per stage; the local record of the stages | ten stages, each a production command of its own, and the fold of what they left | a complete candidate and a good report rest on what the stages found, not on what an earlier rehearsal left |
| Phase 7 evidence (`packages/execution/src/phase7-*.ts`) | three files: sign-off, authorization audit, micro-trade preflight | a builder and a validator each, and three commands that read one another's files | nothing comes out ready that a human did not sign in full; what one command writes the next can read |
| Realtime intake (`packages/realtime/src`) | a dedupe set and a bounded list per run | admit, drop, cap | no candidate twice, the cap holds |
| Safety controls, modes and live gate (`packages/execution/src/safety-controls.ts`, `modes.ts`, `live-gate.ts`) | none | conjunctions of checks over one request | refuse unless every check passes |
| Token risk report (`packages/risk/src`, `packages/solana/src/token2022.ts`) | none | facts of a mint to flags, a score and a decision | what is rejected outright rejects whatever else is known; a fact that is lost is never safer than one that was read |
| Quotes, transaction building and preview, signing, Solana wrappers | none | one request, one answer | shape of the data |
| Sniper artifacts, simulation, backtest, Rust engine, web dashboard | files written once | batch computation and rendering | formatting, determinism |

How they interact: the CLI is the only caller. A command is one operating-system process; it reads a
file, awaits RPC answers one after the other, and appends to the file. There is no daemon, no lock and no
shared memory: two commands interact only through the files and through the chain, so the hard behaviour
lies in commands that overlap, in processes that die or fail between the submission of a transaction and
the append that records it, in appends that are cut short, in answers that never come or come late, in stages that are judged by files
another process left, and in sequences of legal commands. All hazards are listed with their line in `PROJECT.json`.

## 2. Modules

| Module | Models |
|---|---|
| `Reconciliation` | the pure verdict: `buildReconciliationReport`, `compareExpected`, `computeBalanceDelta` |
| `SessionLedger` (extends it) | ledger entries, redaction, `appendFileSync`, `parseSessionLedger`, `evaluateSessionContinuation` |
| `ExecutionSessions` (extends it) | the four commands as processes over one ledger, the chain, and the faults |
| `AccountingWall` | the abstract promise of the ledger, from `docs/EXECUTION_SAFETY.md` and the header of `session.ts` |
| `ReconcileCommand` (extends `Reconciliation`) | one accounting run, read by read, against a moving cluster |
| `ExecutionSessionsProofs` | the theorems about `ExecutionSessions` |
| `ReconcileCommandProofs` | the theorems about `ReconcileCommand` |
| `PaperEngine` | the pure part of the paper package: fills, caps, exit thresholds, journal events and their replay |
| `StrategyPlan` (extends it) | the pure decision of `strategy:plan`: gates, score, entries, exits, and the conversion into paper candidates |
| `StrategyPlanProofs` | the theorems about `StrategyPlan`, and those that join it to `TokenRisk` |
| `PaperRuns` (extends `StrategyPlan`) | `paper:run --journal` as processes over one journal, and `strategy:plan` over the same journal |
| `PaperRunsProofs` | the theorems about `PaperRuns` |
| `FoldProofs` | lemmas about folds over sequences and sums over finite sets, for any step and start; `PaperRunsProofs` instantiates it for the replay, `StrategyPlanProofs` for the plan |
| `Phase7Verdicts` | the pure verdicts: sign-off, audit, preflight, and the release candidate of a dry run |
| `EvidenceFiles` (extends it) | the abstract promise about the two files a rehearsal leaves to the Phase 7 commands |
| `TokenRisk` | the pure risk report: the extension summary, the checks, the score, the decision, and what a build and a release candidate read from it |
| `Rehearsal` (extends `Phase7Verdicts` and `TokenRisk`, implements `EvidenceFiles`) | `paper:sniper:rehearse`, stage by stage, over a directory that may not be empty |
| `TokenRiskProofs` | the theorems about `TokenRisk` |
| `RehearsalProofs` (extends it) | the theorems about `Rehearsal`, and the one that joins it to `TokenRisk` |
| `MicrotradeEvidence` (extends `EvidenceFiles`) | the three Phase 7 commands over one another's files, with rehearsals and edits by hand in between |
| `MicrotradeEvidenceProofs` | the theorems about `MicrotradeEvidence` |
| `MCExecutionSessions`, `MCReconcileCommand`, `MCPaperRuns`, `MCRehearsal`, `MCMicrotradeEvidence` | the small instances for TLC |

The composition of rehearsals and Phase 7 goes through `EvidenceFiles`: `Rehearsal` is shown to implement it,
and `MicrotradeEvidence` takes its steps as the environment, so neither model carries the state of the other.

### State and actions of `ExecutionSessions`

`lines` and `terminated` are the file: its lines, and whether the last one ends with a newline (an append
onto a file that does not is glued to its last line and spoils it). `pc[p]` is where the command of
terminal `p` is, `job[p]` its local variables, `launches` numbers the invocations and serves as the clock
that dates a session (`deriveSessionId`), `chain[n]` is what became of the transaction of launch `n`, and
`lost` notes launches whose submission a fault kept from the file; the program has no such variable, the
properties use it.

A step of the model ends where the program awaits the network or touches the file. So
`execution:devnet:rehearse` is `Launch`, `PassWall` (read the ledger, `evaluateSessionContinuation`,
dates the session), `Fund` or `FundingBlocked`, `Simulate` or `SimulateFails`, `Submit` or
`RefuseAttempt`, `Observe` (the status polls and the final balance), `AppendAttempt`, and
`AppendRehearsalVerdict`, the second of its two appends. `execution:devnet:send` goes from `PassWall`
to `Submit` and ends with `AppendAttempt`. `GiveUp` stands for the refusals between the wall and the first
await, which record nothing. `execution:session:reconcile` is `ReadLatestAttempt`, `Track`,
`AppendVerdict`; `execution:session:acknowledge` is `ReadBlockedSession`, `AppendAcknowledgment`.

Faults are a constant, so that each run names the ones it allows: a reply lost after the node accepted
(`SubmitLosesReply`), reads that throw, writes that throw (`WriteFails`), an append cut short
(`TornAppend`, which leaves a fragment or a whole line without its newline), and a process killed
anywhere (`Crash`). `Land` is the cluster's decision, in its own time or never.

What is abstracted: amounts are counted in base fees of 5000 lamports; a signature is the number of the
launch that submitted it, and in the file it is the redaction text (`RedactValue`); timestamps other than
the one in the session id, report paths, reasons and wording are left out; the checks of `attemptExecution` and of
the options are one nondeterministic refusal; the network of every entry is devnet, the only one any
command records; the twelve alphanumeric characters of a session id that come from the key are the key.

### State and actions of `ReconcileCommand`

`phase` is the next await of `executionSessionReconcileReport`, `poll` and `unrecognized` the loop
variables of `trackConfirmation`, `facts` the inputs of `buildReconciliationReport` as they are observed,
`verdict` its result; `tx`, `height` and `purse` are the cluster. `StatusThrows` and `StatusAnswered` are
an iteration of the loop, `ReadHeight` and `HeightThrows` the second read of an iteration (drop
detection), then `ReadFee`, `ReadPost`, `Report`. `Land`, `Advance`, `GrowHeight` and `Stranger` move the
cluster between any two reads. The CLI does not pass the blockhash facts that drop detection needs; the
exported function takes them, and the instance turns them on (`DropDetection`).

### State and actions of `PaperRuns`

`journal` and `terminated` are the JSONL file, as above; `pc[p]` is where the run of terminal `p` is, and
`run[p]` its local variables: the configuration it was started with, the portfolio in memory, the events
collected so far, the mints the exit sweep has yet to look at, and the candidate file it follows, if it
was given a plan. `plan` is the file of paper candidates that the last `strategy:plan` wrote, with two
notes for the properties: how long the journal was that it read, and whether anybody gave a size. `Launch` reads and replays the journal
(`startingStateFromJournalText`) and stops at once under the kill switch; `RefuseJournal` is the refusal of
a journal with a bad line. `ProcessBuy` and `ProcessSell` are one candidate each, with every rejection;
`StartSweep`, `EvaluateExits` and `EndSweep` are the take-profit and stop-loss sweep, a mint at a time in
the order of mints; `AppendEvents` is the one append at the end. The command awaits nothing, so in one
process these steps follow each other; they are separate so that another process may run between them.
`PlanStrategy` is a whole `strategy:plan` (it awaits nothing): it
reads the journal, decides for every candidate of a batch against that one portfolio, and writes the
paper candidates; the journal may have grown when a run takes the file up. Faults: `LoseRun` (the append throws, or the process dies before it) and `TearAppend` (the append is cut
at, before, or inside a line).

What is abstracted: amounts are integers, and the average entry price is the quotient of cost and quantity
instead of a stored number, so comparisons with it are multiplied out and only the cost of a partial sale
is rounded; the guard against floating-point dust has no counterpart. The fee is 0, as in every call the
CLI makes. Candidates that are not a plan's come one by one from small sets instead of from a file. In
`StrategyPlan` an optional value is a set with at most one element, times are minutes and scores tenths
of a point; reasons, confidence and the report are left out. The events that reject a
candidate change no portfolio and are one event. Unrealized profit, summaries and order ids are left out:
no later step reads them.

### State and actions of `Rehearsal`

`files` is the output directory (what each file says, or that it is absent), `risk` the reports under
`risk/`, `candidate` and `report` the two results, `pc` the next stage and `run` the local variables of
`paperSniperRehearseReport`: the mode, `--force`, how many stages were neither executed nor skipped, and the
evidence for the fold. One action per stage, in the order of the code: `CandidatesStage`, `RiskStage`,
`QuotesStage`, `PrepareStage`, `DryRunStage`, `BuildStage`, `SimulateStage`, `DevnetStage`, `FoldStage`,
`FinishRehearsal`. Each stage calls a command that refuses to write over a file without `--force`, and is
judged either by that command's exit code or only by whether the file is there afterwards; the model keeps
that difference, because a file of an earlier rehearsal passes the second test. Chain, providers and the
Rust engine answer as they like, which covers their timeouts. `Die` is a death at any stage, `DieInReport` one in
the middle of a `token:risk` write, which is a plain `writeFileSync` and leaves half a report. The initial
directory is any that an earlier rehearsal can have left (`LeftBehind`).

A risk file may be missing, torn or no report at all (`"unreadable"`), and each reader makes its own of that. The rehearsal itself looks
only for a path: `BuildStage` attempts the build whenever there is one (`commands.ts:15189`, `15224`), and it is
`execution:build` that opens the file and refuses. The bridge of the auto-risk stage and the readiness
stage refuse it too; `buildRehearseScoreInputEntries` takes it for no facts, even where the other report of
the same mint could be read (`RiskFacts`). Nor are there any facts when the score input cannot be
assembled (`assembled`). So a candidate can hold a build that was attempted, or one that succeeded, and no
assessed risk; `Consistent` allows both, and such a candidate is never complete.

The auto-risk stage scores facts that the chain gives: `RiskStage` picks them from `ChainFacts`, `TokenRisk`
turns them into flags, score and decision, and `ReadingOf` into what the later stages tell apart of the
report: a rejection, an extension for which `execution:build` refuses (`BuildBlockers`), another critical flag, and
another extension of high severity, which blocks the release candidate and not the build
(`SevereExtension`). `run.read` notes the facts of the target for the property; the program has no such variable.
A report of the operator may be any reading, since nothing binds it to facts, and need not be readable; one
that parses but holds no decision is `"undecided"`.

What is abstracted: of a file, only what a later stage reads; of a check of `TokenRisk`, only the severity of the flag it
raises; percentages are integers, and an extension is its presence; ages of
quotes are fresh or not; the mints of a list are a set with a first element. A list without any mint ends in
the code as a recorded stage error or a refusal and is not among the instances.

### State and actions of `MicrotradeEvidence` and `Phase7Verdicts`

`signoff`, `audit` and `preflight` are the three files, `candidate` and `reconciliation` those of the
rehearsals; `humanCaps` notes the spend caps that a human signed with every acknowledgement (the program
has no such variable, the property uses it). `SignoffTemplate`, `AuthorizationAudit` and
`MicrotradePreflight` are the commands, each with the readings it takes of the files it is given, its
refusals, and the record it writes. `EditConclusion` is a hand that edits what a record concludes of
itself (status or verdict) and leaves the evidence in it alone; every validator derives the conclusion again,
and the property is about what that buys. `Rehearse` is any step of `EvidenceFiles`. A command that refuses
changes nothing and is no action.

What is abstracted: identifiers, labels, prose and the literals a validator pins are left out; the
acknowledgements and the checks of the audit are constants, so that the proofs hold for any set of
them. The burner wallet is valid or absent, since an invalid key makes the builder throw.

## 3. Runs

| Run | Instance | What it shows |
|---|---|---|
| `sessions_serial` | 1 terminal, 3 commands, all faults | `WallSound`: the wall, which looks only at the last line, never opens over an open submission; `SubmitsOntoSettledTrail`: every transaction is submitted onto a readable trail whose submissions are closed, save those a fault kept from it; `ImplementsAccountingWall`: refinement of `AccountingWall` |
| `sessions_overlap` | 2 terminals, 3 commands, all faults | what survives a stale read of the ledger: `GapHasACause`, `TrailTellsTheTruth`, `CorruptTrailStaysClosed`, `TrailOnlyGrows` |
| `reconcile_command` | 4 polls asked, 3 allowed, blockhash valid for 2 heights, balances 0..2 | `ReconciledMeansConfirmed`, `NotSentMeansAbsent`, `LostObservationNeverHelps`, `DropIsFinal`, `Terminates` |
| `paper_serial` | 1 terminal, 2 runs with up to 3 candidates between them and one plan of up to 2, 2 mints, 3 configurations, torn and lost appends | `ReplayIsTheRun`: the journal gives back the portfolio of the run; `BuysWithinCaps`: over the portfolio the journal held, earlier runs included; `SellsWhatIsHeld`; `MoneyConserved`; `TriggeredExitCloses` and `NoCrossedPositionLeft`: the exit sweep; `NothingAppendedToDamage`; `PlannedExitCloses`: a full exit of a plan closes the position in the run that follows it, even when the journal moved on in between; `PlanAddsToNothingHeld`: a plan followed on the journal it was made from buys nothing that is held |
| `rehearsal` | 2 mints, facts of 5 kinds on the chain, 5 kinds of `--risk` file (clear, critical, Token-2022, without a decision, unreadable), modes devnet and mainnet-dry-run, 4 kinds of leftover files, leftover risk reports that are clear or torn, 1 rehearsal, up to 3 stages that go wrong | `ImplementsEvidenceFiles`: refinement of `EvidenceFiles`; `CompleteRestsOnClearRisk`: every report under `risk/` that can be read is clear, and so is the one the swap was built on, except where there are two reports of its mint; `SwapRestsOnReadFacts`: the swap agrees with the facts this rehearsal read, not with a report it found; `RehearsedHasItsCandidate` |
| `microtrade` | 3 commands or edits, 4 requests, 8 candidate files, ceiling 2 | `NoReadinessWithoutTheHuman`; `PreflightValidates`: a ready verdict and a missing requirement exclude each other; `EchoesNeverRefuse`; `EchoedAuditAuthorizes`: the audit a preflight names authorizes what the preflight says, though nothing after the command's refusals looks at it; `ReadyHadItsEvidence` |
| `paper_overlap` | 2 terminals, 3 runs of one candidate | finding 6 |
| `sessions_redacted`, `sessions_lost_reply`, `sessions_unwritable`, `reconcile_missing`, `reconcile_mint` | as above | one finding each, see section 5 |

Bounds. Three launches are enough for an attempt, what accounts for it, and the next attempt onto the
result; with two terminals, for two attempts through the same open wall and a verdict that goes to the
wrong place. Two readings of a balance distinguish "the fee was paid" from "unchanged"; in the overlap
run one reading suffices, since no property there is about amounts. Three polls let a poll be the first,
a middle one and the last. Two paper runs of two candidates reach a buy, an
addition, a partial sale and an exit across runs; the third run of the overlap instance is not needed for
the counterexample but lets the damage be read back. One plan can be made before, between or under the two
runs, so it is followed on the journal it read and on a longer one; its batches name a mint twice, claim
holdings that are none, and hold a partial exit, a full one, an entry and two cooldowns. One rehearsal over every directory an earlier one can have left stands for two in a row: what the first left is the
initial state. The five facts are one for each way to a reading: nothing against the mint, a fee
below and one at the threshold, a transfer hook, and a score that rejects without a critical flag. Three mishaps let an
unreadable risk file fail the auto-risk stage, the build and the readiness of one rehearsal, or a provider fail and later
stages miss what it should have left. A reconciliation left from before is not among the leftover files of the run, for
its size; `LeftBehind` and the theorems allow it. Three commands are a sign-off, an
audit or an edit, and a preflight; that more change nothing is what the proofs of section 4 say. Prices double and halve, so that both
thresholds of 50 per cent fire, on the first, a middle or the last tick; one mint may have no price. Deadlock is not checked: commands
come from an operator who may stop, and all the invocations may be used up. Terminals are interchangeable, hence the symmetry of the overlap run, which checks no
liveness property.

Fairness. `ExecutionSessions`, `PaperRuns`, `Rehearsal` and `MicrotradeEvidence` have none: nobody promises that an operator runs another command.
`ReconcileCommand` assumes `WF_vars(Step)`: a command whose next await returns or throws takes its next
step. That is what an RPC client does; the code sets no timeout of its own, and a call that never settles
would hang the command. The cluster is given no fairness, so `Terminates` holds whatever it does.

## 4. Proofs

`ExecutionSessionsProofs` proves eight theorems for every set of terminals, keys, balances and faults and
for any number of launches:

* `TypeCorrect`, `DamageIsFinal`, `AppendOnly`, `GapsHaveCauses` and `TrailIsTrue` for any number of
  overlapping commands;
* `WallIsSound`, `SettledTrail` and `WallImplemented` under `OneTerminal` (the set of invokers has one
  element): with two the properties are false, because nothing locks the file.

They rest on the assumptions named in the modules (`SignerKeysAssumption`, `LamportsAssumption`,
`MaxLaunchesAssumption`, `FaultsAssumption`), and on nothing else.

`WallSound` is not inductive. The wall judges by the last line alone, so the invariant `WallInv` has to
say why the last line is enough. About the file (`FileInv`): no line is dated in the future, and while the file
parses, an attempt line carries an outcome, a session has at most one attempt line, every open
submission belongs to the session of the last line, and a line that says refused or blocked carries no
signature. About the command that is running (`CommandInv`): it is the latest launch; if it has passed the wall
the wall is still open and its own session has no line yet; what it is about to append settles or
records its own session and no other; and its outcome agrees with whether it holds a signature. The
last three are facts about a process's memory, and they fail as soon as a second process appends in
between. Each action is one step of the proof, and each conjunct it can disturb a step below.
`SettledTrail` and `WallImplemented` use the same invariant.

`TypeInv` is `TypeOK` with the fact that a running job is dated by a launch that has happened, which the
typing of the session dates needs. `CorruptTrailStaysClosed` and `TrailOnlyGrows` follow from two lemmas
about `AppendLine` and the observation that every action writes by it or leaves the file alone.

`TrailIsTrue` is `TrailTellsTheTruth` for any number of overlapping commands. A line is written long after what it tells was observed, so `TruthInv` says it already of the memory the line is made
from (`TrueMemory`), and that it cannot become false while others run. That rests on `LaunchesApart` (two
running commands are two launches) and on `QuietLaunches`, the launches that sent nothing and whose command is past
the point where it could, or whose answer was lost: no step takes a launch out of that set, nor out of the
landed ones. `execution:session:reconcile` can only repeat what the attempt line says, because the
signature it reads is redacted.

`ReconcileCommandProofs` proves, for every number of polls, blockhash, balance and fee bound
(`PollsAssumption`, `HeightAssumption`, `PursesAssumption`, `BoundsAssumption`), the type invariant, `ReconciledIsConfirmed`, `NotSentIsAbsent`,
`LossNeverHelps` and `DroppedForGood`. The strengthening `CommandInv` says what each observation in memory
proves about the cluster, which moves on after it was read (`Observations`), that a poll is counted
before it is judged and never beyond the bound (`PollsCounted`), and that a purse that has a transaction pending is not empty.
`LossNeverHelps` needs no invariant: it holds of every set of facts.

`RehearsalProofs` proves `RehearsalTypeCorrect`, `CompleteNeedsClearRisk`, `RehearsedLeftACandidate` and the
refinement `EvidenceFilesImplemented`, for every candidate list, leftover directory and number of failures
(`RehearsalAssumption`). The invariant adds to the types what the stages so far add up to
(`StageEvidence`): a build ends one way, a simulation comes only after a
build that succeeded, and no stage that can still be followed by a fold has set the error flag. `EndsOnCandidate`
says that a count of zero at the end of a dry run stands on a candidate. `BuiltOnReading` says of a build that
succeeded what cannot be said of one that was attempted: the file it was given was read, and did not make it
refuse; `CompleteNeedsClearRisk` rests on it. `SwapsRestOnReadFacts` joins the rehearsal to
`DealBreakersReject`; its strengthening `ReadFacts` says that the report in `risk/` of a target whose facts were read is
the reading of these facts until the rehearsal ends, and that no report of the operator outranks it.

`TokenRiskProofs` proves about the report, for every mint: `DealBreakersReject` (what the flags call rejected
outright rejects, and no build goes ahead), `CriticalMeansRejected` (a critical flag always arrives as a
rejection), `PassHasNoSevereFlag`, `UnknownIsNeverSafer` (a fact that is lost instead of read as good
never lowers the score), `UnknownNeverDecidesSafer` (nor the severity of the decision), and the exception
`UnreadableFeeReadsAsNone`. They rest on one lemma per check (`FlagOf`) and on `ScoreMonotone`, that a score is
monotone in the weights.

`StrategyPlanProofs` proves what `strategy:plan` decides, for every candidate, configuration and portfolio. No
behaviour is involved, so these are lemmas about operators and no run judges them:

* `WorseFactsNeverBuy`: lose the report or make it worse, lower the metrics or lose some, and nothing is bought that
  was not bought before. The score is compared term by term (`ScoreIsItsTerms`, `WorseScoresNoMore`).
  `UnknownFactsNeverBuy` carries it from the facts of the mint through the risk report to the plan.
* `LostFallScoresMore` is why the price change is not among those metrics: see section 5.
* `DealBreakersAreNotTraded` and `LossesAreCut`: which of the risk gate, the trade cooldown and the stop loss wins.
* `PlansPassTheGates`: every candidate of a plan, for batches of any length, comes of an entry that passed the gates.

Their hypotheses (`IsKnown`, `IsStrategy`) are what the validation of the command leaves of a candidate and a configuration:
an optional number is one number or absent, a report has one of three decisions and a score from 0 to 100.

`MicrotradeEvidenceProofs` proves the type invariant, `ReadyNeedsTheHuman`, `WrittenPreflightsValidate`,
`EchoesNeverRefused`, `EchoedAuditsAuthorize`, `ReadyRestsOnEvidence`, and `BuiltSignoffValidates`, for every ceiling, set of
acknowledgements and checks, and any number of commands and edits (`CeilingAssumption`, `CommandsAssumption`).
`NoReadinessWithoutTheHuman` rests on `SignedByHuman`: whatever a record concludes of itself, if its
evidence is complete then its cap is one a human signed, since an edit leaves the evidence alone.

`PaperRunsProofs` proves every invariant and action property of the paper runs, for every set of mints,
prices, configurations, strategies and batches and any number of runs and plans:

* for any number of overlapping commands: `PaperTypes` (`TypeOK`), `SweepLeavesNothingCrossed`
  (`NoCrossedPositionLeft`) and `PlannedExitsClose` (`PlannedExitCloses`). They are about the memory of one
  run, which no other process reaches, and need nothing of the journal but that its lines are well formed;
* under `OneTerminal`: `RunsAreReplayed` (`ReplayIsTheRun`), `BuysStayWithinCaps` (`BuysWithinCaps`),
  `SalesAreHeld` (`SellsWhatIsHeld`), `TriggersClose` (`TriggeredExitCloses`), `MoneyIsConserved`
  (`MoneyConserved`), `DamageStaysAlone` and `PlansAddNothing`. The hypothesis is not a convenience: the run
  `paper_overlap` is a counterexample with two terminals (finding 6).

They rest on the assumptions `PaperRuns` names. `SizesAssumption` is that a size divides evenly by the
prices (quantities are integers here and floating-point numbers in the code); it now also speaks of the
sizes a plan proposes (`PlanSizes`). `PlansAssumption` says of the batches what their types say: mints are
mints of the model, a proposed size is one number of at least 0 or absent (`resolveSizeUsd`,
`plan.ts:158`), a fraction or a claimed position is one integer or absent.

The argument has four invariants, each inductive.

* `PaperInv`, which leaves the replay opaque and relates what a run holds to the journal it read by naming the
  replay: `JournalInv` (the shape of the file), `PlanInv` (a plan read a journal no longer than the present
  one; if it is as long and readable it is the same, and the plan buys nothing that it holds) and `RunInv` (a
  running command read a journal without damage and nobody wrote since; what it has bought so far are
  candidates of its plan).
* `TypeInv`. `TypeOK` types the memory of a run only, and that memory was computed from the file: so every
  line of the journal, every event that waits to be appended and every candidate of a plan on disk must be
  one the engine makes (`IsEvent`, `PlanShape`), the inputs of a run must be among those of the instance, and
  the replay of well-formed lines must be a portfolio (`ReplayTyped`).
* `ExitInv`. `Swept`: an open position is still to be swept or no tick crosses it, which is true in the
  middle of the sweep too, since a sale at a threshold closes the position and leaves the others alone.
  `Followed`: the full exits of the plan handled so far have left nothing; it needs that only the last
  candidate of a mint is asked for, since a later buy would reopen the position, and that a sweep opens none.
* `HistoryInv`. Neither the caps nor the held quantities can be read off the run that
  appends, because the properties judge each line by the replay of the lines before it. So the invariant is
  about the history: a journal without damage is `Orderly`, which says of each of its lines that it `MayFollow` the
  ones before (a buy within the caps of the run that started last, a sale of no more than was held, the
  answer to a trigger), and the journal followed by the events of a running command `Tells` its portfolio and
  its caps. `Orderly` is kept by one more line and by a prefix, hence by an append cut at or inside
  any line. The properties are then consequences of `Orderly`; for the money,
  `Balanced` is an induction over the prefixes of an orderly journal, and the sums over lines and over mints change
  by one term a line. That a partial sale rounds its cost does not matter: what is taken from the position
  is what the profit is reckoned with.

`FoldProofs` carries the inductions. The replay and the candidates of a plan are folds, hence recursive
functions, and the induction theorems of the library take a predicate as a parameter, which the provers
cannot instantiate. `SetInduction` says the same of a set (a set with 0 and all successors has every number),
from the least element of a set of numbers; the fold of a sequence then exists, is unique, starts at the base
and takes one step an element (`FoldExists`, `FoldsAgree`, `FoldedEmpty`, `FoldedAppend`), what holds of the base
and is kept by a step holds of the fold (`FoldedIn`), and a sum over a finite set does not depend on the order
in which its elements are taken (`SumWithout`, `SumChange`).

Only model-checked: `Terminates`, which is liveness. Every other property of a passing run is a theorem.

## 5. Findings

Six runs are expected to end in a counterexample, and each shows a disagreement between the code and a
statement of the repository:

1. `sessions_redacted`: the redactor takes a transaction signature for a secret (`redact.ts:70`), so the
   ledger cannot name the transaction and `execution:session:reconcile` never gets an answer about it.
   The session can only be acknowledged by hand.
2. `sessions_lost_reply`: a submission whose answer is lost is recorded as "refused before submission",
   and a second attempt is allowed.
3. `sessions_unwritable`: when the audit log or an artifact cannot be written after a submission, the
   command ends before the ledger entry, and the wall stays open.
4. `reconcile_missing`: with the fee missing a verdict can be more permissive than with it.
5. `reconcile_mint`: `--mint` makes every reconciliation fail, for a token change that was not observed.
6. `paper_overlap`: two `paper:run` over one journal start from the same portfolio, and both may sell the same
   position; the replay then hands `applySellFill` more than is held, which its comment excludes
   (`engine.ts:89`), and drops the profit that one of the runs reported.

### Behaviour that the models show and no run judges

* The default size of `paper:run` turns a planned full exit into a partial one; `backtest.test.ts:72` says
  so, hence `PlannedExitCloses` is about plans for which nobody gave a size.
* A file under `risk/` outranks the operator's `--risk` report in the fold (`commands.ts:14769` says so) and not
  in the build (`commands.ts:15189`). With one of each for the target, a candidate can come out complete on a clear leftover
  although the operator's report has a severe extension that the build does not refuse; `CompleteRestsOnClearRisk` names
  this case (`TwoReports`) and excepts it.
* Three stages of a rehearsal can count a file of an earlier one as their own; `run.borrowed` follows these files.
* A transfer fee that cannot be read raises no flag, and the mint is even reported to have "No high-risk Token-2022
  extensions" (`risk-flags.ts:520`), although `token2022.ts:9` says that an unknown is a caution downstream and
  never "no extensions, all clear". `UnreadableFeeReadsAsNone` proves it.
* `mainnet-dryrun-release-candidate.ts:458` says of a Token-2022 blocker that the build is refused before any provider
  call. The candidate counts every extension flag of high severity (`commands.ts:6341`), the build only those of
  `refusals.ts:104`: with a small transfer fee or a mint close authority the swap was built.
* A negative price change costs ten points and a missing one none (`score.ts:115`), unless a maximal change is
  configured (`evaluate.ts:297`): a falling mint scores higher when its fall is not reported (`LostFallScoresMore`).
* The risk gate comes before the exits, as `evaluate.ts:101` says: a stop loss does not fire for a held mint whose report has
  become a rejection or is missing (`DealBreakersAreNotTraded`). The sweep of `paper:run` still sells it.
* A sign-off request with a cap and nothing else gives a record that no command accepts
  (`BuiltSignoffValidates` says that it is the only one).

## 6. Plan

1. Done: the session ledger, its commands, reconciliation, the abstract wall, and the proofs above.
2. Done: the paper engine and its journal; the strategy plan and its composition with `paper:run`.
3. Done: the rehearsal, the Phase 7 evidence, and the files between them.
4. Done: the proofs of every safety property of the runs, those that rest on a replay included.
5. Then: realtime intake (`paper:realtime:watch`), whose dedupe set lives as long as one process while its
   journal outlives it; sessions that start in the same millisecond; the safety controls as a gate with a state of
   its own, should the code give them one.

## 7. Not modelled

Listed in `PROJECT.json` with the reason. In short: parts that keep no state across steps and only
transform one input (quotes, most of transaction building, preview, configuration, safety controls
and the live gate, which are conjunctions over one request), parts that generate or render artifacts (alpha
history, proposals, bundles and their diffs in the sniper package, simulation, backtest, web), and the Rust
engine, an offline batch. Of `strategy:plan`, the variant that reads a portfolio from a file (`--paper-state`) instead of
a journal; of `paper:run`, runs without a journal. Session ids that collide because two attempts start in the same
millisecond are not modelled either.
