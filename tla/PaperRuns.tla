------------------------------ MODULE PaperRuns ------------------------------
(***************************************************************************)
(* paper:run --journal (paperRunReport of apps/cli/src/commands.ts around  *)
(* runPaperSession of packages/paper/src/run.ts): a process reads the      *)
(* journal, derives the portfolio from it, goes through its candidates and *)
(* the exit sweep in memory, and appends all its events at the end.        *)
(* Nothing locks the journal between the reading and the append.           *)
(* strategy:plan --journal (strategyPlanReport) reads the same journal and *)
(* writes a file of candidates, which a later run may be given, onto       *)
(* whatever the journal holds by then.                                     *)
(***************************************************************************)
EXTENDS StrategyPlan

CONSTANTS Terminals,       \* who may run the command
          MaxLaunches,     \* bound: runs in a behaviour
          MaxCandidates,   \* bound: candidates in a behaviour, plans apart
          CapChoices,      \* caps an operator may configure
          PriceFiles,      \* injected prices: a series of ticks for each mint
          Sizes,           \* proposed sizes, 0 for a sale of everything
          BandChoices,     \* take-profit and stop-loss percentages
          Batches,         \* bound: files of strategy candidates
          Strategies,      \* bound: strategy configurations
          DefaultSizes,    \* bound: the --size of a plan, or none
          MaxPlans,        \* bound: plans in a behaviour
          AppendMayTear    \* an append may be cut short

Decisions == {"PASS_FOR_PAPER_EVALUATION", "CAUTION", "REJECT", "UNKNOWN"}

ASSUME BoundsAssumption ==
    MaxLaunches \in Nat /\ MaxCandidates \in Nat /\ MaxPlans \in Nat
ASSUME InputsAssumption ==
    /\ (\A caps \in CapChoices : IsCaps(caps)) /\ CapChoices # {}
    /\ PriceFiles \subseteq [Mints -> Seq(Nat)] /\ PriceFiles # {}
    /\ Sizes \subseteq Nat
    /\ BandChoices \subseteq [takeProfit : Nat, stopLoss : Nat]
    /\ BandChoices # {}
    /\ AppendMayTear \in BOOLEAN
(* Quantities are whole in the unit of an instance, in a plan as well.     *)
PlanSizes ==
    (UNION {UNION {batch[i].proposedSize : i \in DOMAIN batch} :
               batch \in Batches}) \cup (UNION DefaultSizes)
ASSUME SizesAssumption ==
    \A size \in Sizes \cup PlanSizes, prices \in PriceFiles, m \in Mints :
        \A i \in DOMAIN prices[m] :
            prices[m][i] > 0 => size % prices[m][i] = 0

(* What a batch says of a mint is about one of the mints; the sizes that   *)
(* are proposed are not negative.                                          *)
ASSUME PlansAssumption ==
    /\ \A batch \in Batches :
          /\ batch \in Seq(Range(batch))
          /\ \A i \in DOMAIN batch :
                /\ batch[i].mint \in Mints
                /\ IsOptionalSize(batch[i].proposedSize)
                /\ IsOptional(batch[i].positionSize, Int)
    /\ \A config \in Strategies : IsOptional(config.partialFraction, Int)
    /\ \A default \in DefaultSizes : IsOptionalSize(default)

VARIABLES journal,      \* the JSONL file, line by line
          terminated,   \* the file is empty or ends with a newline
          plan,         \* the --out file of strategy:plan, if there
          plans,        \* plans so far
          launches,     \* runs so far
          offered,      \* candidates so far, those of plans apart
          pc,           \* where each terminal's run is
          run           \* its local variables

vars == <<journal, terminated, plan, plans, launches, offered, pc, run>>

Places == {"idle", "candidates", "exits", "append"}

(* run.file is the plan the run was given; without one the candidates come *)
(* one by one from small sets.                                             *)
NoRun == [file |-> {}, caps |-> CHOOSE caps \in CapChoices : TRUE,
          bands |-> CHOOSE bands \in BandChoices : TRUE,
          prices |-> CHOOSE prices \in PriceFiles : TRUE,
          state |-> InitialState, events |-> <<>>,
          handled |-> 0, sweep |-> {}]

Init ==
    /\ journal = <<>>
    /\ terminated = TRUE
    /\ plan = {} /\ plans = 0
    /\ launches = 0 /\ offered = 0
    /\ pc = [p \in Terminals |-> "idle"]
    /\ run = [p \in Terminals |-> NoRun]

-----------------------------------------------------------------------------
Become(p, place, r) ==
    /\ pc' = [pc EXCEPT ![p] = place]
    /\ run' = [run EXCEPT ![p] = r]

FileUnchanged == UNCHANGED <<journal, terminated>>
PlanUnchanged == UNCHANGED <<plan, plans>>

Readable == \A i \in DOMAIN journal : journal[i].type # "malformed"

(* Mutant: lines that do not parse are skipped, as in paper:journal.       *)
JournalRefusedNever == FALSE

(* startingStateFromJournalText refuses a journal with a bad line.         *)
JournalRefused == ~Readable

(* Mutant: the run starts from an empty portfolio.                         *)
StartingStateEmpty == InitialState

StartingState == ReduceJournal(journal)

(* Prices: the first, the last; 0 where there is none to use.              *)
FirstPrice(r, mint) ==
    IF r.prices[mint] = <<>> THEN 0 ELSE Head(r.prices[mint])
LastPrice(r, mint) ==
    IF r.prices[mint] = <<>> THEN 0 ELSE Last(r.prices[mint])

Eligible(r, decision) ==
    \/ decision = "PASS_FOR_PAPER_EVALUATION"
    \/ decision = "CAUTION" /\ r.caps.allowCaution

Note(r, event) ==
    [r EXCEPT !.events = Append(@, event), !.handled = @ + 1]

Buy(r, fill) ==
    [r EXCEPT !.state = ApplyBuyFill(@, fill),
              !.events = Append(@, Bought(fill)),
              !.handled = @ + 1]

(* Mutant: the sale of the sweep is applied and not journaled.             *)
SellUnjournaled(r, before, fill) ==
    [r EXCEPT !.state = ApplySellFill(@, fill),
              !.events = @ \o before]

(* Mutant: the trigger is journaled after its sale.                        *)
SellThenAnnounce(r, before, fill) ==
    [r EXCEPT !.state = ApplySellFill(@, fill),
              !.events = (@ \o <<Sold(fill)>>) \o before]

(* sellPosition, after the events that announce it.                        *)
Sell(r, before, fill) ==
    [r EXCEPT !.state = ApplySellFill(@, fill),
              !.events = (@ \o before) \o <<Sold(fill)>>]

-----------------------------------------------------------------------------
(* strategy:plan.  The journal is refused as by paper:run, and never       *)
(* written.  Of a plan the program keeps the candidates alone; onto, the   *)
(* length of the journal it was made from, and sized, whether anybody gave *)
(* a size, are for the properties.  A plan whose write is cut short is no  *)
(* JSON and refuses the run it is given to, as if there were none.         *)
PlanStrategy(p) ==
    /\ pc[p] = "idle" /\ plans < MaxPlans /\ launches < MaxLaunches
    /\ plans' = plans + 1
    /\ ~JournalRefused
    /\ \E batch \in Batches, config \in Strategies, default \in DefaultSizes :
          plan' = {[candidates |-> PaperCandidates(batch, config,
                                       {StartingState}, default, 0),
                    onto |-> Len(journal),
                    sized |-> \/ default # Absent
                              \/ \E i \in DOMAIN batch :
                                    batch[i].proposedSize # Absent]}
    /\ FileUnchanged /\ UNCHANGED <<launches, offered, pc, run>>

(* The journal is read and replayed; the kill switch ends the run at once. *)
Launch(p) ==
    /\ pc[p] = "idle" /\ launches < MaxLaunches
    /\ ~JournalRefused
    /\ launches' = launches + 1
    /\ \E caps \in CapChoices, bands \in BandChoices, prices \in PriceFiles,
          file \in {{}, plan} :
          LET r == [NoRun EXCEPT !.file = file, !.caps = caps, !.bands = bands,
                                 !.prices = prices, !.state = StartingState]
          IN  IF caps.killSwitch
              THEN Become(p, "append",
                          [r EXCEPT !.events =
                               <<Started(caps), KillSwitchActive>>])
              ELSE Become(p, "candidates",
                          [r EXCEPT !.events = <<Started(caps)>>])
    /\ FileUnchanged /\ PlanUnchanged /\ UNCHANGED offered

(* A journal with a line that does not parse, or a fill that is no fill,   *)
(* refuses the run; nothing is appended.                                   *)
RefuseJournal(p) ==
    /\ pc[p] = "idle" /\ launches < MaxLaunches
    /\ JournalRefused
    /\ launches' = launches + 1
    /\ FileUnchanged /\ PlanUnchanged /\ UNCHANGED <<offered, pc, run>>

(* The next candidate: of the plan, or any.  The decision on a sale is     *)
(* not looked at.                                                          *)
AnyCandidate ==
    {PaperCandidate("BUY", mint, size, decision, "operator") :
        mint \in Mints, size \in Sizes, decision \in Decisions}
      \cup {PaperCandidate("SELL", mint, size, "UNKNOWN", "operator") :
        mint \in Mints, size \in Sizes}

NextCandidate(r) ==
    IF r.file = {}
    THEN IF offered < MaxCandidates THEN AnyCandidate ELSE {}
    ELSE {f.candidates[r.handled + 1] :
             f \in {g \in r.file : r.handled + 1 \in DOMAIN g.candidates}}

CountOffered(p) ==
    offered' = IF run[p].file = {} THEN offered + 1 ELSE offered

AllHandled(r) == \A f \in r.file : r.handled = Len(f.candidates)

(* processBuy: the risk decision, then the first price, then the caps.     *)
ProcessBuy(p) ==
    /\ pc[p] = "candidates"
    /\ \E c \in NextCandidate(run[p]) :
          LET price == FirstPrice(run[p], c.mint)
              filled ==
                  /\ Eligible(run[p], c.decision)
                  /\ price > 0
                  /\ WithinCaps(run[p].caps, run[p].state, c.mint, c.size)
          IN  /\ c.side = "BUY"
              /\ Become(p, "candidates",
                    IF filled
                    THEN Buy(run[p], Fill(c.mint, price, c.size \div price))
                    ELSE Note(run[p], Rejected))
    /\ CountOffered(p)
    /\ FileUnchanged /\ PlanUnchanged /\ UNCHANGED launches

(* processSell: at the last price, what is asked for but no more than is   *)
(* held; everything when no size is proposed.                              *)
ProcessSell(p) ==
    /\ pc[p] = "candidates"
    /\ \E c \in NextCandidate(run[p]) :
          LET price == LastPrice(run[p], c.mint)
              held == run[p].state.positions[c.mint].quantity
              quantity == IF c.size > 0 THEN Lesser(c.size \div price, held)
                          ELSE held
          IN  /\ c.side = "SELL"
              /\ Become(p, "candidates",
                    IF held > 0 /\ price > 0
                    THEN [Sell(run[p], <<>>, Fill(c.mint, price, quantity))
                             EXCEPT !.handled = @ + 1]
                    ELSE Note(run[p], Rejected))
    /\ CountOffered(p)
    /\ FileUnchanged /\ PlanUnchanged /\ UNCHANGED launches

(* The file of candidates is at its end; the sweep takes the open mints in *)
(* order, if a threshold is set.                                           *)
StartSweep(p) ==
    /\ pc[p] = "candidates" /\ AllHandled(run[p])
    /\ LET bands == run[p].bands
       IN  Become(p, "exits",
               [run[p] EXCEPT !.sweep =
                   IF bands.takeProfit > 0 \/ bands.stopLoss > 0
                   THEN OpenMints(run[p].state) ELSE {}])
    /\ FileUnchanged /\ PlanUnchanged /\ UNCHANGED <<launches, offered>>

(* evaluateExits: the first tick that crosses a threshold sells it all.    *)
EvaluateExits(p) ==
    /\ pc[p] = "exits" /\ run[p].sweep # {}
    /\ LET mint == Min(run[p].sweep)
           position == run[p].state.positions[mint]
           series == run[p].prices[mint]
           ticks == ExitTicks(position, series, run[p].bands)
           price == series[Min(ticks)]
           which == IF TakesProfit(position, price, run[p].bands.takeProfit)
                    THEN "TAKE_PROFIT_TRIGGERED" ELSE "STOP_LOSS_TRIGGERED"
           swept == [run[p] EXCEPT !.sweep = @ \ {mint}]
       IN  Become(p, "exits",
               IF ticks = {} THEN swept
               ELSE Sell(swept, <<Triggered(which, mint)>>,
                         Fill(mint, price, position.quantity)))
    /\ FileUnchanged /\ PlanUnchanged /\ UNCHANGED <<launches, offered>>

EndSweep(p) ==
    /\ pc[p] = "exits" /\ run[p].sweep = {}
    /\ Become(p, "append", run[p])
    /\ FileUnchanged /\ PlanUnchanged /\ UNCHANGED <<launches, offered>>

-----------------------------------------------------------------------------
(* All the events of the run in one appendFileSync.  After a line without  *)
(* its newline the first of them is glued to that line.                    *)
AppendLines(lines) ==
    IF terminated \/ lines = <<>> THEN journal \o lines
    ELSE Front(journal) \o <<MalformedEvent>> \o Tail(lines)

Batch(p) == Append(run[p].events, Completed)

AppendEvents(p) ==
    /\ pc[p] = "append"
    /\ journal' = AppendLines(Batch(p))
    /\ terminated' = TRUE
    /\ Become(p, "idle", NoRun)
    /\ PlanUnchanged /\ UNCHANGED <<launches, offered>>

(* The append throws, or the process dies before it: nothing is written.   *)
LoseRun(p) ==
    /\ AppendMayTear
    /\ pc[p] # "idle"
    /\ Become(p, "idle", NoRun)
    /\ FileUnchanged /\ PlanUnchanged /\ UNCHANGED <<launches, offered>>

(* The append is cut short after n lines: at a newline, before one, or     *)
(* inside the line that follows.  MaxLaunches bounds this and PlanStrategy *)
(* too: after the last run nobody would read the damage or the plan.       *)
TearAppend(p) ==
    /\ AppendMayTear /\ launches < MaxLaunches
    /\ pc[p] = "append"
    /\ \E n \in 0..Len(Batch(p)) - 1 :
          LET lines == SubSeq(Batch(p), 1, n)
          IN  \/ /\ journal' = AppendLines(lines)
                 /\ terminated' = IF n = 0 THEN terminated ELSE TRUE
              \/ /\ n > 0
                 /\ journal' = AppendLines(lines)
                 /\ terminated' = FALSE
              \/ /\ journal' = AppendLines(Append(lines, MalformedEvent))
                 /\ terminated' = FALSE
    /\ Become(p, "idle", NoRun)
    /\ PlanUnchanged /\ UNCHANGED <<launches, offered>>

Next ==
    \E p \in Terminals :
        \/ PlanStrategy(p) \/ Launch(p) \/ RefuseJournal(p)
        \/ ProcessBuy(p) \/ ProcessSell(p)
        \/ StartSweep(p) \/ EvaluateExits(p) \/ EndSweep(p)
        \/ AppendEvents(p) \/ LoseRun(p) \/ TearAppend(p)

Spec == Init /\ [][Next]_vars

-----------------------------------------------------------------------------
(* Properties. *)

Positions == [quantity : Nat, costBasis : Nat]

(* The types, and that no position is held that costs something without    *)
(* quantity.                                                               *)
TypeOK ==
    /\ terminated \in BOOLEAN
    /\ ~terminated => journal # <<>>
    /\ launches \in 0..MaxLaunches
    /\ pc \in [Terminals -> Places]
    /\ \A p \in Terminals :
          LET s == run[p].state
          IN  /\ s.positions \in [Mints -> Positions]
              /\ \A m \in Mints : s.positions[m].quantity = 0
                                     => s.positions[m] = Flat
              /\ s.realized \in Int /\ s.closed \in Nat
              /\ run[p].sweep \subseteq Mints

(* One run at a time: what a run holds in memory at any moment is what a   *)
(* replay of the journal followed by the run's own events would give, so   *)
(* the next run starts from the portfolio this one ended with.             *)
ReplayIsTheRun ==
    \A p \in Terminals :
        pc[p] # "idle" => ReduceJournal(journal \o run[p].events) = run[p].state

(* The caps under which the event at i was made.                           *)
CapsAt(i) ==
    LET starts == {k \in 1..i : journal[k].type = "RUN_STARTED"}
    IN  journal[Max(starts)].caps

Before(i) == ReduceJournal(SubSeq(journal, 1, i - 1))

Fills(type) == {i \in DOMAIN journal : journal[i].type = type}

(* One run at a time: every buy of a readable journal was within the caps  *)
(* of its run, judged by the portfolio that the journal itself held before *)
(* the buy, earlier runs included.                                         *)
BuysWithinCaps ==
    Readable =>
        \A i \in Fills("PAPER_BUY_FILLED") :
            LET fill == journal[i].fill
            IN  WithinCaps(CapsAt(i), Before(i), fill.mint, Notional(fill))

(* One run at a time: nothing is sold that is not held.                    *)
SellsWhatIsHeld ==
    Readable =>
        \A i \in Fills("PAPER_SELL_FILLED") :
            LET fill == journal[i].fill
            IN  fill.quantity <= Before(i).positions[fill.mint].quantity

Turnover(type) ==
    FoldFunctionOnSet(+, 0,
        [i \in DOMAIN journal |-> IF journal[i].type = type
                                  THEN Notional(journal[i].fill) ELSE 0],
        DOMAIN journal)

(* One run at a time: money is neither made nor lost by the bookkeeping:   *)
(* what all sales brought in is what all purchases cost, less what the     *)
(* open positions still cost, plus the realized profit.                    *)
MoneyConserved ==
    Readable =>
        LET s == ReduceJournal(journal)
            held == FoldFunction(+, 0, [m \in Mints |-> s.positions[m].costBasis])
        IN  Turnover("PAPER_SELL_FILLED") =
                Turnover("PAPER_BUY_FILLED") - held + s.realized

(* One run at a time: an exit that was triggered is followed by a sale     *)
(* that leaves nothing of the position, unless the append was cut there.   *)
TriggeredExitCloses ==
    Readable =>
        \A i \in DOMAIN journal :
            journal[i].type \in Triggers /\ i + 1 \in DOMAIN journal =>
                \/ /\ journal[i + 1].type = "PAPER_SELL_FILLED"
                   /\ journal[i + 1].fill.mint = journal[i].mint
                   /\ Before(i + 2).positions[journal[i].mint] = Flat
                \/ journal[i + 1].type = "RUN_STARTED"

(* A run whose sweep is over holds no position that a tick of its own      *)
(* prices takes across a threshold, whatever the candidates bought, added  *)
(* to or sold before the sweep.                                            *)
NoCrossedPositionLeft ==
    \A p \in Terminals :
        pc[p] = "append" /\ ~run[p].caps.killSwitch =>
            \A m \in OpenMints(run[p].state) :
                LET position == run[p].state.positions[m]
                    ticks == run[p].prices[m]
                IN  \A i \in DOMAIN ticks :
                        ticks[i] > 0 =>
                            /\ ~TakesProfit(position, ticks[i],
                                            run[p].bands.takeProfit)
                            /\ ~StopsLoss(position, ticks[i],
                                          run[p].bands.stopLoss)

(* A run that follows a plan for which nobody gave a size sells the whole  *)
(* position of every mint of whose candidates the last is a full exit      *)
(* (plan.ts:189), if there is a price to sell it at, however old the plan  *)
(* and whatever the earlier candidates of the mint did.                    *)
PlannedExitCloses ==
    \A p \in Terminals : \A f \in run[p].file :
        /\ pc[p] \in {"exits", "append"} /\ ~run[p].caps.killSwitch
        /\ ~f.sized
        => \A i \in DOMAIN f.candidates :
              LET c == f.candidates[i]
              IN  /\ c.why = "FULL_EXIT"
                  /\ \A j \in DOMAIN f.candidates :
                        j > i => f.candidates[j].mint # c.mint
                  /\ LastPrice(run[p], c.mint) > 0
                  => run[p].state.positions[c.mint] = Flat

(* One run at a time: a plan followed on the journal it was made from      *)
(* never buys more of a mint that the journal holds, whatever the          *)
(* candidates claim of earlier trades and however often they name it.      *)
PlanAddsToNothingHeld ==
    \A p \in Terminals : \A f \in run[p].file :
        f.onto = Len(journal) =>
            LET held == OpenMints(ReduceJournal(journal))
            IN  \A i \in DOMAIN run[p].events :
                    run[p].events[i].type = "PAPER_BUY_FILLED"
                        => run[p].events[i].fill.mint \notin held

(* One run at a time: nothing is ever appended to a journal with a line    *)
(* that does not parse, so no run builds on a portfolio it only half read. *)
NothingAppendedToDamage == [][~Readable => UNCHANGED journal]_vars
=============================================================================
