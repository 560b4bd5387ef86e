----------------------------- MODULE PaperEngine -----------------------------
(***************************************************************************)
(* The simulated portfolio of packages/paper/src: the reducers that apply  *)
(* a fill (engine.ts), the caps on a buy (caps.ts), the exit thresholds    *)
(* (run.ts) and the replay of a journal (journal.ts).  Pure.               *)
(*                                                                         *)
(* Amounts are integers of a unit small enough for the sizes and prices of *)
(* an instance; the average entry price, which the code stores, is the     *)
(* quotient costBasis / quantity, and comparisons with it are multiplied   *)
(* out.  Only the cost of a partial sale is rounded.  A mint stands for    *)
(* its place in the order in which the program sorts mints.                *)
(***************************************************************************)
EXTENDS Integers, FiniteSets, Sequences, SequencesExt

CONSTANT Mints

ASSUME MintsAssumption == Mints \subseteq Nat /\ IsFiniteSet(Mints)

(* A closed position is removed; here it is the empty one.                 *)
Flat == [quantity |-> 0, costBasis |-> 0]

InitialState ==
    [positions |-> [m \in Mints |-> Flat], realized |-> 0, closed |-> 0]

NoFee == 0   \* the CLI never sets one

Fill(mint, price, quantity) ==
    [mint |-> mint, price |-> price, quantity |-> quantity, fee |-> NoFee]

Notional(fill) == fill.quantity * fill.price

ApplyBuyFill(s, fill) ==
    [s EXCEPT !.positions[fill.mint] =
        [quantity |-> @.quantity + fill.quantity,
         costBasis |-> @.costBasis + Notional(fill) + fill.fee]]

(* Mutant: nothing is cut to what is held.                                 *)
LesserUnclamped(a, b) == a

Lesser(a, b) == IF a < b THEN a ELSE b

SoldCost(position, sold) ==
    (position.costBasis * sold) \div position.quantity

(* Mutant: the cost basis stays when a part is sold.                       *)
ApplySellFillKeepsCost(s, fill) ==
    LET position == s.positions[fill.mint]
        sold == Lesser(fill.quantity, position.quantity)
        cost == SoldCost(position, sold)
    IN  IF position.quantity = 0 THEN s
        ELSE [s EXCEPT
                 !.positions[fill.mint] =
                     IF sold = position.quantity THEN Flat
                     ELSE [@ EXCEPT !.quantity = @ - sold],
                 !.realized = @ + fill.price * sold - cost - fill.fee,
                 !.closed = IF sold = position.quantity THEN @ + 1 ELSE @]

(* A sale of nothing held is recorded and changes nothing; one of more     *)
(* than is held is cut to it.                                              *)
ApplySellFill(s, fill) ==
    LET position == s.positions[fill.mint]
        sold == Lesser(fill.quantity, position.quantity)
        cost == SoldCost(position, sold)
    IN  IF position.quantity = 0 THEN s
        ELSE [s EXCEPT
                 !.positions[fill.mint] =
                     IF sold = position.quantity THEN Flat
                     ELSE [quantity |-> @.quantity - sold,
                           costBasis |-> @.costBasis - cost],
                 !.realized = @ + fill.price * sold - cost - fill.fee,
                 !.closed = IF sold = position.quantity THEN @ + 1 ELSE @]

-----------------------------------------------------------------------------
(* caps.ts.  maxPositionSize is optional: a set with at most one element.  *)

IsCaps(caps) ==
    /\ {caps.killSwitch, caps.allowCaution} \subseteq BOOLEAN
    /\ {caps.maxTradeSize, caps.maxDailyLoss, caps.maxOpenPositions}
          \subseteq Nat
    /\ caps.maxPositionSize \in SUBSET Nat
    /\ Cardinality(caps.maxPositionSize) <= 1

OpenMints(s) == {m \in Mints : s.positions[m].quantity > 0}
OpenPositionCount(s) == Cardinality(OpenMints(s))

(* checkBuyCaps(...).ok                                                    *)
WithinCaps(caps, s, mint, size) ==
    /\ ~caps.killSwitch
    /\ 0 < size /\ size <= caps.maxTradeSize
    /\ s.realized > -caps.maxDailyLoss
    /\ mint \notin OpenMints(s) => OpenPositionCount(s) < caps.maxOpenPositions
    /\ \A limit \in caps.maxPositionSize :
          s.positions[mint].costBasis + size <= limit

-----------------------------------------------------------------------------
(* The exit sweep of run.ts.  A threshold of 0 is disabled.                *)

Gain(position, price) == price * position.quantity - position.costBasis

TakesProfit(position, price, pct) ==
    pct > 0 /\ Gain(position, price) * 100 >= pct * position.costBasis

StopsLoss(position, price, pct) ==
    pct > 0 /\ Gain(position, price) * 100 <= -pct * position.costBasis

(* Mutant: only the last tick is looked at.                                *)
ExitTicksLast(position, series, bands) ==
    {i \in DOMAIN series :
        /\ i = Len(series)
        /\ position.costBasis > 0 /\ series[i] > 0
        /\ \/ TakesProfit(position, series[i], bands.takeProfit)
           \/ StopsLoss(position, series[i], bands.stopLoss)}

(* The ticks of a price series at which a position is sold.                *)
ExitTicks(position, series, bands) ==
    {i \in DOMAIN series :
        /\ position.costBasis > 0 /\ series[i] > 0
        /\ \/ TakesProfit(position, series[i], bands.takeProfit)
           \/ StopsLoss(position, series[i], bands.stopLoss)}

-----------------------------------------------------------------------------
(* Journal events.  Rejections, whatever their reason, change no portfolio *)
(* and are not told apart.                                                 *)

Started(caps) == [type |-> "RUN_STARTED", caps |-> caps]
Rejected == [type |-> "CANDIDATE_REJECTED"]
Bought(fill) == [type |-> "PAPER_BUY_FILLED", fill |-> fill]
Sold(fill) == [type |-> "PAPER_SELL_FILLED", fill |-> fill]
Triggered(which, mint) == [type |-> which, mint |-> mint]
KillSwitchActive == [type |-> "KILL_SWITCH_ACTIVE"]
Completed == [type |-> "RUN_COMPLETED"]
MalformedEvent == [type |-> "malformed"]   \* a line that is no event

Triggers == {"TAKE_PROFIT_TRIGGERED", "STOP_LOSS_TRIGGERED"}

ApplyEvent(s, event) ==
    CASE event.type = "PAPER_BUY_FILLED" -> ApplyBuyFill(s, event.fill)
      [] event.type = "PAPER_SELL_FILLED" -> ApplySellFill(s, event.fill)
      [] OTHER -> s

ReduceJournal(events) == FoldLeft(ApplyEvent, InitialState, events)
=============================================================================
