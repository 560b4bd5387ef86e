----------------------------- MODULE MCPaperRuns -----------------------------
(* PaperRuns on small instances: two mints, prices that double and halve.  *)
EXTENDS PaperRuns

MCMints == 1..2
MCSizes == {0, 4}

Config(kill, caution, positions) ==
    [killSwitch |-> kill, allowCaution |-> caution, maxTradeSize |-> 4,
     maxDailyLoss |-> 2, maxOpenPositions |-> positions,
     maxPositionSize |-> {8}]

MCCaps == {Config(FALSE, FALSE, 1), Config(FALSE, TRUE, 2),
           Config(TRUE, FALSE, 1)}
OneCap == {Config(FALSE, FALSE, 1)}

MCPrices ==
    {[m \in Mints |-> IF m = 1 THEN <<2, 1>> ELSE <<2>>],
     [m \in Mints |-> IF m = 1 THEN <<1, 2, 1>> ELSE <<>>]}

MCBands == {[takeProfit |-> 0, stopLoss |-> 0],
            [takeProfit |-> 50, stopLoss |-> 50]}

(* A strategy candidate of which little is known, and one strategy.        *)
Seen(mint, change) ==
    [mint |-> mint, claimsHeld |-> FALSE,
     risk |-> {[decision |-> "PASS_FOR_PAPER_EVALUATION", score |-> 10]},
     liquidity |-> {}, volume |-> {}, holders |-> {}, age |-> {4000},
     change |-> {change}, peak |-> {}, drawdown |-> {}, positionSize |-> {},
     proposedSize |-> {}, lastLoss |-> {}, lastTrade |-> {}]

MCStrategies ==
    {[minScoreForPaperBuy |-> 50, maxRiskScore |-> 60, allowCaution |-> TRUE,
      minLiquidity |-> {}, minVolume |-> {}, maxChange |-> {90},
      stopLoss |-> {30}, trailingStop |-> {20}, takeProfit |-> {50},
      takeProfitPartial |-> {25}, partialFraction |-> {},
      maxOpenPositions |-> {2}, maxConcentration |-> {},
      cooldownAfterLoss |-> {5}, cooldownAfterTrade |-> {5}]}

(* A mint with a partial exit and the same mint past its trailing stop,    *)
(* whose size the metrics state; a mint that is said to be held, and the   *)
(* other one with a size of its own; one mint in a cooldown, and a loser.  *)
MCBatches ==
    {<<Seen(1, 30), [Seen(1, 10) EXCEPT !.peak = {40}, !.positionSize = {1}]>>,
     <<[Seen(2, 30) EXCEPT !.claimsHeld = TRUE, !.positionSize = {4}],
       [Seen(1, 0) EXCEPT !.proposedSize = {4}]>>,
     <<[Seen(1, 5) EXCEPT !.lastLoss = {-1}],
       [Seen(2, -40) EXCEPT !.claimsHeld = TRUE]>>}

MCDefaultSizes == {{}, {4}}
NoPlans == {}
=============================================================================
