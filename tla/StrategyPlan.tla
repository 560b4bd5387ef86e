----------------------------- MODULE StrategyPlan -----------------------------
(***************************************************************************)
(* strategy:plan (packages/strategy/src): one decision for each candidate, *)
(* from its risk report, its injected metrics and one reading of the paper *)
(* portfolio, and the candidates for paper:run that come of it.  Pure.     *)
(*                                                                         *)
(* An optional value is a set with at most one element.  Times are         *)
(* minutes, the sizes of positions cents, scores tenths of a point until   *)
(* they are rounded, and a fraction is in percent.  A risk report, if      *)
(* there is one, is well formed, as the command validates it.              *)
(***************************************************************************)
EXTENDS PaperEngine

Absent == {}

IsOptional(x, S) == x \subseteq S /\ \A a, b \in x : a = b

IsOptionalSize(x) == IsOptional(x, Nat)

Enabled(threshold) == {x \in threshold : x > 0}

(* A stamp of the future is not in cooldown.                               *)
WithinCooldown(now, since, minutes) ==
    \E t \in since, window \in Enabled(minutes) :
        0 <= now - t /\ now - t < window

-----------------------------------------------------------------------------
(* The portfolio of the plan: portfolioFromPaperState, absent without a    *)
(* journal.                                                                *)
HeldMints(portfolio) == UNION {OpenMints(s) : s \in portfolio}

BasisOf(portfolio, mint) ==
    {s.positions[mint].costBasis : s \in portfolio} \ {0}

(* topPositionConcentrationPct >= cap, multiplied out.                     *)
Concentrated(portfolio, cap) ==
    \E s \in portfolio, limit \in cap :
        LET total == FoldFunctionOnSet(+, 0,
                        [m \in Mints |-> s.positions[m].costBasis], OpenMints(s))
        IN  /\ total > 0
            /\ \E m \in OpenMints(s) :
                  100 * s.positions[m].costBasis >= limit * total

(* Mutant: only what the candidate itself says is a holding.               *)
HoldingAsClaimed(c, portfolio) == c.claimsHeld

Holding(c, portfolio) == c.claimsHeld \/ c.mint \in HeldMints(portfolio)

-----------------------------------------------------------------------------
(* Disqualifiers.  The risk gate is for entries and exits alike.           *)
RiskRefuses(c, config) ==
    \/ c.risk = Absent
    \/ \E report \in c.risk :
          \/ report.decision = "REJECT"
          \/ report.decision = "CAUTION" /\ ~config.allowCaution
          \/ report.score > config.maxRiskScore

Below(metric, minimum) ==
    \E least \in minimum : \A x \in metric : x < least

Excessive(change, limit) ==
    \E most \in limit : \A x \in change : x > most \/ x < -most

(* A metric that is configured and missing refuses as well.                *)
MetricsRefuse(c, config) ==
    \/ Below(c.liquidity, config.minLiquidity)
    \/ Below(c.volume, config.minVolume)
    \/ Excessive(c.change, config.maxChange)

Disqualified(c, config, portfolio, now) ==
    \/ RiskRefuses(c, config)
    \/ /\ ~Holding(c, portfolio)
       /\ \/ MetricsRefuse(c, config)
          \/ WithinCooldown(now, c.lastLoss, config.cooldownAfterLoss)

-----------------------------------------------------------------------------
(* scoreCandidate.                                                         *)
Bonus(earned, points) == IF earned THEN 10 * points ELSE 0

(* Any amount over the minimum, or over nothing without one.               *)
Ample(metric, minimum) ==
    \E x \in metric : IF minimum = Absent THEN x > 0
                      ELSE \A least \in minimum : x >= least

RawScore(c, config) ==
    LET risk == IF c.risk = Absent THEN 100
                ELSE (CHOOSE report \in c.risk : TRUE).score
    IN  600 - 6 * risk
          + Bonus(Ample(c.liquidity, config.minLiquidity), 15)
          + Bonus(Ample(c.volume, config.minVolume), 10)
          + Bonus(\E n \in c.holders : n >= 100, 5)
          + Bonus(\E n \in c.holders : n >= 500, 5)
          + Bonus(\E s \in c.age : s >= 3600, 5)
          + Bonus(\E x \in c.change : 0 <= x /\ x <= 100, 10)
          - Bonus(\E x \in c.change : x < 0, 10)

Score(c, config) ==
    LET raw == RawScore(c, config)
    IN  IF raw < 0 THEN 0 ELSE Lesser((raw + 5) \div 10, 100)

-----------------------------------------------------------------------------
(* decideSimulatedExit: the first rule that holds.                         *)
Hold == [action |-> "HOLD", size |-> 0]
FullExit == [action |-> "FULL_EXIT", size |-> 0]
PartialExit(size) == [action |-> "PARTIAL_EXIT", size |-> size]

(* An explicit drawdown is preferred; the trail is armed by a peak above   *)
(* the entry.                                                              *)
Drawdown(c, change, peak) ==
    IF \E d \in c.drawdown : d >= 0 THEN CHOOSE d \in c.drawdown : TRUE
    ELSE IF peak > change THEN peak - change ELSE 0

TrailingStop(c, change, config) ==
    \E limit \in Enabled(config.trailingStop), peak \in Enabled(c.peak) :
        Drawdown(c, change, peak) >= limit

(* resolvePartialFraction, in percent.                                     *)
PartialFraction(config) ==
    IF \E f \in config.partialFraction : 0 < f /\ f < 100
    THEN CHOOSE f \in config.partialFraction : TRUE
    ELSE 50

(* The injected size of the position wins over the cost in the portfolio.  *)
PositionSize(c, portfolio) ==
    LET injected == Enabled(c.positionSize)
    IN  IF injected # {} THEN injected ELSE Enabled(BasisOf(portfolio, c.mint))

(* round2: to whole cents, half a cent up.                                 *)
Rounded(hundredths) == (hundredths + 50) \div 100

Partial(c, config, portfolio) ==
    LET sizes == {Rounded(PartialFraction(config) * size) :
                      size \in PositionSize(c, portfolio)}
    IN  IF \E size \in sizes : size > 0
        THEN PartialExit(CHOOSE size \in sizes : TRUE) ELSE Hold

SimulatedExit(c, change, config, portfolio) ==
    IF \/ \E limit \in Enabled(config.stopLoss) : change <= -limit
       \/ TrailingStop(c, change, config)
       \/ \E limit \in Enabled(config.takeProfit) : change >= limit
    THEN FullExit
    ELSE IF \E limit \in Enabled(config.takeProfitPartial) : change >= limit
    THEN Partial(c, config, portfolio)
    ELSE Hold

-----------------------------------------------------------------------------
(* The decisions, as the exit or entry a paper candidate comes of.         *)
NoTrade == [side |-> "none", why |-> "none", size |-> 0]

(* decideExit: a trade cooldown suspends the exit rules, stop loss too.    *)
ExitDecision(c, config, portfolio, now) ==
    LET exits == {SimulatedExit(c, change, config, portfolio) :
                     change \in c.change} \ {Hold}
    IN  IF \/ exits = {}
           \/ WithinCooldown(now, c.lastTrade, config.cooldownAfterTrade)
        THEN NoTrade
        ELSE LET exit == CHOOSE e \in exits : TRUE
             IN  [side |-> "SELL", why |-> exit.action, size |-> exit.size]

MaxOpenReached(config, portfolio) ==
    \E s \in portfolio, limit \in config.maxOpenPositions :
        OpenPositionCount(s) >= limit

EntryDecision(c, config, portfolio, now) ==
    IF /\ Score(c, config) >= config.minScoreForPaperBuy
       /\ ~MaxOpenReached(config, portfolio)
       /\ ~Concentrated(portfolio, config.maxConcentration)
       /\ ~WithinCooldown(now, c.lastTrade, config.cooldownAfterTrade)
    THEN [side |-> "BUY", why |-> "entry", size |-> 0]
    ELSE NoTrade                                \* WATCH or SKIP

(* evaluateStrategy.                                                       *)
Decision(c, config, portfolio, now) ==
    IF Disqualified(c, config, portfolio, now) THEN NoTrade
    ELSE IF Holding(c, portfolio) THEN ExitDecision(c, config, portfolio, now)
    ELSE EntryDecision(c, config, portfolio, now)

(* resolveSizeUsd.                                                         *)
ProposedSize(c, default) ==
    IF c.proposedSize # Absent THEN CHOOSE size \in c.proposedSize : TRUE
    ELSE IF default # Absent THEN CHOOSE size \in default : TRUE
    ELSE 0

PaperCandidate(side, mint, size, decision, why) ==
    [side |-> side, mint |-> mint, size |-> size, decision |-> decision,
     why |-> why]

(* Mutant: a full exit carries the size of the position it was planned on. *)
ToPaperCandidateSized(c, d, default) ==
    PaperCandidate(d.side, c.mint,
        IF d.why = "PARTIAL_EXIT" THEN d.size
        ELSE IF c.positionSize # Absent
             THEN CHOOSE size \in c.positionSize : TRUE
             ELSE ProposedSize(c, default),
        (CHOOSE report \in c.risk : TRUE).decision, d.why)

(* strategyReportToPaperCandidate: a partial exit carries its own size.    *)
ToPaperCandidate(c, d, default) ==
    PaperCandidate(d.side, c.mint,
        IF d.why = "PARTIAL_EXIT" THEN d.size ELSE ProposedSize(c, default),
        (CHOOSE report \in c.risk : TRUE).decision, d.why)

(* Absent where nothing is traded.                                         *)
Converted(c, d, default) ==
    IF d.side = "none" THEN Absent ELSE {ToPaperCandidate(c, d, default)}

Pushed(candidates, converted) ==
    IF converted = Absent THEN candidates
    ELSE Append(candidates, CHOOSE c \in converted : TRUE)

(* planStrategyBatch: one portfolio for the whole batch; duplicate mints   *)
(* stay.                                                                   *)
PaperCandidates(batch, config, portfolio, default, now) ==
    FoldLeft(Pushed, <<>>,
        [i \in DOMAIN batch |->
            Converted(batch[i], Decision(batch[i], config, portfolio, now),
                      default)])
=============================================================================
