-------------------------- MODULE StrategyPlanProofs --------------------------
(***************************************************************************)
(* What strategy:plan decides, for every candidate, configuration and      *)
(* portfolio: that worse facts never buy, that what is refused is never    *)
(* traded, and what every candidate in a plan has passed.  The reports it  *)
(* is joined to are those of TokenRisk.                                    *)
(***************************************************************************)
EXTENDS StrategyPlan, SequenceTheorems, TLAPS

Risk == INSTANCE TokenRiskProofs
Plans == INSTANCE FoldProofs WITH step <- Pushed, base <- <<>>

-----------------------------------------------------------------------------
(* The candidates of a plan.                                               *)

(* What a plan buys is not held in the portfolio it was made from.         *)
LEMMA BuysAreNotHeld ==
    ASSUME NEW c, NEW config, NEW portfolio, NEW now,
           Decision(c, config, portfolio, now).side = "BUY"
    PROVE  c.mint \notin HeldMints(portfolio)
<1>1. Decision(c, config, portfolio, now)
         = EntryDecision(c, config, portfolio, now)
      /\ ~Holding(c, portfolio)
  <2>1. ExitDecision(c, config, portfolio, now).side # "BUY"
    BY DEF ExitDecision, NoTrade
  <2>2. NoTrade.side # "BUY"
    BY DEF NoTrade
  <2> QED
    BY <2>1, <2>2 DEF Decision
<1> QED
  BY <1>1 DEF Holding

(* The candidates that a batch can give.                                   *)
Planned(batch, config, portfolio, default, now) ==
    {ToPaperCandidate(batch[i], Decision(batch[i], config, portfolio, now),
                      default) :
        i \in {k \in DOMAIN batch :
                   Decision(batch[k], config, portfolio, now).side # "none"}}

LEMMA PlannedFromBatch ==
    ASSUME NEW batch, batch \in Seq(Range(batch)), NEW config, NEW portfolio,
           NEW default, NEW now
    PROVE  PaperCandidates(batch, config, portfolio, default, now)
              \in Seq(Planned(batch, config, portfolio, default, now))
<1> DEFINE given(i) == Decision(batch[i], config, portfolio, now)
           offers == [i \in DOMAIN batch |->
                         Converted(batch[i], given(i), default)]
           P == Planned(batch, config, portfolio, default, now)
<1>1. PaperCandidates(batch, config, portfolio, default, now)
        = Plans!Folded(offers)
  BY DEF PaperCandidates, Plans!Folded, FoldLeft, MapThenFoldSet, Max,
         Plans!FoldLeft, Plans!MapThenFoldSet, Plans!Max
<1>2. offers \in Seq(Range(offers))
  <2>1. DOMAIN batch = 1..Len(batch) /\ Len(batch) \in Nat
    OBVIOUS
  <2>2. DOMAIN offers = 1..Len(batch)
    BY <2>1
  <2>3. \A i \in 1..Len(batch) : offers[i] \in Range(offers)
    BY <2>2 DEF Range
  <2>4. offers = [i \in 1..Len(batch) |-> offers[i]]
    BY <2>2
  <2> HIDE DEF offers
  <2> QED
    BY <2>1, <2>3, <2>4, IsASeq
<1>3. ASSUME NEW a \in Seq(P), NEW i \in DOMAIN offers
      PROVE  Pushed(a, offers[i]) \in Seq(P)
  <2>1. CASE given(i).side = "none"
    <3>1. offers[i] = Absent
      BY <2>1 DEF Converted
    <3> QED
      BY <3>1 DEF Pushed
  <2>2. CASE given(i).side # "none"
    <3> DEFINE c == ToPaperCandidate(batch[i], given(i), default)
    <3>1. c \in P /\ offers[i] = {c}
      BY <2>2 DEF Converted, Planned
    <3> HIDE DEF P, c, offers
    <3>2. Pushed(a, offers[i]) = Append(a, c)
      <4>1. (CHOOSE x \in {c} : TRUE) = c
        OBVIOUS
      <4>2. {c} # Absent
        BY DEF Absent
      <4> QED
        BY <3>1, <4>1, <4>2 DEF Pushed
    <3>3. Append(a, c) \in Seq(P)
      BY <3>1, AppendProperties
    <3> QED
      BY <3>2, <3>3
  <2> QED
    BY <2>1, <2>2
<1>4. <<>> \in Seq(P)
  BY EmptySeq
<1> HIDE DEF offers, P
<1>5. Plans!Folded(offers) \in Seq(P)
  BY <1>2, <1>3, <1>4, Plans!FoldedIn
<1> QED
  BY <1>1, <1>5 DEF P

-----------------------------------------------------------------------------
(* Worse facts.                                                            *)

ReportDecisions == {"PASS_FOR_PAPER_EVALUATION", "CAUTION", "REJECT"}
Reports == [decision : ReportDecisions, score : 0..100]

(* What the validation of the command leaves of a candidate and of a       *)
(* configuration.                                                          *)
IsKnown(c) ==
    /\ IsOptional(c.risk, Reports)
    /\ \A metric \in {c.liquidity, c.volume, c.holders, c.age, c.change} :
          IsOptional(metric, Int)

IsStrategy(config) ==
    /\ config.maxRiskScore \in Int /\ config.minScoreForPaperBuy \in Int
    /\ \A limit \in {config.minLiquidity, config.minVolume, config.maxChange} :
          IsOptional(limit, Int)

(* The second metric is lower than the first, or lost.                     *)
NoMore(x, y) == \A b \in y : \E a \in x : b <= a

(* Report s condemns at least as much as r.                                *)
NoMilder(r, s) ==
    /\ r.score <= s.score
    /\ \/ r.decision = s.decision
       \/ r.decision = "PASS_FOR_PAPER_EVALUATION" \/ s.decision = "REJECT"

(* d is candidate c as seen with a report that is worse or lost and with   *)
(* metrics that are lower or lost.                                         *)
Worse(c, d) ==
    /\ d.mint = c.mint /\ d.claimsHeld = c.claimsHeld /\ d.change = c.change
    /\ d.lastLoss = c.lastLoss /\ d.lastTrade = c.lastTrade
    /\ \A s \in d.risk : \E r \in c.risk : NoMilder(r, s)
    /\ NoMore(c.liquidity, d.liquidity) /\ NoMore(c.volume, d.volume)
    /\ NoMore(c.holders, d.holders) /\ NoMore(c.age, d.age)

LEMMA WorseIsRefused ==
    ASSUME NEW c, IsKnown(c), NEW d, IsKnown(d), Worse(c, d),
           NEW config, IsStrategy(config), RiskRefuses(c, config)
    PROVE  RiskRefuses(d, config)
<1> SUFFICES ASSUME ~RiskRefuses(d, config) PROVE FALSE
  OBVIOUS
<1>1. PICK s \in d.risk : TRUE
  BY DEF RiskRefuses, Absent
<1>2. PICK r \in c.risk : NoMilder(r, s)
  BY DEF Worse
<1>3. r \in Reports /\ s \in Reports /\ \A q \in c.risk : q = r
  BY DEF IsKnown, IsOptional
<1>4. /\ s.decision # "REJECT" /\ (s.decision = "CAUTION" => config.allowCaution)
      /\ ~(s.score > config.maxRiskScore)
  BY DEF RiskRefuses
<1>5. r.score \in 0..100 /\ s.score \in 0..100 /\ config.maxRiskScore \in Int
  BY <1>3 DEF Reports, IsStrategy
<1>6. /\ r.decision # "REJECT" /\ (r.decision = "CAUTION" => config.allowCaution)
      /\ ~(r.score > config.maxRiskScore)
  BY <1>2, <1>4, <1>5 DEF NoMilder
<1> QED
  BY <1>3, <1>6 DEF RiskRefuses, Absent

LEMMA LessIsBelow ==
    ASSUME NEW x, IsOptional(x, Int), NEW y, IsOptional(y, Int), NoMore(x, y),
           NEW minimum, IsOptional(minimum, Int)
    PROVE  /\ Below(x, minimum) => Below(y, minimum)
           /\ Ample(y, minimum) => Ample(x, minimum)
           /\ \A n \in Int : (\E b \in y : b >= n) => (\E a \in x : a >= n)
<1>1. /\ \A a \in x : a \in Int
      /\ \A b \in y : b \in Int
      /\ \A n \in minimum : n \in Int
  BY DEF IsOptional
<1>2. ASSUME Below(x, minimum) PROVE Below(y, minimum)
  BY <1>1, <1>2 DEF Below, NoMore
<1>3. ASSUME Ample(y, minimum) PROVE Ample(x, minimum)
  <2>1. PICK b \in y : IF minimum = Absent THEN b > 0
                       ELSE \A least \in minimum : b >= least
    BY <1>3 DEF Ample
  <2>2. PICK a \in x : b <= a
    BY DEF NoMore
  <2>3. IF minimum = Absent THEN a > 0 ELSE \A least \in minimum : a >= least
    BY <1>1, <2>1, <2>2
  <2> QED
    BY <2>3 DEF Ample
<1>4. ASSUME NEW n \in Int, NEW b \in y, b >= n PROVE \E a \in x : a >= n
  BY <1>1, <1>4 DEF NoMore
<1> QED
  BY <1>2, <1>3, <1>4

(* The risk score that counts, the worst without a report.                 *)
RiskOf(c) ==
    IF c.risk = Absent THEN 100 ELSE (CHOOSE report \in c.risk : TRUE).score

LEMMA RiskOfReport ==
    ASSUME NEW c, IsKnown(c)
    PROVE  /\ RiskOf(c) \in 0..100
           /\ \A r \in c.risk : RiskOf(c) = r.score
<1>1. CASE c.risk = {}
  BY <1>1 DEF RiskOf, Absent
<1>2. CASE c.risk # {}
  <2>1. PICK r \in c.risk : TRUE
    BY <1>2
  <2>2. r \in Reports /\ \A q \in c.risk : q = r
    BY DEF IsKnown, IsOptional
  <2>3. (CHOOSE report \in c.risk : TRUE) = r
    BY <2>1, <2>2
  <2>4. RiskOf(c) = r.score
    BY <1>2, <2>3 DEF RiskOf, Absent
  <2> QED
    BY <2>2, <2>4 DEF Reports
<1> QED
  BY <1>1, <1>2

(* A score is between 0 and 100 and does not fall when the raw one rises.  *)
LEMMA ScoreOfRaw ==
    ASSUME NEW c, NEW d, NEW config,
           RawScore(c, config) \in Int, RawScore(d, config) \in Int,
           RawScore(d, config) <= RawScore(c, config)
    PROVE  /\ Score(c, config) \in 0..100 /\ Score(d, config) \in 0..100
           /\ Score(d, config) <= Score(c, config)
  BY DEF Score, Lesser

(* What earns and what costs a candidate points.                           *)
Liquid(c, config) == Ample(c.liquidity, config.minLiquidity)
Traded(c, config) == Ample(c.volume, config.minVolume)
Spread(c) == \E n \in c.holders : n >= 100
WideSpread(c) == \E n \in c.holders : n >= 500
Seasoned(c) == \E s \in c.age : s >= 3600
Steady(c) == \E x \in c.change : 0 <= x /\ x <= 100
Falling(c) == \E x \in c.change : x < 0

ScoreTerms(c, config) ==
    600 - 6 * RiskOf(c)
        + Bonus(Liquid(c, config), 15) + Bonus(Traded(c, config), 10)
        + Bonus(Spread(c), 5) + Bonus(WideSpread(c), 5)
        + Bonus(Seasoned(c), 5) + Bonus(Steady(c), 10) - Bonus(Falling(c), 10)

LEMMA ScoreIsItsTerms ==
    ASSUME NEW c, IsKnown(c), NEW config
    PROVE  /\ RawScore(c, config) = ScoreTerms(c, config)
           /\ RawScore(c, config) \in Int
<1>1. RawScore(c, config) = ScoreTerms(c, config)
  BY Zenon DEF RawScore, ScoreTerms, RiskOf, Liquid, Traded, Spread, WideSpread,
               Seasoned, Steady, Falling
<1>2. RiskOf(c) \in Int
  BY RiskOfReport
<1>3. /\ \A earned : Bonus(earned, 15) \in Int
      /\ \A earned : Bonus(earned, 10) \in Int
      /\ \A earned : Bonus(earned, 5) \in Int
  BY DEF Bonus
<1>4. ScoreTerms(c, config) \in Int
  BY <1>2, <1>3 DEF ScoreTerms
<1> QED
  BY <1>1, <1>4

LEMMA WorseScoresNoMore ==
    ASSUME NEW c, IsKnown(c), NEW d, IsKnown(d), Worse(c, d),
           NEW config, IsStrategy(config), d.risk # Absent
    PROVE  Score(d, config) <= Score(c, config)
<1>1. RiskOf(c) \in 0..100 /\ RiskOf(d) \in 0..100 /\ RiskOf(c) <= RiskOf(d)
  <2>1. PICK s \in d.risk : TRUE
    BY DEF Absent
  <2>2. PICK r \in c.risk : r.score <= s.score
    BY DEF Worse, NoMilder
  <2> QED
    BY <2>2, RiskOfReport
<1>2. /\ IsOptional(config.minLiquidity, Int) /\ IsOptional(config.minVolume, Int)
      /\ IsOptional(c.liquidity, Int) /\ IsOptional(d.liquidity, Int)
      /\ IsOptional(c.volume, Int) /\ IsOptional(d.volume, Int)
      /\ IsOptional(c.holders, Int) /\ IsOptional(d.holders, Int)
      /\ IsOptional(c.age, Int) /\ IsOptional(d.age, Int)
  BY DEF IsKnown, IsStrategy
<1>3. /\ NoMore(c.liquidity, d.liquidity) /\ NoMore(c.volume, d.volume)
      /\ NoMore(c.holders, d.holders) /\ NoMore(c.age, d.age)
      /\ d.change = c.change
  BY DEF Worse
<1>4. /\ Liquid(d, config) => Liquid(c, config)
      /\ Traded(d, config) => Traded(c, config)
  BY <1>2, <1>3, LessIsBelow DEF Liquid, Traded
<1>5. /\ Spread(d) => Spread(c)
      /\ WideSpread(d) => WideSpread(c)
      /\ Seasoned(d) => Seasoned(c)
  <2>1. IsOptional({}, Int)
    BY DEF IsOptional
  <2> QED
    BY <1>2, <1>3, <2>1, LessIsBelow DEF Spread, WideSpread, Seasoned
<1>6. (Steady(d) <=> Steady(c)) /\ (Falling(d) <=> Falling(c))
  BY <1>3 DEF Steady, Falling
<1>7. /\ Bonus(Liquid(d, config), 15) <= Bonus(Liquid(c, config), 15)
      /\ Bonus(Traded(d, config), 10) <= Bonus(Traded(c, config), 10)
  BY <1>4 DEF Bonus
<1>8. /\ Bonus(Spread(d), 5) <= Bonus(Spread(c), 5)
      /\ Bonus(WideSpread(d), 5) <= Bonus(WideSpread(c), 5)
      /\ Bonus(Seasoned(d), 5) <= Bonus(Seasoned(c), 5)
  BY <1>5 DEF Bonus
<1>9. /\ Bonus(Steady(d), 10) = Bonus(Steady(c), 10)
      /\ Bonus(Falling(d), 10) = Bonus(Falling(c), 10)
  BY <1>6 DEF Bonus
<1>10. /\ \A earned : Bonus(earned, 15) \in Int
       /\ \A earned : Bonus(earned, 10) \in Int
       /\ \A earned : Bonus(earned, 5) \in Int
  BY DEF Bonus
<1>11. ScoreTerms(d, config) <= ScoreTerms(c, config)
  BY <1>1, <1>7, <1>8, <1>9, <1>10 DEF ScoreTerms
<1> QED
  BY <1>11, ScoreIsItsTerms, ScoreOfRaw

-----------------------------------------------------------------------------
(* The theorems. *)

(* A candidate that is bought with a worse report, with lower metrics or   *)
(* with some of them lost would also have been bought on what was lost     *)
(* (evaluate.ts:157 and score.ts:78): nothing that goes missing buys.      *)
THEOREM WorseFactsNeverBuy ==
    ASSUME NEW c, IsKnown(c), NEW d, IsKnown(d), Worse(c, d),
           NEW config, IsStrategy(config), NEW portfolio, NEW now,
           Decision(d, config, portfolio, now).side = "BUY"
    PROVE  Decision(c, config, portfolio, now).side = "BUY"
<1>1. /\ ~Disqualified(d, config, portfolio, now) /\ ~Holding(d, portfolio)
      /\ EntryDecision(d, config, portfolio, now).side = "BUY"
  <2>1. /\ NoTrade.side # "BUY"
        /\ ExitDecision(d, config, portfolio, now).side # "BUY"
    BY DEF NoTrade, ExitDecision
  <2> QED
    BY <2>1 DEF Decision
<1>2. Holding(c, portfolio) <=> Holding(d, portfolio)
  BY DEF Worse, Holding
<1>3. ~RiskRefuses(d, config) /\ d.risk # Absent
  BY <1>1 DEF Disqualified, RiskRefuses
<1>4. ~RiskRefuses(c, config)
  BY <1>3, WorseIsRefused
<1>5. ~MetricsRefuse(c, config)
  <2>1. /\ Below(c.liquidity, config.minLiquidity)
              => Below(d.liquidity, config.minLiquidity)
        /\ Below(c.volume, config.minVolume) => Below(d.volume, config.minVolume)
    BY LessIsBelow DEF IsKnown, IsStrategy, Worse
  <2>2. Excessive(c.change, config.maxChange)
           <=> Excessive(d.change, config.maxChange)
    BY DEF Worse
  <2> QED
    BY <1>1, <2>1, <2>2 DEF Disqualified, MetricsRefuse
<1>6. ~Disqualified(c, config, portfolio, now)
  <2>1. c.lastLoss = d.lastLoss
    BY DEF Worse
  <2> QED
    BY <1>1, <1>2, <1>4, <1>5, <2>1 DEF Disqualified
<1>7. /\ Score(d, config) >= config.minScoreForPaperBuy
      /\ ~MaxOpenReached(config, portfolio)
      /\ ~Concentrated(portfolio, config.maxConcentration)
      /\ ~WithinCooldown(now, d.lastTrade, config.cooldownAfterTrade)
  BY <1>1 DEF EntryDecision, NoTrade
<1>8. Score(c, config) >= config.minScoreForPaperBuy
  <2>1. Score(d, config) <= Score(c, config)
    BY <1>3, WorseScoresNoMore
  <2>2. Score(c, config) \in Int /\ Score(d, config) \in Int
    BY ScoreIsItsTerms, ScoreOfRaw
  <2> QED
    BY <1>7, <2>1, <2>2 DEF IsStrategy
<1>9. EntryDecision(c, config, portfolio, now).side = "BUY"
  <2>1. c.lastTrade = d.lastTrade
    BY DEF Worse
  <2> QED
    BY <1>7, <1>8, <2>1 DEF EntryDecision
<1> QED
  BY <1>1, <1>2, <1>6, <1>9 DEF Decision

(* The report that token:risk makes of the facts of a mint.                *)
ReportOn(f) == {[decision |-> Risk!Decision(f), score |-> Risk!Score(f)]}

(* From the chain to the plan: a fact of the mint that could not be        *)
(* determined never buys what the good answer would not have bought        *)
(* (risk-flags.ts:8, evaluate.ts:157).                                     *)
THEOREM UnknownFactsNeverBuy ==
    ASSUME NEW f \in Risk!Facts, NEW g, Risk!InDoubt(f, g),
           NEW c, IsKnown(c), c.risk = ReportOn(f),
           NEW d, d = [c EXCEPT !.risk = ReportOn(g)], "risk" \in DOMAIN c,
           NEW config, IsStrategy(config), NEW portfolio, NEW now,
           Decision(d, config, portfolio, now).side = "BUY"
    PROVE  Decision(c, config, portfolio, now).side = "BUY"
<1> DEFINE r == [decision |-> Risk!Decision(f), score |-> Risk!Score(f)]
           s == [decision |-> Risk!Decision(g), score |-> Risk!Score(g)]
<1>1. /\ d.risk = {s} /\ c.risk = {r}
      /\ d.mint = c.mint /\ d.claimsHeld = c.claimsHeld
      /\ d.change = c.change /\ d.lastLoss = c.lastLoss
      /\ d.lastTrade = c.lastTrade /\ d.liquidity = c.liquidity
      /\ d.volume = c.volume /\ d.holders = c.holders /\ d.age = c.age
  BY DEF ReportOn
<1>2. s \in Reports /\ NoMilder(r, s)
  <2>1. /\ Risk!Decision(f) \in ReportDecisions
        /\ Risk!Decision(g) \in ReportDecisions
    BY DEF Risk!Decision, ReportDecisions
  <2>2. Risk!Score(f) \in 0..100 /\ Risk!Score(g) \in 0..100
    BY Risk!ScoreType
  <2>3. Risk!Score(f) <= Risk!Score(g)
    BY Risk!UnknownIsNeverSafer
  <2>4. /\ Risk!Decision(f) = "REJECT" => Risk!Decision(g) = "REJECT"
        /\ Risk!Decision(g) = "PASS_FOR_PAPER_EVALUATION"
              => Risk!Decision(f) = Risk!Decision(g)
    BY Risk!UnknownNeverDecidesSafer
  <2> QED
    BY <2>1, <2>2, <2>3, <2>4 DEF Reports, ReportDecisions, NoMilder
<1> HIDE DEF r, s
<1>3. IsKnown(d)
  BY <1>1, <1>2 DEF IsKnown, IsOptional
<1>4. \A x : IsOptional(x, Int) => NoMore(x, x)
  BY DEF IsOptional, NoMore
<1>5. Worse(c, d)
  BY <1>1, <1>2, <1>4 DEF Worse, IsKnown
<1> QED
  BY <1>3, <1>5, WorseFactsNeverBuy

(* What is rejected outright is neither bought nor sold: the risk gate is  *)
(* for exits too (evaluate.ts:101), so a stop loss does not fire for a     *)
(* mint that has become one.                                               *)
THEOREM DealBreakersAreNotTraded ==
    ASSUME NEW f \in Risk!Facts, Risk!DealBreaker(f),
           NEW c, c.risk = ReportOn(f), NEW config, NEW portfolio, NEW now
    PROVE  Decision(c, config, portfolio, now) = NoTrade
<1>1. Risk!Decision(f) = "REJECT"
  BY Risk!DealBreakersReject
<1>2. \E report \in c.risk : report.decision = "REJECT"
  BY <1>1 DEF ReportOn
<1> QED
  BY <1>2 DEF RiskRefuses, Disqualified, Decision

(* A stop loss is never outvoted: a held position whose report passes the  *)
(* gate and whose price has fallen by the limit is sold whole, whatever    *)
(* the targets, the trail and the partial exit are (exits.ts:124), unless  *)
(* it was traded a moment ago; and unless somebody gave a size, its        *)
(* candidate says all (plan.ts:188).                                       *)
THEOREM LossesAreCut ==
    ASSUME NEW c, IsKnown(c), NEW config, NEW portfolio, NEW now,
           Holding(c, portfolio), ~RiskRefuses(c, config),
           ~WithinCooldown(now, c.lastTrade, config.cooldownAfterTrade),
           NEW change \in c.change,
           \E limit \in Enabled(config.stopLoss) : change <= -limit
    PROVE  LET d == Decision(c, config, portfolio, now)
           IN  /\ d.side = "SELL" /\ d.why = "FULL_EXIT"
               /\ c.proposedSize = Absent
                     => ToPaperCandidate(c, d, Absent).size = 0
<1> DEFINE exits == {SimulatedExit(c, x, config, portfolio) : x \in c.change}
                       \ {Hold}
<1>1. \A x \in c.change : x = change
  BY DEF IsKnown, IsOptional
<1>2. SimulatedExit(c, change, config, portfolio) = FullExit
  BY DEF SimulatedExit
<1>3. FullExit # Hold /\ FullExit.action = "FULL_EXIT"
  BY DEF FullExit, Hold
<1>4. exits = {FullExit}
  BY <1>1, <1>2, <1>3
<1>5. (CHOOSE e \in exits : TRUE) = FullExit
  BY <1>4
<1>6. exits # {}
  BY <1>4
<1> DEFINE d == ExitDecision(c, config, portfolio, now)
<1>7. d = [side |-> "SELL", why |-> FullExit.action, size |-> FullExit.size]
  BY <1>5, <1>6 DEF ExitDecision
<1>8. Decision(c, config, portfolio, now) = d
  BY DEF Decision, Disqualified
<1> HIDE DEF d
<1>9. d.side = "SELL" /\ d.why = "FULL_EXIT"
  BY <1>3, <1>7
<1>10. c.proposedSize = Absent => ToPaperCandidate(c, d, Absent).size = 0
  <2>1. \A side, mint, size, decision, why :
           PaperCandidate(side, mint, size, decision, why).size = size
    BY DEF PaperCandidate
  <2>2. c.proposedSize = Absent => ProposedSize(c, Absent) = 0
    BY DEF ProposedSize
  <2> QED
    BY <1>9, <2>1, <2>2 DEF ToPaperCandidate
<1> QED
  BY <1>8, <1>9, <1>10

(* Every candidate of a plan is that of an entry of the batch that has a   *)
(* report which passed the gate; a purchase has also passed the entry      *)
(* gates and is of a mint not held, and a sale is of a holding             *)
(* (planStrategyBatch).  The hypothesis is that the batch is a sequence.   *)
THEOREM PlansPassTheGates ==
    ASSUME NEW batch, batch \in Seq(Range(batch)), NEW config, NEW portfolio,
           NEW default, NEW now,
           NEW j \in DOMAIN PaperCandidates(batch, config, portfolio, default, now)
    PROVE  \E i \in DOMAIN batch :
              LET p == PaperCandidates(batch, config, portfolio, default, now)[j]
                  c == batch[i]
              IN  /\ p.mint = c.mint /\ ~RiskRefuses(c, config)
                  /\ p.side \in {"BUY", "SELL"}
                  /\ p.side = "SELL" => Holding(c, portfolio)
                  /\ p.side = "BUY" =>
                        /\ ~Holding(c, portfolio) /\ ~MetricsRefuse(c, config)
                        /\ ~MaxOpenReached(config, portfolio)
                        /\ ~WithinCooldown(now, c.lastLoss,
                                           config.cooldownAfterLoss)
<1> DEFINE C == PaperCandidates(batch, config, portfolio, default, now)
           given(i) == Decision(batch[i], config, portfolio, now)
<1>1. C[j] \in Planned(batch, config, portfolio, default, now)
  <2>1. C \in Seq(Planned(batch, config, portfolio, default, now))
    BY PlannedFromBatch
  <2>2. j \in DOMAIN C
    OBVIOUS
  <2> HIDE DEF C
  <2> QED
    BY <2>1, <2>2, ElementOfSeq, LenProperties
<1>2. PICK i \in DOMAIN batch :
         /\ given(i).side # "none"
         /\ C[j] = ToPaperCandidate(batch[i], given(i), default)
  BY <1>1 DEF Planned
<1>3. C[j].side = given(i).side /\ C[j].mint = batch[i].mint
  <2>1. \A side, mint, size, decision, why :
          LET c == PaperCandidate(side, mint, size, decision, why)
          IN  c.side = side /\ c.mint = mint
    BY DEF PaperCandidate
  <2> HIDE DEF C, given
  <2> QED
    BY <1>2, <2>1 DEF ToPaperCandidate
<1> DEFINE c == batch[i]
<1>4. NoTrade.side = "none"
  BY DEF NoTrade
<1>5. ~Disqualified(c, config, portfolio, now)
  BY <1>2, <1>4 DEF Decision
<1>6. ASSUME Holding(c, portfolio) PROVE given(i).side = "SELL"
  <2>1. given(i) = ExitDecision(c, config, portfolio, now)
    BY <1>5, <1>6 DEF Decision
  <2> QED
    BY <1>2, <1>4, <2>1 DEF ExitDecision
<1>7. ASSUME ~Holding(c, portfolio)
      PROVE  given(i).side = "BUY" /\ ~MaxOpenReached(config, portfolio)
  <2>1. given(i) = EntryDecision(c, config, portfolio, now)
    BY <1>5, <1>7 DEF Decision
  <2> QED
    BY <1>2, <1>4, <2>1 DEF EntryDecision
<1>8. /\ ~RiskRefuses(c, config)
      /\ ~Holding(c, portfolio) =>
            /\ ~MetricsRefuse(c, config)
            /\ ~WithinCooldown(now, c.lastLoss, config.cooldownAfterLoss)
  BY <1>5 DEF Disqualified
<1> HIDE DEF given, C
<1>9. /\ C[j].mint = c.mint /\ ~RiskRefuses(c, config)
      /\ C[j].side \in {"BUY", "SELL"}
      /\ C[j].side = "SELL" => Holding(c, portfolio)
      /\ C[j].side = "BUY" =>
            /\ ~Holding(c, portfolio) /\ ~MetricsRefuse(c, config)
            /\ ~MaxOpenReached(config, portfolio)
            /\ ~WithinCooldown(now, c.lastLoss, config.cooldownAfterLoss)
  BY <1>3, <1>6, <1>7, <1>8
<1> WITNESS i \in DOMAIN batch
<1> QED
  BY <1>9 DEF C

(* The exception to WorseFactsNeverBuy is the price change: a candidate    *)
(* that would be bought while it falls would be bought as well with the    *)
(* fall lost, and its raw score is ten points higher, unless a maximal     *)
(* change is configured (score.ts:115, evaluate.ts:297).                   *)
THEOREM LostFallScoresMore ==
    ASSUME NEW c, IsKnown(c), "change" \in DOMAIN c,
           NEW change \in c.change, change < 0,
           NEW d, d = [c EXCEPT !.change = Absent],
           NEW config, IsStrategy(config), config.maxChange = Absent,
           NEW portfolio, NEW now
    PROVE  /\ RawScore(d, config) = RawScore(c, config) + 100
           /\ Decision(c, config, portfolio, now).side = "BUY"
                 => Decision(d, config, portfolio, now).side = "BUY"
<1>1. /\ d.change = {} /\ d.risk = c.risk /\ d.liquidity = c.liquidity
      /\ d.volume = c.volume /\ d.holders = c.holders /\ d.age = c.age
      /\ d.mint = c.mint /\ d.claimsHeld = c.claimsHeld
      /\ d.lastLoss = c.lastLoss /\ d.lastTrade = c.lastTrade
  BY DEF Absent
<1>2. IsKnown(d)
  BY <1>1 DEF IsKnown, IsOptional
<1>3. c.change = {change} /\ change \in Int
  BY DEF IsKnown, IsOptional
<1>4. /\ RiskOf(d) = RiskOf(c)
      /\ Bonus(Liquid(d, config), 15) = Bonus(Liquid(c, config), 15)
      /\ Bonus(Traded(d, config), 10) = Bonus(Traded(c, config), 10)
      /\ Bonus(Spread(d), 5) = Bonus(Spread(c), 5)
      /\ Bonus(WideSpread(d), 5) = Bonus(WideSpread(c), 5)
      /\ Bonus(Seasoned(d), 5) = Bonus(Seasoned(c), 5)
  <2>1. /\ Liquid(d, config) <=> Liquid(c, config)
        /\ Traded(d, config) <=> Traded(c, config)
        /\ Spread(d) <=> Spread(c)
        /\ WideSpread(d) <=> WideSpread(c)
        /\ Seasoned(d) <=> Seasoned(c)
    BY <1>1 DEF Liquid, Traded, Spread, WideSpread, Seasoned
  <2>2. RiskOf(d) = RiskOf(c)
    BY <1>1 DEF RiskOf
  <2> QED
    BY <2>1, <2>2 DEF Bonus
<1>5. ~Steady(d) /\ ~Falling(d) /\ ~Steady(c) /\ Falling(c)
  BY <1>1, <1>3 DEF Steady, Falling
<1>6. /\ Bonus(Steady(d), 10) = 0 /\ Bonus(Falling(d), 10) = 0
      /\ Bonus(Steady(c), 10) = 0 /\ Bonus(Falling(c), 10) = 100
  BY <1>5 DEF Bonus
<1>7. /\ \A earned : Bonus(earned, 15) \in Int
      /\ \A earned : Bonus(earned, 10) \in Int
      /\ \A earned : Bonus(earned, 5) \in Int
  BY DEF Bonus
<1>8. RiskOf(c) \in Int
  BY RiskOfReport
<1>9. ScoreTerms(d, config) = ScoreTerms(c, config) + 100
  BY <1>4, <1>6, <1>7, <1>8 DEF ScoreTerms
<1>10. RawScore(d, config) = RawScore(c, config) + 100
  BY <1>2, <1>9, ScoreIsItsTerms
<1>11. ASSUME Decision(c, config, portfolio, now).side = "BUY"
       PROVE  Decision(d, config, portfolio, now).side = "BUY"
  <2>1. /\ ~Disqualified(c, config, portfolio, now) /\ ~Holding(c, portfolio)
        /\ EntryDecision(c, config, portfolio, now).side = "BUY"
    <3>1. /\ NoTrade.side # "BUY"
          /\ ExitDecision(c, config, portfolio, now).side # "BUY"
      BY DEF NoTrade, ExitDecision
    <3> QED
      BY <1>11, <3>1 DEF Decision
  <2>2. ~Holding(d, portfolio)
    BY <1>1, <2>1 DEF Holding
  <2>3. ~Disqualified(d, config, portfolio, now)
    <3>1. ~Excessive(d.change, config.maxChange)
      BY DEF Excessive, Absent
    <3>2. ~RiskRefuses(d, config)
      BY <1>1, <2>1 DEF Disqualified, RiskRefuses
    <3> QED
      BY <1>1, <2>1, <3>1, <3>2 DEF Disqualified, MetricsRefuse
  <2>4. /\ Score(c, config) >= config.minScoreForPaperBuy
        /\ ~MaxOpenReached(config, portfolio)
        /\ ~Concentrated(portfolio, config.maxConcentration)
        /\ ~WithinCooldown(now, c.lastTrade, config.cooldownAfterTrade)
    BY <2>1 DEF EntryDecision, NoTrade
  <2>5. Score(d, config) >= config.minScoreForPaperBuy
    <3>1. /\ Score(c, config) \in 0..100 /\ Score(d, config) \in 0..100
          /\ Score(c, config) <= Score(d, config)
      BY <1>2, <1>10, ScoreIsItsTerms, ScoreOfRaw
    <3> QED
      BY <2>4, <3>1 DEF IsStrategy
  <2>6. EntryDecision(d, config, portfolio, now).side = "BUY"
    BY <1>1, <2>4, <2>5 DEF EntryDecision
  <2> QED
    BY <2>2, <2>3, <2>6 DEF Decision
<1> QED
  BY <1>10, <1>11
=============================================================================
