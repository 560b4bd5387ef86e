---------------------------- MODULE TokenRiskProofs ----------------------------
(***************************************************************************)
(* Proofs about the token risk report, for every facts of a mint.          *)
(***************************************************************************)
EXTENDS TokenRisk, TLAPS

-----------------------------------------------------------------------------
(* The score.                                                              *)

Weights == {0, 5, 15, 30, 100}

LEMMA WeightType == \A f, check : WeightOf(f, check) \in Weights
  BY DEF WeightOf, Weight, Weights

LEMMA SumTypes ==
    \A f : /\ MintScore(f) \in Int /\ DeepScore(f) \in Int
           /\ FatalScore(f) \in Int /\ ExtensionScore(f) \in Int
<1> SUFFICES ASSUME NEW f
             PROVE  /\ MintScore(f) \in Int /\ DeepScore(f) \in Int
                    /\ FatalScore(f) \in Int /\ ExtensionScore(f) \in Int
  OBVIOUS
<1>1. \A check : WeightOf(f, check) \in Int
  BY WeightType DEF Weights
<1>2. MintScore(f) \in Int
  BY <1>1 DEF MintScore
<1>3. DeepScore(f) \in Int
  BY <1>1 DEF DeepScore
<1>4. FatalScore(f) \in Int
  BY <1>1 DEF FatalScore
<1>5. ExtensionScore(f) \in Int
  BY <1>1 DEF ExtensionScore
<1> QED
  BY <1>2, <1>3, <1>4, <1>5

LEMMA RawScoreType == \A f : RawScore(f) \in Int
  BY SumTypes DEF RawScore, AllowlistCredit

(* A score is between 0 and 100.                                           *)
LEMMA ScoreType == \A f : Score(f) \in 0..100
  BY RawScoreType DEF Score

(* Facts of which no check is milder than another's do not score less.     *)
LEMMA ScoreMonotone ==
    ASSUME NEW f, NEW g, f.allowed = g.allowed,
           \A check \in Checks : WeightOf(f, check) <= WeightOf(g, check)
    PROVE  Score(f) <= Score(g)
<1> USE DEF Checks, Extensions, FatalExtensions
<1>1. \A check : WeightOf(f, check) \in Int /\ WeightOf(g, check) \in Int
  BY WeightType DEF Weights
<1>2. MintScore(f) <= MintScore(g)
  BY <1>1 DEF MintScore
<1>3. DeepScore(f) <= DeepScore(g)
  BY <1>1 DEF DeepScore
<1>4. FatalScore(f) <= FatalScore(g)
  BY <1>1 DEF FatalScore
<1>5. ExtensionScore(f) <= ExtensionScore(g)
  BY <1>1 DEF ExtensionScore
<1>6. RawScore(f) <= RawScore(g)
  BY <1>2, <1>3, <1>4, <1>5, SumTypes DEF RawScore, AllowlistCredit
<1> QED
  BY <1>6, RawScoreType DEF Score

CreditOf(f) == IF f.allowed THEN AllowlistCredit ELSE 0

(* But for the credit of the allowlist the score is at least each term.    *)
LEMMA ScoreBoundsFlags ==
    ASSUME NEW f, NEW check \in Checks
    PROVE  WeightOf(f, check) - CreditOf(f) <= Score(f)
<1> USE DEF Checks, Extensions, FatalExtensions
<1>1. \A c : WeightOf(f, c) \in Int /\ 0 <= WeightOf(f, c) /\ WeightOf(f, c) <= 100
  BY WeightType DEF Weights
<1>2. /\ 0 <= MintScore(f) /\ 0 <= DeepScore(f)
      /\ 0 <= FatalScore(f) /\ 0 <= ExtensionScore(f)
  BY <1>1 DEF MintScore, DeepScore, FatalScore, ExtensionScore
<1>3. \/ WeightOf(f, check) <= MintScore(f)
      \/ WeightOf(f, check) <= DeepScore(f)
      \/ WeightOf(f, check) <= FatalScore(f)
      \/ WeightOf(f, check) <= ExtensionScore(f)
  <2>1. CASE check \in {"denylist", "traded", "initialized", "freezeAuthority",
                        "mintAuthority", "program", "supply", "decimals"}
    BY <1>1, <2>1 DEF MintScore
  <2>2. CASE check \in {"holders", "metadata", "unreadable", "impact"}
    BY <1>1, <2>2 DEF DeepScore
  <2>3. CASE check \in FatalExtensions
    BY <1>1, <2>3 DEF FatalScore
  <2>4. CASE check \in {"transferFee", "mintCloseAuthority",
                        "confidentialTransfers", "scaledUiAmount",
                        "interestBearing", "metadataPointer", "unexamined"}
    BY <1>1, <2>4 DEF ExtensionScore
  <2> QED
    BY <2>1, <2>2, <2>3, <2>4
<1>4. CreditOf(f) \in {0, 10} /\ RawScore(f) = MintScore(f) + DeepScore(f)
         + FatalScore(f) + ExtensionScore(f) - CreditOf(f)
  BY SumTypes DEF RawScore, CreditOf, AllowlistCredit
<1>5. WeightOf(f, check) - CreditOf(f) <= RawScore(f)
  BY <1>1, <1>2, <1>3, <1>4, SumTypes
<1> QED
  BY <1>1, <1>4, <1>5, RawScoreType DEF Score

-----------------------------------------------------------------------------
(* The decision.                                                           *)

(* Whatever else is known of a mint, and whatever list it is on, a fact    *)
(* that the comments of its flags call rejected outright rejects it        *)
(* (packages/risk/src/risk-score.ts:13).                                   *)
THEOREM DealBreakersReject ==
    ASSUME NEW f \in Facts, DealBreaker(f)
    PROVE  Decision(f) = "REJECT" /\ RefusesBuild(ReadingOf(f))
<1> USE DEF Checks, Extensions, FatalExtensions
<1>1. HasCritical(f)
  <2>1. CASE f.denied
    <3>1. Flag(f, "denylist") = "critical"
      BY <2>1 DEF Flag, If
    <3> QED
      BY <3>1 DEF HasCritical
  <2>2. CASE f.initialized = "no"
    <3>1. Flag(f, "initialized") = "critical"
      BY <2>2 DEF Flag, Unless
    <3> QED
      BY <3>1 DEF HasCritical
  <2>3. CASE f.freezeAuthority = "yes"
    <3>1. Flag(f, "freezeAuthority") = "critical"
      BY <2>3 DEF Flag, Unless
    <3> QED
      BY <3>1 DEF HasCritical
  <2>4. CASE \E e \in FatalExtensions : Has(f, e)
    <3>1. PICK e \in FatalExtensions : Has(f, e)
      BY <2>4
    <3>2. Flag(f, e) = "critical"
      BY <3>1 DEF Flag, If
    <3> QED
      BY <3>1, <3>2 DEF HasCritical
  <2>5. CASE Has(f, "transferFee") /\ f.transferFeeBps >= 1000
    <3>1. f.transferFeeBps \in Int
      BY DEF Facts
    <3>2. SummaryFee(f) = f.transferFeeBps
      BY <2>5, <3>1 DEF SummaryFee
    <3>3. FeeFlag(f) = "critical"
      BY <2>5, <3>1, <3>2 DEF FeeFlag
    <3>4. Flag(f, "transferFee") = "critical"
      BY <3>3 DEF Flag
    <3> QED
      BY <3>4 DEF HasCritical
  <2> QED
    BY <2>1, <2>2, <2>3, <2>4, <2>5 DEF DealBreaker
<1> QED
  BY <1>1 DEF Decision, ReadingOf, RefusesBuild

(* A report that token:risk wrote and nobody edited never carries a        *)
(* critical flag or an extension for which no swap is built without being  *)
(* a rejection.                                                            *)
THEOREM CriticalMeansRejected ==
    \A f : ReadingOf(f) \in {"clear", "rejected", "extension"}
<1> USE DEF Checks, Extensions, FatalExtensions
<1> SUFFICES ASSUME NEW f PROVE ReadingOf(f) \in {"clear", "rejected", "extension"}
  OBVIOUS
<1>1. BuildBlockers(f) => HasCritical(f)
  <2>1. ASSUME NEW e \in FatalExtensions, Flag(f, e) # "none"
        PROVE  Flag(f, e) = "critical"
    BY <2>1 DEF Flag, If
  <2>2. Flag(f, "transferFee") = FeeFlag(f)
    BY DEF Flag
  <2> QED
    BY <2>1, <2>2 DEF BuildBlockers, HasCritical
<1> QED
  BY <1>1 DEF ReadingOf, Decision

(* A mint passes for paper evaluation only with no flag of high severity,  *)
(* the allowlist apart, whose credit can pay for one.                      *)
THEOREM PassHasNoSevereFlag ==
    ASSUME NEW f, ~f.allowed, Decision(f) = "PASS_FOR_PAPER_EVALUATION"
    PROVE  \A check \in Checks : Flag(f, check) \notin {"critical", "high"}
<1>1. Score(f) < CautionAt
  BY ScoreType DEF Decision, CautionAt
<1>2. \A check \in Checks : WeightOf(f, check) <= Score(f)
  <2>1. CreditOf(f) = 0
    BY DEF CreditOf
  <2> QED
    BY <2>1, ScoreBoundsFlags, WeightType, ScoreType DEF Weights
<1> QED
  BY <1>1, <1>2, ScoreType DEF WeightOf, Weight, CautionAt

-----------------------------------------------------------------------------
(* Unknown facts.                                                          *)

(* g are the facts f but for one good answer that was not to be had.       *)
InDoubt(f, g) ==
    \/ f.initialized = "yes" /\ g = [f EXCEPT !.initialized = "unknown"]
    \/ f.freezeAuthority = "no" /\ g = [f EXCEPT !.freezeAuthority = "unknown"]
    \/ f.mintAuthority = "no" /\ g = [f EXCEPT !.mintAuthority = "unknown"]
    \/ f.supply = "some" /\ g = [f EXCEPT !.supply = "unparsable"]
    \/ f.program = "spl-token" /\ g = [f EXCEPT !.program = "other"]
    \/ /\ f.holders = "read" /\ f.top1 \in 0..24 /\ f.top5 \in 0..69
       /\ g = [f EXCEPT !.holders = "failed"]
    \/ f.metadata = "immutable" /\ g = [f EXCEPT !.metadata = "unavailable"]
    \/ /\ f.extensionsReadable /\ f.extensions = {}
       /\ g = [f EXCEPT !.extensionsReadable = FALSE]
    \/ f.impact \in 0..2 /\ g = [f EXCEPT !.impact = -1]

(* Each check, by the facts it looks at.                                   *)
LEMMA FlagOf ==
    \A f : /\ Flag(f, "denylist") = If(f.denied, "critical")
           /\ Flag(f, "traded") = If(f.traded, "medium")
           /\ Flag(f, "initialized") =
                 IF f.initialized = "yes" THEN "none"
                 ELSE Unless(f.initialized, "yes", "critical")
           /\ Flag(f, "freezeAuthority") =
                 Unless(f.freezeAuthority, "no", "critical")
           /\ Flag(f, "mintAuthority") = Unless(f.mintAuthority, "no", "high")
           /\ Flag(f, "program") = IF f.program = "other" THEN "high" ELSE "info"
           /\ Flag(f, "supply") = SupplyFlag(f)
           /\ Flag(f, "decimals") = If(f.oddDecimals, "high")
           /\ Flag(f, "holders") = HolderFlag(f)
           /\ Flag(f, "metadata") = MetadataFlag(f)
           /\ Flag(f, "unreadable") =
                 If(f.deep /\ Token2022Status(f) = "unavailable", "medium")
           /\ Flag(f, "transferFee") = FeeFlag(f)
           /\ Flag(f, "impact") = ImpactFlag(f)
  BY DEF Flag, FatalExtensions

ByPresence == Extensions \ {"transferFee"}

LEMMA FlagOfExtension ==
    ASSUME NEW f, NEW g, NEW e \in ByPresence
    PROVE  /\ ~Has(f, e) => Flag(f, e) = "none"
           /\ (Has(f, e) <=> Has(g, e)) => Flag(f, e) = Flag(g, e)
  BY DEF Flag, If, ByPresence, Extensions, FatalExtensions

(* A check looks at no facts but its own.                                  *)
SameBut(f, g, check) ==
    /\ \/ check = "initialized" \/ g.initialized = f.initialized
    /\ \/ check = "freezeAuthority" \/ g.freezeAuthority = f.freezeAuthority
    /\ \/ check = "mintAuthority" \/ g.mintAuthority = f.mintAuthority
    /\ \/ check = "supply" \/ g.supply = f.supply
    /\ \/ check = "program" \/ g.program = f.program
    /\ \/ check = "holders" \/ g.holders = f.holders
    /\ \/ check = "metadata" \/ g.metadata = f.metadata
    /\ \/ check = "impact" \/ g.impact = f.impact
    /\ g.denied = f.denied /\ g.traded = f.traded /\ g.deep = f.deep
    /\ g.oddDecimals = f.oddDecimals /\ g.top1 = f.top1 /\ g.top5 = f.top5
    /\ g.impactGiven = f.impactGiven

LEMMA SameFlags ==
    ASSUME NEW f, NEW g, NEW check, SameBut(f, g, check)
    PROVE  \A c \in Checks \ (Extensions \cup {check, "unreadable"}) :
              Flag(g, c) = Flag(f, c)
<1> SUFFICES ASSUME NEW c \in Checks, c \notin Extensions,
                    c # check, c # "unreadable"
             PROVE  Flag(g, c) = Flag(f, c)
  OBVIOUS
<1>1. CASE c \in {"denylist", "traded", "initialized", "freezeAuthority",
                  "mintAuthority", "program", "supply", "decimals"}
  BY <1>1, FlagOf DEF SameBut, SupplyFlag
<1>2. CASE c = "holders"
  BY <1>2, FlagOf DEF SameBut, HolderFlag
<1>3. CASE c = "metadata"
  BY <1>3, FlagOf DEF SameBut, MetadataFlag
<1>4. CASE c = "impact"
  BY <1>4, FlagOf DEF SameBut, ImpactFlag
<1> QED
  BY <1>1, <1>2, <1>3, <1>4 DEF Checks, Extensions

(* Facts that differ neither in what the extension checks look at nor in   *)
(* what any other check but one looks at.                                  *)
LEMMA OneCheckDiffers ==
    ASSUME NEW f, NEW g, NEW check \in Checks,
           Token2022Status(g) = Token2022Status(f), g.deep = f.deep,
           g.extensions = f.extensions, g.transferFeeBps = f.transferFeeBps,
           g.allowed = f.allowed,
           \A c \in Checks \ (Extensions \cup {check, "unreadable"}) :
              Flag(g, c) = Flag(f, c),
           WeightOf(f, check) <= WeightOf(g, check)
    PROVE  Score(f) <= Score(g)
<1>1. \A e : Has(g, e) <=> Has(f, e)
  BY DEF Has, Parsed
<1>2. \A e \in ByPresence : Flag(g, e) = Flag(f, e)
  BY <1>1, FlagOfExtension
<1>3. Flag(g, "transferFee") = Flag(f, "transferFee")
  BY <1>1, FlagOf DEF FeeFlag, SummaryFee
<1>4. Flag(g, "unreadable") = Flag(f, "unreadable")
  BY FlagOf
<1>5. \A c \in Checks \ {check} : Flag(g, c) = Flag(f, c)
  BY <1>2, <1>3, <1>4 DEF ByPresence
<1>6. \A c \in Checks : WeightOf(f, c) <= WeightOf(g, c)
  <2> SUFFICES ASSUME NEW c \in Checks, c # check
               PROVE  WeightOf(f, c) <= WeightOf(g, c)
    OBVIOUS
  <2>1. WeightOf(f, c) = WeightOf(g, c) /\ WeightOf(f, c) \in Int
    BY <1>5, WeightType DEF WeightOf, Weights
  <2> QED
    BY <2>1
<1> QED
  BY <1>6, ScoreMonotone

(* A fact that cannot be determined never makes a mint look safer than the *)
(* good answer would (packages/risk/src/risk-flags.ts:8).                  *)
THEOREM UnknownIsNeverSafer ==
    ASSUME NEW f \in Facts, NEW g, InDoubt(f, g)
    PROVE  Score(f) <= Score(g)
<1>1. CASE f.initialized = "yes" /\ g = [f EXCEPT !.initialized = "unknown"]
  <2>1. /\ Token2022Status(g) = Token2022Status(f) /\ g.deep = f.deep
        /\ g.extensions = f.extensions /\ g.transferFeeBps = f.transferFeeBps
        /\ g.allowed = f.allowed
    BY <1>1 DEF Facts, Token2022Status
  <2>2. SameBut(f, g, "initialized")
    BY <1>1 DEF Facts, SameBut
  <2>3. WeightOf(f, "initialized") <= WeightOf(g, "initialized")
    BY <1>1, FlagOf
       DEF Facts, WeightOf, Weight, Unless
  <2> QED
    BY <2>1, <2>2, <2>3, OneCheckDiffers, SameFlags DEF Checks
<1>2. CASE /\ f.freezeAuthority = "no"
           /\ g = [f EXCEPT !.freezeAuthority = "unknown"]
  <2>1. /\ Token2022Status(g) = Token2022Status(f) /\ g.deep = f.deep
        /\ g.extensions = f.extensions /\ g.transferFeeBps = f.transferFeeBps
        /\ g.allowed = f.allowed
    BY <1>2 DEF Facts, Token2022Status
  <2>2. SameBut(f, g, "freezeAuthority")
    BY <1>2 DEF Facts, SameBut
  <2>3. WeightOf(f, "freezeAuthority") <= WeightOf(g, "freezeAuthority")
    BY <1>2, FlagOf
       DEF Facts, WeightOf, Weight, Unless
  <2> QED
    BY <2>1, <2>2, <2>3, OneCheckDiffers, SameFlags DEF Checks
<1>3. CASE f.mintAuthority = "no" /\ g = [f EXCEPT !.mintAuthority = "unknown"]
  <2>1. /\ Token2022Status(g) = Token2022Status(f) /\ g.deep = f.deep
        /\ g.extensions = f.extensions /\ g.transferFeeBps = f.transferFeeBps
        /\ g.allowed = f.allowed
    BY <1>3 DEF Facts, Token2022Status
  <2>2. SameBut(f, g, "mintAuthority")
    BY <1>3 DEF Facts, SameBut
  <2>3. WeightOf(f, "mintAuthority") <= WeightOf(g, "mintAuthority")
    BY <1>3, FlagOf
       DEF Facts, WeightOf, Weight, Unless
  <2> QED
    BY <2>1, <2>2, <2>3, OneCheckDiffers, SameFlags DEF Checks
<1>4. CASE f.supply = "some" /\ g = [f EXCEPT !.supply = "unparsable"]
  <2>1. /\ Token2022Status(g) = Token2022Status(f) /\ g.deep = f.deep
        /\ g.extensions = f.extensions /\ g.transferFeeBps = f.transferFeeBps
        /\ g.allowed = f.allowed
    BY <1>4 DEF Facts, Token2022Status
  <2>2. SameBut(f, g, "supply")
    BY <1>4 DEF Facts, SameBut
  <2>3. WeightOf(f, "supply") <= WeightOf(g, "supply")
    BY <1>4, FlagOf
       DEF Facts, WeightOf, Weight, SupplyFlag, If
  <2> QED
    BY <2>1, <2>2, <2>3, OneCheckDiffers, SameFlags DEF Checks
<1>5. CASE f.program = "spl-token" /\ g = [f EXCEPT !.program = "other"]
  <2>1. /\ Token2022Status(g) = Token2022Status(f) /\ g.deep = f.deep
        /\ g.extensions = f.extensions /\ g.transferFeeBps = f.transferFeeBps
        /\ g.allowed = f.allowed
    BY <1>5 DEF Facts, Token2022Status
  <2>2. SameBut(f, g, "program")
    BY <1>5 DEF Facts, SameBut
  <2>3. WeightOf(f, "program") <= WeightOf(g, "program")
    BY <1>5, FlagOf
       DEF Facts, WeightOf, Weight
  <2> QED
    BY <2>1, <2>2, <2>3, OneCheckDiffers, SameFlags DEF Checks
<1>6. CASE /\ f.holders = "read" /\ f.top1 \in 0..24 /\ f.top5 \in 0..69
           /\ g = [f EXCEPT !.holders = "failed"]
  <2>1. /\ Token2022Status(g) = Token2022Status(f) /\ g.deep = f.deep
        /\ g.extensions = f.extensions /\ g.transferFeeBps = f.transferFeeBps
        /\ g.allowed = f.allowed
    BY <1>6 DEF Facts, Token2022Status
  <2>2. SameBut(f, g, "holders")
    BY <1>6 DEF Facts, SameBut
  <2>3. WeightOf(f, "holders") <= WeightOf(g, "holders")
    BY <1>6, FlagOf
       DEF Facts, WeightOf, Weight, HolderFlag
  <2> QED
    BY <2>1, <2>2, <2>3, OneCheckDiffers, SameFlags DEF Checks
<1>7. CASE f.metadata = "immutable" /\ g = [f EXCEPT !.metadata = "unavailable"]
  <2>1. /\ Token2022Status(g) = Token2022Status(f) /\ g.deep = f.deep
        /\ g.extensions = f.extensions /\ g.transferFeeBps = f.transferFeeBps
        /\ g.allowed = f.allowed
    BY <1>7 DEF Facts, Token2022Status
  <2>2. SameBut(f, g, "metadata")
    BY <1>7 DEF Facts, SameBut
  <2>3. WeightOf(f, "metadata") <= WeightOf(g, "metadata")
    BY <1>7, FlagOf
       DEF Facts, WeightOf, Weight, MetadataFlag
  <2> QED
    BY <2>1, <2>2, <2>3, OneCheckDiffers, SameFlags DEF Checks
<1>8. CASE f.impact \in 0..2 /\ g = [f EXCEPT !.impact = -1]
  <2>1. /\ Token2022Status(g) = Token2022Status(f) /\ g.deep = f.deep
        /\ g.extensions = f.extensions /\ g.transferFeeBps = f.transferFeeBps
        /\ g.allowed = f.allowed
    BY <1>8 DEF Facts, Token2022Status
  <2>2. SameBut(f, g, "impact")
    BY <1>8 DEF Facts, SameBut
  <2>3. WeightOf(f, "impact") <= WeightOf(g, "impact")
    BY <1>8, FlagOf
       DEF Facts, WeightOf, Weight, ImpactFlag
  <2> QED
    BY <2>1, <2>2, <2>3, OneCheckDiffers, SameFlags DEF Checks
<1>9. CASE /\ f.extensionsReadable /\ f.extensions = {}
           /\ g = [f EXCEPT !.extensionsReadable = FALSE]
  <2>1. \A e : ~Has(f, e) /\ ~Has(g, e)
    BY <1>9 DEF Facts, Has
  <2>2. \A e \in ByPresence : Flag(g, e) = Flag(f, e)
    BY <2>1, FlagOfExtension
  <2>3. Flag(g, "transferFee") = Flag(f, "transferFee")
    BY <2>1, FlagOf DEF FeeFlag, SummaryFee
  <2>4. \A c \in Checks \ (Extensions \cup {"unreadable"}) : Flag(g, c) = Flag(f, c)
    <3>1. SameBut(f, g, "unreadable")
      BY <1>9 DEF Facts, SameBut
    <3> QED
      BY <3>1, SameFlags
  <2>5. WeightOf(f, "unreadable") <= WeightOf(g, "unreadable")
    <3>1. Flag(f, "unreadable") = "none"
      BY <1>9, FlagOf DEF If, Token2022Status
    <3> QED
      BY <3>1, WeightType DEF WeightOf, Weight, Weights
  <2>6. \A c \in Checks \ {"unreadable"} : Flag(g, c) = Flag(f, c)
    BY <2>2, <2>3, <2>4 DEF ByPresence
  <2>7. \A c \in Checks : WeightOf(f, c) <= WeightOf(g, c)
    <3> SUFFICES ASSUME NEW c \in Checks, c # "unreadable"
                 PROVE  WeightOf(f, c) <= WeightOf(g, c)
      BY <2>5
    <3>1. WeightOf(f, c) = WeightOf(g, c) /\ WeightOf(f, c) \in Int
      BY <2>6, WeightType DEF WeightOf, Weights
    <3> QED
      BY <3>1
  <2>8. f.allowed = g.allowed
    BY <1>9 DEF Facts
  <2> QED
    BY <2>7, <2>8, ScoreMonotone
<1> QED
  BY <1>1, <1>2, <1>3, <1>4, <1>5, <1>6, <1>7, <1>8, <1>9 DEF InDoubt

(* Nor does it lead to a milder decision (risk-flags.ts:8).                *)
THEOREM UnknownNeverDecidesSafer ==
    ASSUME NEW f \in Facts, NEW g, InDoubt(f, g)
    PROVE  /\ Decision(f) = "REJECT" => Decision(g) = "REJECT"
           /\ Decision(g) = "PASS_FOR_PAPER_EVALUATION" => Decision(f) = Decision(g)
<1>1. Score(f) <= Score(g)
  BY UnknownIsNeverSafer
<1>2. Score(f) \in 0..100 /\ Score(g) \in 0..100
  BY ScoreType
<1>3. HasCritical(f) => Score(f) >= RejectAt
  <2> SUFFICES ASSUME NEW check \in Checks, Flag(f, check) = "critical"
               PROVE  Score(f) >= RejectAt
    BY DEF HasCritical
  <2>1. WeightOf(f, check) = 100
    BY DEF WeightOf, Weight
  <2>2. CreditOf(f) \in {0, 10}
    BY DEF CreditOf, AllowlistCredit
  <2> QED
    BY <1>2, <2>1, <2>2, ScoreBoundsFlags DEF RejectAt
<1> QED
  BY <1>1, <1>2, <1>3 DEF Decision, RejectAt, CautionAt

(* The one exception: a transfer fee that cannot be read raises no flag,   *)
(* leaves the score and the decision of a mint without a fee, and lets it  *)
(* be reported as having no risky extension                                *)
(* (packages/solana/src/token2022.ts:148), although an odd shape should be *)
(* a caution (token2022.ts:8) and that flag is to mean that there is no    *)
(* transfer fee (packages/risk/src/risk-flags.ts:516).                     *)
THEOREM UnreadableFeeReadsAsNone ==
    ASSUME NEW f \in Facts, f.transferFeeBps < 0,
           NEW g, g = [f EXCEPT !.extensions = @ \ {"transferFee"}]
    PROVE  /\ Score(f) = Score(g)
           /\ Decision(f) = Decision(g)
           /\ ExtensionsCleared(f) <=> ExtensionsCleared(g)
<1>1. \A e : e # "transferFee" => (Has(f, e) <=> Has(g, e))
  BY DEF Facts, Has, Parsed, Token2022Status
<1>2. \A e \in ByPresence : Flag(g, e) = Flag(f, e)
  BY <1>1, FlagOfExtension DEF ByPresence
<1>3. SummaryFee(f) = 0 /\ SummaryFee(g) = 0
  BY DEF Facts, SummaryFee
<1>4. Flag(g, "transferFee") = Flag(f, "transferFee")
  BY <1>3, FlagOf DEF FeeFlag
<1>5. \A c \in Checks \ Extensions : Flag(g, c) = Flag(f, c)
  BY FlagOf DEF Facts, Checks, SupplyFlag, HolderFlag, MetadataFlag,
                ImpactFlag, Token2022Status
<1>6. \A c \in Checks : Flag(g, c) = Flag(f, c)
  BY <1>2, <1>4, <1>5 DEF ByPresence
<1>7. f.allowed = g.allowed
  BY DEF Facts
<1>8. Score(f) = Score(g)
  <2>1. \A c \in Checks : WeightOf(f, c) = WeightOf(g, c)
    BY <1>6 DEF WeightOf
  <2> QED
    BY <1>7, <2>1 DEF Score, RawScore, MintScore, DeepScore, FatalScore,
                      ExtensionScore, Checks, Extensions, FatalExtensions
<1>9. HasCritical(f) <=> HasCritical(g)
  BY <1>6 DEF HasCritical
<1>10. Decision(f) = Decision(g)
  BY <1>8, <1>9 DEF Decision
<1>11. ExtensionsCleared(f) <=> ExtensionsCleared(g)
  BY <1>3 DEF Facts, ExtensionsCleared, Parsed, Token2022Status, FatalExtensions
<1> QED
  BY <1>8, <1>10, <1>11
=============================================================================
