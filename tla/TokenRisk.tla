------------------------------- MODULE TokenRisk -------------------------------
(***************************************************************************)
(* The token risk report: what the inspector makes of the extensions of a  *)
(* Token-2022 mint (packages/solana/src/token2022.ts), the flags that the  *)
(* facts of a mint raise (packages/risk/src/risk-flags.ts), their score    *)
(* and the decision (risk-score.ts), and what the readers of the report    *)
(* take from it (packages/txbuilder/src/refusals.ts,                       *)
(* apps/cli/src/commands.ts).  Pure.                                       *)
(*                                                                         *)
(* A check raises at most one flag: it is modelled by its severity, "none" *)
(* for no flag.  Percentages are integers and a negative number is one     *)
(* that could not be read.                                                 *)
(***************************************************************************)
EXTENDS Integers

Answers == {"yes", "no", "unknown"}

(* The five extensions that take the tokens of a holder out of his hands   *)
(* by being there.  "defaultAccountState" is one whose state reads frozen, *)
(* "mintCloseAuthority" one whose authority can be read; "unexamined"      *)
(* stands for every extension the inspector does not know.                 *)
FatalExtensions == {"transferHook", "permanentDelegate", "nonTransferable",
                    "defaultAccountState", "pausable"}
Extensions == FatalExtensions \cup
    {"transferFee", "mintCloseAuthority", "confidentialTransfers",
     "scaledUiAmount", "interestBearing", "metadataPointer", "unexamined"}

(* What token:risk learns of a mint from the chain and from the lists and  *)
(* options of the operator; deep: --deep was given.                        *)
Facts ==
    [denied : BOOLEAN, allowed : BOOLEAN, traded : BOOLEAN,
     initialized : Answers, freezeAuthority : Answers, mintAuthority : Answers,
     program : {"spl-token", "spl-token-2022", "other"},
     supply : {"some", "zero", "unparsable"}, oddDecimals : BOOLEAN,
     deep : BOOLEAN,
     holders : {"read", "failed"}, top1 : Int, top5 : Int,
     metadata : {"mutable", "immutable", "unavailable"},
     extensionsReadable : BOOLEAN, extensions : SUBSET Extensions,
     transferFeeBps : Int,
     impactGiven : BOOLEAN, impact : Int]

-----------------------------------------------------------------------------
(* The inspector: extensions exist on Token-2022 mints only, and a fee     *)
(* that cannot be read counts as none.                                     *)
Token2022Status(f) ==
    IF f.program # "spl-token-2022" THEN "not-applicable"
    ELSE IF f.extensionsReadable THEN "parsed" ELSE "unavailable"

Parsed(f) == f.deep /\ Token2022Status(f) = "parsed"
Has(f, extension) == Parsed(f) /\ extension \in f.extensions

SummaryFee(f) ==
    IF Has(f, "transferFee") /\ f.transferFeeBps >= 0 THEN f.transferFeeBps ELSE 0

-----------------------------------------------------------------------------
(* The checks of evaluateRiskFlags.                                        *)
If(raised, severity) == IF raised THEN severity ELSE "none"

Unless(answer, good, otherwise) ==
    CASE answer = "unknown" -> "low" [] answer = good -> "info" [] OTHER -> otherwise

SupplyFlag(f) == If(f.supply # "some", "medium")

HolderFlag(f) ==
    CASE ~f.deep -> "none"
      [] f.deep /\ (f.holders = "failed" \/ (f.top1 < 0 /\ f.top5 < 0)) -> "low"
      [] OTHER -> IF f.top1 >= 50 THEN "high"
                  ELSE IF f.top1 >= 25 \/ f.top5 >= 70 THEN "medium" ELSE "info"

MetadataFlag(f) ==
    CASE ~f.deep -> "none"
      [] f.deep /\ f.metadata = "unavailable" -> "low"
      [] f.deep /\ f.metadata = "mutable" -> "medium"
      [] OTHER -> "info"

FeeFlag(f) ==
    CASE SummaryFee(f) >= 1000 -> "critical"
      [] SummaryFee(f) > 0 /\ SummaryFee(f) < 1000 -> "high"
      [] OTHER -> "none"

ImpactFlag(f) ==
    CASE ~f.impactGiven -> "none"
      [] f.impactGiven /\ f.impact < 0 -> "low"
      [] OTHER -> IF f.impact >= 10 THEN "high"
                  ELSE IF f.impact >= 3 THEN "medium" ELSE "info"

Checks == {"denylist", "traded", "initialized", "freezeAuthority",
           "mintAuthority", "program", "supply", "decimals", "holders",
           "metadata", "unreadable", "transferFee", "impact"} \cup Extensions

Flag(f, check) ==
    CASE check = "denylist" -> If(f.denied, "critical")
      [] check = "traded" -> If(f.traded, "medium")
      [] check = "initialized" ->
             IF f.initialized = "yes" THEN "none"
             ELSE Unless(f.initialized, "yes", "critical")
      [] check = "freezeAuthority" -> Unless(f.freezeAuthority, "no", "critical")
      [] check = "mintAuthority" -> Unless(f.mintAuthority, "no", "high")
      [] check = "program" -> IF f.program = "other" THEN "high" ELSE "info"
      [] check = "supply" -> SupplyFlag(f)
      [] check = "decimals" -> If(f.oddDecimals, "high")
      [] check = "holders" -> HolderFlag(f)
      [] check = "metadata" -> MetadataFlag(f)
      [] check = "unreadable" ->
             If(f.deep /\ Token2022Status(f) = "unavailable", "medium")
      [] check \in FatalExtensions -> If(Has(f, check), "critical")
      [] check = "transferFee" -> FeeFlag(f)
      [] check = "mintCloseAuthority" -> If(Has(f, check), "high")
      [] check \in {"confidentialTransfers", "scaledUiAmount", "unexamined"} ->
             If(Has(f, check), "medium")
      [] check = "interestBearing" -> If(Has(f, check), "low")
      [] check = "metadataPointer" -> If(Has(f, check), "info")
      [] check = "impact" -> ImpactFlag(f)

(* token-2022-no-risky-extensions, an info flag.                           *)
ExtensionsCleared(f) ==
    /\ Parsed(f)
    /\ \A e \in FatalExtensions \cup {"mintCloseAuthority", "unexamined"} :
          e \notin f.extensions
    /\ SummaryFee(f) = 0

-----------------------------------------------------------------------------
(* scoreRiskFlags.                                                         *)
Weight(severity) ==
    CASE severity = "critical" -> 100 [] severity = "high" -> 30
      [] severity = "medium" -> 15    [] severity = "low" -> 5
      [] OTHER -> 0

AllowlistCredit == 10
RejectAt == 70
CautionAt == 30

WeightOf(f, check) == Weight(Flag(f, check))

MintScore(f) ==
    WeightOf(f, "denylist") + WeightOf(f, "traded") + WeightOf(f, "initialized")
    + WeightOf(f, "freezeAuthority") + WeightOf(f, "mintAuthority")
    + WeightOf(f, "program") + WeightOf(f, "supply") + WeightOf(f, "decimals")

DeepScore(f) ==
    WeightOf(f, "holders") + WeightOf(f, "metadata")
    + WeightOf(f, "unreadable") + WeightOf(f, "impact")

FatalScore(f) ==
    WeightOf(f, "transferHook") + WeightOf(f, "permanentDelegate")
    + WeightOf(f, "nonTransferable") + WeightOf(f, "defaultAccountState")
    + WeightOf(f, "pausable")

ExtensionScore(f) ==
    WeightOf(f, "transferFee") + WeightOf(f, "mintCloseAuthority")
    + WeightOf(f, "confidentialTransfers") + WeightOf(f, "scaledUiAmount")
    + WeightOf(f, "interestBearing") + WeightOf(f, "metadataPointer")
    + WeightOf(f, "unexamined")

RawScore(f) ==
    MintScore(f) + DeepScore(f) + FatalScore(f) + ExtensionScore(f)
    - (IF f.allowed THEN AllowlistCredit ELSE 0)

Score(f) ==
    LET raw == RawScore(f)
    IN  IF raw < 0 THEN 0 ELSE IF raw > 100 THEN 100 ELSE raw

HasCritical(f) == \E check \in Checks : Flag(f, check) = "critical"

Decision(f) ==
    IF HasCritical(f) \/ Score(f) >= RejectAt THEN "REJECT"
    ELSE IF Score(f) >= CautionAt THEN "CAUTION"
    ELSE "PASS_FOR_PAPER_EVALUATION"

-----------------------------------------------------------------------------
(* What the readers of a report tell apart, in this order: a rejection, an *)
(* extension for which no swap is built, another critical flag, another    *)
(* extension of high severity, and none of these.                          *)
Readings == {"clear", "rejected", "token2022", "critical", "extension"}

BuildBlockers(f) ==
    \/ \E e \in FatalExtensions : Flag(f, e) # "none"
    \/ FeeFlag(f) = "critical"

SevereExtension(f) ==
    \E e \in Extensions : Flag(f, e) \in {"critical", "high"}

ReadingOf(f) ==
    IF Decision(f) = "REJECT" THEN "rejected"
    ELSE IF BuildBlockers(f) THEN "token2022"
    ELSE IF HasCritical(f) THEN "critical"
    ELSE IF SevereExtension(f) THEN "extension"
    ELSE "clear"

(* The risk part of evaluateBuildRefusals, its score cap apart: a critical *)
(* flag alone, or a severe extension that is no blocker, refuses nothing.  *)
RefusesBuild(reading) == reading \in {"rejected", "token2022"}

-----------------------------------------------------------------------------
(* What the comments of the flags call rejected outright, by the facts.    *)
DealBreaker(f) ==
    \/ f.denied
    \/ f.initialized = "no"
    \/ f.freezeAuthority = "yes"
    \/ \E e \in FatalExtensions : Has(f, e)
    \/ Has(f, "transferFee") /\ f.transferFeeBps >= 1000
=============================================================================
