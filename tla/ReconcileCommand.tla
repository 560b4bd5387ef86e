-------------------------- MODULE ReconcileCommand --------------------------
(***************************************************************************)
(* One accounting run over one attempt, read by read: trackConfirmation's  *)
(* bounded poll loop, the fee, the current balances, and the report        *)
(* (packages/execution/src/reconciliation.ts, in the order in which        *)
(* executionSessionReconcileReport of apps/cli/src/commands.ts awaits      *)
(* them), while the transaction makes its way through the cluster.  What   *)
(* the ledger does to a signature is the subject of ExecutionSessions;     *)
(* here the caller holds the signature it asks about.                      *)
(***************************************************************************)
EXTENDS Reconciliation

CONSTANTS MaxPolls,        \* the polls asked for
          HardMaxPolls,    \* CONFIRMATION_HARD_MAX_POLLS
          DropDetection,   \* the caller knows the blockhash's last height
          LastValidHeight, \* that height
          Purses,          \* balances the owner may have, in base fees
          Bounds           \* acceptable fee bounds

ASSUME PollsAssumption == MaxPolls \in Int /\ HardMaxPolls \in Nat \ {0}
ASSUME HeightAssumption == LastValidHeight \in Nat
(* Lamports are natural numbers, and a fee can be taken from any but none. *)
ASSUME PursesAssumption ==
    \A amount \in Purses : amount \in Nat /\ (amount # 0 => amount - 1 \in Purses)
ASSUME BoundsAssumption == Bounds \subseteq Nat

VARIABLES phase,          \* the next await of the command
          poll,           \* polls made
          unrecognized,   \* an answer carried an unknown commitment
          facts,          \* what was observed so far
          verdict,        \* of the report, once built
          tx,             \* the transaction, as the cluster has it
          height,         \* the cluster's block height
          purse           \* the owner's balance, as the cluster has it

command == <<phase, poll, unrecognized, facts, verdict>>
cluster == <<tx, height, purse>>
vars == <<phase, poll, unrecognized, facts, verdict, tx, height, purse>>

Phases == {"status", "height", "fee", "post", "report", "done"}
Landed == {"processed", "confirmed", "finalized", "failed"}
Amounts == {0, 1}
BaseFee == 1

TypeOK ==
    /\ phase \in Phases
    /\ poll \in 0..HardMaxPolls
    /\ unrecognized \in BOOLEAN
    /\ facts \in Facts(Purses, Amounts, {BaseFee}, Bounds)
    /\ verdict \in RECONCILIATION_VERDICTS \cup {"none"}
    /\ tx \in Landed \cup {"absent", "pending"}
    /\ height \in 0..LastValidHeight + 1
    /\ purse \in Purses

(* The attempt entry names the balance it observed, or none; a token mint  *)
(* is an option of the command and the entry never names a token balance.  *)
Init ==
    /\ purse \in Purses \ {0}
    /\ facts \in {f \in Facts(Purses, Amounts, {BaseFee}, Bounds) :
                    /\ f.expected = "self-transfer-probe"
                    /\ ~f.signed => f.confirmation = NotTracked
                    /\ f.fundingBlocked => ~f.signed
                    /\ f.confirmation = NotTracked
                    /\ f.pre \in {Unobserved, Observed(purse)}
                    /\ ~f.signed => f.pre = Unobserved
                    /\ f.post = Unobserved /\ f.fee = Unobserved
                    /\ f.tokenPre = Unobserved /\ f.tokenPost = Unobserved}
    /\ phase = IF facts.signed THEN "status" ELSE "report"
    /\ poll = 0
    /\ unrecognized = FALSE
    /\ verdict = "none"
    /\ tx = IF facts.signed THEN "pending" ELSE "absent"
    /\ height = 0

-----------------------------------------------------------------------------
(* trackConfirmation *)

Least(a, b) == IF a < b THEN a ELSE b
(* Mutant: no hard bound.                                                  *)
PollBoundUncapped == IF MaxPolls < 1 THEN 1 ELSE MaxPolls

PollBound == Least(IF MaxPolls < 1 THEN 1 ELSE MaxPolls, HardMaxPolls)

(* getSignatureStatus: an answer may lag behind the cluster, and a seam    *)
(* may answer a commitment the tracker does not know.                      *)
StatusAnswers ==
    {"null", "unrecognized"} \cup
    CASE tx = "processed" -> {"processed"}
      [] tx = "confirmed" -> {"processed", "confirmed"}
      [] tx = "finalized" -> {"processed", "confirmed", "finalized"}
      [] tx = "failed" -> {"error"}
      [] OTHER -> {}

Classify(outcome) ==
    /\ facts' = [facts EXCEPT !.confirmation = outcome]
    /\ phase' = "fee"

(* The end of an iteration that classified nothing.                        *)
NextPoll(seenUnrecognized) ==
    IF poll' < PollBound
    THEN phase' = "status" /\ UNCHANGED facts
    ELSE Classify(IF seenUnrecognized THEN "unknown" ELSE "timeout")

StatusThrows ==
    /\ phase = "status"
    /\ poll' = poll + 1
    /\ Classify("rpc-unavailable")
    /\ UNCHANGED <<unrecognized, verdict, cluster>>

StatusAnswered ==
    /\ phase = "status"
    /\ poll' = poll + 1
    /\ \E answer \in StatusAnswers :
          /\ unrecognized' = (unrecognized \/ answer = "unrecognized")
          /\ CASE answer = "error" -> Classify("signature-error")
               [] answer \in {"confirmed", "finalized"} -> Classify(answer)
               [] answer = "null" /\ DropDetection ->
                      phase' = "height" /\ UNCHANGED facts
               [] OTHER -> NextPoll(unrecognized')
    /\ UNCHANGED <<verdict, cluster>>

(* Mutant: the last valid height counts as expired.                        *)
ReadHeightOffByOne ==
    /\ phase = "height"
    /\ UNCHANGED poll
    /\ \/ height >= LastValidHeight /\ Classify("dropped")
       \/ height < LastValidHeight /\ NextPoll(unrecognized)
    /\ UNCHANGED <<unrecognized, verdict, cluster>>

(* A second read decides the drop; when it throws the loop goes on.        *)
ReadHeight ==
    /\ phase = "height"
    /\ UNCHANGED poll
    /\ \/ height > LastValidHeight /\ Classify("dropped")
       \/ height <= LastValidHeight /\ NextPoll(unrecognized)
    /\ UNCHANGED <<unrecognized, verdict, cluster>>

(* Mutant: a poll whose height read throws is not counted.                 *)
HeightThrowsUncounted ==
    /\ phase = "height"
    /\ poll' = poll - 1
    /\ phase' = "status"
    /\ UNCHANGED <<unrecognized, facts, verdict, cluster>>

HeightThrows ==
    /\ phase = "height"
    /\ UNCHANGED poll
    /\ NextPoll(unrecognized)
    /\ UNCHANGED <<unrecognized, verdict, cluster>>

-----------------------------------------------------------------------------
(* The fee from transaction meta, at commitment "confirmed"; a failure of  *)
(* the read is a missing fee.                                              *)
ReadFee ==
    /\ phase = "fee"
    /\ \E fee \in {Unobserved} \cup
           IF tx \in {"confirmed", "finalized", "failed"}
           THEN {Observed(BaseFee)} ELSE {} :
          facts' = [facts EXCEPT !.fee = fee]
    /\ phase' = "post"
    /\ UNCHANGED <<poll, unrecognized, verdict, cluster>>

(* readBalanceSnapshot: a throw or a malformed answer is not an            *)
(* observation; no token account is an observed zero.  A transaction that  *)
(* is only processed does not show in a balance read at "confirmed".       *)
VisibleBalance ==
    IF tx = "processed" /\ purse + BaseFee \in Purses
    THEN purse + BaseFee ELSE purse

ReadPost ==
    /\ phase = "post"
    /\ \E post \in {Unobserved, Observed(VisibleBalance)},
          tokenPost \in IF facts.mint THEN Optional(Amounts) ELSE {Unobserved} :
          facts' = [facts EXCEPT !.post = post, !.tokenPost = tokenPost]
    /\ phase' = "report"
    /\ UNCHANGED <<poll, unrecognized, verdict, cluster>>

Report ==
    /\ phase = "report"
    /\ verdict' = BuildReconciliationReport(facts)
    /\ phase' = "done"
    /\ UNCHANGED <<poll, unrecognized, facts, cluster>>

-----------------------------------------------------------------------------
(* The cluster.  A transaction lands only while its blockhash is valid.    *)
Land ==
    /\ tx = "pending" /\ height <= LastValidHeight
    /\ tx' \in {"processed", "failed"}
    /\ purse' = purse - BaseFee
    /\ UNCHANGED <<height, command>>

Advance ==
    /\ \/ tx = "processed" /\ tx' = "confirmed"
       \/ tx = "confirmed" /\ tx' = "finalized"
    /\ UNCHANGED <<height, purse, command>>

(* Somebody else's transfer to or from the same owner.                     *)
Stranger ==
    /\ purse' \in {purse - 1, purse + 1} \cap Purses
    /\ purse' # 0 \/ tx # "pending"
    /\ UNCHANGED <<tx, height, command>>

GrowHeight ==
    /\ height <= LastValidHeight
    /\ height' = height + 1
    /\ UNCHANGED <<tx, purse, command>>

Step == StatusThrows \/ StatusAnswered \/ ReadHeight \/ HeightThrows
          \/ ReadFee \/ ReadPost \/ Report

Next == Step \/ Land \/ Advance \/ GrowHeight \/ Stranger

(* Every await of the command returns or throws in the end, so its next    *)
(* step is taken: weak fairness of Step, and none of the cluster.          *)
Spec == Init /\ [][Next]_vars /\ WF_vars(Step)

-----------------------------------------------------------------------------
(* "reconciled", unless of a dropped transaction, means that the           *)
(* transaction is confirmed on the cluster and that the purse was seen to  *)
(* change by no more than the fee bound, whatever else moved in it         *)
(* meanwhile.                                                              *)
ReconciledMeansConfirmed ==
    verdict = "reconciled" /\ facts.confirmation # "dropped" =>
        /\ tx \in {"confirmed", "finalized"}
        /\ The(facts.pre) - The(facts.post) \in 0..facts.maxFee
        /\ facts.fee # Unobserved =>
              The(facts.pre) - The(facts.post) = BaseFee

(* "not-sent" and "funding-blocked" are said only of an attempt whose      *)
(* transaction the cluster has never seen.                                 *)
NotSentMeansAbsent ==
    verdict \in {"not-sent", "funding-blocked"} => tx = "absent"

(* An observation that is lost - a balance or the confirmation - never     *)
(* turns a verdict that blocks into one that allows.                       *)
Weaker(f) ==
    {[f EXCEPT !.pre = Unobserved], [f EXCEPT !.post = Unobserved],
     [f EXCEPT !.confirmation = "rpc-unavailable"],
     [f EXCEPT !.confirmation = "timeout"],
     [f EXCEPT !.confirmation = NotTracked]}

LostObservationNeverHelps ==
    phase = "done" => \A g \in Weaker(facts) : Safe(g) => Safe(facts)

(* Once "dropped" is claimed of a transaction that has not landed, it      *)
(* cannot land any more: the claim rests on the expired blockhash and never*)
(* on a missing answer.                                                    *)
DropIsFinal ==
    [][facts.confirmation = "dropped" /\ tx = "pending" => tx' = "pending"]_vars

(* The whole run is bounded: it ends whatever the cluster does.            *)
Terminates == <>(phase = "done")

(* reconciliation.ts on its report: "missing data can only make the        *)
(* verdict LESS permissive, never more".  The fee is data, too.            *)
MissingDataNeverHelps ==
    phase = "done" => \A g \in Weaker(facts) \cup
                               {[facts EXCEPT !.fee = Unobserved]} :
                          Safe(g) => Safe(facts)

(* The reason the report gives for a token: a change "was observed".  The  *)
(* command reads the token once, after the attempt, so it can observe no   *)
(* change: with that read answered, the verdict is the one of a run that   *)
(* did not ask.                                                            *)
TokenChangeWasObserved ==
    phase = "done" /\ facts.mint /\ facts.tokenPost # Unobserved =>
        BuildReconciliationReport([facts EXCEPT !.mint = FALSE]) = verdict
=============================================================================
