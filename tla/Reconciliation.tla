--------------------------- MODULE Reconciliation ---------------------------
(***************************************************************************)
(* The reconciliation verdict of packages/execution/src/reconciliation.ts: *)
(* what an accounting run concludes from the facts it observed.  The       *)
(* module is pure; its state machines are ReconcileCommand (one command,   *)
(* step by step) and ExecutionSessions (all the commands over one ledger). *)
(*                                                                         *)
(* A fact that may be missing is a set with at most one element: {} is     *)
(* "not observed" (null in the code), {x} is "x was observed".  Lamports   *)
(* are counted in units of the 5000-lamport base fee, token amounts in raw *)
(* units.                                                                  *)
(***************************************************************************)
EXTENDS Integers

Unobserved == {}
Observed(x) == {x}
Optional(S) == {Unobserved} \cup {Observed(x) : x \in S}
The(option) == CHOOSE x \in option : TRUE

RECONCILIATION_VERDICTS ==
    {"reconciled", "unreconciled", "pending-confirmation", "not-sent",
     "funding-blocked", "rpc-unavailable", "unsupported", "error"}

RECONCILIATION_CONTINUATION_SAFE_VERDICTS ==
    {"reconciled", "not-sent", "funding-blocked"}

CONFIRMATION_OUTCOMES ==
    {"confirmed", "finalized", "timeout", "dropped", "rpc-unavailable",
     "signature-error", "unknown"}

NotTracked == "not-tracked"   \* confirmation === null

EXPECTED_EFFECT_KINDS == {"self-transfer-probe", "none"}

-----------------------------------------------------------------------------
(* The facts a report is built from.  mint: a token balance was asked for. *)

Facts(Lamports, Amounts, Fees, Bounds) ==
    [expected : EXPECTED_EFFECT_KINDS \cup {"swap"},
     fundingBlocked : BOOLEAN,
     signed : BOOLEAN,
     confirmation : CONFIRMATION_OUTCOMES \cup {NotTracked},
     pre : Optional(Lamports), post : Optional(Lamports),
     mint : BOOLEAN,
     tokenPre : Optional(Amounts), tokenPost : Optional(Amounts),
     fee : Optional(Fees), maxFee : Bounds]

(* computeBalanceDelta: a number only when both sides were observed.       *)
DeltaComputed(f) == f.pre # Unobserved /\ f.post # Unobserved
SolDelta(f) == The(f.post) - The(f.pre)

(* A token that was never asked for is clean; one that was asked for is    *)
(* clean only when both sides are known and equal.                         *)
TokenDeltaClean(f) ==
    \/ ~f.mint
    \/ /\ f.tokenPre # Unobserved
       /\ f.tokenPost = f.tokenPre

(* Mutant: a balance that grew passes for one that paid no fee.            *)
ProbeEffectUnsigned(f) ==
    /\ -SolDelta(f) <= f.maxFee
    /\ f.fee # Unobserved => -SolDelta(f) = The(f.fee)
    /\ TokenDeltaClean(f)

ProbeEffectMatches(f) ==
    /\ SolDelta(f) <= 0
    /\ -SolDelta(f) <= f.maxFee
    /\ f.fee # Unobserved => -SolDelta(f) = The(f.fee)
    /\ TokenDeltaClean(f)

NoEffect(f) == SolDelta(f) = 0 /\ TokenDeltaClean(f)

CompareExpected(f) ==
    IF \/ f.expected = "self-transfer-probe" /\ ProbeEffectMatches(f)
       \/ f.expected = "none" /\ NoEffect(f)
    THEN "reconciled" ELSE "unreconciled"

(* Mutant: without balances the confirmation is proof enough.              *)
ConfirmedVerdictTrusting(f) ==
    IF DeltaComputed(f) THEN CompareExpected(f) ELSE "reconciled"

ConfirmedVerdict(f) ==
    IF DeltaComputed(f) THEN CompareExpected(f) ELSE "rpc-unavailable"

(* Mutant: a dropped transaction was never sent.                           *)
DroppedVerdictNotSent(f) ==
    IF ~DeltaComputed(f) THEN "rpc-unavailable"
    ELSE IF NoEffect(f) THEN "not-sent" ELSE "unreconciled"

(* A dropped transaction must have had no effect, whatever was intended.   *)
DroppedVerdict(f) ==
    IF ~DeltaComputed(f) THEN "rpc-unavailable"
    ELSE IF NoEffect(f) THEN "reconciled" ELSE "unreconciled"

ConfirmationVerdict(f) ==
    CASE f.confirmation \in {"confirmed", "finalized"} -> ConfirmedVerdict(f)
      [] f.confirmation = "dropped" -> DroppedVerdict(f)
      [] f.confirmation = "rpc-unavailable" -> "rpc-unavailable"
      [] f.confirmation \in {"timeout", NotTracked} -> "pending-confirmation"
      [] f.confirmation \in {"unknown", "signature-error"} -> "error"
      [] OTHER -> "error"

(* The early exits of buildReconciliationReport, in the code's order.      *)
BuildReconciliationReport(f) ==
    IF f.expected \notin EXPECTED_EFFECT_KINDS THEN "unsupported"
    ELSE IF f.fundingBlocked THEN "funding-blocked"
    ELSE IF ~f.signed THEN "not-sent"
    ELSE ConfirmationVerdict(f)

Safe(f) ==
    BuildReconciliationReport(f) \in RECONCILIATION_CONTINUATION_SAFE_VERDICTS
=============================================================================
