---------------------------- MODULE Phase7Verdicts ----------------------------
(***************************************************************************)
(* The verdicts of the Phase 7 evidence: the human sign-off                *)
(* (phase7-human-signoff.ts), the authorization audit                      *)
(* (phase7-authorization-audit.ts) and the micro-trade preflight           *)
(* (phase7-microtrade-preflight.ts) of packages/execution/src, and the     *)
(* release candidate of a mainnet dry run                                  *)
(* (packages/sniper/src/mainnet-dryrun-release-candidate.ts).  For each:   *)
(* how a status is derived from evidence, what a builder records, and what *)
(* the validator of a file that was read back accepts.  Pure.              *)
(*                                                                         *)
(* Identifiers, labels, prose and pinned literals are left out: they are   *)
(* the same in every artifact, or no verdict reads them.                   *)
(***************************************************************************)
EXTENDS Integers

CONSTANTS DesignAcks,       \* acknowledgements asked for in every sign-off
          MicrotradeAcks,   \* those asked for in a micro-trade's
          MaxSpendCeiling,  \* PHASE7_MICROTRADE_MAX_SPEND_LAMPORTS
          AuditChecks       \* the gates, invariants and surface of an audit

ASSUME CeilingAssumption == MaxSpendCeiling \in Nat \ {0}

Acks == DesignAcks \cup MicrotradeAcks

-----------------------------------------------------------------------------
(* The sign-off.  A cap of 0 is none.                                      *)

Scopes == {"design-review-only", "controlled-mainnet-microtrade-only"}
SignoffStatuses == {"template-only", "not-signed", "signed-for-s104-design",
                    "signed-for-controlled-microtrade"}

SignoffRequests ==
    [scope : Scopes, acks : SUBSET Acks, operator : BOOLEAN,
     signedAt : BOOLEAN, cap : Nat]

SignoffRecords ==
    [scope : Scopes, acks : SUBSET Acks, operator : BOOLEAN,
     signedAt : BOOLEAN, cap : Nat,
     status : SignoffStatuses, granted : Scopes \cup {"none"}]

RequiredAcks(scope) ==
    IF scope = "design-review-only" THEN DesignAcks ELSE Acks

Signed(s) ==
    /\ RequiredAcks(s.scope) \subseteq s.acks
    /\ s.operator /\ s.signedAt
    /\ s.scope = "controlled-mainnet-microtrade-only" => s.cap > 0

(* derivePhase7SignoffStatus                                               *)
SignoffStatus(s) ==
    IF s.acks = {} /\ ~s.operator /\ ~s.signedAt /\ s.cap = 0
        THEN "template-only"
    ELSE IF ~Signed(s) THEN "not-signed"
    ELSE IF s.scope = "design-review-only" THEN "signed-for-s104-design"
    ELSE "signed-for-controlled-microtrade"

GrantedScope(status) ==
    CASE status = "signed-for-s104-design" -> "design-review-only"
      [] status = "signed-for-controlled-microtrade" ->
             "controlled-mainnet-microtrade-only"
      [] OTHER -> "none"

SignoffRefused(request) ==
    /\ request.cap > 0
    /\ request.scope = "design-review-only" \/ request.cap > MaxSpendCeiling

(* The status is derived from the request, but a cap is recorded only when *)
(* it is a full micro-trade's.                                             *)
BuildSignoff(request) ==
    LET status == SignoffStatus(request)
    IN  [scope |-> request.scope, acks |-> request.acks,
         operator |-> request.operator, signedAt |-> request.signedAt,
         cap |-> IF status = "signed-for-controlled-microtrade"
                 THEN request.cap ELSE 0,
         status |-> status, granted |-> GrantedScope(status)]

(* Mutant: the stored status is taken as it is.                            *)
ValidSignoffTrusting(s) ==
    /\ s.granted = GrantedScope(s.status)
    /\ s.cap <= MaxSpendCeiling
    /\ s.cap > 0 => s.status = "signed-for-controlled-microtrade"

ValidSignoff(s) ==
    /\ s.status = SignoffStatus(s)
    /\ s.granted = GrantedScope(s.status)
    /\ s.cap <= MaxSpendCeiling
    /\ s.cap > 0 => s.status = "signed-for-controlled-microtrade"

-----------------------------------------------------------------------------
(* The audit.  A check is verified, unverified or failed; two operational  *)
(* prerequisites are met or not.                                           *)

Prerequisites == {"devnet-broadcast-confirmed", "written-sign-off"}
AuditVerdicts == {"not-authorized", "authorized-for-design-only",
                  "ready-for-separate-microtrade-authorization"}

AuditRecords ==
    [verified : SUBSET AuditChecks, blockers : SUBSET AuditChecks,
     met : SUBSET Prerequisites, verdict : AuditVerdicts]

AuditVerdict(a) ==
    IF a.verified # AuditChecks \/ a.blockers # {} THEN "not-authorized"
    ELSE IF a.met = Prerequisites
         THEN "ready-for-separate-microtrade-authorization"
    ELSE "authorized-for-design-only"

BuildAudit(verified, met) ==
    LET evidence == [verified |-> verified, blockers |-> AuditChecks \ verified,
                     met |-> met]
    IN  [verified |-> verified, blockers |-> AuditChecks \ verified,
         met |-> met, verdict |-> AuditVerdict(evidence)]

ValidAudit(a) == a.verdict = AuditVerdict(a)

-----------------------------------------------------------------------------
(* The release candidate.                                                  *)

Evidence ==
    [stageError : BOOLEAN,
     assessed : BOOLEAN, rejected : BOOLEAN, critical : BOOLEAN,
     token2022 : BOOLEAN,
     quoteAttempted : BOOLEAN, quoteObserved : BOOLEAN, quoteFresh : BOOLEAN,
     buildAttempted : BOOLEAN, buildRefused : BOOLEAN,
     buildSucceeded : BOOLEAN,
     simAttempted : BOOLEAN, simFailed : BOOLEAN, simOk : BOOLEAN,
     scored : BOOLEAN, readiness : BOOLEAN]

CandidateVerdicts ==
    {"dryrun-error", "dryrun-blocked-risk", "dryrun-blocked-quote",
     "dryrun-blocked-build", "dryrun-blocked-simulation",
     "dryrun-insufficient-evidence", "dryrun-complete-blocked-live"}

Candidates == [evidence : Evidence, verdict : CandidateVerdicts]

(* Mutant: only a rejection blocks.                                        *)
RiskBlockingRejected(e) == e.rejected

RiskBlocking(e) == e.rejected \/ e.critical \/ e.token2022

GoodQuote(e) == e.quoteObserved /\ e.quoteFresh

Complete(e) ==
    /\ e.scored /\ e.assessed /\ e.readiness
    /\ e.quoteAttempted /\ GoodQuote(e)
    /\ e.buildAttempted /\ e.buildSucceeded
    /\ e.simAttempted /\ e.simOk

(* deriveReleaseCandidateVerdict                                           *)
CandidateVerdict(e) ==
    IF e.stageError THEN "dryrun-error"
    ELSE IF RiskBlocking(e) THEN "dryrun-blocked-risk"
    ELSE IF e.quoteAttempted /\ ~GoodQuote(e) THEN "dryrun-blocked-quote"
    ELSE IF e.buildAttempted /\ e.buildRefused THEN "dryrun-blocked-build"
    ELSE IF e.simAttempted /\ e.simFailed THEN "dryrun-blocked-simulation"
    ELSE IF Complete(e) THEN "dryrun-complete-blocked-live"
    ELSE "dryrun-insufficient-evidence"

BuildCandidate(e) == [evidence |-> e, verdict |-> CandidateVerdict(e)]

(* Mutant: the stored verdict is taken as it is.                           *)
ValidCandidateTrusting(c) == c.verdict \in CandidateVerdicts

ValidCandidate(c) == c.verdict = CandidateVerdict(c.evidence)

-----------------------------------------------------------------------------
(* The preflight: the statuses it folds, the echoes of the candidate, and  *)
(* the spend it carries.  An invalid burner key throws, so a record has a  *)
(* valid one or none.                                                      *)

RcStatuses == {"absent", "error", "incomplete", "blocked-build", "blocked-risk",
               "blocked-quote", "blocked-simulation", "complete-blocked-live"}
RiskEchoes == {"not-assessed", "rejected", "critical-flag",
               "token2022-blocker", "clear"}
QuoteEchoes == {"not-applicable", "missing", "stale", "fresh"}
SimulationEchoes == {"not-run", "failed", "simulated-ok"}
PreflightVerdicts ==
    {"blocked-missing-signoff", "blocked-missing-devnet-proof",
     "blocked-missing-release-candidate", "blocked-risk", "blocked-quote",
     "blocked-simulation", "blocked-missing-burner-wallet",
     "blocked-missing-manual-confirmation",
     "ready-for-separate-execution-authorization"}
Requirements == {"sign-off", "devnet proof", "release candidate",
                 "burner wallet", "manual confirmation", "audit"}

(* Mutant: the verdict of the candidate is passed on.                      *)
MapCandidateStatusRaw(verdict) == verdict

MapCandidateStatus(verdict) ==
    CASE verdict = "dryrun-complete-blocked-live" -> "complete-blocked-live"
      [] verdict = "dryrun-blocked-risk" -> "blocked-risk"
      [] verdict = "dryrun-blocked-quote" -> "blocked-quote"
      [] verdict = "dryrun-blocked-build" -> "blocked-build"
      [] verdict = "dryrun-blocked-simulation" -> "blocked-simulation"
      [] verdict = "dryrun-error" -> "error"
      [] OTHER -> "incomplete"

RiskEcho(e) ==
    CASE e.rejected -> "rejected"
      [] ~e.rejected /\ e.token2022 -> "token2022-blocker"
      [] ~e.rejected /\ ~e.token2022 /\ e.critical -> "critical-flag"
      [] OTHER -> IF e.assessed THEN "clear" ELSE "not-assessed"

Token2022Echo(e) ==
    IF e.token2022 THEN "present" ELSE IF e.assessed THEN "none" ELSE "unknown"

(* Mutant: a quote that was observed is echoed as fresh.                   *)
QuoteEchoAttempted(e) ==
    IF ~e.quoteAttempted THEN "not-applicable"
    ELSE IF e.quoteObserved THEN "fresh" ELSE "missing"

QuoteEcho(e) ==
    IF ~e.quoteAttempted THEN "not-applicable"
    ELSE IF GoodQuote(e) THEN "fresh"
    ELSE IF ~e.quoteObserved THEN "missing" ELSE "stale"

SimulationEcho(e) ==
    IF ~e.simAttempted THEN "not-run"
    ELSE IF e.simFailed THEN "failed"
    ELSE IF e.simOk THEN "simulated-ok" ELSE "not-run"

(* assertReleaseCandidateConsistency does not throw.                       *)
EchoesConsistent(p) ==
    CASE p.candidate = "complete-blocked-live" ->
             /\ p.risk = "clear" /\ p.token2022 = "none"
             /\ p.quote = "fresh" /\ p.simulation = "simulated-ok"
      [] p.candidate = "blocked-risk" ->
             p.risk # "clear" \/ p.token2022 = "present"
      [] p.candidate = "blocked-quote" -> p.quote \in {"stale", "missing"}
      [] p.candidate = "blocked-simulation" -> p.simulation = "failed"
      [] OTHER -> TRUE

(* What the preflight is told of a candidate, of none.                     *)
CandidateEchoes(c) ==
    [candidate |-> MapCandidateStatus(c.verdict),
     risk |-> RiskEcho(c.evidence), token2022 |-> Token2022Echo(c.evidence),
     quote |-> QuoteEcho(c.evidence), simulation |-> SimulationEcho(c.evidence)]
NoCandidateEchoes ==
    [candidate |-> "absent", risk |-> "not-assessed", token2022 |-> "unknown",
     quote |-> "not-applicable", simulation |-> "not-run"]

(* Mutant: a devnet report that is there counts as a proof.                *)
PreflightVerdictOnAnyProof(p) ==
    IF p.signoff # "signed-for-controlled-microtrade"
        THEN "blocked-missing-signoff"
    ELSE IF p.devnet = "absent"
        THEN "blocked-missing-devnet-proof"
    ELSE IF p.candidate \in {"blocked-risk", "blocked-quote",
                             "blocked-simulation"} THEN p.candidate
    ELSE IF p.candidate # "complete-blocked-live"
        THEN "blocked-missing-release-candidate"
    ELSE IF ~p.burner THEN "blocked-missing-burner-wallet"
    ELSE IF ~p.confirmed THEN "blocked-missing-manual-confirmation"
    ELSE "ready-for-separate-execution-authorization"

(* derivePhase7MicrotradePreflightVerdict                                  *)
PreflightVerdict(p) ==
    IF p.signoff # "signed-for-controlled-microtrade"
        THEN "blocked-missing-signoff"
    ELSE IF p.devnet # "confirmed-reconciled"
        THEN "blocked-missing-devnet-proof"
    ELSE IF p.candidate \in {"blocked-risk", "blocked-quote",
                             "blocked-simulation"} THEN p.candidate
    ELSE IF p.candidate # "complete-blocked-live"
        THEN "blocked-missing-release-candidate"
    ELSE IF ~p.burner THEN "blocked-missing-burner-wallet"
    ELSE IF ~p.confirmed THEN "blocked-missing-manual-confirmation"
    ELSE "ready-for-separate-execution-authorization"

Ready(p) == p.verdict = "ready-for-separate-execution-authorization"

Lacking(name, there) == IF there THEN {} ELSE {name}

(* deriveMissingRequirements                                               *)
MissingRequirements(p) ==
    Lacking("sign-off", p.signoff = "signed-for-controlled-microtrade")
    \cup Lacking("devnet proof", p.devnet = "confirmed-reconciled")
    \cup Lacking("release candidate", p.candidate = "complete-blocked-live")
    \cup Lacking("burner wallet", p.burner)
    \cup Lacking("manual confirmation", p.confirmed)
    \cup Lacking("audit", p.audit # "not-authorized")

SpendRefused(p) ==
    \/ p.cap > MaxSpendCeiling
    \/ p.signoff = "signed-for-controlled-microtrade" /\ p.cap = 0

(* buildPhase7MicrotradePreflight throws.                                  *)
PreflightRefused(p) == ~EchoesConsistent(p) \/ SpendRefused(p)

BuildPreflight(p) ==
    [inputs |-> p, verdict |-> PreflightVerdict(p),
     missing |-> MissingRequirements(p)]

ValidPreflight(f) ==
    /\ f.verdict = PreflightVerdict(f.inputs)
    /\ EchoesConsistent(f.inputs) /\ ~SpendRefused(f.inputs)
    /\ Ready(f) => f.missing = {}
=============================================================================
