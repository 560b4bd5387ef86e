----------------------- MODULE MicrotradeEvidenceProofs -----------------------
(***************************************************************************)
(* Proofs about the evidence of a Phase 7 micro-trade, for every set of    *)
(* acknowledgements and checks, every ceiling and every bound.             *)
(***************************************************************************)
EXTENDS MicrotradeEvidence, TLAPS

-----------------------------------------------------------------------------
(* The echoes of a candidate.                                              *)

(* The echoes of any evidence are those the preflight knows.               *)
LEMMA EchoTypes ==
    ASSUME NEW c \in Candidates
    PROVE  CandidateEchoes(c) \in
             [candidate : RcStatuses, risk : RiskEchoes,
              token2022 : {"present", "none", "unknown"},
              quote : QuoteEchoes, simulation : SimulationEchoes]
<1>1. MapCandidateStatus(c.verdict) \in RcStatuses
  BY DEF MapCandidateStatus, RcStatuses, Candidates, CandidateVerdicts
<1>2. RiskEcho(c.evidence) \in RiskEchoes
  BY DEF RiskEcho, RiskEchoes, Candidates, Evidence
<1>3. Token2022Echo(c.evidence) \in {"present", "none", "unknown"}
  BY DEF Token2022Echo
<1>4. QuoteEcho(c.evidence) \in QuoteEchoes
  BY DEF QuoteEcho, QuoteEchoes
<1>5. SimulationEcho(c.evidence) \in SimulationEchoes
  BY DEF SimulationEcho, SimulationEchoes
<1> QED
  BY <1>1, <1>2, <1>3, <1>4, <1>5 DEF CandidateEchoes

(* The echoes of a candidate whose verdict is that of its evidence never   *)
(* contradict its status: the preflight builder does not throw on it       *)
(* (phase7-microtrade-preflight.ts:393).                                   *)
THEOREM EchoesAgree ==
    ASSUME NEW c \in Candidates, ValidCandidate(c)
    PROVE  EchoesConsistent(CandidateEchoes(c))
<1> DEFINE e == c.evidence
           p == CandidateEchoes(c)
<1>1. e \in Evidence /\ c.verdict = CandidateVerdict(e)
  BY DEF ValidCandidate, Candidates
<1>2. /\ p.candidate = MapCandidateStatus(c.verdict)
      /\ p.risk = RiskEcho(e) /\ p.token2022 = Token2022Echo(e)
      /\ p.quote = QuoteEcho(e) /\ p.simulation = SimulationEcho(e)
  BY DEF CandidateEchoes
<1> SUFFICES EchoesConsistent(p)
  OBVIOUS
<1> HIDE DEF e, p
<1>3. CASE e.stageError
  BY <1>1, <1>2, <1>3 DEF CandidateVerdict, MapCandidateStatus, EchoesConsistent
<1>4. CASE ~e.stageError /\ RiskBlocking(e)
  <2>1. p.candidate = "blocked-risk"
    BY <1>1, <1>2, <1>4 DEF CandidateVerdict, MapCandidateStatus
  <2>2. p.risk # "clear"
    BY <1>1, <1>2, <1>4 DEF RiskBlocking, RiskEcho, Evidence
  <2> QED
    BY <2>1, <2>2 DEF EchoesConsistent
<1>5. CASE ~e.stageError /\ ~RiskBlocking(e) /\ e.quoteAttempted /\ ~GoodQuote(e)
  <2>1. p.candidate = "blocked-quote"
    BY <1>1, <1>2, <1>5 DEF CandidateVerdict, MapCandidateStatus
  <2>2. p.quote \in {"stale", "missing"}
    BY <1>1, <1>2, <1>5 DEF QuoteEcho
  <2> QED
    BY <2>1, <2>2 DEF EchoesConsistent
<1>6. CASE /\ ~e.stageError /\ ~RiskBlocking(e)
           /\ ~(e.quoteAttempted /\ ~GoodQuote(e))
           /\ e.buildAttempted /\ e.buildRefused
  BY <1>1, <1>2, <1>6 DEF CandidateVerdict, MapCandidateStatus, EchoesConsistent
<1>7. CASE /\ ~e.stageError /\ ~RiskBlocking(e)
           /\ ~(e.quoteAttempted /\ ~GoodQuote(e))
           /\ ~(e.buildAttempted /\ e.buildRefused)
           /\ e.simAttempted /\ e.simFailed
  <2>1. p.candidate = "blocked-simulation"
    BY <1>1, <1>2, <1>7 DEF CandidateVerdict, MapCandidateStatus
  <2>2. p.simulation = "failed"
    BY <1>2, <1>7 DEF SimulationEcho
  <2> QED
    BY <2>1, <2>2 DEF EchoesConsistent
<1>8. CASE /\ ~e.stageError /\ ~RiskBlocking(e)
           /\ ~(e.quoteAttempted /\ ~GoodQuote(e))
           /\ ~(e.buildAttempted /\ e.buildRefused)
           /\ ~(e.simAttempted /\ e.simFailed)
  <2>1. CASE Complete(e)
    <3>1. p.risk = "clear" /\ p.token2022 = "none"
      BY <1>1, <1>2, <1>8, <2>1
      DEF Complete, RiskBlocking, RiskEcho, Token2022Echo, Evidence
    <3>2. p.quote = "fresh"
      BY <1>2, <2>1 DEF Complete, QuoteEcho
    <3>3. p.simulation = "simulated-ok"
      BY <1>1, <1>2, <1>8, <2>1 DEF Complete, SimulationEcho, Evidence
    <3>4. p.candidate = "complete-blocked-live"
      BY <1>1, <1>2, <1>8, <2>1 DEF CandidateVerdict, MapCandidateStatus
    <3> QED
      BY <3>1, <3>2, <3>3, <3>4 DEF EchoesConsistent
  <2>2. CASE ~Complete(e)
    BY <1>1, <1>2, <1>8, <2>2
    DEF CandidateVerdict, MapCandidateStatus, EchoesConsistent
  <2> QED
    BY <2>1, <2>2
<1> QED
  BY <1>3, <1>4, <1>5, <1>6, <1>7, <1>8

-----------------------------------------------------------------------------
(* The sign-off.                                                           *)

(* What the sign-off command writes passes the validator of every command  *)
(* that reads it, but for one kind of record: a micro-trade's with a cap   *)
(* and nothing else, whose cap the builder drops after it has derived the  *)
(* status from it (phase7-human-signoff.ts:271, 321, 456).                 *)
THEOREM BuiltSignoffValidates ==
    ASSUME NEW request \in SignoffRequests, ~SignoffRefused(request)
    PROVE  ValidSignoff(BuildSignoff(request)) <=>
               ~(/\ request.acks = {} /\ ~request.operator
                 /\ ~request.signedAt /\ request.cap > 0)
<1> DEFINE s == BuildSignoff(request)
<1>1. /\ s.scope = request.scope /\ s.acks = request.acks
      /\ s.operator = request.operator /\ s.signedAt = request.signedAt
      /\ s.status = SignoffStatus(request)
      /\ s.granted = GrantedScope(s.status)
      /\ s.cap = IF s.status = "signed-for-controlled-microtrade"
                 THEN request.cap ELSE 0
  BY DEF BuildSignoff
<1>2. request.cap \in Nat /\ s.cap \in Nat
  BY <1>1 DEF SignoffRequests
<1>3. request.scope \in Scopes
  BY DEF SignoffRequests
<1> HIDE DEF s
<1>4. CASE s.status = "signed-for-controlled-microtrade"
  <2>1. s.cap = request.cap
    BY <1>1, <1>4
  <2>2. SignoffStatus(s) = SignoffStatus(request)
    BY <1>1, <2>1 DEF SignoffStatus, Signed, RequiredAcks
  <2>3. Signed(request)
    BY <1>1, <1>4 DEF SignoffStatus
  <2>4. s.cap <= MaxSpendCeiling
    BY <1>2, <2>1, CeilingAssumption DEF SignoffRefused
  <2>5. ValidSignoff(s)
    BY <1>1, <1>4, <2>2, <2>4 DEF ValidSignoff
  <2>6. request.operator
    BY <2>3 DEF Signed
  <2> QED
    BY <2>5, <2>6 DEF s
<1>5. CASE s.status # "signed-for-controlled-microtrade"
  <2>1. s.cap = 0
    BY <1>1, <1>5
  <2>2. 0 <= MaxSpendCeiling
    BY CeilingAssumption
  <2>3. ValidSignoff(s) <=> SignoffStatus(s) = SignoffStatus(request)
    BY <1>1, <2>1, <2>2 DEF ValidSignoff
  <2>4. CASE request.acks = {} /\ ~request.operator /\ ~request.signedAt
    <3>1. SignoffStatus(s) = "template-only"
      BY <1>1, <2>1, <2>4 DEF SignoffStatus
    <3>2. SignoffStatus(request) = "template-only" <=> request.cap = 0
      BY <2>4 DEF SignoffStatus, Signed
    <3> QED
      BY <1>2, <2>3, <2>4, <3>1, <3>2 DEF s
  <2>5. CASE ~(request.acks = {} /\ ~request.operator /\ ~request.signedAt)
    <3>1. Signed(request) => request.scope = "design-review-only"
      BY <1>1, <1>3, <1>5, <2>5 DEF SignoffStatus, Scopes
    <3>2. Signed(s) <=> Signed(request)
      BY <1>1, <1>2, <1>3, <2>1, <3>1 DEF Signed, RequiredAcks, Scopes
    <3>3. SignoffStatus(s) = SignoffStatus(request)
      BY <1>1, <2>5, <3>2 DEF SignoffStatus
    <3> QED
      BY <2>3, <2>5, <3>3 DEF s
  <2> QED
    BY <2>4, <2>5
<1> QED
  BY <1>4, <1>5

-----------------------------------------------------------------------------
(* What the builders record has its type.                                  *)

LEMMA SignoffType ==
    ASSUME NEW request \in SignoffRequests
    PROVE  BuildSignoff(request) \in SignoffRecords
<1>1. SignoffStatus(request) \in SignoffStatuses
  BY DEF SignoffStatus, SignoffStatuses
<1>2. \A status \in SignoffStatuses : GrantedScope(status) \in Scopes \cup {"none"}
  BY DEF GrantedScope, SignoffStatuses, Scopes
<1> QED
  BY <1>1, <1>2 DEF BuildSignoff, SignoffRequests, SignoffRecords

LEMMA AuditType ==
    ASSUME NEW verified \in SUBSET AuditChecks, NEW met \in SUBSET Prerequisites
    PROVE  BuildAudit(verified, met) \in AuditRecords
<1>1. \A a : AuditVerdict(a) \in AuditVerdicts
  BY DEF AuditVerdict, AuditVerdicts
<1> QED
  BY <1>1 DEF BuildAudit, AuditRecords

(* A candidate of none or of one is echoed in the preflight's types.       *)
LEMMA InputTypes ==
    ASSUME NEW audits \in SUBSET AuditRecords, AuditAccepted(audits),
           NEW signoffs \in SUBSET SignoffRecords,
           NEW proof \in BOOLEAN, NEW candidates \in SUBSET Candidates,
           NEW option \in [burner : BOOLEAN, confirmed : BOOLEAN, cap : Nat]
    PROVE  /\ PreflightInputs(audits, signoffs, proof, candidates, option)
                \in [audit : {"not-supplied", "verified-ready",
                              "verified-design-only"},
                     signoff : {"absent", "present-not-signed",
                                "signed-for-controlled-microtrade"},
                     devnet : {"absent", "present-not-confirmed",
                               "confirmed-reconciled"},
                     candidate : RcStatuses, risk : RiskEchoes,
                     token2022 : {"present", "none", "unknown"},
                     quote : QuoteEchoes, simulation : SimulationEchoes,
                     burner : BOOLEAN, confirmed : BOOLEAN, cap : Nat]
<1> DEFINE echoes == IF candidates = {} THEN NoCandidateEchoes
                     ELSE CandidateEchoes(CHOOSE c \in candidates : TRUE)
<1>1. echoes \in [candidate : RcStatuses, risk : RiskEchoes,
                  token2022 : {"present", "none", "unknown"},
                  quote : QuoteEchoes, simulation : SimulationEchoes]
  <2>1. CASE candidates = {}
    BY <2>1 DEF NoCandidateEchoes, RcStatuses, RiskEchoes, QuoteEchoes,
                SimulationEchoes
  <2>2. CASE candidates # {}
    <3>1. (CHOOSE c \in candidates : TRUE) \in Candidates
      BY <2>2
    <3> QED
      BY <2>2, <3>1, EchoTypes
  <2> QED
    BY <2>1, <2>2
<1>2. AuditEcho(audits) \in {"not-supplied", "verified-ready",
                             "verified-design-only"}
  BY DEF AuditEcho, AuditAccepted
<1>3. SignoffEcho(signoffs) \in {"absent", "present-not-signed",
                                 "signed-for-controlled-microtrade"}
  BY DEF SignoffEcho
<1>4. DevnetEcho(proof) \in {"absent", "present-not-confirmed",
                             "confirmed-reconciled"}
  BY DEF DevnetEcho
<1>5. SignedCap(signoffs) \in Nat
  BY DEF SignedCap, MicrotradeSigned, SignoffRecords
<1>6. Cap(SignedCap(signoffs), option.cap) \in Nat
  BY <1>5 DEF Cap
<1> HIDE DEF echoes
<1> QED
  BY <1>1, <1>2, <1>3, <1>4, <1>6 DEF PreflightInputs, echoes

(* Every preflight that is built says one of the verdicts and misses some  *)
(* of the requirements.                                                    *)
LEMMA PreflightTypes ==
    \A p : /\ PreflightVerdict(p) \in PreflightVerdicts
           /\ MissingRequirements(p) \subseteq Requirements
  BY DEF PreflightVerdict, PreflightVerdicts, MissingRequirements, Lacking,
         Requirements

(* A preflight that is built of inputs that are not refused validates when *)
(* its audit is no "not-authorized".                                       *)
LEMMA BuiltPreflightValidates ==
    ASSUME NEW p, ~PreflightRefused(p), p.audit # "not-authorized"
    PROVE  ValidPreflight(BuildPreflight(p))
<1>1. PreflightVerdict(p) = "ready-for-separate-execution-authorization"
        => MissingRequirements(p) = {}
  BY DEF PreflightVerdict, MissingRequirements, Lacking
<1> QED
  BY <1>1 DEF BuildPreflight, ValidPreflight, PreflightRefused, Ready

-----------------------------------------------------------------------------
(* The invariant.                                                          *)

Invariant == TypeOK /\ SignedByHuman /\ NoReadinessWithoutTheHuman
             /\ PreflightValidates

LEMMA InitInvariant == Init => Invariant
  BY DEF Init, FilesInit, Invariant, TypeOK, SignedByHuman,
         NoReadinessWithoutTheHuman, PreflightValidates

(* A micro-trade's sign-off that validates is signed in full.              *)
LEMMA ValidSignedInFull ==
    ASSUME NEW s, ValidSignoff(s), s.status = "signed-for-controlled-microtrade",
           s.scope \in Scopes
    PROVE  /\ s.scope = "controlled-mainnet-microtrade-only" /\ Signed(s)
           /\ s.cap > 0 /\ s.cap <= MaxSpendCeiling
<1>1. SignoffStatus(s) = "signed-for-controlled-microtrade"
  BY DEF ValidSignoff
<1>2. Signed(s) /\ s.scope # "design-review-only"
  BY <1>1 DEF SignoffStatus
<1> QED
  BY <1>2 DEF ValidSignoff, Signed, Scopes

LEMMA RehearseInvariant == Invariant /\ Rehearse => Invariant'
<1> SUFFICES ASSUME Invariant, Rehearse
             PROVE  Invariant'
  OBVIOUS
<1> USE DEF Invariant, Rehearse, FilesNext, phase7Vars
<1>1. TypeOK'
  <2>1. CASE Fold
    BY <2>1, CommandsAssumption DEF Fold, TypeOK
  <2>2. CASE Reconcile
    BY <2>2 DEF Reconcile, TypeOK
  <2> QED
    BY <2>1, <2>2
<1>2. SignedByHuman'
  BY DEF SignedByHuman
<1>3. NoReadinessWithoutTheHuman'
  BY DEF NoReadinessWithoutTheHuman
<1>4. PreflightValidates'
  BY DEF PreflightValidates
<1> QED
  BY <1>1, <1>2, <1>3, <1>4

LEMMA SignoffInvariant == Invariant /\ SignoffTemplate => Invariant'
<1> SUFFICES ASSUME Invariant, SignoffTemplate
             PROVE  Invariant'
  OBVIOUS
<1> USE DEF Invariant
<1>1. PICK request \in Requests :
         /\ ~SignoffRefused(request)
         /\ signoff' = {BuildSignoff(request)}
         /\ humanCaps' =
               IF /\ request.scope = "controlled-mainnet-microtrade-only"
                  /\ Signed(request)
               THEN humanCaps \cup {request.cap} ELSE humanCaps
  BY DEF SignoffTemplate
<1>2. /\ UNCHANGED <<candidate, reconciliation, audit, preflight>>
      /\ commands' = commands + 1
  BY DEF SignoffTemplate, Command, fileVars
<1>3. request \in SignoffRequests
  BY CommandsAssumption
<1>4. request.cap \in Nat /\ request.scope \in Scopes
  BY <1>3 DEF SignoffRequests
<1>5. humanCaps \subseteq humanCaps' /\ humanCaps' \subseteq Nat
  BY <1>1, <1>4 DEF TypeOK
<1>6. TypeOK'
  BY <1>1, <1>2, <1>3, <1>5, SignoffType DEF TypeOK
<1>7. SignedByHuman'
  <2> SUFFICES ASSUME NEW s \in signoff',
                      s.scope = "controlled-mainnet-microtrade-only", Signed(s)
               PROVE  s.cap \in humanCaps'
    BY DEF SignedByHuman
  <2>1. s = BuildSignoff(request)
    BY <1>1
  <2>2. /\ s.scope = request.scope /\ s.acks = request.acks
        /\ s.operator = request.operator /\ s.signedAt = request.signedAt
        /\ s.cap = IF SignoffStatus(request) = "signed-for-controlled-microtrade"
                   THEN request.cap ELSE 0
    BY <2>1 DEF BuildSignoff
  <2>3. s.cap > 0
    BY DEF Signed
  <2>4. s.cap = request.cap
    BY <2>2, <2>3
  <2>5. Signed(request)
    BY <2>2, <2>4 DEF Signed, RequiredAcks
  <2> QED
    BY <1>1, <2>2, <2>4, <2>5
<1>8. NoReadinessWithoutTheHuman'
  BY <1>2, <1>5 DEF NoReadinessWithoutTheHuman
<1>9. PreflightValidates'
  BY <1>2 DEF PreflightValidates
<1> QED
  BY <1>6, <1>7, <1>8, <1>9

LEMMA AuditInvariant == Invariant /\ AuthorizationAudit => Invariant'
<1> SUFFICES ASSUME Invariant, AuthorizationAudit
             PROVE  Invariant'
  OBVIOUS
<1> USE DEF Invariant
<1>1. /\ UNCHANGED <<candidate, reconciliation, signoff, preflight, humanCaps>>
      /\ commands' = commands + 1
  BY DEF AuthorizationAudit, Command, fileVars
<1>2. \E verified \in SUBSET AuditChecks, met \in SUBSET Prerequisites :
         audit' = {BuildAudit(verified, met)}
  BY DEF AuthorizationAudit
<1>3. audit' \subseteq AuditRecords
  BY <1>2, AuditType
<1>4. TypeOK'
  BY <1>1, <1>3 DEF TypeOK
<1>5. SignedByHuman' /\ NoReadinessWithoutTheHuman' /\ PreflightValidates'
  BY <1>1 DEF SignedByHuman, NoReadinessWithoutTheHuman, PreflightValidates
<1> QED
  BY <1>4, <1>5

(* The choices of a preflight, named.                                      *)
PreflightOf(audits, signoffs, candidates, proof, option, p) ==
    /\ AuditAccepted(audits)
    /\ Readable(signoffs, ValidSignoff)
    /\ Readable(candidates, ValidCandidate)
    /\ p = PreflightInputs(audits, signoffs, proof, candidates, option)
    /\ ~PreflightRefused(p)
    /\ preflight' = {BuildPreflight(p)}

LEMMA PreflightStep ==
    ASSUME MicrotradePreflight
    PROVE  /\ UNCHANGED <<candidate, reconciliation, signoff, audit, humanCaps>>
           /\ commands' = commands + 1
           /\ \E audits \in SUBSET audit, signoffs \in SUBSET signoff,
                 candidates \in SUBSET candidate, proof \in BOOLEAN,
                 option \in Options : \E p :
                 /\ PreflightOf(audits, signoffs, candidates, proof, option, p)
                 /\ proof => HasReconciliation
  BY DEF MicrotradePreflight, PreflightOf, Command, fileVars

LEMMA PreflightInvariant == Invariant /\ MicrotradePreflight => Invariant'
<1> SUFFICES ASSUME Invariant, MicrotradePreflight
             PROVE  Invariant'
  OBVIOUS
<1> USE DEF Invariant
<1>1. /\ UNCHANGED <<candidate, reconciliation, signoff, audit, humanCaps>>
      /\ commands' = commands + 1
  BY PreflightStep
<1>0. PICK audits \in SUBSET audit, signoffs \in SUBSET signoff,
           candidates \in SUBSET candidate, proof \in BOOLEAN,
           option \in Options :
        \E p : PreflightOf(audits, signoffs, candidates, proof, option, p)
  BY PreflightStep
<1>2. PICK p : PreflightOf(audits, signoffs, candidates, proof, option, p)
  BY <1>0
<1>3. /\ audits \in SUBSET AuditRecords /\ signoffs \in SUBSET SignoffRecords
      /\ candidates \in SUBSET Candidates
      /\ option \in [burner : BOOLEAN, confirmed : BOOLEAN, cap : Nat]
  BY CommandsAssumption DEF TypeOK
<1>4. p \in [audit : {"not-supplied", "verified-ready", "verified-design-only"},
             signoff : {"absent", "present-not-signed",
                        "signed-for-controlled-microtrade"},
             devnet : {"absent", "present-not-confirmed",
                       "confirmed-reconciled"},
             candidate : RcStatuses, risk : RiskEchoes,
             token2022 : {"present", "none", "unknown"},
             quote : QuoteEchoes, simulation : SimulationEchoes,
             burner : BOOLEAN, confirmed : BOOLEAN, cap : Nat]
  BY <1>2, <1>3, InputTypes DEF PreflightOf
<1>5. BuildPreflight(p) \in PreflightRecords
  BY <1>4, PreflightTypes DEF BuildPreflight, PreflightRecords
<1>6. TypeOK'
  BY <1>1, <1>2, <1>5 DEF TypeOK, PreflightOf
<1>7. PreflightValidates'
  <2>1. p.audit # "not-authorized"
    BY <1>4
  <2> QED
    BY <1>2, <2>1, BuiltPreflightValidates DEF PreflightValidates, PreflightOf
<1>8. NoReadinessWithoutTheHuman'
  <2> SUFFICES ASSUME Ready(BuildPreflight(p))
               PROVE  p.cap \in humanCaps /\ p.cap <= MaxSpendCeiling
    BY <1>1, <1>2 DEF NoReadinessWithoutTheHuman, PreflightOf, BuildPreflight
  <2>1. p.signoff = "signed-for-controlled-microtrade"
    BY DEF Ready, BuildPreflight, PreflightVerdict
  <2>2. p.signoff = SignoffEcho(signoffs)
    BY <1>2 DEF PreflightOf, PreflightInputs
  <2>3. MicrotradeSigned(signoffs)
    BY <2>1, <2>2 DEF SignoffEcho
  <2> DEFINE s == CHOOSE r \in signoffs :
                     r.status = "signed-for-controlled-microtrade"
  <2>4. s \in signoffs /\ s.status = "signed-for-controlled-microtrade"
    BY <2>3 DEF MicrotradeSigned
  <2>5. SignedCap(signoffs) = s.cap
    BY <2>3 DEF SignedCap
  <2>6. p.cap = Cap(SignedCap(signoffs), option.cap)
    BY <1>2 DEF PreflightOf, PreflightInputs
  <2> HIDE DEF s
  <2>7. ValidSignoff(s) /\ s.scope \in Scopes /\ s.cap \in Nat
    BY <1>2, <1>3, <2>4 DEF PreflightOf, Readable, SignoffRecords
  <2>8. /\ s.scope = "controlled-mainnet-microtrade-only" /\ Signed(s)
        /\ s.cap > 0 /\ s.cap <= MaxSpendCeiling
    BY <2>4, <2>7, ValidSignedInFull
  <2>9. s.cap \in humanCaps
    BY <2>4, <2>8 DEF SignedByHuman
  <2> QED
    BY <2>5, <2>6, <2>8, <2>9 DEF Cap
<1>9. SignedByHuman'
  BY <1>1 DEF SignedByHuman
<1> QED
  BY <1>6, <1>7, <1>8, <1>9

LEMMA EditInvariant == Invariant /\ EditConclusion => Invariant'
<1> SUFFICES ASSUME Invariant, EditConclusion
             PROVE  Invariant'
  OBVIOUS
<1> USE DEF Invariant
<1>1. /\ UNCHANGED <<reconciliation, preflight, humanCaps>>
      /\ commands' = commands + 1
  BY DEF EditConclusion, Command
<1>2. NoReadinessWithoutTheHuman' /\ PreflightValidates'
  BY <1>1 DEF NoReadinessWithoutTheHuman, PreflightValidates
<1>3. CASE /\ \E s \in signoff, status \in SignoffStatuses :
                 signoff' = {[s EXCEPT !.status = status,
                                       !.granted = GrantedScope(status)]}
           /\ UNCHANGED <<audit, candidate>>
  <2>1. PICK s \in signoff, status \in SignoffStatuses :
           signoff' = {[s EXCEPT !.status = status,
                                 !.granted = GrantedScope(status)]}
    BY <1>3
  <2>2. s \in SignoffRecords
    BY DEF TypeOK
  <2> DEFINE edited == [s EXCEPT !.status = status,
                                 !.granted = GrantedScope(status)]
  <2>3. GrantedScope(status) \in Scopes \cup {"none"}
    BY DEF GrantedScope, SignoffStatuses, Scopes
  <2>4. /\ edited \in SignoffRecords
        /\ edited.scope = s.scope /\ edited.acks = s.acks
        /\ edited.operator = s.operator /\ edited.signedAt = s.signedAt
        /\ edited.cap = s.cap
    BY <2>2, <2>3 DEF SignoffRecords
  <2> HIDE DEF edited
  <2>5. signoff' = {edited}
    BY <2>1 DEF edited
  <2>6. TypeOK'
    BY <1>1, <1>3, <2>4, <2>5 DEF TypeOK
  <2>7. Signed(edited) => Signed(s)
    BY <2>4 DEF Signed, RequiredAcks
  <2>8. SignedByHuman'
    BY <1>1, <2>4, <2>5, <2>7 DEF SignedByHuman
  <2> QED
    BY <1>2, <2>6, <2>8
<1>4. CASE /\ \E a \in audit, verdict \in AuditVerdicts :
                 audit' = {[a EXCEPT !.verdict = verdict]}
           /\ UNCHANGED <<signoff, candidate>>
  <2>1. audit' \subseteq AuditRecords
    BY <1>4 DEF TypeOK, AuditRecords
  <2> QED
    BY <1>1, <1>2, <1>4, <2>1 DEF TypeOK, SignedByHuman
<1>5. CASE /\ \E c \in candidate, verdict \in CandidateVerdicts :
                 candidate' = {[c EXCEPT !.verdict = verdict]}
           /\ UNCHANGED <<signoff, audit>>
  <2>1. candidate' \subseteq Candidates
    BY <1>5 DEF TypeOK, Candidates
  <2> QED
    BY <1>1, <1>2, <1>5, <2>1 DEF TypeOK, SignedByHuman
<1> QED
  BY <1>3, <1>4, <1>5 DEF EditConclusion

(* The invariant holds in every state.                                     *)
THEOREM SpecInvariant == Spec => []Invariant
<1>1. Invariant /\ UNCHANGED vars => Invariant'
  BY DEF Invariant, vars, fileVars, phase7Vars, TypeOK, SignedByHuman,
         NoReadinessWithoutTheHuman, PreflightValidates
<1>2. Invariant /\ [Next]_vars => Invariant'
  BY <1>1, RehearseInvariant, SignoffInvariant, AuditInvariant,
     PreflightInvariant, EditInvariant DEF Next
<1> QED
  BY InitInvariant, <1>2, PTL DEF Spec

(* Every file has its type.                                                *)
THEOREM TypeCorrect == Spec => []TypeOK
  BY SpecInvariant, PTL DEF Invariant

(* A ready preflight carries a cap that a human signed in full, within the *)
(* ceiling (commands.ts:7174).                                             *)
THEOREM ReadyNeedsTheHuman == Spec => []NoReadinessWithoutTheHuman
  BY SpecInvariant, PTL DEF Invariant

(* Every preflight the command writes passes its own validator.            *)
THEOREM WrittenPreflightsValidate == Spec => []PreflightValidates
  BY SpecInvariant, PTL DEF Invariant

(* The preflight can be told of every candidate that validates.            *)
THEOREM EchoesNeverRefused == Spec => []EchoesNeverRefuse
<1>1. TypeOK => EchoesNeverRefuse
  BY EchoesAgree DEF TypeOK, EchoesNeverRefuse
<1> QED
  BY <1>1, TypeCorrect, PTL

(* A step that leaves a ready preflight found a reconciled devnet session  *)
(* and a candidate whose evidence is complete and free of a blocking risk. *)
LEMMA ReadyStep ==
    ASSUME TypeOK, Next
    PROVE  \A f \in preflight' \ preflight :
              Ready(f) => /\ Reconciled
                          /\ \E c \in candidate : /\ Complete(c.evidence)
                                                  /\ ~RiskBlocking(c.evidence)
<1> SUFFICES ASSUME NEW f \in preflight', f \notin preflight, Ready(f)
             PROVE  /\ Reconciled
                    /\ \E c \in candidate : /\ Complete(c.evidence)
                                            /\ ~RiskBlocking(c.evidence)
  OBVIOUS
<1>1. MicrotradePreflight
  BY DEF Next, Rehearse, phase7Vars, SignoffTemplate, AuthorizationAudit,
         EditConclusion
<1>0. PICK audits \in SUBSET audit, signoffs \in SUBSET signoff,
           candidates \in SUBSET candidate, proof \in BOOLEAN,
           option \in Options :
        \E p : PreflightOf(audits, signoffs, candidates, proof, option, p)
  BY <1>1, PreflightStep
<1>2. PICK p : PreflightOf(audits, signoffs, candidates, proof, option, p)
  BY <1>0
<1>3. f = BuildPreflight(p)
  BY <1>2 DEF PreflightOf
<1>4. /\ p.devnet = "confirmed-reconciled"
      /\ p.candidate = "complete-blocked-live"
  BY <1>3 DEF Ready, BuildPreflight, PreflightVerdict
<1>5. p.devnet = DevnetEcho(proof)
  BY <1>2 DEF PreflightOf, PreflightInputs
<1>6. Reconciled
  BY <1>4, <1>5 DEF DevnetEcho
<1> DEFINE c == CHOOSE x \in candidates : TRUE
<1>7. p.candidate = IF candidates = {} THEN NoCandidateEchoes.candidate
                    ELSE CandidateEchoes(c).candidate
  BY <1>2 DEF PreflightOf, PreflightInputs
<1>8. candidates # {}
  BY <1>4, <1>7 DEF NoCandidateEchoes
<1>9. c \in candidates
  BY <1>8
<1> HIDE DEF c
<1>10. c \in candidate /\ ValidCandidate(c)
  BY <1>2, <1>9 DEF PreflightOf, Readable
<1>11. MapCandidateStatus(c.verdict) = "complete-blocked-live"
  BY <1>4, <1>7, <1>8 DEF CandidateEchoes
<1>12. c.verdict \in CandidateVerdicts
  BY <1>10 DEF TypeOK, Candidates
<1>13. c.verdict = "dryrun-complete-blocked-live"
  BY <1>11, <1>12 DEF MapCandidateStatus, CandidateVerdicts
<1>14. Complete(c.evidence) /\ ~RiskBlocking(c.evidence)
  BY <1>10, <1>13 DEF ValidCandidate, CandidateVerdict
<1> QED
  BY <1>6, <1>10, <1>14

(* A ready preflight had its evidence when it was written.                 *)
THEOREM ReadyRestsOnEvidence == Spec => ReadyHadItsEvidence
<1>1. ASSUME TypeOK, [Next]_vars
      PROVE  [\A f \in preflight' \ preflight :
                 Ready(f) => /\ Reconciled
                             /\ \E c \in candidate : /\ Complete(c.evidence)
                                                     /\ ~RiskBlocking(c.evidence)]_vars
  BY <1>1, ReadyStep
<1> QED
  BY <1>1, TypeCorrect, PTL DEF Spec, ReadyHadItsEvidence

(* A preflight that a step leaves echoes an audit the command accepted.    *)
LEMMA EchoStep ==
    ASSUME Next
    PROVE  \A f \in preflight' \ preflight :
              f.inputs.audit # "not-supplied" =>
                  \E a \in audit :
                      /\ AuditVerdict(a) # "not-authorized"
                      /\ f.inputs.audit = "verified-ready" =>
                            AuditVerdict(a) =
                                "ready-for-separate-microtrade-authorization"
<1> SUFFICES ASSUME NEW f \in preflight', f \notin preflight,
                    f.inputs.audit # "not-supplied"
             PROVE  \E a \in audit :
                        /\ AuditVerdict(a) # "not-authorized"
                        /\ f.inputs.audit = "verified-ready" =>
                              AuditVerdict(a) =
                                  "ready-for-separate-microtrade-authorization"
  OBVIOUS
<1>1. MicrotradePreflight
  BY DEF Next, Rehearse, phase7Vars, SignoffTemplate, AuthorizationAudit,
         EditConclusion
<1>0. PICK audits \in SUBSET audit, signoffs \in SUBSET signoff,
           candidates \in SUBSET candidate, proof \in BOOLEAN,
           option \in Options :
        \E p : PreflightOf(audits, signoffs, candidates, proof, option, p)
  BY <1>1, PreflightStep
<1>2. PICK p : PreflightOf(audits, signoffs, candidates, proof, option, p)
  BY <1>0
<1>3. f.inputs.audit = AuditEcho(audits)
  BY <1>2 DEF PreflightOf, BuildPreflight, PreflightInputs
<1>4. /\ audits # {}
      /\ \A a \in audits : /\ AuditVerdict(a) = a.verdict
                           /\ AuditVerdict(a) # "not-authorized"
  BY <1>2, <1>3 DEF PreflightOf, AuditAccepted, AuditEcho, Readable, ValidAudit
<1>5. CASE f.inputs.audit = "verified-ready"
  <2>1. PICK a \in audits :
           a.verdict = "ready-for-separate-microtrade-authorization"
    BY <1>3, <1>4, <1>5 DEF AuditEcho
  <2> QED
    BY <1>4, <2>1
<1> QED
  BY <1>4, <1>5

(* A preflight that says it was told of an audit was told of one that      *)
(* authorizes as much as it says.                                          *)
THEOREM EchoedAuditsAuthorize == Spec => EchoedAuditAuthorizes
<1>1. ASSUME [Next]_vars
      PROVE  [\A f \in preflight' \ preflight :
                 f.inputs.audit # "not-supplied" =>
                     \E a \in audit :
                         /\ AuditVerdict(a) # "not-authorized"
                         /\ f.inputs.audit = "verified-ready" =>
                               AuditVerdict(a) =
                                   "ready-for-separate-microtrade-authorization"]_vars
  BY <1>1, EchoStep
<1> QED
  BY <1>1, PTL DEF Spec, EchoedAuditAuthorizes
=============================================================================
