-------------------------- MODULE MicrotradeEvidence --------------------------
(***************************************************************************)
(* The evidence of a Phase 7 micro-trade, from the sign-off to the         *)
(* preflight: paper:phase7:signoff:template,                               *)
(* paper:phase7:authorization:audit and paper:phase7:microtrade:preflight  *)
(* of apps/cli/src/commands.ts, over the files that they leave and those   *)
(* that the rehearsals leave (EvidenceFiles).  Between the commands a hand *)
(* may edit what a file concludes of itself.  A command that refuses       *)
(* changes nothing and is no action; with --force a file is written over.  *)
(***************************************************************************)
EXTENDS EvidenceFiles

CONSTANTS Requests,      \* bound: what a human may ask a sign-off for
          Asserted,      \* bound: prerequisites an operator gives his word for
          Options,       \* bound: what the operator gives a preflight
          MaxCommands    \* bound: Phase 7 commands and edits in a behaviour

ASSUME CommandsAssumption ==
    /\ CandidateFiles \subseteq SUBSET Candidates
    /\ Requests \subseteq SignoffRequests
    /\ Asserted \subseteq SUBSET Prerequisites
    /\ Options \subseteq [burner : BOOLEAN, confirmed : BOOLEAN, cap : Nat]
    /\ MaxCommands \in Nat

VARIABLES signoff,       \* the sign-off record, if there
          audit,         \* the authorization audit, if there
          preflight,     \* the preflight, if there
          commands,      \* commands and edits so far
          humanCaps      \* history: the caps that a human signed in full

phase7Vars == <<signoff, audit, preflight, commands, humanCaps>>
vars == <<fileVars, phase7Vars>>

Init ==
    /\ FilesInit
    /\ signoff = {} /\ audit = {} /\ preflight = {}
    /\ commands = 0
    /\ humanCaps = {}

Command ==
    /\ commands < MaxCommands
    /\ commands' = commands + 1

Rehearse == FilesNext /\ UNCHANGED phase7Vars

-----------------------------------------------------------------------------
(* paper:phase7:signoff:template                                           *)
SignoffTemplate ==
    /\ Command
    /\ \E request \in Requests :
          /\ ~SignoffRefused(request)
          /\ signoff' = {BuildSignoff(request)}
          /\ humanCaps' =
                IF /\ request.scope = "controlled-mainnet-microtrade-only"
                   /\ Signed(request)
                THEN humanCaps \cup {request.cap} ELSE humanCaps
    /\ UNCHANGED <<fileVars, audit, preflight>>

(* What a command is told of a sign-off that it is given, or of none.  It  *)
(* refuses a record that its validator refuses.                            *)
Readable(records, Valid(_)) == \A r \in records : Valid(r)

MicrotradeSigned(given) ==
    \E s \in given : s.status = "signed-for-controlled-microtrade"

(* The report of a reconciliation has no validator.                        *)
Reconciled == reconciliation = "reconciled"
HasReconciliation == reconciliation # "none"

(* paper:phase7:authorization:audit: an artifact that is supplied decides, *)
(* without one the operator's word does.  The probes answer as they find.  *)
AuthorizationAudit ==
    /\ Command
    /\ \E verified \in SUBSET AuditChecks, asserted \in Asserted,
          given \in SUBSET signoff, proof \in BOOLEAN :
          /\ Readable(given, ValidSignoff)
          /\ proof => HasReconciliation
          /\ LET met == {p \in Prerequisites :
                           CASE p = "written-sign-off" /\ given # {} ->
                                    MicrotradeSigned(given)
                             [] p = "devnet-broadcast-confirmed" /\ proof ->
                                    Reconciled
                             [] OTHER -> p \in asserted}
             IN  audit' = {BuildAudit(verified, met)}
    /\ UNCHANGED <<fileVars, signoff, preflight, humanCaps>>

-----------------------------------------------------------------------------
(* paper:phase7:microtrade:preflight                                       *)

(* Past the refusal of an audit that authorizes nothing.                   *)
AuditEcho(given) ==
    IF given = {} THEN "not-supplied"
    ELSE IF \E a \in given :
              a.verdict = "ready-for-separate-microtrade-authorization"
         THEN "verified-ready"
    ELSE "verified-design-only"

SignoffEcho(given) ==
    IF given = {} THEN "absent"
    ELSE IF MicrotradeSigned(given) THEN "signed-for-controlled-microtrade"
    ELSE "present-not-signed"

DevnetEcho(proof) ==
    IF ~proof THEN "absent"
    ELSE IF Reconciled THEN "confirmed-reconciled" ELSE "present-not-confirmed"

(* The cap of a full micro-trade's sign-off, else 0.                       *)
SignedCap(given) ==
    IF MicrotradeSigned(given)
    THEN (CHOOSE s \in given :
             s.status = "signed-for-controlled-microtrade").cap
    ELSE 0

(* Mutant: an audit that authorizes nothing is no refusal.                 *)
AuditAcceptedAny(given) == Readable(given, ValidAudit)

AuditAccepted(given) ==
    /\ Readable(given, ValidAudit)
    /\ \A a \in given : a.verdict # "not-authorized"

(* The signed cap holds; one asked for on the command line counts only     *)
(* where nothing is signed.                                                *)
Cap(signed, asked) == IF signed > 0 THEN signed ELSE asked

CapRefused(signed, asked) ==
    asked > MaxSpendCeiling \/ (signed > 0 /\ asked > signed)

PreflightInputs(audits, signoffs, proof, candidates, option) ==
    LET echoes == IF candidates = {} THEN NoCandidateEchoes
                  ELSE CandidateEchoes(CHOOSE c \in candidates : TRUE)
    IN  [audit |-> AuditEcho(audits), signoff |-> SignoffEcho(signoffs),
         devnet |-> DevnetEcho(proof), candidate |-> echoes.candidate,
         risk |-> echoes.risk, token2022 |-> echoes.token2022,
         quote |-> echoes.quote, simulation |-> echoes.simulation,
         burner |-> option.burner, confirmed |-> option.confirmed,
         cap |-> Cap(SignedCap(signoffs), option.cap)]

MicrotradePreflight ==
    /\ Command
    /\ \E audits \in SUBSET audit, signoffs \in SUBSET signoff,
          candidates \in SUBSET candidate, proof \in BOOLEAN,
          option \in Options :
          /\ AuditAccepted(audits)
          /\ Readable(signoffs, ValidSignoff)
          /\ Readable(candidates, ValidCandidate)
          /\ proof => HasReconciliation
          /\ ~CapRefused(SignedCap(signoffs), option.cap)
          /\ LET p == PreflightInputs(audits, signoffs, proof, candidates,
                                      option)
             IN  /\ ~PreflightRefused(p)
                 /\ preflight' = {BuildPreflight(p)}
    /\ UNCHANGED <<fileVars, signoff, audit, humanCaps>>

-----------------------------------------------------------------------------
(* A hand edits what a record concludes and leaves its evidence alone.     *)
EditConclusion ==
    /\ Command
    /\ \/ /\ \E s \in signoff, status \in SignoffStatuses :
                signoff' = {[s EXCEPT !.status = status,
                                      !.granted = GrantedScope(status)]}
          /\ UNCHANGED <<audit, candidate>>
       \/ /\ \E a \in audit, verdict \in AuditVerdicts :
                audit' = {[a EXCEPT !.verdict = verdict]}
          /\ UNCHANGED <<signoff, candidate>>
       \/ /\ \E c \in candidate, verdict \in CandidateVerdicts :
                candidate' = {[c EXCEPT !.verdict = verdict]}
          /\ UNCHANGED <<signoff, audit>>
    /\ UNCHANGED <<reconciliation, preflight, humanCaps>>

Next ==
    \/ Rehearse \/ SignoffTemplate \/ AuthorizationAudit
    \/ MicrotradePreflight \/ EditConclusion

Spec == Init /\ [][Next]_vars

-----------------------------------------------------------------------------
(* Types: what each file can say.                                          *)
PreflightRecords ==
    [inputs : [audit : {"not-supplied", "verified-ready",
                        "verified-design-only"},
               signoff : {"absent", "present-not-signed",
                          "signed-for-controlled-microtrade"},
               devnet : {"absent", "present-not-confirmed",
                         "confirmed-reconciled"},
               candidate : RcStatuses, risk : RiskEchoes,
               token2022 : {"present", "none", "unknown"},
               quote : QuoteEchoes, simulation : SimulationEchoes,
               burner : BOOLEAN, confirmed : BOOLEAN, cap : Nat],
     verdict : PreflightVerdicts, missing : SUBSET Requirements]

TypeOK ==
    /\ candidate \subseteq Candidates
    /\ reconciliation \in {"none", "reconciled", "blocked"}
    /\ signoff \subseteq SignoffRecords /\ audit \subseteq AuditRecords
    /\ preflight \subseteq PreflightRecords
    /\ commands \in Nat /\ humanCaps \subseteq Nat

(* Strengthening: what a record that is signed in full carries is what a   *)
(* human signed, whatever it concludes of itself.                          *)
SignedByHuman ==
    \A s \in signoff :
        s.scope = "controlled-mainnet-microtrade-only" /\ Signed(s) =>
            s.cap \in humanCaps

(* No readiness without the human: a preflight that says it is ready       *)
(* carries a cap that a human signed, with every acknowledgement, and that *)
(* is within the ceiling, whatever hand edited the conclusions of the      *)
(* files on the way and whatever was asked on the command line             *)
(* (phase7-human-signoff.ts:456, commands.ts:7174).                        *)
NoReadinessWithoutTheHuman ==
    \A f \in preflight :
        Ready(f) => f.inputs.cap \in humanCaps /\ f.inputs.cap <= MaxSpendCeiling

(* The command never writes a preflight that the preflight's own validator *)
(* refuses (phase7-microtrade-preflight.ts:702): what is missing is listed *)
(* by one function and the verdict is derived by another, and a ready one  *)
(* misses nothing.                                                         *)
PreflightValidates == \A f \in preflight : ValidPreflight(f)

(* A preflight that says it was told of an audit was told of one whose own *)
(* checks and prerequisites authorize as much as it says: neither the      *)
(* verdict nor the validator of a preflight looks at the audit, so only    *)
(* the refusals of the command (commands.ts:7062) keep an audit that       *)
(* authorizes nothing, or one that a hand raised, from passing for one of  *)
(* a design.                                                               *)
EchoedAuditAuthorizes ==
    [][\A f \in preflight' \ preflight :
          f.inputs.audit # "not-supplied" =>
              \E a \in audit :
                  /\ AuditVerdict(a) # "not-authorized"
                  /\ f.inputs.audit = "verified-ready" =>
                        AuditVerdict(a) =
                            "ready-for-separate-microtrade-authorization"]_vars

(* The preflight can be told of every release candidate that validates:    *)
(* the echoes the command derives from its evidence never contradict the   *)
(* status it derives from its verdict, so that the builder's consistency   *)
(* check (phase7-microtrade-preflight.ts:393) does not throw.              *)
EchoesNeverRefuse ==
    \A c \in candidate : ValidCandidate(c) => EchoesConsistent(CandidateEchoes(c))

(* A preflight that comes out ready was told of a reconciled devnet        *)
(* session and of a candidate whose evidence is complete and without a     *)
(* blocking risk, not merely of one that says it is.                       *)
ReadyHadItsEvidence ==
    [][\A f \in preflight' \ preflight :
          Ready(f) => /\ Reconciled
                      /\ \E c \in candidate : /\ Complete(c.evidence)
                                              /\ ~RiskBlocking(c.evidence)]_vars
=============================================================================
