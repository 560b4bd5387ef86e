----------------------------- MODULE EvidenceFiles -----------------------------
(***************************************************************************)
(* What the rehearsals promise to whoever reads the files they leave: the  *)
(* abstract specification of the release candidate and the devnet          *)
(* reconciliation.  Rehearsal implements it; MicrotradeEvidence is built   *)
(* on it.                                                                  *)
(***************************************************************************)
EXTENDS Phase7Verdicts

CONSTANTS CandidateFiles  \* bound: what release-candidate.json may hold

VARIABLES candidate,      \* release-candidate.json, if there
          reconciliation  \* reconciliation-report.json, "none" if absent

fileVars == <<candidate, reconciliation>>

(* Evidence that the stages of one rehearsal can add up to: a build ends   *)
(* one way, a simulation follows exactly a build that succeeded, a         *)
(* rejection is a decision that was read, and the age of the quotes is     *)
(* judged by the readiness stage.  A build that was attempted, or that     *)
(* succeeded, does not mean that a risk was assessed: a risk file that     *)
(* cannot be read gives the score input no facts.                          *)
Consistent(e) ==
    /\ e.rejected => e.assessed
    /\ e.quoteFresh => e.quoteAttempted /\ e.readiness
    /\ e.buildRefused \/ e.buildSucceeded <=> e.buildAttempted
    /\ ~(e.buildRefused /\ e.buildSucceeded)
    /\ e.simAttempted <=> e.buildSucceeded
    /\ e.simOk \/ e.simFailed => e.simAttempted
    /\ ~(e.simOk /\ e.simFailed)
    /\ ~e.stageError

FilesInit ==
    /\ candidate = {}
    /\ reconciliation \in {"none", "reconciled", "blocked"}

Fold ==
    /\ candidate' \in CandidateFiles
    /\ \E c \in candidate' :
          /\ candidate' = {c}
          /\ c.verdict = CandidateVerdict(c.evidence)
          /\ Consistent(c.evidence)
    /\ UNCHANGED reconciliation

Reconcile ==
    /\ reconciliation' \in {"reconciled", "blocked"}
    /\ UNCHANGED candidate

FilesNext == Fold \/ Reconcile

FilesSpec == FilesInit /\ [][FilesNext]_fileVars
=============================================================================
