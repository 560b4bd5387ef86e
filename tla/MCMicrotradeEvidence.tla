------------------------- MODULE MCMicrotradeEvidence -------------------------
(* Model values for TLC: a complete request, one that lacks an             *)
(* acknowledgement, one of a design review, and one with a cap and nothing *)
(* else.                                                                   *)
EXTENDS MicrotradeEvidence

MCRequests ==
    LET Request(scope, acks, cap) ==
            [scope |-> scope, acks |-> acks, operator |-> acks # {},
             signedAt |-> acks # {}, cap |-> cap]
        micro == "controlled-mainnet-microtrade-only"
    IN  {Request(micro, Acks, 1), Request(micro, DesignAcks, 2),
         Request("design-review-only", Acks, 0), Request(micro, {}, 2)}

(* A complete dry run, one that is stopped at each of the stages, and one  *)
(* whose risk file could not be read.                                      *)
MCCandidateFiles ==
    LET complete ==
            [stageError |-> FALSE, assessed |-> TRUE, rejected |-> FALSE,
             critical |-> FALSE, token2022 |-> FALSE, quoteAttempted |-> TRUE,
             quoteObserved |-> TRUE, quoteFresh |-> TRUE,
             buildAttempted |-> TRUE, buildRefused |-> FALSE,
             buildSucceeded |-> TRUE, simAttempted |-> TRUE,
             simFailed |-> FALSE, simOk |-> TRUE, scored |-> TRUE,
             readiness |-> TRUE]
        evidences ==
            {complete,
             [complete EXCEPT !.critical = TRUE],
             [complete EXCEPT !.quoteFresh = FALSE],
             [complete EXCEPT !.quoteObserved = FALSE],
             [complete EXCEPT !.buildRefused = TRUE, !.buildSucceeded = FALSE,
                              !.simAttempted = FALSE, !.simOk = FALSE],
             [complete EXCEPT !.assessed = FALSE, !.readiness = FALSE,
                              !.quoteFresh = FALSE, !.buildRefused = TRUE,
                              !.buildSucceeded = FALSE,
                              !.simAttempted = FALSE, !.simOk = FALSE],
             [complete EXCEPT !.simOk = FALSE, !.simFailed = TRUE],
             [complete EXCEPT !.scored = FALSE]}
    IN  {{BuildCandidate(e)} : e \in evidences}

MCAsserted == {{}, Prerequisites}

MCOptions == {[burner |-> TRUE, confirmed |-> TRUE, cap |-> 0],
              [burner |-> TRUE, confirmed |-> TRUE, cap |-> 2],
              [burner |-> FALSE, confirmed |-> FALSE, cap |-> 1]}
=============================================================================
