------------------------- MODULE ExecutionSessions --------------------------
(***************************************************************************)
(* The devnet execution commands of apps/cli/src/commands.ts over one      *)
(* session ledger: execution:devnet:send, execution:devnet:rehearse (also  *)
(* what execution:devnet:funding-status chains into), and                  *)
(* execution:session:reconcile and execution:session:acknowledge.  Each    *)
(* invocation is a process of its own; nothing locks the ledger file, so   *)
(* the steps of overlapping invocations interleave.  A step ends where the *)
(* program awaits the network or touches the file.                         *)
(***************************************************************************)
EXTENDS SessionLedger

CONSTANTS Invokers,      \* who may run a command: one terminal, one command
          MaxLaunches,   \* bound: invocations in a behaviour
          Faults         \* what the environment may do wrong, see below

FaultKinds ==
    {"lost-reply",    \* the node accepts a transaction, the answer is lost
     "rpc-down",      \* a status or balance read throws
     "io-error",      \* an artifact or ledger write throws
     "torn-append",   \* an append that fails or is cut off leaves a fragment
     "crash"}         \* the process dies between two steps

ASSUME MaxLaunchesAssumption == MaxLaunches \in Nat
ASSUME FaultsAssumption == Faults \subseteq FaultKinds

VARIABLES lines,        \* the ledger file, line by line
          terminated,   \* the file is empty or ends with a newline
          launches,     \* invocations so far; doubles as the clock
          pc,           \* where each invoker's command is
          job,          \* its local variables
          chain,        \* what became of the transaction of each launch
          lost          \* launches whose submission a fault kept unrecorded

vars == <<lines, terminated, launches, pc, job, chain, lost>>

Launches == 1..MaxLaunches
Commands == {"send", "rehearse", "reconcile", "acknowledge"}

Places == {"idle", "open", "fund", "simulate", "submit", "observe", "record",
           "settle", "track", "conclude", "sign-off"}

Jobs == [command : Commands \cup {"none"},
         launch : 0..MaxLaunches,
         session : Sessions,
         outcome : AttemptOutcomes \cup {"none"},
         signature : {NoSignature, RedactedText}
                         \cup {Observed(n) : n \in Launches},
         confirmation : CONFIRMATION_OUTCOMES \cup {NotTracked},
         balance : Optional(Lamports),
         post : Optional(Lamports),
         fee : Optional({1})]

NoJob == [command |-> "none", launch |-> 0, session |-> NoSession,
          outcome |-> "none", signature |-> NoSignature,
          confirmation |-> NotTracked, balance |-> Unobserved,
          post |-> Unobserved, fee |-> Unobserved]

TypeOK ==
    /\ lines \in Seq(Lines)
    /\ terminated \in BOOLEAN
    /\ ~terminated => lines # <<>>
    /\ launches \in 0..MaxLaunches
    /\ pc \in [Invokers -> Places]
    /\ job \in [Invokers -> Jobs]
    /\ chain \in [Launches -> {"none", "accepted", "landed", "failed"}]
    /\ lost \subseteq Launches

Init ==
    /\ lines = <<>>
    /\ terminated = TRUE
    /\ launches = 0
    /\ pc = [p \in Invokers |-> "idle"]
    /\ job = [p \in Invokers |-> NoJob]
    /\ chain = [n \in Launches |-> "none"]
    /\ lost = {}
-----------------------------------------------------------------------------
(* Helpers of the actions. *)

Become(p, place, j) ==
    /\ pc' = [pc EXCEPT ![p] = place]
    /\ job' = [job EXCEPT ![p] = j]

Finish(p) == Become(p, "idle", NoJob)

Write(line) ==
    /\ lines' = AppendLine(lines, terminated, line)
    /\ terminated' = TRUE

FileUnchanged == UNCHANGED <<lines, terminated>>
ChainUnchanged == UNCHANGED <<chain, lost>>

(* What an unreachable endpoint adds to the answers of a read.             *)
IfDown(answers) == IF "rpc-down" \in Faults THEN answers ELSE {}

BalanceReads == {Observed(l) : l \in Lamports} \cup IfDown({Unobserved})

(* trackConfirmation over a cluster that answers truthfully: an answer may *)
(* lag behind the chain, and a text that is no signature is an RPC error.  *)
TrackConfirmation(signature) ==
    IfDown({"rpc-unavailable"}) \cup
    IF signature = RedactedText THEN {"rpc-unavailable"}
    ELSE {"timeout"} \cup
         CASE chain[The(signature)] = "landed" -> {"confirmed", "finalized"}
           [] chain[The(signature)] = "failed" -> {"signature-error"}
           [] OTHER -> {}

FeeReads(signature) ==
    {Unobserved} \cup
    IF signature # RedactedText /\ chain[The(signature)] # "accepted"
    THEN {Observed(1)} ELSE {}

(* Mutant: polls that run out count as a confirmation.                     *)
ConfirmationOptimistic(n) ==
    {"confirmed"} \cup IfDown({"signature-error"}) \cup
    IF chain[n] = "failed" THEN {"signature-error"} ELSE {}

(* The rehearsal polls for itself: a status read that throws ends the loop *)
(* with an errLabel, which confirmationFromRehearsal reads as an on-chain  *)
(* error.                                                                  *)
ConfirmationFromRehearsal(n) ==
    {"timeout"} \cup IfDown({"signature-error"}) \cup
    CASE chain[n] = "landed" -> {"confirmed"}
      [] chain[n] = "failed" -> {"signature-error"}
      [] OTHER -> {}

(* The report both the rehearsal and execution:session:reconcile build; the *)
(* rehearsal never reads the fee.  ReconcileCommand adds the token mint.   *)
Verdict(j) ==
    BuildReconciliationReport(
        [expected |-> "self-transfer-probe",
         fundingBlocked |-> j.outcome = "devnet-funding-blocked",
         signed |-> j.signature # NoSignature,
         confirmation |-> j.confirmation,
         pre |-> j.balance, post |-> j.post,
         mint |-> FALSE, tokenPre |-> Unobserved, tokenPost |-> Unobserved,
         fee |-> j.fee, maxFee |-> 2])

(* The ledger line a command is about to append.  The rehearsal writes two;*)
(* execution:devnet:send has read no balance to record.                    *)
Entry(p) ==
    CASE pc[p] = "record" ->
             AttemptEntry(job[p].session, job[p].outcome, job[p].signature,
                          job[p].balance)
      [] pc[p] = "sign-off" -> AcknowledgmentEntry(job[p].session)
      [] OTHER -> ReconciliationEntry(job[p].session, job[p].signature,
                                      Verdict(job[p]))

-----------------------------------------------------------------------------
(* An operator starts a command.  Every command reads the ledger first.    *)
Launch(p, command) ==
    /\ pc[p] = "idle"
    /\ launches < MaxLaunches
    /\ launches' = launches + 1
    /\ Become(p, "open", [NoJob EXCEPT !.command = command,
                                       !.launch = launches + 1])
    /\ FileUnchanged /\ ChainUnchanged

(* sessionWallCheck refuses: the command exits.                            *)
RefuseAtWall(p) ==
    /\ pc[p] = "open" /\ job[p].command \in {"send", "rehearse"}
    /\ ~ContinuationAllowed(lines)
    /\ Finish(p)
    /\ FileUnchanged /\ ChainUnchanged /\ UNCHANGED launches

(* The wall opens; the clock read that follows dates the session.          *)
PassWall(p) ==
    /\ pc[p] = "open" /\ job[p].command \in {"send", "rehearse"}
    /\ ContinuationAllowed(lines)
    /\ \E key \in SignerKeys :
          Become(p, IF job[p].command = "send" THEN "submit" ELSE "fund",
                 [job[p] EXCEPT
                     !.session = DeriveSessionId(job[p].launch, key)])
    /\ FileUnchanged /\ ChainUnchanged /\ UNCHANGED launches

(* A bad envelope, signer, cap, output directory or endpoint: refused after*)
(* the ledger was read and before anything else; nothing is recorded.      *)
GiveUp(p) ==
    /\ \/ pc[p] = "submit" /\ job[p].command = "send"
       \/ pc[p] = "fund"
       \/ pc[p] = "track"
       \/ pc[p] = "conclude" /\ job[p].confirmation = NotTracked
    /\ Finish(p)
    /\ FileUnchanged /\ ChainUnchanged /\ UNCHANGED launches

(* Rehearsal step 3: balance, bounded airdrop, balance again.              *)
FundingBlocked(p) ==
    /\ pc[p] = "fund"
    /\ \E balance \in Optional(Lamports) :
          Become(p, "record", [job[p] EXCEPT
                     !.outcome = "devnet-funding-blocked",
                     !.balance = balance])
    /\ FileUnchanged /\ ChainUnchanged /\ UNCHANGED launches

Fund(p) ==
    /\ pc[p] = "fund"
    /\ \E l \in Lamports :
          Become(p, "simulate", [job[p] EXCEPT !.balance = Observed(l)])
    /\ FileUnchanged /\ ChainUnchanged /\ UNCHANGED launches

(* Rehearsal steps 4 and 5: a probe that does not build or simulate is     *)
(* blocked, an unavailable simulation is not.                              *)
SimulateFails(p) ==
    /\ pc[p] = "simulate"
    /\ Become(p, "record", [job[p] EXCEPT !.outcome = "blocked"])
    /\ FileUnchanged /\ ChainUnchanged /\ UNCHANGED launches

Simulate(p) ==
    /\ pc[p] = "simulate"
    /\ Become(p, "submit", job[p])
    /\ FileUnchanged /\ ChainUnchanged /\ UNCHANGED launches

(* attemptExecution's refusedReport names no signer: the session id of a   *)
(* refused send ends in "unsigned"; a rehearsal keeps its own key.         *)
Refused(j) ==
    IF j.command = "send"
    THEN [j EXCEPT !.outcome = "refused",
                   !.session = DeriveSessionId(j.launch, "unsigned")]
    ELSE [j EXCEPT !.outcome = "blocked"]

(* A wall of attemptExecution, the blockhash read, or the node refuses.    *)
RefuseAttempt(p) ==
    /\ pc[p] = "submit"
    /\ Become(p, "record", Refused(job[p]))
    /\ FileUnchanged /\ ChainUnchanged /\ UNCHANGED launches

(* sendRawTransaction, once.  The node accepts and answers.                *)
Submit(p) ==
    /\ pc[p] = "submit"
    /\ chain' = [chain EXCEPT ![job[p].launch] = "accepted"]
    /\ LET signed == [job[p] EXCEPT !.signature = Observed(job[p].launch)]
       IN  IF job[p].command = "send"
           THEN Become(p, "record", [signed EXCEPT !.outcome = "submitted"])
           ELSE Become(p, "observe", signed)
    /\ FileUnchanged /\ UNCHANGED <<launches, lost>>

(* The node accepts, the call throws: the catch reports a refusal.         *)
SubmitLosesReply(p) ==
    /\ "lost-reply" \in Faults
    /\ pc[p] = "submit"
    /\ chain' = [chain EXCEPT ![job[p].launch] = "accepted"]
    /\ lost' = lost \cup {job[p].launch}
    /\ Become(p, "record", Refused(job[p]))
    /\ FileUnchanged /\ UNCHANGED launches

(* Rehearsal step 7: bounded status polls, then the balance once more.     *)
Observe(p) ==
    /\ pc[p] = "observe"
    /\ \E confirmation \in ConfirmationFromRehearsal(job[p].launch),
          post \in BalanceReads :
          Become(p, "record", [job[p] EXCEPT
                     !.confirmation = confirmation,
                     !.post = post,
                     !.outcome = IF confirmation = "confirmed"
                                 THEN "rehearsed"
                                 ELSE "submitted-unconfirmed"])
    /\ FileUnchanged /\ ChainUnchanged /\ UNCHANGED launches

(* The attempt entry, after the audit log and the artifacts are written.   *)
AppendAttempt(p) ==
    /\ pc[p] = "record"
    /\ Write(Entry(p))
    /\ IF job[p].command = "send" THEN Finish(p)
       ELSE Become(p, "settle", job[p])
    /\ ChainUnchanged /\ UNCHANGED launches

(* The rehearsal's own reconciliation entry, a second append.              *)
AppendRehearsalVerdict(p) ==
    /\ pc[p] = "settle"
    /\ Write(Entry(p))
    /\ Finish(p)
    /\ ChainUnchanged /\ UNCHANGED launches

-----------------------------------------------------------------------------
(* execution:session:reconcile *)

(* The attempts of the session of the last entry, by position.             *)
LatestAttempts ==
    {i \in DOMAIN lines : /\ lines[i].kind = "execution-attempt"
                          /\ lines[i].session = LastLine(lines).session}

NothingToReconcile(p) ==
    /\ pc[p] = "open" /\ job[p].command = "reconcile"
    /\ ~Parses(lines) \/ LatestAttempts = {}
    /\ Finish(p)
    /\ FileUnchanged /\ ChainUnchanged /\ UNCHANGED launches

ReadLatestAttempt(p) ==
    /\ pc[p] = "open" /\ job[p].command = "reconcile"
    /\ Parses(lines)
    /\ \E i \in LatestAttempts :
          /\ \A k \in LatestAttempts : k <= i
          /\ Become(p, IF lines[i].signature = NoSignature
                       THEN "conclude" ELSE "track",
                    [job[p] EXCEPT !.session = lines[i].session,
                                   !.outcome = lines[i].outcome,
                                   !.signature = lines[i].signature,
                                   !.balance = lines[i].balance])
    /\ FileUnchanged /\ ChainUnchanged /\ UNCHANGED launches

(* Status polls, the fee and the current balance.                          *)
Track(p) ==
    /\ pc[p] = "track"
    /\ \E confirmation \in TrackConfirmation(job[p].signature),
          fee \in FeeReads(job[p].signature),
          post \in BalanceReads :
          Become(p, "conclude", [job[p] EXCEPT !.confirmation = confirmation,
                                               !.fee = fee,
                                               !.post = post])
    /\ FileUnchanged /\ ChainUnchanged /\ UNCHANGED launches

(* The ledger is not read again: the verdict goes after whatever is there. *)
AppendVerdict(p) ==
    /\ pc[p] = "conclude"
    /\ Write(Entry(p))
    /\ Finish(p)
    /\ ChainUnchanged /\ UNCHANGED launches

(* execution:session:acknowledge *)

NothingToAcknowledge(p) ==
    /\ pc[p] = "open" /\ job[p].command = "acknowledge"
    /\ ContinuationAllowed(lines) \/ ~Parses(lines)
    /\ Finish(p)
    /\ FileUnchanged /\ ChainUnchanged /\ UNCHANGED launches

ReadBlockedSession(p) ==
    /\ pc[p] = "open" /\ job[p].command = "acknowledge"
    /\ Parses(lines) /\ ~ContinuationAllowed(lines)
    /\ Become(p, "sign-off",
              [job[p] EXCEPT !.session = LastLine(lines).session])
    /\ FileUnchanged /\ ChainUnchanged /\ UNCHANGED launches

AppendAcknowledgment(p) ==
    /\ pc[p] = "sign-off"
    /\ Write(Entry(p))
    /\ Finish(p)
    /\ ChainUnchanged /\ UNCHANGED launches

-----------------------------------------------------------------------------
(* The environment. *)

(* A submission that only the memory of p knows of.                        *)
Unrecorded(p) ==
    pc[p] \in {"observe", "record"} /\ job[p].signature # NoSignature

Forget(p) ==
    lost' = IF Unrecorded(p) THEN lost \cup {job[p].launch} ELSE lost

Writing == {"record", "settle", "conclude", "sign-off"}

(* An artifact or the ledger cannot be written: the command refuses and    *)
(* exits.  Nothing of the entry reaches the file.                          *)
WriteFails(p) ==
    /\ "io-error" \in Faults
    /\ pc[p] \in Writing
    /\ Finish(p) /\ Forget(p)
    /\ FileUnchanged /\ UNCHANGED <<launches, chain>>

(* The append is cut short (a full disk, a kill): a fragment stays, or the *)
(* whole entry without its newline.                                        *)
TornAppend(p) ==
    /\ "torn-append" \in Faults
    /\ pc[p] \in Writing
    /\ \/ /\ lines' = AppendLine(lines, terminated, MalformedLine)
          /\ Forget(p)
       \/ /\ lines' = AppendLine(lines, terminated, Entry(p))
          /\ UNCHANGED lost
    /\ terminated' = FALSE
    /\ Finish(p)
    /\ UNCHANGED <<launches, chain>>

(* The process is killed anywhere.                                         *)
Crash(p) ==
    /\ "crash" \in Faults
    /\ pc[p] # "idle"
    /\ Finish(p) /\ Forget(p)
    /\ FileUnchanged /\ UNCHANGED <<launches, chain>>

(* The cluster decides, or never does.                                     *)
Land(n) ==
    /\ chain[n] = "accepted"
    /\ \E fate \in {"landed", "failed"} : chain' = [chain EXCEPT ![n] = fate]
    /\ FileUnchanged /\ UNCHANGED <<launches, pc, job, lost>>

Attempt(p) ==
    \/ RefuseAtWall(p) \/ PassWall(p) \/ GiveUp(p)
    \/ FundingBlocked(p) \/ Fund(p) \/ SimulateFails(p) \/ Simulate(p)
    \/ RefuseAttempt(p) \/ Submit(p) \/ SubmitLosesReply(p) \/ Observe(p)
    \/ AppendAttempt(p) \/ AppendRehearsalVerdict(p)

Account(p) ==
    \/ NothingToReconcile(p) \/ ReadLatestAttempt(p) \/ Track(p)
    \/ AppendVerdict(p)
    \/ NothingToAcknowledge(p) \/ ReadBlockedSession(p)
    \/ AppendAcknowledgment(p)

Fail(p) == WriteFails(p) \/ TornAppend(p) \/ Crash(p)

Next ==
    \/ \E p \in Invokers :
          \/ \E command \in Commands : Launch(p, command)
          \/ Attempt(p) \/ Account(p) \/ Fail(p)
    \/ \E n \in Launches : Land(n)

Spec == Init /\ [][Next]_vars

-----------------------------------------------------------------------------
(* Properties. *)

(* Who has submitted, according to the chain and according to the file.    *)
Sent == {n \in Launches : chain[n] # "none"}
Recorded == {lines[i].session.at : i \in {k \in DOMAIN lines :
                                             Submission(lines[k])}}

(* With one command at a time, the wall of evaluateSessionContinuation is  *)
(* sound: it never opens over a recorded submission that no later entry of *)
(* its session reconciles or acknowledges, although it looks only at the   *)
(* last entry of the file.                                                 *)
WallSound == ContinuationAllowed(lines) => OpenSubmissions(lines) = {}

(* With one command at a time, a transaction is submitted only onto a      *)
(* readable trail in which every earlier submission is recorded and closed,*)
(* except those a fault kept from the file.                                *)
SubmitsOntoSettledTrail ==
    [][\A n \in Launches :
          chain[n] = "none" /\ chain'[n] # "none" =>
              /\ Parses(lines) /\ OpenSubmissions(lines) = {}
              /\ Sent \subseteq Recorded \cup lost]_vars

(* A submission is missing from the file only while its own command still  *)
(* runs, when a fault cut that command short, or when the file no longer   *)
(* parses and so authorizes nothing.                                       *)
GapHasACause ==
    Parses(lines) =>
        \A n \in Sent \ lost :
            \/ n \in Recorded
            \/ \E p \in Invokers : job[p].launch = n /\ Unrecorded(p)

(* What the trail says of a session is what happened on chain: reconciled  *)
(* means landed, and refused, blocked or funding-blocked means that nothing*)
(* was accepted, unless the answer was lost.                               *)
TrailTellsTheTruth ==
    \A i \in DOMAIN lines :
        LET n == lines[i].session.at
        IN  /\ lines[i].verdict = "reconciled" => chain[n] = "landed"
            /\ \/ lines[i].verdict \in {"not-sent", "funding-blocked"}
               \/ lines[i].outcome \in {"refused", "blocked",
                                        "devnet-funding-blocked"}
               => chain[n] = "none" \/ n \in lost

(* A file that stopped parsing never parses again, whatever command runs:  *)
(* no retry, verdict or acknowledgment reopens a damaged trail.            *)
CorruptTrailStaysClosed == [][~Parses(lines) => ~Parses(lines')]_vars

(* The trail only grows: a line once followed by a newline is never changed*)
(* and no step shortens the file.                                          *)
TrailOnlyGrows ==
    [][/\ Len(lines) <= Len(lines')
       /\ \A i \in DOMAIN lines :
             lines'[i] # lines[i] => i = Len(lines) /\ ~terminated]_vars

(* With one command at a time, the ledger and its commands implement the   *)
(* accounting wall of the documents: the submissions that are open in the  *)
(* file are the pending ones, a file that does not parse is a damaged      *)
(* trail.                                                                  *)
Pending ==
    IF Parses(lines) THEN {lines[i].session : i \in OpenSubmissions(lines)}
    ELSE {}

Wall == INSTANCE AccountingWall
        WITH Session <- [at : Launches, key : SignerKeys \cup {"unsigned"}],
             pending <- Pending, damaged <- ~Parses(lines)

ImplementsAccountingWall == Wall!Spec

(* Every submission of a command that has ended is in the file.            *)
EverySubmissionRecorded ==
    \A n \in Sent :
        \/ n \in Recorded
        \/ \E p \in Invokers : job[p].launch = n /\ Unrecorded(p)

(* What execution:session:reconcile promises to whoever waits for the      *)
(* endpoint to answer: when every read is answered, its verdict is not     *)
(* "rpc-unavailable".                                                      *)
AnsweredReadsReconcile ==
    \A i \in DOMAIN lines : lines[i].verdict # "rpc-unavailable"

(* session.ts on a refused attempt: "refused before submission".           *)
RefusedBeforeSubmission ==
    \A i \in DOMAIN lines :
        lines[i].outcome \in {"refused", "blocked"} =>
            chain[lines[i].session.at] = "none"
=============================================================================
