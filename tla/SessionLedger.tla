--------------------------- MODULE SessionLedger ----------------------------
(***************************************************************************)
(* The execution session ledger (packages/execution/src/session.ts and the *)
(* file helpers of apps/cli/src/commands.ts): the lines of the JSONL file, *)
(* how a line is appended, and what the continuation wall concludes from   *)
(* the whole file.                                                         *)
(*                                                                         *)
(* A session is the clock reading at which its attempt began and the key   *)
(* part of its id (deriveSessionId).  Every entry carries network          *)
(* "devnet": it is the only network any command records, so the network    *)
(* filter of the wall keeps every line.                                    *)
(***************************************************************************)
EXTENDS Reconciliation, Sequences

CONSTANTS SignerKeys,     \* the signers' public keys (their first characters)
          Lamports        \* observable balances, in base fees

ASSUME SignerKeysAssumption == "unsigned" \notin SignerKeys
ASSUME LamportsAssumption == Lamports \subseteq Nat

(* A signature in memory is {n}, n > 0 the launch that submitted it.  The  *)
(* file never holds it: every entry goes through redactValue, whose        *)
(* base58 pattern (80 characters or more) replaces a 64-byte signature     *)
(* (87 or 88 characters) by a fixed text, which names no transaction.      *)
NoSignature == {}
RedactedText == {0}
(* Mutant: an entry that skips the redaction.                              *)
RedactValueSkipped(signature) == signature

RedactValue(signature) ==
    IF signature = NoSignature THEN NoSignature ELSE RedactedText

DeriveSessionId(startedAt, key) == [at |-> startedAt, key |-> key]
Sessions == [at : Nat, key : SignerKeys \cup {"unsigned"}]
NoSession == [at |-> 0, key |-> "unsigned"]

AttemptOutcomes ==
    {"submitted", "refused", "rehearsed", "submitted-unconfirmed",
     "devnet-funding-blocked", "blocked"}

Lines ==
    [kind : {"execution-attempt", "reconciliation", "manual-acknowledgment",
             "malformed"},
     session : Sessions,
     outcome : AttemptOutcomes \cup {"none"},
     signature : {NoSignature, RedactedText},
     balance : Optional(Lamports),
     verdict : RECONCILIATION_VERDICTS \cup {"none"}]

BlankLine ==
    [kind |-> "malformed", session |-> NoSession, outcome |-> "none",
     signature |-> NoSignature, balance |-> Unobserved, verdict |-> "none"]

(* A line parseSessionLedger cannot read: it is counted, never dropped.    *)
MalformedLine == BlankLine

(* Mutant: the signature is kept only once it is confirmed.                *)
AttemptEntryConfirmedOnly(session, outcome, signature, balance) ==
    [BlankLine EXCEPT !.kind = "execution-attempt", !.session = session,
                      !.outcome = outcome, !.balance = balance,
                      !.signature = IF outcome = "rehearsed"
                                    THEN RedactValue(signature)
                                    ELSE NoSignature]

AttemptEntry(session, outcome, signature, balance) ==
    [BlankLine EXCEPT !.kind = "execution-attempt", !.session = session,
                      !.outcome = outcome, !.balance = balance,
                      !.signature = RedactValue(signature)]

ReconciliationEntry(session, signature, verdict) ==
    [BlankLine EXCEPT !.kind = "reconciliation", !.session = session,
                      !.verdict = verdict,
                      !.signature = RedactValue(signature)]

AcknowledgmentEntry(session) ==
    [BlankLine EXCEPT !.kind = "manual-acknowledgment", !.session = session]

-----------------------------------------------------------------------------
(* Mutants: an append that repairs an unfinished line, and a write that    *)
(* replaces the file.                                                      *)
AppendLineRepairs(lines, terminated, line) ==
    IF terminated THEN Append(lines, line)
    ELSE [lines EXCEPT ![Len(lines)] = line]
AppendLineRewrites(lines, terminated, line) == <<line>>

(* appendFileSync(line + "\n").  A file whose last line has no newline (an *)
(* earlier append was cut short) glues the new line to it, and the glued   *)
(* line does not parse.                                                    *)
AppendLine(lines, terminated, line) ==
    IF terminated THEN Append(lines, line)
    ELSE [lines EXCEPT ![Len(lines)] = MalformedLine]

Parses(lines) == \A i \in DOMAIN lines : lines[i].kind # "malformed"

(* Mutant: an RPC that did not answer is no reason to wait.                *)
AllowedStatusesWhenUnanswered ==
    {"no-prior-session", "manually-acknowledged", "reconciled", "not-sent",
     "funding-blocked", "rpc-unavailable"}

SESSION_CONTINUATION_ALLOWED_STATUSES ==
    {"no-prior-session", "manually-acknowledged", "reconciled", "not-sent",
     "funding-blocked"}

(* Mutant: a submission that timed out is taken for one never sent.        *)
OutcomeStatusTimedOut(outcome) ==
    CASE outcome = "devnet-funding-blocked" -> "funding-blocked"
      [] outcome \in {"blocked", "refused", "submitted-unconfirmed"} ->
             "not-sent"
      [] outcome = "submitted" -> "pending-confirmation"
      [] outcome = "rehearsed" -> "unreconciled"
      [] OTHER -> "unknown"

(* What an attempt that nothing follows says about its session.            *)
OutcomeStatus(outcome) ==
    CASE outcome = "devnet-funding-blocked" -> "funding-blocked"
      [] outcome \in {"blocked", "refused"} -> "not-sent"
      [] outcome \in {"submitted", "submitted-unconfirmed"} ->
             "pending-confirmation"
      [] outcome = "rehearsed" -> "unreconciled"
      [] OTHER -> "unknown"

LineStatus(line) ==
    CASE line.kind = "manual-acknowledgment" -> "manually-acknowledged"
      [] line.kind = "reconciliation" -> line.verdict
      [] line.kind = "execution-attempt" -> OutcomeStatus(line.outcome)
      [] OTHER -> "unknown"

(* The latest entry of the session of the last entry is the last entry.    *)
LastLine(lines) == lines[Len(lines)]

(* Mutant: lines that do not parse are dropped.                            *)
ContinuationStatusLenient(lines) ==
    LET read == SelectSeq(lines, LAMBDA line : line.kind # "malformed")
    IN  IF read = <<>> THEN "no-prior-session" ELSE LineStatus(LastLine(read))

ContinuationStatus(lines) ==
    IF ~Parses(lines) THEN "unknown"
    ELSE IF lines = <<>> THEN "no-prior-session"
    ELSE LineStatus(LastLine(lines))

(* evaluateSessionContinuation(...).allowed                                *)
ContinuationAllowed(lines) ==
    ContinuationStatus(lines) \in SESSION_CONTINUATION_ALLOWED_STATUSES

-----------------------------------------------------------------------------
(* Accounting, as the documents speak of it.  A submission is an attempt   *)
(* entry that carries a signature; it is open until a later entry of its   *)
(* session reconciles or acknowledges it.                                  *)
Submission(line) ==
    line.kind = "execution-attempt" /\ line.signature # NoSignature

Closes(line, session) ==
    /\ line.session = session
    /\ \/ line.kind = "manual-acknowledgment"
       \/ line.kind = "reconciliation" /\ line.verdict = "reconciled"

OpenSubmissions(lines) ==
    {i \in DOMAIN lines :
        /\ Submission(lines[i])
        /\ \A j \in DOMAIN lines : j > i => ~Closes(lines[j], lines[i].session)}
=============================================================================
