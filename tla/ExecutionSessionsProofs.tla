----------------------- MODULE ExecutionSessionsProofs ----------------------
(***************************************************************************)
(* What holds of the execution sessions for every number of launches,      *)
(* every set of signers and balances and every set of faults.  Part 1 is   *)
(* about any number of terminals; part 2, the soundness of the wall, about *)
(* one command at a time; part 3, that the trail tells the truth, about    *)
(* any number again.                                                       *)
(***************************************************************************)
EXTENDS ExecutionSessions, TLAPS

Safeguarded == {"fund", "simulate", "submit", "observe", "record"}

(* A running command has a launch of its own, and an attempt dates its     *)
(* session by it.                                                          *)
JobsDated ==
    \A p \in Invokers :
        /\ pc[p] # "idle" => job[p].launch \in Launches
        /\ pc[p] \in Safeguarded =>
              /\ job[p].session.at = job[p].launch
              /\ job[p].command \in {"send", "rehearse"}

TypeInv == TypeOK /\ JobsDated

-----------------------------------------------------------------------------
(* One command at a time: what holds of the file L after n launches, and   *)
(* of the one command, at its place and with its local variables j.        *)

OneTerminal == \A p, q \in Invokers : p = q

(* Every line is of a launch that has happened.                            *)
Dated(L, n) == \A i \in DOMAIN L : L[i].session.at <= n

(* A submission is recorded with the outcome of one.                       *)
SentOutcomes == {"submitted", "rehearsed", "submitted-unconfirmed"}
OutcomesRecorded(L) ==
    \A i \in DOMAIN L : Submission(L[i]) => L[i].outcome \in SentOutcomes

(* A session has one attempt entry.                                        *)
OneAttemptPerSession(L) ==
    \A i, k \in DOMAIN L :
        /\ L[i].kind = "execution-attempt" /\ L[k].kind = "execution-attempt"
        /\ L[i].session = L[k].session
        => i = k

(* Only the session of the last line can be open: this is why the wall may *)
(* look at nothing else.                                                   *)
OnlyTheLastIsOpen(L) ==
    \A i \in OpenSubmissions(L) : L[i].session = LastLine(L).session

(* A submission is never reconciled as "not-sent" or "funding-blocked",    *)
(* two verdicts that open the wall.                                        *)
Unsent == {"not-sent", "funding-blocked"}
NotUnsent(L, e) ==
    \A i \in DOMAIN L :
        Submission(L[i]) /\ L[i].session = e.session => e.verdict \notin Unsent
SubmissionsAreNotUnsent(L) ==
    \A k \in DOMAIN L : L[k].kind = "reconciliation" => NotUnsent(L, L[k])

FileInv(L, n) ==
    /\ Dated(L, n)
    /\ Parses(L) => /\ OutcomesRecorded(L)
                    /\ OneAttemptPerSession(L)
                    /\ OnlyTheLastIsOpen(L)
                    /\ SubmissionsAreNotUnsent(L)

(* The running command is the latest launch, and until it records an       *)
(* attempt nothing in the file is of its launch.                           *)
LatestLaunch(L, n, place, j) ==
    /\ place # "idle" => j.launch = n
    /\ j.session.at <= n
    /\ place \in Safeguarded \cup {"open"} =>
          \A i \in DOMAIN L : L[i].session.at < n

(* Behind the wall, the file the wall saw still stands.                    *)
WallStillOpen(L, place) ==
    place \in Safeguarded => Parses(L) /\ OpenSubmissions(L) = {}

(* A rehearsal between its two entries follows its own attempt entry.      *)
SettlesItsOwn(L, place, j) ==
    place = "settle" /\ Parses(L) =>
        /\ L # <<>>
        /\ LastLine(L) = AttemptEntry(j.session, j.outcome, j.signature,
                                      j.balance)

(* A command that accounts for a session works on the session of the last  *)
(* line and on what its attempt entry says.                                *)
AccountsForTheLast(L, place, j) ==
    /\ place \in {"track", "conclude", "sign-off"} =>
          /\ Parses(L) /\ L # <<>>
          /\ j.session = LastLine(L).session
    /\ place \in {"track", "conclude"} =>
          \E i \in DOMAIN L :
              /\ L[i].kind = "execution-attempt"
              /\ L[i].session = j.session
              /\ L[i].outcome = j.outcome
              /\ L[i].signature = j.signature

(* Outcomes and signatures agree in memory.                                *)
OutcomeAgrees(place, j) ==
    /\ place \in {"open", "fund", "simulate", "submit"} =>
          j.signature = NoSignature
    /\ place \in {"record", "settle"} /\ j.signature # NoSignature =>
          j.outcome \in SentOutcomes

CommandInv(L, n, place, j) ==
    /\ LatestLaunch(L, n, place, j)
    /\ WallStillOpen(L, place)
    /\ SettlesItsOwn(L, place, j)
    /\ AccountsForTheLast(L, place, j)
    /\ OutcomeAgrees(place, j)

WallInv ==
    /\ FileInv(lines, launches)
    /\ \A p \in Invokers : CommandInv(lines, launches, pc[p], job[p])

-----------------------------------------------------------------------------
(* Lemmas about the operators. *)

(* A report ends in one of the eight verdicts.                             *)
LEMMA VerdictType ==
    ASSUME NEW f PROVE BuildReconciliationReport(f) \in RECONCILIATION_VERDICTS
BY DEF BuildReconciliationReport, RECONCILIATION_VERDICTS,
       ConfirmationVerdict, ConfirmedVerdict, DroppedVerdict, CompareExpected

(* A signed attempt that was funded is never reported as unsent.           *)
LEMMA SentIsNotUnsent ==
    ASSUME NEW f, f.signed, ~f.fundingBlocked
    PROVE  BuildReconciliationReport(f) \notin {"not-sent", "funding-blocked"}
BY DEF BuildReconciliationReport, ConfirmationVerdict, ConfirmedVerdict,
       DroppedVerdict, CompareExpected

(* An append either adds the line or, onto an unterminated file, spoils    *)
(* the last one; every other line stays.                                   *)
LEMMA AppendLineFacts ==
    ASSUME NEW L \in Seq(Lines), NEW t \in BOOLEAN, NEW e \in Lines,
           ~t => L # <<>>
    PROVE  LET M == AppendLine(L, t, e)
           IN  /\ M \in Seq(Lines)
               /\ Len(M) > 0
               /\ \A i \in DOMAIN L : i \in DOMAIN M
               /\ t => /\ Len(M) = Len(L) + 1
                       /\ M[Len(M)] = e
                       /\ \A i \in DOMAIN L : M[i] = L[i]
               /\ ~t => /\ Len(M) = Len(L)
                        /\ M[Len(M)] = MalformedLine
                        /\ \A i \in DOMAIN L : i # Len(L) => M[i] = L[i]
<1>1. MalformedLine \in Lines
  BY DEF MalformedLine, BlankLine, Lines, NoSession, Sessions, Optional,
         Unobserved, NoSignature
<1>2. CASE t
  BY <1>2 DEF AppendLine
<1>3. CASE ~t
  <2>1. Len(L) \in DOMAIN L /\ Len(L) > 0
    BY <1>3
  <2>2. AppendLine(L, t, e) = [L EXCEPT ![Len(L)] = MalformedLine]
    BY <1>3 DEF AppendLine
  <2> QED BY <1>1, <1>3, <2>1, <2>2
<1> QED BY <1>2, <1>3

(* The entries are lines.                                                  *)
LEMMA EntryType ==
    ASSUME TypeInv, NEW p \in Invokers, pc[p] \in Writing
    PROVE  Entry(p) \in Lines
<1>1. job[p] \in Jobs
  BY DEF TypeInv, TypeOK
<1>2. Verdict(job[p]) \in RECONCILIATION_VERDICTS
  BY VerdictType DEF Verdict
<1>3. RedactValue(job[p].signature) \in {NoSignature, RedactedText}
  BY DEF RedactValue
<1>4. CASE pc[p] = "record"
  BY <1>1, <1>3, <1>4 DEF Entry, AttemptEntry, BlankLine, Lines, Jobs
<1>5. CASE pc[p] = "sign-off"
  BY <1>1, <1>5 DEF Entry, AcknowledgmentEntry, BlankLine, Lines, Jobs,
                    Optional, Unobserved, NoSignature
<1>6. CASE pc[p] \in {"settle", "conclude"}
  BY <1>1, <1>2, <1>3, <1>6 DEF Entry, ReconciliationEntry, BlankLine, Lines,
                                Jobs, Optional, Unobserved
<1> QED BY <1>4, <1>5, <1>6 DEF Writing

-----------------------------------------------------------------------------
(* Part 1.  Any number of terminals, any faults. *)

LEMMA NoJobType == NoJob \in Jobs /\ NoJob.session.at = 0 /\ NoJob.launch = 0
BY MaxLaunchesAssumption
   DEF NoJob, Jobs, NoSession, Sessions, Optional, Unobserved, NotTracked,
       NoSignature

(* A command that moves on keeps the types, if its new local variables     *)
(* have them.                                                              *)
LEMMA BecomeType ==
    ASSUME TypeInv, NEW p \in Invokers, NEW place \in Places, NEW j \in Jobs,
           Become(p, place, j),
           place # "idle" => j.launch \in Launches,
           place \in Safeguarded => /\ j.session.at = j.launch
                                    /\ j.command \in {"send", "rehearse"}
    PROVE  /\ pc' \in [Invokers -> Places]
           /\ job' \in [Invokers -> Jobs]
           /\ JobsDated'
<1>1. pc' \in [Invokers -> Places] /\ job' \in [Invokers -> Jobs]
  BY DEF TypeInv, TypeOK, Become
<1>2. ASSUME NEW q \in Invokers
      PROVE  /\ pc'[q] # "idle" => job'[q].launch \in Launches
             /\ pc'[q] \in Safeguarded =>
                   /\ job'[q].session.at = job'[q].launch
                   /\ job'[q].command \in {"send", "rehearse"}
  <2>1. CASE q = p
    BY <2>1 DEF Become, TypeInv, TypeOK
  <2>2. CASE q # p
    BY <2>2 DEF Become, TypeInv, TypeOK, JobsDated
  <2> QED BY <2>1, <2>2
<1> QED BY <1>1, <1>2 DEF JobsDated

LEMMA FinishType ==
    ASSUME TypeInv, NEW p \in Invokers, Finish(p)
    PROVE  /\ pc' \in [Invokers -> Places]
           /\ job' \in [Invokers -> Jobs]
           /\ JobsDated'
BY BecomeType, NoJobType DEF Finish, Places, Safeguarded

(* Writing a line keeps the type of the file.                              *)
LEMMA WriteType ==
    ASSUME TypeInv, NEW p \in Invokers, NEW e \in Lines,
           lines' = AppendLine(lines, terminated, e)
    PROVE  lines' \in Seq(Lines) /\ lines' # <<>>
<1>1. /\ lines \in Seq(Lines) /\ terminated \in BOOLEAN
      /\ ~terminated => lines # <<>>
  BY DEF TypeInv, TypeOK
<1> QED BY <1>1, AppendLineFacts

LEMMA MalformedType == MalformedLine \in Lines
BY DEF MalformedLine, BlankLine, Lines, NoSession, Sessions, Optional,
       Unobserved, NoSignature

LEMMA ForgetType ==
    ASSUME TypeInv, NEW p \in Invokers, pc[p] # "idle", Forget(p)
    PROVE  lost' \subseteq Launches
BY DEF TypeInv, TypeOK, JobsDated, Forget

LEMMA TypeInit == Init => TypeInv
<1> SUFFICES ASSUME Init PROVE TypeInv
  OBVIOUS
<1>1. job \in [Invokers -> Jobs]
  BY NoJobType DEF Init
<1>2. TypeOK
  BY <1>1, MaxLaunchesAssumption DEF Init, TypeOK, Places
<1>3. JobsDated
  BY DEF Init, JobsDated, Safeguarded
<1> QED BY <1>2, <1>3 DEF TypeInv

LEMMA TypeStep == TypeInv /\ [Next]_vars => TypeInv'
<1> SUFFICES ASSUME TypeInv, [Next]_vars PROVE TypeInv'
  OBVIOUS
<1> USE DEF TypeInv
<1>0. CASE UNCHANGED vars
  BY <1>0 DEF vars, TypeOK, JobsDated
<1>1. ASSUME NEW n \in Launches, Land(n) PROVE TypeInv'
  BY <1>1 DEF Land, TypeOK, JobsDated, FileUnchanged
<1>2. ASSUME NEW p \in Invokers, NEW command \in Commands, Launch(p, command)
      PROVE  TypeInv'
  <2> DEFINE j == [NoJob EXCEPT !.command = command, !.launch = launches + 1]
  <2>1. launches + 1 \in Launches
    BY <1>2, MaxLaunchesAssumption DEF Launch, Launches, TypeOK
  <2>2. j \in Jobs /\ j.launch = launches + 1
    <3>1. launches + 1 \in 0..MaxLaunches
      BY <2>1, MaxLaunchesAssumption DEF Launches
    <3> QED BY <3>1, NoJobType DEF Jobs
  <2>3. Become(p, "open", j)
    BY <1>2 DEF Launch
  <2> HIDE DEF j
  <2>4. pc' \in [Invokers -> Places] /\ job' \in [Invokers -> Jobs] /\ JobsDated'
    BY <2>1, <2>2, <2>3, BecomeType DEF Places, Safeguarded
  <2> QED BY <1>2, <2>1, <2>4
          DEF Launch, TypeOK, FileUnchanged, ChainUnchanged, Launches
<1>3. ASSUME NEW p \in Invokers, Attempt(p) PROVE TypeInv'
  <2>0. job[p] \in Jobs /\ (pc[p] # "idle" => job[p].launch \in Launches)
    BY DEF TypeOK, JobsDated
  <2>1. CASE RefuseAtWall(p) \/ GiveUp(p)
    BY <2>1, FinishType DEF RefuseAtWall, GiveUp, TypeOK, FileUnchanged,
                            ChainUnchanged
  <2>2. CASE PassWall(p)
    <3>1. PICK key \in SignerKeys :
             Become(p, IF job[p].command = "send" THEN "submit" ELSE "fund",
                    [job[p] EXCEPT
                        !.session = DeriveSessionId(job[p].launch, key)])
      BY <2>2 DEF PassWall
    <3> DEFINE j == [job[p] EXCEPT
                        !.session = DeriveSessionId(job[p].launch, key)]
    <3>2. j \in Jobs /\ j.launch \in Launches /\ j.session.at = j.launch
          /\ j.command \in {"send", "rehearse"}
      BY <2>0, <2>2 DEF Jobs, DeriveSessionId, Sessions, PassWall, Launches
    <3> HIDE DEF j
    <3>3. pc' \in [Invokers -> Places] /\ job' \in [Invokers -> Jobs] /\ JobsDated'
      BY <3>1, <3>2, BecomeType DEF Places, j
    <3> QED BY <2>2, <3>3 DEF PassWall, TypeOK, FileUnchanged, ChainUnchanged
  <2>3. CASE FundingBlocked(p)
    <3>1. PICK b \in Optional(Lamports) :
             Become(p, "record", [job[p] EXCEPT
                        !.outcome = "devnet-funding-blocked", !.balance = b])
      BY <2>3 DEF FundingBlocked
    <3>2. [job[p] EXCEPT !.outcome = "devnet-funding-blocked", !.balance = b]
             \in Jobs
      BY <2>0 DEF Jobs, AttemptOutcomes
    <3>3. pc' \in [Invokers -> Places] /\ job' \in [Invokers -> Jobs] /\ JobsDated'
      BY <2>0, <2>3, <3>1, <3>2, BecomeType
         DEF Places, FundingBlocked, JobsDated, Safeguarded, Jobs
    <3> QED BY <2>3, <3>3 DEF FundingBlocked, TypeOK, FileUnchanged,
                              ChainUnchanged
  <2>4. CASE Fund(p)
    <3>1. PICK l \in Lamports :
             Become(p, "simulate", [job[p] EXCEPT !.balance = Observed(l)])
      BY <2>4 DEF Fund
    <3>2. [job[p] EXCEPT !.balance = Observed(l)] \in Jobs
      BY <2>0 DEF Jobs, Optional
    <3>3. pc' \in [Invokers -> Places] /\ job' \in [Invokers -> Jobs] /\ JobsDated'
      BY <2>0, <2>4, <3>1, <3>2, BecomeType
         DEF Places, Fund, JobsDated, Safeguarded, Jobs
    <3> QED BY <2>4, <3>3 DEF Fund, TypeOK, FileUnchanged, ChainUnchanged
  <2>5. CASE SimulateFails(p) \/ Simulate(p)
    <3>1. [job[p] EXCEPT !.outcome = "blocked"] \in Jobs
      BY <2>0 DEF Jobs, AttemptOutcomes
    <3>2. pc' \in [Invokers -> Places] /\ job' \in [Invokers -> Jobs] /\ JobsDated'
      BY <2>0, <2>5, <3>1, BecomeType
         DEF Places, Simulate, SimulateFails, JobsDated, Safeguarded, Jobs
    <3> QED BY <2>5, <3>2 DEF Simulate, SimulateFails, TypeOK, FileUnchanged,
                              ChainUnchanged
  <2>6. CASE RefuseAttempt(p) \/ SubmitLosesReply(p)
    <3>1. pc[p] = "submit" /\ Become(p, "record", Refused(job[p]))
      BY <2>6 DEF RefuseAttempt, SubmitLosesReply
    <3>2. /\ Refused(job[p]) \in Jobs
          /\ Refused(job[p]).launch = job[p].launch
          /\ Refused(job[p]).session.at = job[p].launch
          /\ Refused(job[p]).command = job[p].command
          /\ job[p].command \in {"send", "rehearse"}
      BY <2>0, <3>1 DEF Refused, Jobs, AttemptOutcomes, DeriveSessionId,
                        Sessions, JobsDated, Safeguarded, Launches
    <3>3. pc' \in [Invokers -> Places] /\ job' \in [Invokers -> Jobs] /\ JobsDated'
      BY <2>0, <3>1, <3>2, BecomeType DEF Places
    <3> QED BY <2>0, <2>6, <3>1, <3>3 DEF RefuseAttempt, SubmitLosesReply, TypeOK,
                              FileUnchanged, ChainUnchanged
  <2>7. CASE Submit(p)
    <3> DEFINE signed == [job[p] EXCEPT !.signature = Observed(job[p].launch)]
               sent == [signed EXCEPT !.outcome = "submitted"]
    <3>1. pc[p] = "submit" /\ job[p].launch \in Launches
          /\ job[p].session.at = job[p].launch
          /\ job[p].command \in {"send", "rehearse"}
      BY <2>0, <2>7 DEF Submit, JobsDated, Safeguarded
    <3>2. signed \in Jobs /\ signed.launch = job[p].launch
          /\ signed.session = job[p].session /\ signed.command = job[p].command
      BY <2>0, <3>1 DEF Jobs
    <3>3. sent \in Jobs /\ sent.launch = job[p].launch
          /\ sent.session = job[p].session /\ sent.command = job[p].command
      BY <3>2 DEF Jobs, AttemptOutcomes
    <3>4. \/ Become(p, "record", sent)
          \/ Become(p, "observe", signed)
      BY <2>7 DEF Submit
    <3> HIDE DEF signed, sent
    <3>5. pc' \in [Invokers -> Places] /\ job' \in [Invokers -> Jobs] /\ JobsDated'
      BY <3>1, <3>2, <3>3, <3>4, BecomeType DEF Places
    <3> QED BY <2>7, <3>5 DEF Submit, TypeOK, FileUnchanged
  <2>8. CASE Observe(p)
    <3>1. PICK c \in ConfirmationFromRehearsal(job[p].launch),
               post \in BalanceReads :
             Become(p, "record", [job[p] EXCEPT
                 !.confirmation = c, !.post = post,
                 !.outcome = IF c = "confirmed" THEN "rehearsed"
                             ELSE "submitted-unconfirmed"])
      BY <2>8 DEF Observe
    <3>2. c \in CONFIRMATION_OUTCOMES /\ post \in Optional(Lamports)
      <4>1. c \in CONFIRMATION_OUTCOMES
        BY DEF ConfirmationFromRehearsal, IfDown, CONFIRMATION_OUTCOMES
      <4>2. post \in Optional(Lamports)
        BY DEF BalanceReads, IfDown, Optional
      <4> QED BY <4>1, <4>2
    <3> DEFINE j == [job[p] EXCEPT
                 !.confirmation = c, !.post = post,
                 !.outcome = IF c = "confirmed" THEN "rehearsed"
                             ELSE "submitted-unconfirmed"]
    <3>3. j \in Jobs /\ j.launch = job[p].launch
          /\ j.session = job[p].session /\ j.command = job[p].command
      BY <2>0, <3>2 DEF Jobs, AttemptOutcomes
    <3>4. pc[p] = "observe" /\ job[p].launch \in Launches
          /\ job[p].session.at = job[p].launch
          /\ job[p].command \in {"send", "rehearse"}
      BY <2>0, <2>8 DEF Observe, JobsDated, Safeguarded
    <3>5. Become(p, "record", j)
      BY <3>1
    <3> HIDE DEF j
    <3>6. pc' \in [Invokers -> Places] /\ job' \in [Invokers -> Jobs] /\ JobsDated'
      BY <3>3, <3>4, <3>5, BecomeType DEF Places
    <3> QED BY <2>8, <3>6 DEF Observe, TypeOK, FileUnchanged, ChainUnchanged
  <2>9. CASE AppendAttempt(p) \/ AppendRehearsalVerdict(p)
    <3>1. pc[p] \in {"record", "settle"} /\ Write(Entry(p))
      BY <2>9 DEF AppendAttempt, AppendRehearsalVerdict
    <3>2. lines' \in Seq(Lines) /\ terminated' = TRUE
      BY <3>1, EntryType, WriteType DEF Write, Writing
    <3>3. Finish(p) \/ Become(p, "settle", job[p])
      BY <2>9 DEF AppendAttempt, AppendRehearsalVerdict
    <3>4. pc' \in [Invokers -> Places] /\ job' \in [Invokers -> Jobs] /\ JobsDated'
      BY <2>0, <3>1, <3>3, FinishType, BecomeType DEF Places, Safeguarded
    <3> QED BY <2>9, <3>2, <3>4 DEF AppendAttempt, AppendRehearsalVerdict,
                                    TypeOK, ChainUnchanged
  <2> QED BY <1>3, <2>1, <2>2, <2>3, <2>4, <2>5, <2>6, <2>7, <2>8, <2>9
          DEF Attempt
<1>4. ASSUME NEW p \in Invokers, Account(p) PROVE TypeInv'
  <2>0. job[p] \in Jobs /\ (pc[p] # "idle" => job[p].launch \in Launches)
    BY DEF TypeOK, JobsDated
  <2>1. CASE NothingToReconcile(p) \/ NothingToAcknowledge(p)
    BY <2>1, FinishType DEF NothingToReconcile, NothingToAcknowledge, TypeOK,
                            FileUnchanged, ChainUnchanged
  <2>2. CASE ReadLatestAttempt(p)
    <3>1. PICK i \in LatestAttempts :
             Become(p, IF lines[i].signature = NoSignature
                       THEN "conclude" ELSE "track",
                    [job[p] EXCEPT !.session = lines[i].session,
                                   !.outcome = lines[i].outcome,
                                   !.signature = lines[i].signature,
                                   !.balance = lines[i].balance])
      BY <2>2 DEF ReadLatestAttempt
    <3> DEFINE j == [job[p] EXCEPT !.session = lines[i].session,
                                   !.outcome = lines[i].outcome,
                                   !.signature = lines[i].signature,
                                   !.balance = lines[i].balance]
    <3>2. lines[i] \in Lines
      BY DEF TypeOK, LatestAttempts
    <3>3. j \in Jobs /\ j.launch = job[p].launch
      BY <2>0, <3>2 DEF Jobs, Lines
    <3>4. Become(p, "conclude", j) \/ Become(p, "track", j)
      BY <3>1
    <3>5. pc[p] = "open"
      BY <2>2 DEF ReadLatestAttempt
    <3> HIDE DEF j
    <3>6. pc' \in [Invokers -> Places] /\ job' \in [Invokers -> Jobs] /\ JobsDated'
      BY <2>0, <3>3, <3>4, <3>5, BecomeType DEF Places, Safeguarded
    <3> QED BY <2>2, <3>6 DEF ReadLatestAttempt, TypeOK, FileUnchanged,
                              ChainUnchanged
  <2>3. CASE Track(p)
    <3>1. PICK c \in TrackConfirmation(job[p].signature),
               fee \in FeeReads(job[p].signature), post \in BalanceReads :
             Become(p, "conclude", [job[p] EXCEPT !.confirmation = c,
                                                  !.fee = fee, !.post = post])
      BY <2>3 DEF Track
    <3> DEFINE j == [job[p] EXCEPT !.confirmation = c,
                                   !.fee = fee, !.post = post]
    <3>2. c \in CONFIRMATION_OUTCOMES
      BY DEF TrackConfirmation, IfDown, CONFIRMATION_OUTCOMES
    <3>3. fee \in Optional({1}) /\ post \in Optional(Lamports)
      BY DEF FeeReads, BalanceReads, IfDown, Optional, Unobserved
    <3>4. j \in Jobs /\ j.launch = job[p].launch
      BY <2>0, <3>2, <3>3 DEF Jobs
    <3>5. pc[p] = "track" /\ Become(p, "conclude", j)
      BY <2>3, <3>1 DEF Track
    <3> HIDE DEF j
    <3>6. pc' \in [Invokers -> Places] /\ job' \in [Invokers -> Jobs] /\ JobsDated'
      BY <2>0, <3>4, <3>5, BecomeType DEF Places, Safeguarded
    <3> QED BY <2>3, <3>6 DEF Track, TypeOK, FileUnchanged, ChainUnchanged
  <2>4. CASE ReadBlockedSession(p)
    <3> DEFINE j == [job[p] EXCEPT !.session = LastLine(lines).session]
    <3>1. lines # <<>>
      BY <2>4 DEF ReadBlockedSession, ContinuationAllowed, ContinuationStatus,
                  SESSION_CONTINUATION_ALLOWED_STATUSES
    <3>2. LastLine(lines) \in Lines
      BY <3>1 DEF TypeOK, LastLine
    <3>3. j \in Jobs /\ j.launch = job[p].launch
      BY <2>0, <3>2 DEF Jobs, Lines
    <3>4. pc[p] = "open" /\ Become(p, "sign-off", j)
      BY <2>4 DEF ReadBlockedSession
    <3> HIDE DEF j
    <3>5. pc' \in [Invokers -> Places] /\ job' \in [Invokers -> Jobs] /\ JobsDated'
      BY <2>0, <3>3, <3>4, BecomeType DEF Places, Safeguarded
    <3> QED BY <2>4, <3>5 DEF ReadBlockedSession, TypeOK, FileUnchanged,
                              ChainUnchanged
  <2>5. CASE AppendVerdict(p) \/ AppendAcknowledgment(p)
    <3>1. pc[p] \in {"conclude", "sign-off"} /\ Write(Entry(p)) /\ Finish(p)
      BY <2>5 DEF AppendVerdict, AppendAcknowledgment
    <3>2. lines' \in Seq(Lines) /\ terminated' = TRUE
      BY <3>1, EntryType, WriteType DEF Write, Writing
    <3> QED BY <2>5, <3>1, <3>2, FinishType
            DEF AppendVerdict, AppendAcknowledgment, TypeOK, ChainUnchanged
  <2> QED BY <1>4, <2>1, <2>2, <2>3, <2>4, <2>5 DEF Account
<1>5. ASSUME NEW p \in Invokers, Fail(p) PROVE TypeInv'
  <2>1. CASE WriteFails(p) \/ Crash(p)
    BY <2>1, FinishType, ForgetType
       DEF WriteFails, Crash, TypeOK, FileUnchanged, Writing
  <2>2. CASE TornAppend(p)
    <3>1. lines' \in Seq(Lines) /\ lines' # <<>>
      BY <2>2, MalformedType, EntryType, WriteType DEF TornAppend
    <3>2. lost' \subseteq Launches
      BY <2>2, ForgetType DEF TornAppend, Writing, TypeOK
    <3> QED BY <2>2, <3>1, <3>2, FinishType DEF TornAppend, TypeOK
  <2> QED BY <1>5, <2>1, <2>2 DEF Fail
<1> QED BY <1>0, <1>1, <1>2, <1>3, <1>4, <1>5 DEF Next

(* Type correctness, whatever the number of terminals and the faults.      *)
THEOREM TypeCorrect == Spec => []TypeOK
<1>1. Spec => []TypeInv
  BY TypeInit, TypeStep, PTL DEF Spec
<1>2. TypeInv => TypeOK
  BY DEF TypeInv
<1> QED BY <1>1, <1>2, PTL

-----------------------------------------------------------------------------
(* Part 2.  The wall, for one command at a time. *)

LEMMA WallInit == Init => WallInv
BY MaxLaunchesAssumption, NoJobType
   DEF Init, WallInv, FileInv, Dated, Parses, OutcomesRecorded,
       OneAttemptPerSession, OnlyTheLastIsOpen, OpenSubmissions,
       SubmissionsAreNotUnsent, CommandInv, LatestLaunch, WallStillOpen,
       SettlesItsOwn, AccountsForTheLast, OutcomeAgrees, Safeguarded

(* A file that no longer parses promises only the dates of its lines.      *)
LEMMA SpoiledFile ==
    ASSUME NEW L \in Seq(Lines), NEW n \in Nat, Dated(L, n),
           NEW e \in Lines, NEW t \in BOOLEAN, ~t => L # <<>>,
           e.session.at <= n,
           ~t \/ e = MalformedLine \/ ~Parses(L)
    PROVE  /\ ~Parses(AppendLine(L, t, e))
           /\ FileInv(AppendLine(L, t, e), n)
<1> DEFINE M == AppendLine(L, t, e)
<1>1. /\ M \in Seq(Lines) /\ Len(M) > 0
      /\ \A i \in DOMAIN L : i \in DOMAIN M
      /\ t => /\ Len(M) = Len(L) + 1
              /\ M[Len(M)] = e
              /\ \A i \in DOMAIN L : M[i] = L[i]
      /\ ~t => /\ Len(M) = Len(L)
               /\ M[Len(M)] = MalformedLine
               /\ \A i \in DOMAIN L : i # Len(L) => M[i] = L[i]
  BY AppendLineFacts
<1>2. MalformedLine.kind = "malformed" /\ MalformedLine.session.at = 0
  BY DEF MalformedLine, BlankLine, NoSession
<1> HIDE DEF M
<1>3. ~Parses(M)
  <2>1. CASE ~t \/ e = MalformedLine
    BY <1>1, <1>2, <2>1 DEF Parses
  <2>2. CASE t /\ ~Parses(L)
    BY <1>1, <2>2 DEF Parses
  <2> QED BY <2>1, <2>2
<1>4. Dated(M, n)
  <2> SUFFICES ASSUME NEW i \in DOMAIN M PROVE M[i].session.at <= n
    BY DEF Dated
  <2>1. CASE i = Len(M)
    BY <1>1, <1>2, <2>1
  <2>2. CASE i # Len(M)
    <3>1. i \in DOMAIN L /\ M[i] = L[i]
      BY <1>1, <2>2
    <3> QED BY <3>1 DEF Dated
  <2> QED BY <2>1, <2>2
<1> QED BY <1>3, <1>4 DEF FileInv, M

(* A first attempt entry, onto a file in which nothing is open.            *)
LEMMA AttemptRecorded ==
    ASSUME NEW L \in Seq(Lines), NEW n \in Nat, FileInv(L, n), NEW e \in Lines,
           Parses(L), OpenSubmissions(L) = {},
           e.kind = "execution-attempt", e.session.at = n,
           \A i \in DOMAIN L : L[i].session.at < n,
           Submission(e) => e.outcome \in SentOutcomes
    PROVE  FileInv(Append(L, e), n)
<1> DEFINE M == Append(L, e)
<1>1. /\ M \in Seq(Lines) /\ Len(M) = Len(L) + 1
      /\ DOMAIN L = 1..Len(L) /\ DOMAIN M = 1..Len(M)
      /\ M[Len(M)] = e /\ \A i \in DOMAIN L : M[i] = L[i]
  OBVIOUS
<1> HIDE DEF M
<1>2. \A i \in DOMAIN M : i = Len(M) \/ i \in DOMAIN L
  BY <1>1
<1>3. Dated(M, n)
  BY <1>1, <1>2 DEF Dated, FileInv
<1>4. OutcomesRecorded(M)
  BY <1>1, <1>2 DEF OutcomesRecorded, FileInv
<1>5. OneAttemptPerSession(M)
  BY <1>1, <1>2 DEF OneAttemptPerSession, FileInv
<1>6. OnlyTheLastIsOpen(M)
  <2> SUFFICES ASSUME NEW i \in OpenSubmissions(M) PROVE i = Len(M)
    BY <1>1 DEF OnlyTheLastIsOpen, LastLine
  <2>1. ASSUME i \in DOMAIN L PROVE i \in OpenSubmissions(L)
    BY <1>1, <2>1 DEF OpenSubmissions
  <2> QED BY <1>2, <2>1 DEF OpenSubmissions
<1>7. SubmissionsAreNotUnsent(M)
  BY <1>1, <1>2 DEF SubmissionsAreNotUnsent, NotUnsent, FileInv
<1> QED BY <1>3, <1>4, <1>5, <1>6, <1>7 DEF FileInv, M

(* A verdict on, or an acknowledgment of, the session of the last line.    *)
LEMMA AccountRecorded ==
    ASSUME NEW L \in Seq(Lines), NEW n \in Nat, FileInv(L, n), NEW e \in Lines,
           Parses(L), L # <<>>, e.session = LastLine(L).session,
           e.kind \in {"reconciliation", "manual-acknowledgment"},
           e.kind = "reconciliation" => NotUnsent(L, e)
    PROVE  FileInv(Append(L, e), n)
<1> DEFINE M == Append(L, e)
<1>1. /\ M \in Seq(Lines) /\ Len(M) = Len(L) + 1
      /\ DOMAIN L = 1..Len(L) /\ DOMAIN M = 1..Len(M)
      /\ M[Len(M)] = e /\ \A i \in DOMAIN L : M[i] = L[i]
  OBVIOUS
<1> HIDE DEF M
<1>2. \A i \in DOMAIN M : i = Len(M) \/ i \in DOMAIN L
  BY <1>1
<1>3. Dated(M, n)
  <2>1. Len(L) \in DOMAIN L
    BY <1>1
  <2> QED BY <1>1, <1>2, <2>1 DEF Dated, FileInv, LastLine
<1>4. OutcomesRecorded(M)
  BY <1>1, <1>2 DEF OutcomesRecorded, FileInv, Submission
<1>5. OneAttemptPerSession(M)
  BY <1>1, <1>2 DEF OneAttemptPerSession, FileInv
<1>6. OnlyTheLastIsOpen(M)
  <2> SUFFICES ASSUME NEW i \in OpenSubmissions(M)
               PROVE  M[i].session = e.session
    BY <1>1 DEF OnlyTheLastIsOpen, LastLine
  <2>1. i \in DOMAIN L /\ M[i] = L[i]
    BY <1>1, <1>2 DEF OpenSubmissions, Submission
  <2>2. i \in OpenSubmissions(L)
    BY <1>1, <2>1 DEF OpenSubmissions
  <2> QED BY <2>1, <2>2 DEF OnlyTheLastIsOpen, FileInv
<1>7. SubmissionsAreNotUnsent(M)
  BY <1>1, <1>2 DEF SubmissionsAreNotUnsent, NotUnsent, FileInv, Submission
<1> QED BY <1>3, <1>4, <1>5, <1>6, <1>7 DEF FileInv, M

(* The wall opens only over a file in which nothing is open.               *)
LEMMA WallOpensOverNothing ==
    ASSUME NEW L \in Seq(Lines), NEW n \in Nat, FileInv(L, n),
           ContinuationAllowed(L)
    PROVE  Parses(L) /\ OpenSubmissions(L) = {}
<1>1. /\ Parses(L)
      /\ L # <<>> => LineStatus(LastLine(L)) \in
                         SESSION_CONTINUATION_ALLOWED_STATUSES
  BY DEF ContinuationAllowed, ContinuationStatus,
         SESSION_CONTINUATION_ALLOWED_STATUSES
<1> SUFFICES ASSUME NEW i \in OpenSubmissions(L) PROVE FALSE
  BY <1>1
<1> DEFINE last == LastLine(L)
<1>2. /\ i \in DOMAIN L /\ DOMAIN L = 1..Len(L) /\ Len(L) \in DOMAIN L
      /\ L # <<>> /\ last = L[Len(L)] /\ last \in Lines
      /\ Submission(L[i]) /\ L[i].kind = "execution-attempt"
  BY DEF OpenSubmissions, Submission, LastLine
<1>3. /\ L[i].session = last.session
      /\ \A k \in DOMAIN L : k > i => ~Closes(L[k], L[i].session)
  BY <1>1 DEF OpenSubmissions, FileInv, OnlyTheLastIsOpen
<1>4. LineStatus(last) \in SESSION_CONTINUATION_ALLOWED_STATUSES
  BY <1>1, <1>2
<1> HIDE DEF last
<1>5. CASE last.kind = "manual-acknowledgment"
  BY <1>2, <1>3, <1>5 DEF Closes
<1>6. CASE last.kind = "reconciliation"
  <2>1. last.verdict \notin Unsent
    BY <1>1, <1>2, <1>3, <1>6 DEF FileInv, SubmissionsAreNotUnsent, NotUnsent
  <2>2. last.verdict = "reconciled"
    BY <1>2, <1>4, <1>6, <2>1
       DEF LineStatus, SESSION_CONTINUATION_ALLOWED_STATUSES, Unsent, Lines,
           RECONCILIATION_VERDICTS
  <2> QED BY <1>2, <1>3, <1>6, <2>2 DEF Closes
<1>7. CASE last.kind = "execution-attempt"
  <2>1. i = Len(L)
    BY <1>1, <1>2, <1>3, <1>7 DEF FileInv, OneAttemptPerSession
  <2>2. last.outcome \in SentOutcomes
    BY <1>1, <1>2, <2>1 DEF FileInv, OutcomesRecorded
  <2> QED BY <1>4, <1>7, <2>2
          DEF LineStatus, OutcomeStatus, SentOutcomes,
              SESSION_CONTINUATION_ALLOWED_STATUSES
<1>8. CASE last.kind = "malformed"
  BY <1>1, <1>2, <1>8 DEF Parses
<1> QED BY <1>2, <1>5, <1>6, <1>7, <1>8 DEF Lines

(* A step of the only command: what the file and its new place promise is  *)
(* all there is to show.                                                   *)
LEMMA OneBecomes ==
    ASSUME OneTerminal, TypeInv, NEW p \in Invokers, NEW place, NEW j,
           Become(p, place, j), FileInv(lines', launches'),
           CommandInv(lines', launches', place, j)
    PROVE  WallInv'
<1>1. \A q \in Invokers : q = p
  BY DEF OneTerminal
<1>2. pc'[p] = place /\ job'[p] = j
  BY DEF Become, TypeInv, TypeOK
<1> QED BY <1>1, <1>2 DEF WallInv

LEMMA OneFinishes ==
    ASSUME OneTerminal, TypeInv, NEW p \in Invokers, Finish(p),
           FileInv(lines', launches'), launches' \in Nat
    PROVE  WallInv'
<1>1. CommandInv(lines', launches', "idle", NoJob)
  BY NoJobType DEF CommandInv, LatestLaunch, WallStillOpen, SettlesItsOwn,
                   AccountsForTheLast, OutcomeAgrees, Safeguarded
<1> QED BY <1>1, OneBecomes DEF Finish

(* A step that writes nothing, behind the wall or in front of it.          *)
LEMMA Proceeds ==
    ASSUME OneTerminal, TypeInv, WallInv, NEW p \in Invokers, NEW j,
           NEW place \in Safeguarded \cup {"track", "conclude", "sign-off"},
           pc[p] # "idle", Become(p, place, j),
           UNCHANGED <<lines, launches>>,
           j.launch = job[p].launch, j.session.at <= launches,
           place \in Safeguarded =>
               /\ pc[p] \in Safeguarded \/ ContinuationAllowed(lines)
               /\ pc[p] \in Safeguarded \cup {"open"},
           AccountsForTheLast(lines, place, j),
           OutcomeAgrees(place, j)
    PROVE  WallInv'
<1>1. /\ lines \in Seq(Lines) /\ launches \in Nat
      /\ FileInv(lines, launches)
      /\ CommandInv(lines, launches, pc[p], job[p])
  BY MaxLaunchesAssumption DEF TypeInv, TypeOK, WallInv
<1>2. LatestLaunch(lines, launches, place, j)
  BY <1>1 DEF CommandInv, LatestLaunch, Safeguarded
<1>3. WallStillOpen(lines, place)
  BY <1>1, WallOpensOverNothing DEF CommandInv, WallStillOpen
<1>4. CommandInv(lines, launches, place, j)
  BY <1>2, <1>3 DEF CommandInv, SettlesItsOwn, Safeguarded
<1> QED BY <1>1, <1>4, OneBecomes

(* A file an entry was appended to, by the place of its command.           *)
LEMMA EntryRecorded ==
    ASSUME TypeInv, WallInv, NEW p \in Invokers, pc[p] \in Writing
    PROVE  FileInv(AppendLine(lines, terminated, Entry(p)), launches)
<1> DEFINE e == Entry(p)
           j == job[p]
<1>1. /\ lines \in Seq(Lines) /\ launches \in Nat /\ terminated \in BOOLEAN
      /\ ~terminated => lines # <<>>
      /\ FileInv(lines, launches)
      /\ CommandInv(lines, launches, pc[p], j)
      /\ e \in Lines
  BY MaxLaunchesAssumption, EntryType DEF TypeInv, TypeOK, WallInv
<1>2. e.session = j.session /\ e.session.at <= launches
  <2>1. e.session = j.session
    BY DEF Entry, AttemptEntry, AcknowledgmentEntry, ReconciliationEntry,
           BlankLine
  <2> QED BY <1>1, <2>1 DEF CommandInv, LatestLaunch
<1>3. CASE ~terminated \/ ~Parses(lines)
  BY <1>1, <1>2, <1>3, SpoiledFile DEF FileInv
<1> SUFFICES ASSUME terminated, Parses(lines)
             PROVE  FileInv(Append(lines, e), launches)
  BY <1>3 DEF AppendLine
<1>4. CASE pc[p] = "record"
  <2>1. e = AttemptEntry(j.session, j.outcome, j.signature, j.balance)
    BY <1>4 DEF Entry
  <2>2. /\ e.kind = "execution-attempt" /\ e.outcome = j.outcome
        /\ e.signature = RedactValue(j.signature)
    BY <2>1 DEF AttemptEntry, BlankLine
  <2>3. /\ OpenSubmissions(lines) = {}
        /\ \A i \in DOMAIN lines : lines[i].session.at < launches
        /\ j.launch = launches /\ j.session.at = j.launch
    BY <1>1, <1>4 DEF CommandInv, LatestLaunch, WallStillOpen, Safeguarded,
                      TypeInv, JobsDated
  <2>4. Submission(e) => e.outcome \in SentOutcomes
    BY <1>1, <1>4, <2>2 DEF CommandInv, OutcomeAgrees, Submission, RedactValue
  <2> HIDE DEF e, j
  <2> QED BY <1>1, <1>2, <2>2, <2>3, <2>4, AttemptRecorded
<1>5. CASE pc[p] = "sign-off"
  <2>1. e.kind = "manual-acknowledgment"
    BY <1>5 DEF Entry, AcknowledgmentEntry, BlankLine
  <2>2. lines # <<>> /\ j.session = LastLine(lines).session
    BY <1>1, <1>5 DEF CommandInv, AccountsForTheLast
  <2> HIDE DEF e, j
  <2> QED BY <1>1, <1>2, <2>1, <2>2, AccountRecorded
<1>6. CASE pc[p] \in {"settle", "conclude"}
  <2>1. e = ReconciliationEntry(j.session, j.signature, Verdict(j))
    BY <1>6 DEF Entry
  <2>2. e.kind = "reconciliation" /\ e.verdict = Verdict(j)
    BY <2>1 DEF ReconciliationEntry, BlankLine
  <2>3. /\ lines # <<>> /\ j.session = LastLine(lines).session
        /\ \E i \in DOMAIN lines :
              /\ lines[i].kind = "execution-attempt"
              /\ lines[i].session = j.session
              /\ lines[i].outcome = j.outcome
              /\ lines[i].signature # NoSignature => j.signature # NoSignature
    <3>1. CASE pc[p] = "conclude"
      BY <1>1, <3>1 DEF CommandInv, AccountsForTheLast
    <3>2. CASE pc[p] = "settle"
      <4>1. /\ lines # <<>>
            /\ LastLine(lines) = AttemptEntry(j.session, j.outcome,
                                              j.signature, j.balance)
        BY <1>1, <3>2 DEF CommandInv, SettlesItsOwn
      <4>2. /\ lines[Len(lines)].kind = "execution-attempt"
            /\ lines[Len(lines)].session = j.session
            /\ lines[Len(lines)].outcome = j.outcome
            /\ lines[Len(lines)].signature = RedactValue(j.signature)
        BY <4>1 DEF LastLine, AttemptEntry, BlankLine
      <4>3. Len(lines) \in DOMAIN lines
        BY <1>1, <4>1
      <4> QED BY <4>1, <4>2, <4>3 DEF LastLine, RedactValue
    <3> QED BY <1>6, <3>1, <3>2
  <2>4. NotUnsent(lines, e)
    <3> SUFFICES ASSUME NEW k \in DOMAIN lines, Submission(lines[k]),
                        lines[k].session = e.session
                 PROVE  e.verdict \notin Unsent
      BY DEF NotUnsent
    <3>1. PICK i \in DOMAIN lines :
              /\ lines[i].kind = "execution-attempt"
              /\ lines[i].session = j.session
              /\ lines[i].outcome = j.outcome
              /\ lines[i].signature # NoSignature => j.signature # NoSignature
      BY <2>3
    <3>2. i = k
      BY <1>1, <1>2, <3>1 DEF FileInv, OneAttemptPerSession, Submission
    <3>3. j.signature # NoSignature /\ j.outcome \in SentOutcomes
      BY <1>1, <3>1, <3>2 DEF Submission, FileInv, OutcomesRecorded
    <3>4. Verdict(j) \notin Unsent
      BY <3>3, SentIsNotUnsent DEF Verdict, SentOutcomes, Unsent
    <3> QED BY <2>2, <3>4
  <2> HIDE DEF e, j
  <2> QED BY <1>1, <1>2, <2>2, <2>3, <2>4, AccountRecorded
<1> QED BY <1>4, <1>5, <1>6 DEF Writing

LEMMA WallStep ==
    ASSUME OneTerminal, TypeInv, WallInv, [Next]_vars PROVE WallInv'
<1>1. /\ lines \in Seq(Lines) /\ launches \in Nat
      /\ FileInv(lines, launches)
  BY MaxLaunchesAssumption DEF TypeInv, TypeOK, WallInv
<1>2. \A p \in Invokers :
         /\ CommandInv(lines, launches, pc[p], job[p])
         /\ job[p] \in Jobs
  BY DEF TypeInv, TypeOK, WallInv
<1>3. CASE UNCHANGED vars
  BY <1>3 DEF vars, WallInv
<1>4. ASSUME NEW n \in Launches, Land(n) PROVE WallInv'
  BY <1>4 DEF Land, WallInv, FileUnchanged
<1>5. ASSUME NEW p \in Invokers, NEW command \in Commands, Launch(p, command)
      PROVE  WallInv'
  <2> DEFINE j == [NoJob EXCEPT !.command = command, !.launch = launches + 1]
  <2>1. /\ j.launch = launches + 1 /\ j.session.at = 0
        /\ j.signature = NoSignature
    BY DEF NoJob, NoSession
  <2>2. FileInv(lines, launches + 1)
        /\ \A i \in DOMAIN lines : lines[i].session.at < launches + 1
    <3>1. \A i \in DOMAIN lines : /\ lines[i].session.at \in Nat
                                  /\ lines[i].session.at <= launches
      <4>1. \A i \in DOMAIN lines : lines[i] \in Lines
        BY <1>1
      <4> QED BY <1>1, <4>1 DEF Lines, Sessions, FileInv, Dated
    <3> QED BY <1>1, <3>1 DEF FileInv, Dated
  <2>4. Become(p, "open", j)
    BY <1>5 DEF Launch
  <2>5. lines' = lines /\ launches' = launches + 1
    BY <1>5 DEF Launch, FileUnchanged
  <2> HIDE DEF j
  <2>6. CommandInv(lines, launches + 1, "open", j)
    BY <1>1, <2>1, <2>2
       DEF CommandInv, LatestLaunch, WallStillOpen, SettlesItsOwn,
           AccountsForTheLast, OutcomeAgrees, Safeguarded
  <2> QED BY <2>2, <2>4, <2>5, <2>6, OneBecomes
<1>6. ASSUME NEW p \in Invokers, Finish(p), UNCHANGED <<lines, launches>>
      PROVE  WallInv'
  BY <1>1, <1>6, OneFinishes
<1>7. ASSUME NEW p \in Invokers, Attempt(p) PROVE WallInv'
  <2> DEFINE j == job[p]
  <2>0. /\ j.session.at <= launches
        /\ CommandInv(lines, launches, pc[p], j) /\ j \in Jobs
    BY <1>2 DEF CommandInv, LatestLaunch
  <2>1. CASE RefuseAtWall(p) \/ GiveUp(p)
    BY <1>6, <2>1 DEF RefuseAtWall, GiveUp, FileUnchanged
  <2>2. CASE PassWall(p)
    <3>1. PICK key \in SignerKeys :
             Become(p, IF j.command = "send" THEN "submit" ELSE "fund",
                    [j EXCEPT !.session = DeriveSessionId(j.launch, key)])
      BY <2>2 DEF PassWall
    <3> DEFINE k == [j EXCEPT !.session = DeriveSessionId(j.launch, key)]
    <3>2. /\ pc[p] = "open" /\ ContinuationAllowed(lines)
          /\ UNCHANGED <<lines, launches>>
      BY <2>2 DEF PassWall, FileUnchanged
    <3>3. k.launch = j.launch /\ k.session.at <= launches
          /\ k.signature = NoSignature
      BY <1>1, <2>0, <3>2 DEF Jobs, DeriveSessionId, CommandInv, LatestLaunch,
                       OutcomeAgrees
    <3> HIDE DEF k
    <3>4. ASSUME NEW place \in {"submit", "fund"}, Become(p, place, k)
          PROVE  WallInv'
      <4>1. AccountsForTheLast(lines, place, k) /\ OutcomeAgrees(place, k)
        BY <3>3 DEF AccountsForTheLast, OutcomeAgrees
      <4> QED BY <3>2, <3>3, <3>4, <4>1, Proceeds DEF Safeguarded
    <3> QED BY <3>1, <3>4 DEF k
  <2>3. ASSUME NEW k, NEW place \in {"simulate", "submit", "record"},
               pc[p] \in {"fund", "simulate", "submit", "observe"},
               Become(p, place, k), UNCHANGED <<lines, launches>>,
               k.launch = j.launch, k.session.at <= launches,
               OutcomeAgrees(place, k)
        PROVE  WallInv'
    <3>1. AccountsForTheLast(lines, place, k)
      BY DEF AccountsForTheLast
    <3> HIDE DEF j
    <3> QED BY <2>3, <3>1, Proceeds DEF Safeguarded, j
  <2>4. CASE FundingBlocked(p)
    <3>1. PICK b : Become(p, "record", [j EXCEPT
                       !.outcome = "devnet-funding-blocked", !.balance = b])
      BY <2>4 DEF FundingBlocked
    <3> DEFINE k == [j EXCEPT !.outcome = "devnet-funding-blocked",
                              !.balance = b]
    <3>2. /\ k.launch = j.launch /\ k.session.at <= launches
          /\ k.signature = NoSignature
      BY <2>0, <2>4 DEF Jobs, FundingBlocked, CommandInv, OutcomeAgrees
    <3> HIDE DEF k
    <3>3. OutcomeAgrees("record", k)
      BY <3>2 DEF OutcomeAgrees
    <3> QED BY <2>3, <2>4, <3>1, <3>2, <3>3 DEF FundingBlocked, FileUnchanged, k
  <2>5. CASE Fund(p)
    <3>1. PICK l : Become(p, "simulate", [j EXCEPT !.balance = Observed(l)])
      BY <2>5 DEF Fund
    <3> DEFINE k == [j EXCEPT !.balance = Observed(l)]
    <3>2. /\ k.launch = j.launch /\ k.session.at <= launches
          /\ k.signature = NoSignature
      BY <2>0, <2>5 DEF Jobs, Fund, CommandInv, OutcomeAgrees
    <3> HIDE DEF k
    <3>3. OutcomeAgrees("simulate", k)
      BY <3>2 DEF OutcomeAgrees
    <3> QED BY <2>3, <2>5, <3>1, <3>2, <3>3 DEF Fund, FileUnchanged, k
  <2>6. CASE SimulateFails(p)
    <3> DEFINE k == [j EXCEPT !.outcome = "blocked"]
    <3>1. Become(p, "record", k)
      BY <2>6 DEF SimulateFails
    <3>2. /\ k.launch = j.launch /\ k.session.at <= launches
          /\ k.signature = NoSignature
      BY <2>0, <2>6 DEF Jobs, SimulateFails, CommandInv, OutcomeAgrees
    <3> HIDE DEF k
    <3>3. OutcomeAgrees("record", k)
      BY <3>2 DEF OutcomeAgrees
    <3> QED BY <2>3, <2>6, <3>1, <3>2, <3>3 DEF SimulateFails, FileUnchanged
  <2>7. CASE Simulate(p)
    <3>1. OutcomeAgrees("submit", j)
      BY <2>0, <2>7 DEF Simulate, CommandInv, OutcomeAgrees
    <3> QED BY <2>0, <2>3, <2>7, <3>1 DEF Simulate, FileUnchanged
  <2>8. CASE RefuseAttempt(p) \/ SubmitLosesReply(p)
    <3> DEFINE k == Refused(j)
    <3>1. /\ pc[p] = "submit" /\ Become(p, "record", k)
          /\ UNCHANGED <<lines, launches>>
      BY <2>8 DEF RefuseAttempt, SubmitLosesReply, FileUnchanged
    <3>2. /\ k.launch = j.launch /\ k.session.at <= launches
          /\ k.signature = NoSignature
      BY <1>1, <2>0, <3>1
         DEF Refused, DeriveSessionId, Jobs, CommandInv, OutcomeAgrees,
             LatestLaunch
    <3> HIDE DEF k
    <3>3. OutcomeAgrees("record", k)
      BY <3>2 DEF OutcomeAgrees
    <3> QED BY <2>3, <3>1, <3>2, <3>3
  <2>9. CASE Submit(p)
    <3> DEFINE signed == [j EXCEPT !.signature = Observed(j.launch)]
               sent == [signed EXCEPT !.outcome = "submitted"]
    <3>1. /\ pc[p] = "submit" /\ UNCHANGED <<lines, launches>>
          /\ Become(p, "record", sent) \/ Become(p, "observe", signed)
      BY <2>9 DEF Submit, FileUnchanged
    <3>2. /\ signed.launch = j.launch /\ signed.session = j.session
          /\ sent.launch = j.launch /\ sent.session = j.session
          /\ sent.outcome = "submitted"
      BY <2>0 DEF Jobs
    <3> HIDE DEF signed, sent
    <3>3. CASE Become(p, "record", sent)
      <4>1. OutcomeAgrees("record", sent)
        BY <3>2 DEF OutcomeAgrees, SentOutcomes
      <4> QED BY <2>0, <2>3, <3>1, <3>2, <3>3, <4>1
    <3>4. CASE Become(p, "observe", signed)
      <4>1. /\ AccountsForTheLast(lines, "observe", signed)
            /\ OutcomeAgrees("observe", signed)
        BY DEF AccountsForTheLast, OutcomeAgrees
      <4> QED BY <2>0, <3>1, <3>2, <3>4, <4>1, Proceeds DEF Safeguarded
    <3> QED BY <3>1, <3>3, <3>4
  <2>10. CASE Observe(p)
    <3>1. PICK c, post :
             Become(p, "record", [j EXCEPT
                 !.confirmation = c, !.post = post,
                 !.outcome = IF c = "confirmed" THEN "rehearsed"
                             ELSE "submitted-unconfirmed"])
      BY <2>10 DEF Observe
    <3> DEFINE k == [j EXCEPT
                 !.confirmation = c, !.post = post,
                 !.outcome = IF c = "confirmed" THEN "rehearsed"
                             ELSE "submitted-unconfirmed"]
    <3>2. /\ k.launch = j.launch /\ k.session.at <= launches
          /\ k.outcome \in SentOutcomes
      BY <2>0 DEF Jobs, SentOutcomes
    <3> HIDE DEF k
    <3>3. OutcomeAgrees("record", k)
      BY <3>2 DEF OutcomeAgrees
    <3> QED BY <2>3, <2>10, <3>1, <3>2, <3>3 DEF Observe, FileUnchanged, k
  <2>11. CASE AppendAttempt(p)
    <3>1. /\ pc[p] = "record" /\ launches' = launches
          /\ lines' = AppendLine(lines, terminated, Entry(p))
          /\ Finish(p) \/ Become(p, "settle", j)
      BY <2>11 DEF AppendAttempt, Write
    <3>2. FileInv(lines', launches')
      BY <3>1, EntryRecorded DEF Writing
    <3>3. CASE Become(p, "settle", j)
      <4>1. /\ lines' \in Seq(Lines) /\ Len(lines') > 0
            /\ terminated => lines'[Len(lines')] = Entry(p)
            /\ ~terminated => lines'[Len(lines')] = MalformedLine
        BY <3>1, EntryType, AppendLineFacts DEF Writing, TypeInv, TypeOK
      <4>2. SettlesItsOwn(lines', "settle", j)
        <5> SUFFICES ASSUME Parses(lines')
                     PROVE  /\ lines' # <<>>
                            /\ LastLine(lines') = Entry(p)
          BY <3>1 DEF SettlesItsOwn, Entry
        <5>1. terminated
          BY <1>1, <4>1 DEF Parses, MalformedLine, BlankLine, TypeInv, TypeOK
        <5> QED BY <4>1, <5>1 DEF LastLine
      <4>3. LatestLaunch(lines', launches', "settle", j)
        BY <2>0, <3>1 DEF CommandInv, LatestLaunch, Safeguarded
      <4>4. OutcomeAgrees("settle", j)
        BY <2>0, <3>1 DEF CommandInv, OutcomeAgrees
      <4>5. CommandInv(lines', launches', "settle", j)
        BY <4>2, <4>3, <4>4
           DEF CommandInv, WallStillOpen, AccountsForTheLast, Safeguarded
      <4> QED BY <3>2, <3>3, <4>5, OneBecomes
    <3> QED BY <1>1, <3>1, <3>2, <3>3, OneFinishes
  <2>12. CASE AppendRehearsalVerdict(p)
    <3>1. /\ pc[p] = "settle" /\ launches' = launches /\ Finish(p)
          /\ lines' = AppendLine(lines, terminated, Entry(p))
      BY <2>12 DEF AppendRehearsalVerdict, Write
    <3> QED BY <1>1, <3>1, EntryRecorded, OneFinishes DEF Writing
  <2> QED BY <1>7, <2>1, <2>2, <2>4, <2>5, <2>6, <2>7, <2>8, <2>9, <2>10,
             <2>11, <2>12 DEF Attempt
<1>8. ASSUME NEW p \in Invokers, Account(p) PROVE WallInv'
  <2> DEFINE j == job[p]
  <2>0. /\ j.session.at <= launches /\ j \in Jobs
        /\ CommandInv(lines, launches, pc[p], j)
    BY <1>2 DEF CommandInv, LatestLaunch
  <2>1. CASE NothingToReconcile(p) \/ NothingToAcknowledge(p)
    BY <1>6, <2>1 DEF NothingToReconcile, NothingToAcknowledge, FileUnchanged
  <2>2. CASE ReadLatestAttempt(p)
    <3>1. PICK i \in LatestAttempts :
             Become(p, IF lines[i].signature = NoSignature
                       THEN "conclude" ELSE "track",
                    [j EXCEPT !.session = lines[i].session,
                              !.outcome = lines[i].outcome,
                              !.signature = lines[i].signature,
                              !.balance = lines[i].balance])
      BY <2>2 DEF ReadLatestAttempt
    <3> DEFINE k == [j EXCEPT !.session = lines[i].session,
                              !.outcome = lines[i].outcome,
                              !.signature = lines[i].signature,
                              !.balance = lines[i].balance]
    <3>2. /\ pc[p] = "open" /\ Parses(lines)
          /\ UNCHANGED <<lines, launches>>
      BY <2>2 DEF ReadLatestAttempt, FileUnchanged
    <3>3. /\ k.launch = j.launch /\ k.session = lines[i].session
          /\ k.outcome = lines[i].outcome /\ k.signature = lines[i].signature
      BY <2>0 DEF Jobs
    <3>4. /\ i \in DOMAIN lines /\ lines[i].kind = "execution-attempt"
          /\ lines[i].session = LastLine(lines).session
          /\ lines[i].session.at <= launches /\ lines # <<>>
      BY <1>1 DEF LatestAttempts, FileInv, Dated
    <3> HIDE DEF k
    <3>5. ASSUME NEW place \in {"track", "conclude"}, Become(p, place, k)
          PROVE  WallInv'
      <4>1. AccountsForTheLast(lines, place, k) /\ OutcomeAgrees(place, k)
        BY <3>2, <3>3, <3>4 DEF AccountsForTheLast, OutcomeAgrees
      <4> QED BY <3>2, <3>3, <3>4, <3>5, <4>1, Proceeds DEF Safeguarded
    <3> QED BY <3>1, <3>5 DEF k
  <2>3. CASE Track(p)
    <3>1. PICK c, fee, post :
             Become(p, "conclude", [j EXCEPT !.confirmation = c,
                                             !.fee = fee, !.post = post])
      BY <2>3 DEF Track
    <3> DEFINE k == [j EXCEPT !.confirmation = c, !.fee = fee, !.post = post]
    <3>2. /\ k.launch = j.launch /\ k.session = j.session
          /\ k.outcome = j.outcome /\ k.signature = j.signature
      BY <2>0 DEF Jobs
    <3>3. pc[p] = "track" /\ UNCHANGED <<lines, launches>>
      BY <2>3 DEF Track, FileUnchanged
    <3>4. Become(p, "conclude", k)
      BY <3>1
    <3> HIDE DEF k
    <3>5. /\ AccountsForTheLast(lines, "conclude", k)
          /\ OutcomeAgrees("conclude", k)
      BY <2>0, <3>2, <3>3 DEF CommandInv, AccountsForTheLast, OutcomeAgrees
    <3> QED BY <2>0, <3>2, <3>3, <3>4, <3>5, Proceeds DEF Safeguarded
  <2>4. CASE ReadBlockedSession(p)
    <3> DEFINE k == [j EXCEPT !.session = LastLine(lines).session]
    <3>1. /\ pc[p] = "open" /\ UNCHANGED <<lines, launches>>
          /\ Parses(lines) /\ ~ContinuationAllowed(lines)
          /\ Become(p, "sign-off", k)
      BY <2>4 DEF ReadBlockedSession, FileUnchanged
    <3>2. lines # <<>>
      BY <3>1 DEF ContinuationAllowed, ContinuationStatus,
                  SESSION_CONTINUATION_ALLOWED_STATUSES
    <3>3. LastLine(lines).session.at <= launches
      BY <1>1, <3>2 DEF LastLine, FileInv, Dated
    <3>4. k.launch = j.launch /\ k.session = LastLine(lines).session
      BY <2>0 DEF Jobs
    <3> HIDE DEF k
    <3>5. /\ AccountsForTheLast(lines, "sign-off", k)
          /\ OutcomeAgrees("sign-off", k)
      BY <3>1, <3>2, <3>4 DEF AccountsForTheLast, OutcomeAgrees
    <3> QED BY <3>1, <3>3, <3>4, <3>5, Proceeds DEF Safeguarded
  <2>5. CASE AppendVerdict(p) \/ AppendAcknowledgment(p)
    <3>1. /\ pc[p] \in Writing /\ launches' = launches /\ Finish(p)
          /\ lines' = AppendLine(lines, terminated, Entry(p))
      BY <2>5 DEF AppendVerdict, AppendAcknowledgment, Write, Writing
    <3> QED BY <1>1, <3>1, EntryRecorded, OneFinishes
  <2> QED BY <1>8, <2>1, <2>2, <2>3, <2>4, <2>5 DEF Account
<1>9. ASSUME NEW p \in Invokers, Fail(p) PROVE WallInv'
  <2>1. CASE WriteFails(p) \/ Crash(p)
    BY <1>6, <2>1 DEF WriteFails, Crash, FileUnchanged
  <2>2. CASE TornAppend(p)
    <3>1. /\ pc[p] \in Writing /\ launches' = launches /\ Finish(p)
          /\ \/ lines' = AppendLine(lines, terminated, MalformedLine)
             \/ lines' = AppendLine(lines, terminated, Entry(p))
      BY <2>2 DEF TornAppend
    <3>2. FileInv(AppendLine(lines, terminated, MalformedLine), launches)
      <4>1. MalformedLine.session.at = 0
        BY DEF MalformedLine, BlankLine, NoSession
      <4> QED BY <1>1, <4>1, MalformedType, SpoiledFile
              DEF TypeInv, TypeOK, FileInv
    <3> QED BY <1>1, <3>1, <3>2, EntryRecorded, OneFinishes
  <2> QED BY <1>9, <2>1, <2>2 DEF Fail
<1> QED BY <1>3, <1>4, <1>5, <1>7, <1>8, <1>9 DEF Next

(* With one command at a time, the wall is sound: it never opens over a    *)
(* recorded submission that no later entry of its session reconciles or    *)
(* acknowledges, whatever faults the environment has.                      *)
THEOREM WallIsSound == ASSUME OneTerminal PROVE Spec => []WallSound
<1>1. TypeInv /\ WallInv /\ [Next]_vars => TypeInv' /\ WallInv'
  BY TypeStep, WallStep
<1>2. Init => TypeInv /\ WallInv
  BY TypeInit, WallInit
<1>3. TypeInv /\ WallInv => WallSound
  BY WallOpensOverNothing, MaxLaunchesAssumption
     DEF TypeInv, TypeOK, WallInv, WallSound
<1> QED BY <1>1, <1>2, <1>3, PTL DEF Spec

-----------------------------------------------------------------------------
(* Part 3.  The file, with any number of terminals. *)

(* A step leaves the file alone, or it is one append of a running command. *)
LEMMA FileStep ==
    ASSUME TypeInv, [Next]_vars
    PROVE  \/ UNCHANGED <<lines, terminated>>
           \/ \E p \in Invokers :
                 /\ pc[p] \in Writing
                 /\ Finish(p) \/ Become(p, "settle", job[p])
                 /\ \/ lines' = AppendLine(lines, terminated, Entry(p))
                    \/ lines' = AppendLine(lines, terminated, MalformedLine)
<1>1. CASE UNCHANGED vars
  BY <1>1 DEF vars
<1>2. ASSUME NEW n \in Launches, Land(n) PROVE UNCHANGED <<lines, terminated>>
  BY <1>2 DEF Land, FileUnchanged
<1>3. ASSUME NEW p \in Invokers, NEW command \in Commands, Launch(p, command)
      PROVE  UNCHANGED <<lines, terminated>>
  BY <1>3 DEF Launch, FileUnchanged
<1>4. ASSUME NEW p \in Invokers, Attempt(p) \/ Account(p) \/ Fail(p)
      PROVE  \/ UNCHANGED <<lines, terminated>>
             \/ /\ pc[p] \in Writing
                /\ Finish(p) \/ Become(p, "settle", job[p])
                /\ \/ lines' = AppendLine(lines, terminated, Entry(p))
                   \/ lines' = AppendLine(lines, terminated, MalformedLine)
  <2>1. CASE AppendAttempt(p) \/ AppendRehearsalVerdict(p)
             \/ AppendVerdict(p) \/ AppendAcknowledgment(p)
    BY <2>1 DEF AppendAttempt, AppendRehearsalVerdict, AppendVerdict,
                AppendAcknowledgment, Write, Writing
  <2>2. CASE TornAppend(p)
    BY <2>2 DEF TornAppend
  <2>3. CASE WriteFails(p) \/ Crash(p)
    BY <2>3 DEF WriteFails, Crash, FileUnchanged
  <2>4. CASE RefuseAtWall(p) \/ PassWall(p) \/ GiveUp(p) \/ FundingBlocked(p)
             \/ Fund(p) \/ SimulateFails(p) \/ Simulate(p)
    BY <2>4 DEF RefuseAtWall, PassWall, GiveUp, FundingBlocked, Fund,
                SimulateFails, Simulate, FileUnchanged
  <2>5. CASE RefuseAttempt(p) \/ Submit(p) \/ SubmitLosesReply(p) \/ Observe(p)
    BY <2>5 DEF RefuseAttempt, Submit, SubmitLosesReply, Observe, FileUnchanged
  <2>6. CASE NothingToReconcile(p) \/ ReadLatestAttempt(p) \/ Track(p)
             \/ NothingToAcknowledge(p) \/ ReadBlockedSession(p)
    BY <2>6 DEF NothingToReconcile, ReadLatestAttempt, Track,
                NothingToAcknowledge, ReadBlockedSession, FileUnchanged
  <2> QED BY <1>4, <2>1, <2>2, <2>3, <2>4, <2>5, <2>6
          DEF Attempt, Account, Fail
<1> QED BY <1>1, <1>2, <1>3, <1>4 DEF Next

(* The file after a step, in terms of the file before it.                  *)
LEMMA FileGrows ==
    ASSUME TypeInv, [Next]_vars
    PROVE  /\ Len(lines) <= Len(lines')
           /\ \A i \in DOMAIN lines :
                 /\ i \in DOMAIN lines'
                 /\ lines'[i] # lines[i] => i = Len(lines) /\ ~terminated
           /\ Parses(lines') =>
                 /\ Parses(lines)
                 /\ \A i \in DOMAIN lines : lines'[i] = lines[i]
<1>1. /\ lines \in Seq(Lines) /\ terminated \in BOOLEAN
      /\ ~terminated => lines # <<>>
  BY DEF TypeInv, TypeOK
<1>2. CASE UNCHANGED <<lines, terminated>>
  BY <1>1, <1>2
<1>3. ASSUME NEW e \in Lines, lines' = AppendLine(lines, terminated, e)
      PROVE  /\ Len(lines) <= Len(lines')
             /\ \A i \in DOMAIN lines :
                   /\ i \in DOMAIN lines'
                   /\ lines'[i] # lines[i] => i = Len(lines) /\ ~terminated
             /\ Parses(lines') =>
                   /\ Parses(lines)
                   /\ \A i \in DOMAIN lines : lines'[i] = lines[i]
  <2>1. /\ lines' \in Seq(Lines) /\ Len(lines') > 0
        /\ \A i \in DOMAIN lines : i \in DOMAIN lines'
        /\ terminated => /\ Len(lines') = Len(lines) + 1
                         /\ lines'[Len(lines')] = e
                         /\ \A i \in DOMAIN lines : lines'[i] = lines[i]
        /\ ~terminated =>
              /\ Len(lines') = Len(lines)
              /\ lines'[Len(lines')] = MalformedLine
              /\ \A i \in DOMAIN lines :
                    i # Len(lines) => lines'[i] = lines[i]
    BY <1>1, <1>3, AppendLineFacts
  <2>2. Parses(lines') => terminated
    BY <1>1, <2>1 DEF Parses, MalformedLine, BlankLine
  <2> QED BY <1>1, <2>1, <2>2 DEF Parses
<1>4. ASSUME NEW p \in Invokers, pc[p] \in Writing
      PROVE  Entry(p) \in Lines
  BY <1>4, EntryType
<1> QED BY <1>2, <1>3, <1>4, FileStep, MalformedType

(* A damaged trail stays closed, whoever runs whatever command.            *)
THEOREM DamageIsFinal == Spec => CorruptTrailStaysClosed
<1>1. TypeInv /\ [Next]_vars => [~Parses(lines) => ~Parses(lines')]_vars
  BY FileGrows
<1>2. Spec => []TypeInv
  BY TypeInit, TypeStep, PTL DEF Spec
<1> QED BY <1>1, <1>2, PTL DEF Spec, CorruptTrailStaysClosed

(* No command ever shortens the file or changes a finished line.           *)
THEOREM AppendOnly == Spec => TrailOnlyGrows
<1>1. TypeInv /\ [Next]_vars =>
        [/\ Len(lines) <= Len(lines')
         /\ \A i \in DOMAIN lines :
               lines'[i] # lines[i] => i = Len(lines) /\ ~terminated]_vars
  BY FileGrows
<1>2. Spec => []TypeInv
  BY TypeInit, TypeStep, PTL DEF Spec
<1> QED BY <1>1, <1>2, PTL DEF Spec, TrailOnlyGrows

(* A step of one command leaves every other command alone.                 *)
LEMMA OthersStay ==
    ASSUME TypeInv, NEW q \in Invokers, NEW p \in Invokers, p # q,
           \/ \E command \in Commands : Launch(q, command)
           \/ Attempt(q) \/ Account(q) \/ Fail(q)
    PROVE  pc'[p] = pc[p] /\ job'[p] = job[p]
<1>1. ASSUME NEW place, NEW j, Become(q, place, j)
      PROVE  pc'[p] = pc[p] /\ job'[p] = job[p]
  BY <1>1 DEF Become, TypeInv, TypeOK
<1>2. CASE \E command \in Commands : Launch(q, command)
  BY <1>1, <1>2 DEF Launch
<1>3. CASE Attempt(q)
  <2>1. CASE RefuseAtWall(q) \/ PassWall(q) \/ GiveUp(q) \/ FundingBlocked(q)
             \/ Fund(q) \/ SimulateFails(q) \/ Simulate(q)
    BY <1>1, <2>1 DEF RefuseAtWall, PassWall, GiveUp, FundingBlocked, Fund,
                      SimulateFails, Simulate, Finish
  <2>2. CASE RefuseAttempt(q) \/ Submit(q) \/ SubmitLosesReply(q) \/ Observe(q)
    BY <1>1, <2>2 DEF RefuseAttempt, Submit, SubmitLosesReply, Observe
  <2>3. CASE AppendAttempt(q) \/ AppendRehearsalVerdict(q)
    BY <1>1, <2>3 DEF AppendAttempt, AppendRehearsalVerdict, Finish
  <2> QED BY <1>3, <2>1, <2>2, <2>3 DEF Attempt
<1>4. CASE Account(q)
  BY <1>1, <1>4 DEF Account, NothingToReconcile, ReadLatestAttempt, Track,
                    AppendVerdict, NothingToAcknowledge, ReadBlockedSession,
                    AppendAcknowledgment, Finish
<1>5. CASE Fail(q)
  BY <1>1, <1>5 DEF Fail, WriteFails, TornAppend, Crash, Finish
<1> QED BY <1>2, <1>3, <1>4, <1>5

(* The chain takes a transaction only from a command at "submit".          *)
LEMMA WhoSubmits ==
    ASSUME TypeInv, [Next]_vars, NEW n \in Launches,
           chain[n] = "none", chain'[n] # "none"
    PROVE  \E p \in Invokers : /\ Submit(p) \/ SubmitLosesReply(p)
                               /\ pc[p] = "submit" /\ job[p].launch = n
<1>1. chain \in [Launches -> {"none", "accepted", "landed", "failed"}]
  BY DEF TypeInv, TypeOK
<1>2. chain' # chain
  OBVIOUS
<1>3. CASE \E k \in Launches : Land(k)
  BY <1>1, <1>3 DEF Land
<1>4. ASSUME NEW p \in Invokers, \E command \in Commands : Launch(p, command)
      PROVE  FALSE
  BY <1>2, <1>4 DEF Launch, ChainUnchanged
<1>5. ASSUME NEW p \in Invokers, Account(p) PROVE FALSE
  BY <1>2, <1>5 DEF Account, NothingToReconcile, ReadLatestAttempt, Track,
                    AppendVerdict, NothingToAcknowledge, ReadBlockedSession,
                    AppendAcknowledgment, ChainUnchanged
<1>6. ASSUME NEW p \in Invokers, Fail(p) PROVE FALSE
  BY <1>2, <1>6 DEF Fail, WriteFails, TornAppend, Crash
<1>7. ASSUME NEW p \in Invokers, Attempt(p)
      PROVE  Submit(p) \/ SubmitLosesReply(p)
  BY <1>2, <1>7 DEF Attempt, RefuseAtWall, PassWall, GiveUp, FundingBlocked,
                    Fund, SimulateFails, Simulate, RefuseAttempt, Observe,
                    AppendAttempt, AppendRehearsalVerdict, ChainUnchanged
<1>8. PICK p \in Invokers : Submit(p) \/ SubmitLosesReply(p)
  BY <1>2, <1>3, <1>4, <1>5, <1>6, <1>7 DEF Next, vars
<1>9. pc[p] = "submit" /\ chain' = [chain EXCEPT ![job[p].launch] = "accepted"]
  BY <1>8 DEF Submit, SubmitLosesReply
<1> QED BY <1>1, <1>8, <1>9

(* What a fault kept from the file stays listed.                           *)
LEMMA LostGrows == ASSUME TypeInv, [Next]_vars PROVE lost \subseteq lost'
<1>1. ASSUME NEW p \in Invokers, Attempt(p) PROVE lost \subseteq lost'
  BY <1>1 DEF Attempt, RefuseAtWall, PassWall, GiveUp, FundingBlocked,
              Fund, SimulateFails, Simulate, RefuseAttempt, Submit,
              SubmitLosesReply, Observe, AppendAttempt,
              AppendRehearsalVerdict, ChainUnchanged
<1>2. ASSUME NEW p \in Invokers, Account(p) PROVE lost \subseteq lost'
  BY <1>2 DEF Account, NothingToReconcile, ReadLatestAttempt, Track,
              AppendVerdict, NothingToAcknowledge, ReadBlockedSession,
              AppendAcknowledgment, ChainUnchanged
<1>3. ASSUME NEW p \in Invokers, Fail(p) PROVE lost \subseteq lost'
  BY <1>3 DEF Fail, WriteFails, TornAppend, Crash, Forget
<1> QED BY <1>1, <1>2, <1>3 DEF Next, Launch, Land, ChainUnchanged, vars

(* An attempt entry that reaches a readable file records its submission.   *)
LEMMA EntryRecords ==
    ASSUME TypeInv, NEW p \in Invokers, pc[p] = "record",
           job[p].signature # NoSignature,
           lines' = AppendLine(lines, terminated, Entry(p)), Parses(lines')
    PROVE  job[p].launch \in Recorded'
<1>1. /\ lines \in Seq(Lines) /\ terminated \in BOOLEAN
      /\ ~terminated => lines # <<>>
      /\ Entry(p) \in Lines
      /\ job[p].session.at = job[p].launch
  BY EntryType DEF TypeInv, TypeOK, JobsDated, Safeguarded, Writing
<1>2. Submission(Entry(p)) /\ Entry(p).session.at = job[p].launch
  BY <1>1 DEF Entry, AttemptEntry, BlankLine, Submission, RedactValue,
              RedactedText, NoSignature
<1>3. /\ lines' \in Seq(Lines) /\ Len(lines') > 0
      /\ terminated => lines'[Len(lines')] = Entry(p)
      /\ ~terminated => lines'[Len(lines')] = MalformedLine
  BY <1>1, AppendLineFacts
<1>4. lines'[Len(lines')] = Entry(p) /\ Len(lines') \in DOMAIN lines'
  BY <1>1, <1>3 DEF Parses, MalformedLine, BlankLine
<1> QED BY <1>2, <1>4 DEF Recorded

LEMMA GapStep ==
    ASSUME TypeInv, GapHasACause, [Next]_vars PROVE GapHasACause'
<1> SUFFICES ASSUME Parses(lines'), NEW n \in Sent', n \notin lost'
             PROVE  \/ n \in Recorded'
                    \/ \E p \in Invokers : (job[p].launch = n /\ Unrecorded(p))'
  BY DEF GapHasACause
<1>1. n \in Launches /\ n \notin lost
  BY LostGrows DEF Sent
<1>2. CASE n \notin Sent
  <2>1. PICK p \in Invokers : /\ Submit(p) \/ SubmitLosesReply(p)
                              /\ pc[p] = "submit" /\ job[p].launch = n
    BY <1>1, <1>2, WhoSubmits DEF Sent
  <2>2. CASE SubmitLosesReply(p)
    BY <2>1, <2>2 DEF SubmitLosesReply
  <2>3. CASE Submit(p)
    <3> DEFINE signed == [job[p] EXCEPT !.signature = Observed(job[p].launch)]
               sent == [signed EXCEPT !.outcome = "submitted"]
    <3>1. Become(p, "record", sent) \/ Become(p, "observe", signed)
      BY <2>3 DEF Submit
    <3>2. /\ signed.launch = n /\ signed.signature # NoSignature
          /\ sent.launch = n /\ sent.signature # NoSignature
      BY <2>1 DEF TypeInv, TypeOK, Jobs, Observed, NoSignature
    <3> HIDE DEF signed, sent
    <3>3. (job[p].launch = n /\ Unrecorded(p))'
      BY <3>1, <3>2 DEF Become, Unrecorded, TypeInv, TypeOK
    <3> QED BY <3>3
  <2> QED BY <2>1, <2>2, <2>3
<1>3. CASE n \in Recorded
  <2>1. \A i \in DOMAIN lines : i \in DOMAIN lines' /\ lines'[i] = lines[i]
    BY FileGrows
  <2> QED BY <1>3, <2>1 DEF Recorded
<1>4. ASSUME NEW p \in Invokers, job[p].launch = n, Unrecorded(p)
      PROVE  n \in Recorded' \/ (job[p].launch = n /\ Unrecorded(p))'
  <2>1. pc[p] \in {"observe", "record"} /\ job[p].signature # NoSignature
    BY <1>4 DEF Unrecorded
  <2>2. CASE UNCHANGED <<pc, job>>
    BY <1>4, <2>2 DEF Unrecorded
  <2>3. ASSUME NEW q \in Invokers, q # p,
               \/ \E command \in Commands : Launch(q, command)
               \/ Attempt(q) \/ Account(q) \/ Fail(q)
        PROVE  (job[p].launch = n /\ Unrecorded(p))'
    BY <1>4, <2>3, OthersStay DEF Unrecorded
  <2>4. ~\E command \in Commands : Launch(p, command)
    BY <2>1 DEF Launch
  <2>5. CASE Attempt(p)
    <3>1. Observe(p) \/ AppendAttempt(p)
      BY <2>1, <2>5 DEF Attempt, RefuseAtWall, PassWall, GiveUp,
            FundingBlocked, Fund, SimulateFails, Simulate, RefuseAttempt,
            Submit, SubmitLosesReply, AppendRehearsalVerdict
    <3>2. CASE Observe(p)
      <4>1. PICK c, post :
               Become(p, "record", [job[p] EXCEPT
                 !.confirmation = c, !.post = post,
                 !.outcome = IF c = "confirmed" THEN "rehearsed"
                             ELSE "submitted-unconfirmed"])
        BY <3>2 DEF Observe
      <4> DEFINE k == [job[p] EXCEPT
                 !.confirmation = c, !.post = post,
                 !.outcome = IF c = "confirmed" THEN "rehearsed"
                             ELSE "submitted-unconfirmed"]
      <4>2. k.launch = n /\ k.signature # NoSignature
        BY <1>4, <2>1 DEF TypeInv, TypeOK, Jobs
      <4>3. Become(p, "record", k)
        BY <4>1
      <4> HIDE DEF k
      <4> QED BY <4>2, <4>3 DEF Become, Unrecorded, TypeInv, TypeOK
    <3>3. CASE AppendAttempt(p)
      BY <1>4, <2>1, <3>3, EntryRecords DEF AppendAttempt, Write
    <3> QED BY <3>1, <3>2, <3>3
  <2>6. ~Account(p)
    BY <2>1 DEF Account, NothingToReconcile, ReadLatestAttempt, Track,
                AppendVerdict, NothingToAcknowledge, ReadBlockedSession,
                AppendAcknowledgment
  <2>7. CASE Fail(p)
    <3>1. ~Forget(p)
      BY <1>4 DEF Forget
    <3>2. TornAppend(p) /\ lines' = AppendLine(lines, terminated, Entry(p))
          /\ pc[p] = "record"
      BY <2>1, <2>7, <3>1 DEF Fail, WriteFails, TornAppend, Crash, Writing
    <3> QED BY <1>4, <2>1, <3>2, EntryRecords
  <2>8. CASE \E k \in Launches : Land(k)
    BY <2>2, <2>8 DEF Land
  <2> QED BY <2>2, <2>3, <2>4, <2>5, <2>6, <2>7, <2>8 DEF Next, vars
<1>5. Parses(lines)
  BY FileGrows
<1> QED BY <1>1, <1>2, <1>3, <1>4, <1>5 DEF GapHasACause

(* A submission is missing from a readable file only while its own command *)
(* still runs or because a fault cut it off, however the commands overlap. *)
THEOREM GapsHaveCauses == Spec => []GapHasACause
<1>1. Init => GapHasACause
  BY DEF Init, GapHasACause, Sent
<1>2. TypeInv /\ GapHasACause /\ [Next]_vars => TypeInv' /\ GapHasACause'
  BY TypeStep, GapStep
<1> QED BY TypeInit, <1>1, <1>2, PTL DEF Spec

(* With one command at a time, whatever is submitted is submitted onto a   *)
(* readable trail on which every earlier submission is recorded and closed,*)
(* but for those a fault kept from the file.                               *)
THEOREM SettledTrail ==
    ASSUME OneTerminal PROVE Spec => SubmitsOntoSettledTrail
<1>1. ASSUME TypeInv, WallInv, GapHasACause, [Next]_vars, NEW n \in Launches,
             chain[n] = "none", chain'[n] # "none"
      PROVE  /\ Parses(lines) /\ OpenSubmissions(lines) = {}
             /\ Sent \subseteq Recorded \cup lost
  <2>1. PICK p \in Invokers : pc[p] = "submit"
    BY <1>1, WhoSubmits
  <2>2. Parses(lines) /\ OpenSubmissions(lines) = {}
    BY <1>1, <2>1 DEF WallInv, CommandInv, WallStillOpen, Safeguarded
  <2>3. \A q \in Invokers : ~Unrecorded(q)
    BY <2>1 DEF OneTerminal, Unrecorded
  <2> QED BY <1>1, <2>2, <2>3 DEF GapHasACause
<1>2. TypeInv /\ WallInv /\ GapHasACause /\ [Next]_vars =>
        [\A n \in Launches :
            chain[n] = "none" /\ chain'[n] # "none" =>
                /\ Parses(lines) /\ OpenSubmissions(lines) = {}
                /\ Sent \subseteq Recorded \cup lost]_vars
  BY <1>1
<1>3. Init => TypeInv /\ WallInv
  BY TypeInit, WallInit
<1>4. TypeInv /\ WallInv /\ [Next]_vars => TypeInv' /\ WallInv'
  BY TypeStep, WallStep
<1> QED BY <1>2, <1>3, <1>4, GapsHaveCauses, PTL
        DEF Spec, SubmitsOntoSettledTrail

-----------------------------------------------------------------------------
(* Part 4.  The ledger implements the accounting wall, for one command at a*)
(* time.                                                                   *)

OpenSessions(L) == {L[i].session : i \in OpenSubmissions(L)}

(* A first attempt onto a settled file opens at most its own session.      *)
LEMMA AttemptOpensOne ==
    ASSUME NEW L \in Seq(Lines), NEW e \in Lines, OpenSubmissions(L) = {}
    PROVE  OpenSessions(Append(L, e)) \in {{}, {e.session}}
<1> DEFINE M == Append(L, e)
<1>1. /\ M \in Seq(Lines) /\ Len(M) = Len(L) + 1
      /\ DOMAIN L = 1..Len(L) /\ DOMAIN M = 1..Len(M)
      /\ M[Len(M)] = e /\ \A i \in DOMAIN L : M[i] = L[i]
  OBVIOUS
<1> HIDE DEF M
<1>2. ASSUME NEW i \in OpenSubmissions(M) PROVE M[i].session = e.session
  <2>1. i \notin DOMAIN L
    BY <1>1, <1>2 DEF OpenSubmissions
  <2> QED BY <1>1, <1>2, <2>1 DEF OpenSubmissions
<1> QED BY <1>2 DEF OpenSessions, M

(* Accounting for the session of the last line closes everything, or it    *)
(* leaves everything as it is.                                             *)
LEMMA AccountClosesAllOrNothing ==
    ASSUME NEW L \in Seq(Lines), NEW n \in Nat, FileInv(L, n), Parses(L),
           NEW e \in Lines, L # <<>>, e.session = LastLine(L).session,
           e.kind \in {"reconciliation", "manual-acknowledgment"}
    PROVE  OpenSessions(Append(L, e)) \in {{}, OpenSessions(L)}
<1> DEFINE M == Append(L, e)
<1>1. /\ M \in Seq(Lines) /\ Len(M) = Len(L) + 1
      /\ DOMAIN L = 1..Len(L) /\ DOMAIN M = 1..Len(M)
      /\ M[Len(M)] = e /\ \A i \in DOMAIN L : M[i] = L[i]
  OBVIOUS
<1> HIDE DEF M
<1>2. \A i \in DOMAIN M : i = Len(M) \/ i \in DOMAIN L
  BY <1>1
<1>3. ASSUME NEW i \in OpenSubmissions(M)
      PROVE  /\ i \in OpenSubmissions(L) /\ M[i] = L[i]
             /\ L[i].session = e.session
  <2>1. i \in DOMAIN L /\ M[i] = L[i]
    BY <1>1, <1>2, <1>3 DEF OpenSubmissions, Submission
  <2>2. i \in OpenSubmissions(L)
    BY <1>1, <1>3, <2>1 DEF OpenSubmissions
  <2> QED BY <2>1, <2>2 DEF FileInv, OnlyTheLastIsOpen
<1>4. CASE Closes(e, e.session)
  <2>1. ASSUME NEW i \in OpenSubmissions(M) PROVE FALSE
    <3>1. i \in DOMAIN L /\ M[i].session = e.session
      BY <1>3, <2>1 DEF OpenSubmissions
    <3>2. Len(M) \in DOMAIN M /\ Len(M) > i
      BY <1>1, <3>1
    <3> QED BY <1>1, <1>4, <2>1, <3>1, <3>2 DEF OpenSubmissions
  <2> QED BY <2>1 DEF OpenSessions, M
<1>5. CASE ~Closes(e, e.session)
  <2>1. ASSUME NEW i \in OpenSubmissions(L)
        PROVE  i \in OpenSubmissions(M) /\ M[i] = L[i]
    <3>1. /\ i \in DOMAIN L /\ i \in DOMAIN M /\ M[i] = L[i]
          /\ Submission(M[i]) /\ L[i].session = e.session
      BY <1>1, <2>1 DEF OpenSubmissions, FileInv, OnlyTheLastIsOpen
    <3>2. ASSUME NEW k \in DOMAIN M, k > i PROVE ~Closes(M[k], M[i].session)
      <4>1. CASE k = Len(M)
        BY <1>1, <1>5, <3>1, <4>1
      <4>2. CASE k \in DOMAIN L
        BY <1>1, <2>1, <3>1, <3>2, <4>2 DEF OpenSubmissions
      <4> QED BY <1>2, <4>1, <4>2
    <3> QED BY <3>1, <3>2 DEF OpenSubmissions
  <2> QED BY <1>3, <2>1 DEF OpenSessions, M
<1> QED BY <1>4, <1>5

LEMMA WallStepRefines ==
    ASSUME OneTerminal, TypeInv, WallInv, [Next]_vars
    PROVE  [Wall!Next]_Wall!vars
<1>1. /\ lines \in Seq(Lines) /\ launches \in Nat /\ terminated \in BOOLEAN
      /\ ~terminated => lines # <<>>
      /\ FileInv(lines, launches)
  BY MaxLaunchesAssumption DEF TypeInv, TypeOK, WallInv
<1>2. Pending = (IF Parses(lines) THEN OpenSessions(lines) ELSE {})
      /\ Pending' = (IF Parses(lines') THEN OpenSessions(lines') ELSE {})
  BY DEF Pending, OpenSessions
<1> SUFFICES \/ Pending' = Pending /\ (Parses(lines') <=> Parses(lines))
             \/ Parses(lines) /\ ~Parses(lines')
             \/ /\ Parses(lines) /\ Parses(lines')
                /\ \/ Pending' = {}
                   \/ /\ Pending = {}
                      /\ \E s \in [at : Launches,
                                   key : SignerKeys \cup {"unsigned"}] :
                            Pending' = {s}
  BY <1>2 DEF Wall!Next, Wall!vars, Wall!Record, Wall!Account, Wall!Damage
<1>3. CASE UNCHANGED <<lines, terminated>>
  BY <1>3 DEF Pending
<1>4. CASE ~Parses(lines)
  <2>1. ~Parses(lines')
    BY <1>4, FileGrows
  <2> QED BY <1>2, <1>4, <2>1
<1>5. CASE ~Parses(lines')
  BY <1>4, <1>5
<1>6. ASSUME Parses(lines), Parses(lines'), NEW p \in Invokers,
             pc[p] \in Writing,
             \/ lines' = AppendLine(lines, terminated, Entry(p))
             \/ lines' = AppendLine(lines, terminated, MalformedLine)
      PROVE  \/ Pending' = Pending
             \/ Pending' = {}
             \/ /\ Pending = {}
                /\ \E s \in [at : Launches,
                             key : SignerKeys \cup {"unsigned"}] :
                      Pending' = {s}
  <2> DEFINE e == Entry(p)
             j == job[p]
  <2>1. /\ e \in Lines /\ e.session = j.session /\ e.session.at <= launches
        /\ CommandInv(lines, launches, pc[p], j) /\ MalformedLine \in Lines
        /\ MalformedLine.session.at = 0
    <3>1. e.session = j.session
      BY DEF Entry, AttemptEntry, AcknowledgmentEntry, ReconciliationEntry,
             BlankLine
    <3>2. MalformedLine.session.at = 0
      BY DEF MalformedLine, BlankLine, NoSession
    <3> QED BY <1>6, <3>1, <3>2, EntryType, MalformedType
            DEF WallInv, CommandInv, LatestLaunch
  <2>2. lines' = Append(lines, e)
    <3>1. terminated /\ lines' = AppendLine(lines, terminated, e)
      BY <1>1, <1>6, <2>1, SpoiledFile DEF FileInv
    <3> QED BY <3>1 DEF AppendLine
  <2>3. CASE pc[p] = "record"
    <3>1. OpenSubmissions(lines) = {}
      BY <2>1, <2>3 DEF CommandInv, WallStillOpen, Safeguarded
    <3>2. OpenSessions(lines) = {}
      BY <3>1 DEF OpenSessions
    <3>3. e.session \in [at : Launches, key : SignerKeys \cup {"unsigned"}]
      <4>1. j.session.at \in Launches /\ j.session \in Sessions
        BY <2>3 DEF TypeInv, TypeOK, JobsDated, Safeguarded, Jobs
      <4> QED BY <2>1, <4>1 DEF Sessions
    <3>4. Pending' \in {{}, {e.session}}
      BY <1>1, <1>2, <2>1, <2>2, <3>1, AttemptOpensOne
    <3> QED BY <1>2, <3>2, <3>3, <3>4
  <2>4. CASE pc[p] \in {"settle", "conclude", "sign-off"}
    <3>1. lines # <<>> /\ e.session = LastLine(lines).session
      <4>1. CASE pc[p] = "settle"
        BY <1>6, <2>1, <4>1
           DEF CommandInv, SettlesItsOwn, AttemptEntry, BlankLine
      <4>2. CASE pc[p] # "settle"
        BY <2>1, <2>4, <4>2 DEF CommandInv, AccountsForTheLast
      <4> QED BY <4>1, <4>2
    <3>2. e.kind \in {"reconciliation", "manual-acknowledgment"}
      BY <2>4 DEF Entry, ReconciliationEntry, AcknowledgmentEntry, BlankLine
    <3>3. Pending' \in {{}, OpenSessions(lines)}
      BY <1>1, <1>2, <1>6, <2>1, <2>2, <3>1, <3>2, AccountClosesAllOrNothing
    <3> QED BY <1>2, <1>6, <3>3
  <2> QED BY <1>6, <2>3, <2>4 DEF Writing
<1>7. ASSUME Parses(lines), Parses(lines'),
             ~UNCHANGED <<lines, terminated>>
      PROVE  \/ Pending' = Pending
             \/ Pending' = {}
             \/ /\ Pending = {}
                /\ \E s \in [at : Launches,
                             key : SignerKeys \cup {"unsigned"}] :
                      Pending' = {s}
  BY <1>6, <1>7, FileStep
<1> QED BY <1>3, <1>4, <1>5, <1>7

(* With one command at a time, the four commands over the ledger implement *)
(* the accounting wall: at most one recorded submission is unaccounted for,*)
(* a new one is recorded only when none is, and a damaged trail accepts    *)
(* nothing more.                                                           *)
THEOREM WallImplemented ==
    ASSUME OneTerminal PROVE Spec => ImplementsAccountingWall
<1>1. Init => Wall!Init
  BY DEF Init, Wall!Init, Pending, OpenSubmissions, Parses
<1>2. Init => TypeInv /\ WallInv
  BY TypeInit, WallInit
<1>3. TypeInv /\ WallInv /\ [Next]_vars => TypeInv' /\ WallInv'
  BY TypeStep, WallStep
<1>4. TypeInv /\ WallInv /\ [Next]_vars => [Wall!Next]_Wall!vars
  BY WallStepRefines
<1> QED BY <1>1, <1>2, <1>3, <1>4, PTL
        DEF Spec, ImplementsAccountingWall, Wall!Spec

-----------------------------------------------------------------------------
(* What the trail says is what happened, for any number of commands that   *)
(* overlap, and every fault.                                               *)

(* The places of an attempt that has not submitted.                        *)
Before == {"open", "fund", "simulate", "submit"}

UnsentOutcomes == {"refused", "blocked", "devnet-funding-blocked"}

Landed == {n \in Launches : chain[n] = "landed"}

Unsubmitted == {n \in Launches : chain[n] = "none"}

(* The launches that have sent nothing and never will, or whose answer was *)
(* lost.                                                                   *)
QuietLaunches ==
    {n \in Launches :
        /\ n <= launches
        /\ \/ n \in lost
           \/ /\ chain[n] = "none"
              /\ \A p \in Invokers : pc[p] \in Before => job[p].launch # n}

(* A line, and a command's memory of one, that denies a submission.        *)
LineDenies(line) ==
    \/ line.verdict \in Unsent
    \/ line.outcome \in UnsentOutcomes
    \/ line.kind = "execution-attempt" /\ line.signature = NoSignature

JobDenies(j) == j.outcome \in UnsentOutcomes \/ j.signature = NoSignature

TrueLine(line) ==
    /\ LineDenies(line) => line.session.at \in QuietLaunches
    /\ line.verdict = "reconciled" => line.session.at \in Landed

(* What a command holds in memory and may append later is true already,    *)
(* and stays true while others run.  execution:session:reconcile reads the *)
(* signature from the file, where it is redacted, and gets no answer.      *)
TrueMemory(place, j) ==
    /\ place \in Before => j.launch \in Unsubmitted
    /\ place \in Before \cup {"observe"} => j.confirmation = NotTracked
    /\ place = "observe" => j.signature # NoSignature
    /\ place \in {"record", "settle"} =>
          /\ j.session.at = j.launch
          /\ JobDenies(j) => j.launch \in QuietLaunches
          /\ j.confirmation \in {"confirmed", "finalized"} =>
                j.launch \in Landed
          /\ j.confirmation # "dropped"
    /\ place = "track" => j.signature = RedactedText
    /\ place \in {"track", "conclude"} =>
          /\ JobDenies(j) => j.session.at \in QuietLaunches
          /\ j.confirmation \in {NotTracked, "rpc-unavailable"}

(* Two running commands are two launches, and the launches to come have    *)
(* sent nothing.                                                           *)
LaunchesApart ==
    /\ \A p \in Invokers : pc[p] # "idle" => job[p].launch <= launches
    /\ \A p, q \in Invokers :
          /\ pc[p] # "idle" /\ pc[q] # "idle"
          /\ job[p].launch = job[q].launch
          => p = q
    /\ \A n \in Launches : n > launches => n \in Unsubmitted

TruthInv ==
    /\ LaunchesApart
    /\ \A i \in DOMAIN lines : TrueLine(lines[i])
    /\ \A p \in Invokers : TrueMemory(pc[p], job[p])

-----------------------------------------------------------------------------
(* What a step does to the launches and to the chain.                      *)

(* A step of a command launches it, ends it, or moves it on; what has      *)
(* submitted does not go back.                                             *)
LEMMA ActorMoves ==
    ASSUME TypeInv, NEW p \in Invokers,
           Attempt(p) \/ Account(p) \/ Fail(p)
    PROVE  /\ pc[p] # "idle" /\ launches' = launches
           /\ \/ pc'[p] = "idle"
              \/ /\ job'[p].launch = job[p].launch
                 /\ pc'[p] \in Before => pc[p] \in Before
<1>0. job[p] \in Jobs /\ pc \in [Invokers -> Places] /\ job \in [Invokers -> Jobs]
  BY DEF TypeInv, TypeOK
<1>a. ASSUME NEW place, NEW j, Become(p, place, j), j.launch = job[p].launch,
             place \in Before => pc[p] \in Before
      PROVE  /\ job'[p].launch = job[p].launch
             /\ pc'[p] \in Before => pc[p] \in Before
  BY <1>0, <1>a DEF Become
<1>b. Finish(p) => pc'[p] = "idle"
  BY <1>0 DEF Finish, Become
<1>1. CASE RefuseAtWall(p) \/ GiveUp(p) \/ NothingToReconcile(p)
           \/ NothingToAcknowledge(p)
  BY <1>1, <1>b DEF RefuseAtWall, GiveUp, NothingToReconcile,
                    NothingToAcknowledge
<1>2. CASE AppendRehearsalVerdict(p) \/ AppendVerdict(p)
           \/ AppendAcknowledgment(p)
  BY <1>2, <1>b DEF AppendRehearsalVerdict, AppendVerdict, AppendAcknowledgment
<1>3. CASE Fail(p)
  BY <1>3, <1>b DEF Fail, WriteFails, TornAppend, Crash, Writing
<1>4. CASE PassWall(p)
  <2>1. PICK key \in SignerKeys :
           Become(p, IF job[p].command = "send" THEN "submit" ELSE "fund",
                  [job[p] EXCEPT
                      !.session = DeriveSessionId(job[p].launch, key)])
    BY <1>4 DEF PassWall
  <2> QED BY <1>0, <1>a, <1>4, <2>1 DEF PassWall, Before, Jobs
<1>5. CASE FundingBlocked(p)
  <2>1. PICK b : Become(p, "record", [job[p] EXCEPT
                        !.outcome = "devnet-funding-blocked", !.balance = b])
    BY <1>5 DEF FundingBlocked
  <2> QED BY <1>0, <1>a, <1>5, <2>1 DEF FundingBlocked, Before, Jobs
<1>6. CASE Fund(p)
  <2>1. PICK l : Become(p, "simulate", [job[p] EXCEPT !.balance = Observed(l)])
    BY <1>6 DEF Fund
  <2> QED BY <1>0, <1>a, <1>6, <2>1 DEF Fund, Before, Jobs
<1>7. CASE SimulateFails(p) \/ Simulate(p)
  BY <1>0, <1>a, <1>7 DEF SimulateFails, Simulate, Before, Jobs
<1>8. CASE RefuseAttempt(p) \/ SubmitLosesReply(p)
  <2>1. Refused(job[p]).launch = job[p].launch
    BY <1>0 DEF Refused, Jobs
  <2> QED BY <1>0, <1>a, <1>8, <2>1 DEF RefuseAttempt, SubmitLosesReply, Before
<1>9. CASE Submit(p)
  <2> DEFINE signed == [job[p] EXCEPT !.signature = Observed(job[p].launch)]
             sent == [signed EXCEPT !.outcome = "submitted"]
  <2>1. Become(p, "record", sent) \/ Become(p, "observe", signed)
    BY <1>9 DEF Submit
  <2>2. signed.launch = job[p].launch /\ sent.launch = job[p].launch
    BY <1>0 DEF Jobs
  <2> HIDE DEF signed, sent
  <2> QED BY <1>0, <1>a, <1>9, <2>1, <2>2 DEF Submit, Before
<1>10. CASE Observe(p)
  <2>1. PICK c, b : Become(p, "record", [job[p] EXCEPT
                !.confirmation = c, !.post = b,
                !.outcome = IF c = "confirmed" THEN "rehearsed"
                            ELSE "submitted-unconfirmed"])
    BY <1>10 DEF Observe
  <2> QED BY <1>0, <1>a, <1>10, <2>1 DEF Observe, Before, Jobs
<1>11. CASE AppendAttempt(p)
  BY <1>0, <1>a, <1>b, <1>11 DEF AppendAttempt, Before
<1>12. CASE ReadLatestAttempt(p)
  <2>1. PICK i \in LatestAttempts :
           Become(p, IF lines[i].signature = NoSignature
                     THEN "conclude" ELSE "track",
                  [job[p] EXCEPT !.session = lines[i].session,
                                 !.outcome = lines[i].outcome,
                                 !.signature = lines[i].signature,
                                 !.balance = lines[i].balance])
    BY <1>12 DEF ReadLatestAttempt
  <2> QED BY <1>0, <1>a, <1>12, <2>1 DEF ReadLatestAttempt, Before, Jobs
<1>13. CASE Track(p)
  <2>1. PICK c, f, b : Become(p, "conclude", [job[p] EXCEPT
                !.confirmation = c, !.fee = f, !.post = b])
    BY <1>13 DEF Track
  <2> QED BY <1>0, <1>a, <1>13, <2>1 DEF Track, Before, Jobs
<1>14. CASE ReadBlockedSession(p)
  BY <1>0, <1>a, <1>14 DEF ReadBlockedSession, Before, Jobs
<1> QED BY <1>1, <1>2, <1>3, <1>4, <1>5, <1>6, <1>7, <1>8, <1>9, <1>10, <1>11,
           <1>12, <1>13, <1>14 DEF Attempt, Account

(* A command that runs after a step ran before it, under the same launch,  *)
(* or is the latest launch.                                                *)
LEMMA RunningStep ==
    ASSUME TypeInv, [Next]_vars, NEW p \in Invokers, pc'[p] # "idle"
    PROVE  \/ /\ pc[p] # "idle" /\ job'[p].launch = job[p].launch
              /\ pc'[p] \in Before => pc[p] \in Before
           \/ /\ \E command \in Commands : Launch(p, command)
              /\ job'[p].launch = launches + 1 /\ launches' = launches + 1
<1>1. CASE UNCHANGED <<pc, job>>
  BY <1>1
<1>2. ASSUME NEW q \in Invokers, q # p,
             \/ \E command \in Commands : Launch(q, command)
             \/ Attempt(q) \/ Account(q) \/ Fail(q)
      PROVE  pc'[p] = pc[p] /\ job'[p] = job[p]
  BY <1>2, OthersStay
<1>3. ASSUME NEW command \in Commands, Launch(p, command)
      PROVE  job'[p].launch = launches + 1 /\ launches' = launches + 1
  BY <1>3 DEF Launch, Become, TypeInv, TypeOK, NoJob
<1>4. CASE Attempt(p) \/ Account(p) \/ Fail(p)
  BY <1>4, ActorMoves
<1>5. CASE \E n \in Launches : Land(n)
  BY <1>1, <1>5 DEF Land
<1> QED BY <1>1, <1>2, <1>3, <1>4, <1>5 DEF Next, vars

LEMMA LaunchesGrow ==
    ASSUME TypeInv, [Next]_vars
    PROVE  launches \in Nat /\ launches' \in Nat /\ launches <= launches'
<1>1. launches \in Nat
  BY MaxLaunchesAssumption DEF TypeInv, TypeOK
<1>2. ASSUME NEW p \in Invokers, NEW command \in Commands, Launch(p, command)
      PROVE  launches' = launches + 1
  BY <1>2 DEF Launch
<1>3. CASE UNCHANGED vars \/ \E n \in Launches : Land(n)
  BY <1>1, <1>3 DEF vars, Land
<1> QED BY <1>1, <1>2, <1>3, ActorMoves DEF Next

(* The chain changes by a submission onto a launch that sent nothing, or   *)
(* by a decision about one that was accepted.                              *)
LEMMA LandedStays ==
    ASSUME TypeInv, TruthInv, [Next]_vars PROVE Landed \subseteq Landed'
<1> SUFFICES ASSUME NEW n \in Launches, chain[n] = "landed"
             PROVE  chain'[n] = "landed"
  BY DEF Landed
<1>1. chain \in [Launches -> {"none", "accepted", "landed", "failed"}]
  BY DEF TypeInv, TypeOK
<1>2. ASSUME NEW k \in Launches, Land(k) PROVE chain'[n] = "landed"
  BY <1>1, <1>2 DEF Land
<1>3. ASSUME NEW p \in Invokers, \E command \in Commands : Launch(p, command)
      PROVE  chain' = chain
  BY <1>3 DEF Launch, ChainUnchanged
<1>4. ASSUME NEW p \in Invokers, Submit(p) \/ SubmitLosesReply(p)
      PROVE  chain'[n] = "landed"
  <2>1. pc[p] = "submit" /\ chain' = [chain EXCEPT ![job[p].launch] = "accepted"]
    BY <1>4 DEF Submit, SubmitLosesReply
  <2>2. job[p].launch \in Unsubmitted
    BY <2>1 DEF TruthInv, TrueMemory, Before
  <2> QED BY <1>1, <2>1, <2>2 DEF Unsubmitted
<1>5. ASSUME NEW p \in Invokers, Attempt(p), ~Submit(p), ~SubmitLosesReply(p)
      PROVE  chain' = chain
  BY <1>5 DEF Attempt, RefuseAtWall, PassWall, GiveUp, FundingBlocked, Fund,
              SimulateFails, Simulate, RefuseAttempt, Observe,
              AppendAttempt, AppendRehearsalVerdict, ChainUnchanged
<1>6. ASSUME NEW p \in Invokers, Account(p) PROVE chain' = chain
  BY <1>6 DEF Account, NothingToReconcile, ReadLatestAttempt, Track,
              AppendVerdict, NothingToAcknowledge, ReadBlockedSession,
              AppendAcknowledgment, ChainUnchanged
<1>7. ASSUME NEW p \in Invokers, Fail(p) PROVE chain' = chain
  BY <1>7 DEF Fail, WriteFails, TornAppend, Crash
<1> QED BY <1>2, <1>3, <1>4, <1>5, <1>6, <1>7 DEF Next, vars

(* What sent nothing and never will, never does.                           *)
LEMMA QuietStays ==
    ASSUME TypeInv, [Next]_vars PROVE QuietLaunches \subseteq QuietLaunches'
<1> SUFFICES ASSUME NEW n \in QuietLaunches PROVE n \in QuietLaunches'
  OBVIOUS
<1>1. n \in Launches /\ n <= launches /\ n \in Nat
  BY MaxLaunchesAssumption DEF QuietLaunches, Launches
<1>2. n <= launches'
  BY <1>1, LaunchesGrow
<1>3. CASE n \in lost
  BY <1>1, <1>2, <1>3, LostGrows DEF QuietLaunches
<1>4. CASE /\ chain[n] = "none"
           /\ \A p \in Invokers : pc[p] \in Before => job[p].launch # n
  <2>1. chain'[n] = "none"
    BY <1>1, <1>4, WhoSubmits DEF Before
  <2>2. ASSUME NEW p \in Invokers, pc'[p] \in Before
        PROVE  job'[p].launch # n
    BY <1>1, <1>4, <2>2, RunningStep, LaunchesGrow DEF Before
  <2> QED BY <1>1, <1>2, <2>1, <2>2 DEF QuietLaunches
<1> QED BY <1>3, <1>4 DEF QuietLaunches

LEMMA ApartStep ==
    ASSUME TypeInv, TruthInv, [Next]_vars PROVE LaunchesApart'
<1>0. launches \in Nat /\ launches' \in Nat /\ launches <= launches'
      /\ \A p \in Invokers : job[p].launch \in Nat
  BY LaunchesGrow, MaxLaunchesAssumption DEF TypeInv, TypeOK, Jobs
<1>1. ASSUME NEW p \in Invokers, pc'[p] # "idle"
      PROVE  job'[p].launch <= launches'
  BY <1>0, <1>1, RunningStep DEF TruthInv, LaunchesApart
<1>2. ASSUME NEW p \in Invokers, NEW q \in Invokers,
             pc'[p] # "idle", pc'[q] # "idle",
             job'[p].launch = job'[q].launch, p # q
      PROVE  FALSE
  <2>1. ASSUME NEW r \in Invokers, NEW s \in Invokers, r # s,
               \E command \in Commands : Launch(r, command)
        PROVE  pc'[s] = pc[s] /\ job'[s] = job[s]
    BY <2>1, OthersStay
  <2>2. \/ pc[p] # "idle" /\ job'[p].launch = job[p].launch
        \/ /\ \E command \in Commands : Launch(p, command)
           /\ job'[p].launch = launches + 1
    BY <1>2, RunningStep
  <2>3. \/ pc[q] # "idle" /\ job'[q].launch = job[q].launch
        \/ /\ \E command \in Commands : Launch(q, command)
           /\ job'[q].launch = launches + 1
    BY <1>2, RunningStep
  <2>4. CASE /\ pc[p] # "idle" /\ job'[p].launch = job[p].launch
             /\ pc[q] # "idle" /\ job'[q].launch = job[q].launch
    BY <1>2, <2>4 DEF TruthInv, LaunchesApart
  <2>0. ASSUME NEW r \in Invokers, pc[r] # "idle"
        PROVE  job[r].launch # launches + 1
    BY <1>0, <2>0 DEF TruthInv, LaunchesApart
  <2>5. CASE job'[p].launch = launches + 1 /\ pc'[q] = pc[q] /\ job'[q] = job[q]
    BY <1>2, <2>0, <2>5
  <2>6. CASE job'[q].launch = launches + 1 /\ pc'[p] = pc[p] /\ job'[p] = job[p]
    BY <1>2, <2>0, <2>6
  <2> QED BY <1>2, <2>1, <2>2, <2>3, <2>4, <2>5, <2>6
<1>3. ASSUME NEW n \in Launches, n > launches' PROVE n \in Unsubmitted'
  <2>1. n \in Nat
    BY MaxLaunchesAssumption DEF Launches
  <2>2. chain[n] = "none"
    BY <1>0, <1>3, <2>1 DEF TruthInv, LaunchesApart, Unsubmitted
  <2>3. chain'[n] = "none"
    BY <1>0, <1>3, <2>1, <2>2, WhoSubmits DEF TruthInv, LaunchesApart
  <2> QED BY <2>3 DEF Unsubmitted
<1> QED BY <1>1, <1>2, <1>3 DEF LaunchesApart

-----------------------------------------------------------------------------
(* The file.                                                               *)

(* A reconciled verdict rests on a confirmation, or on a dropped           *)
(* transaction.                                                            *)
LEMMA ReconciledNeeds ==
    ASSUME NEW f, BuildReconciliationReport(f) = "reconciled"
    PROVE  f.confirmation \in {"confirmed", "finalized", "dropped"}
  BY DEF BuildReconciliationReport, ConfirmationVerdict

(* What a command is about to append is true.                              *)
LEMMA EntryIsTrue ==
    ASSUME TypeInv, TruthInv, NEW p \in Invokers, pc[p] \in Writing
    PROVE  TrueLine(Entry(p))
<1>0. TrueMemory(pc[p], job[p])
  BY DEF TruthInv
<1>1. CASE pc[p] = "record"
  <2>1. /\ Entry(p).outcome = job[p].outcome /\ Entry(p).verdict = "none"
        /\ Entry(p).session = job[p].session
        /\ Entry(p).signature = RedactValue(job[p].signature)
    BY <1>1 DEF Entry, AttemptEntry, BlankLine
  <2>2. LineDenies(Entry(p)) => JobDenies(job[p])
    BY <2>1 DEF LineDenies, JobDenies, Unsent, RedactValue, RedactedText,
                NoSignature
  <2> QED BY <1>0, <1>1, <2>1, <2>2 DEF TrueMemory, TrueLine
<1>2. CASE pc[p] = "sign-off"
  <2>1. /\ Entry(p).outcome = "none" /\ Entry(p).verdict = "none"
        /\ Entry(p).kind = "manual-acknowledgment"
    BY <1>2 DEF Entry, AcknowledgmentEntry, BlankLine
  <2> QED BY <2>1 DEF TrueLine, LineDenies, Unsent, UnsentOutcomes
<1>3. CASE pc[p] \in {"settle", "conclude"}
  <2>1. /\ Entry(p).outcome = "none" /\ Entry(p).kind = "reconciliation"
        /\ Entry(p).session = job[p].session
        /\ Entry(p).verdict = Verdict(job[p])
    BY <1>3 DEF Entry, ReconciliationEntry, BlankLine
  <2>2. Verdict(job[p]) \in Unsent => JobDenies(job[p])
    BY SentIsNotUnsent DEF Verdict, Unsent, JobDenies, UnsentOutcomes
  <2>3. Verdict(job[p]) = "reconciled" =>
           job[p].confirmation \in {"confirmed", "finalized", "dropped"}
    BY ReconciledNeeds DEF Verdict
  <2>4. LineDenies(Entry(p)) => JobDenies(job[p])
    BY <2>1, <2>2 DEF LineDenies, UnsentOutcomes
  <2> QED BY <1>0, <1>3, <2>1, <2>3, <2>4
          DEF TrueMemory, TrueLine, NotTracked
<1> QED BY <1>1, <1>2, <1>3 DEF Writing

(* A line that was true stays true.                                        *)
LEMMA TrueLineStays ==
    ASSUME TypeInv, TruthInv, [Next]_vars, NEW line, TrueLine(line)
    PROVE  TrueLine(line)'
BY QuietStays, LandedStays DEF TrueLine, LineDenies

LEMMA LinesStep ==
    ASSUME TypeInv, TruthInv, [Next]_vars
    PROVE  \A i \in DOMAIN lines' : TrueLine(lines[i])'
<1>1. /\ lines \in Seq(Lines) /\ terminated \in BOOLEAN
      /\ ~terminated => lines # <<>>
  BY DEF TypeInv, TypeOK
<1>2. CASE UNCHANGED <<lines, terminated>>
  <2>1. ASSUME NEW i \in DOMAIN lines' PROVE TrueLine(lines[i])'
    <3>1. TrueLine(lines[i])
      BY <1>2 DEF TruthInv
    <3> QED BY <1>2, <3>1, QuietStays, LandedStays DEF TrueLine, LineDenies
  <2> QED BY <2>1
<1>3. TrueLine(MalformedLine)
  BY DEF TrueLine, LineDenies, MalformedLine, BlankLine, Unsent,
         UnsentOutcomes
<1>4. ASSUME NEW e \in Lines, TrueLine(e),
             lines' = AppendLine(lines, terminated, e),
             NEW i \in DOMAIN lines'
      PROVE  TrueLine(lines[i])'
  <2>1. /\ lines' \in Seq(Lines)
        /\ terminated => /\ Len(lines') = Len(lines) + 1
                         /\ lines'[Len(lines')] = e
                         /\ \A k \in DOMAIN lines : lines'[k] = lines[k]
        /\ ~terminated =>
              /\ Len(lines') = Len(lines)
              /\ lines'[Len(lines')] = MalformedLine
              /\ \A k \in DOMAIN lines :
                    k # Len(lines) => lines'[k] = lines[k]
    BY <1>1, <1>4, AppendLineFacts
  <2>2. \/ lines'[i] = e \/ lines'[i] = MalformedLine
        \/ i \in DOMAIN lines /\ lines'[i] = lines[i]
    BY <1>1, <1>4, <2>1
  <2>3. TrueLine(lines'[i])
    BY <1>3, <1>4, <2>2 DEF TruthInv
  <2> QED BY <2>3, QuietStays, LandedStays DEF TrueLine, LineDenies
<1>5. ASSUME NEW p \in Invokers, pc[p] \in Writing
      PROVE  Entry(p) \in Lines /\ TrueLine(Entry(p))
  BY <1>5, EntryType, EntryIsTrue
<1> QED BY <1>2, <1>3, <1>4, <1>5, FileStep, MalformedType

-----------------------------------------------------------------------------
(* The memory of the commands.                                             *)

(* An attempt that goes to its record without a submission stays quiet.    *)
LEMMA BecomesQuiet ==
    ASSUME TypeInv, TruthInv, [Next]_vars, NEW p \in Invokers,
           pc[p] \in Before, pc'[p] \notin Before,
           \A q \in Invokers : q # p => pc'[q] = pc[q] /\ job'[q] = job[q],
           launches' = launches,
           chain' = chain \/ job[p].launch \in lost'
    PROVE  job[p].launch \in QuietLaunches'
<1>1. job[p].launch \in Launches /\ job[p].launch <= launches
  BY DEF TypeInv, JobsDated, TruthInv, LaunchesApart, Before
<1>2. chain[job[p].launch] = "none"
  BY DEF TruthInv, TrueMemory, Unsubmitted
<1>3. ASSUME NEW q \in Invokers, pc'[q] \in Before
      PROVE  job'[q].launch # job[p].launch
  BY <1>3 DEF TruthInv, LaunchesApart, Before
<1> QED BY <1>1, <1>2, <1>3 DEF QuietLaunches

(* A command that did not move remembers what is still true.               *)
LEMMA MemoryKept ==
    ASSUME TypeInv, TruthInv, [Next]_vars, NEW p \in Invokers,
           pc'[p] = pc[p], job'[p] = job[p]
    PROVE  TrueMemory(pc[p], job[p])'
<1>1. TrueMemory(pc[p], job[p])
  BY DEF TruthInv
<1>2. ASSUME pc[p] \in Before PROVE job[p].launch \in Unsubmitted'
  <2>1. job[p].launch \in Launches /\ chain[job[p].launch] = "none"
    BY <1>1, <1>2 DEF TrueMemory, Unsubmitted
  <2>2. ASSUME NEW q \in Invokers, Submit(q) \/ SubmitLosesReply(q),
               pc[q] = "submit", job[q].launch = job[p].launch
        PROVE  FALSE
    <3>1. q = p
      BY <1>2, <2>2 DEF TruthInv, LaunchesApart, Before
    <3>2. pc'[q] # "submit"
      BY <2>2 DEF Submit, SubmitLosesReply, Become, TypeInv, TypeOK
    <3> QED BY <2>2, <3>1, <3>2
  <2> QED BY <2>1, <2>2, WhoSubmits DEF Unsubmitted
<1> QED BY <1>1, <1>2, QuietStays, LandedStays DEF TrueMemory, JobDenies

(* A command that ends or is launched remembers nothing.                   *)
LEMMA FinishForgets ==
    ASSUME TypeInv, NEW p \in Invokers, Finish(p)
    PROVE  TrueMemory(pc[p], job[p])'
<1>1. pc'[p] = "idle"
  BY DEF Finish, Become, TypeInv, TypeOK
<1> QED BY <1>1 DEF TrueMemory, Before

LEMMA LaunchIsFresh ==
    ASSUME TypeInv, TruthInv, NEW p \in Invokers, NEW command \in Commands,
           Launch(p, command)
    PROVE  TrueMemory(pc[p], job[p])'
<1>1. /\ pc'[p] = "open" /\ job'[p].launch = launches + 1
      /\ job'[p].confirmation = NotTracked /\ chain' = chain
      /\ launches < MaxLaunches
  BY DEF Launch, Become, TypeInv, TypeOK, NoJob, ChainUnchanged
<1>2. launches \in Nat /\ launches + 1 \in Launches
      /\ launches + 1 > launches
  BY <1>1, MaxLaunchesAssumption DEF TypeInv, TypeOK, Launches
<1>3. launches + 1 \in Unsubmitted
  BY <1>2 DEF TruthInv, LaunchesApart
<1> QED BY <1>1, <1>3 DEF TrueMemory, Before, Unsubmitted

(* The attempt up to its submission.                                       *)
LEMMA AttemptMemory ==
    ASSUME TypeInv, TruthInv, [Next]_vars, NEW p \in Invokers, Attempt(p)
    PROVE  TrueMemory(pc[p], job[p])'
<1>0. /\ job[p] \in Jobs /\ pc \in [Invokers -> Places]
      /\ job \in [Invokers -> Jobs]
      /\ TrueMemory(pc[p], job[p])
      /\ pc[p] \in Safeguarded => job[p].session.at = job[p].launch
  BY DEF TypeInv, TypeOK, TruthInv, JobsDated
<1>1. ASSUME NEW place, NEW j, Become(p, place, j)
      PROVE  pc'[p] = place /\ job'[p] = j
  BY <1>0, <1>1 DEF Become
<1>2. ASSUME NEW q \in Invokers, q # p
      PROVE  pc'[q] = pc[q] /\ job'[q] = job[q]
  BY <1>2, OthersStay
<1>3. ASSUME pc[p] \in Before, pc'[p] \notin Before, launches' = launches,
             chain' = chain \/ job[p].launch \in lost'
      PROVE  job[p].launch \in QuietLaunches'
  BY <1>2, <1>3, BecomesQuiet
<1>4. CASE RefuseAtWall(p) \/ GiveUp(p) \/ AppendRehearsalVerdict(p)
  BY <1>4, FinishForgets DEF RefuseAtWall, GiveUp, AppendRehearsalVerdict
<1>5. CASE PassWall(p)
  <2>1. PICK key \in SignerKeys :
           Become(p, IF job[p].command = "send" THEN "submit" ELSE "fund",
                  [job[p] EXCEPT
                      !.session = DeriveSessionId(job[p].launch, key)])
    BY <1>5 DEF PassWall
  <2>2. /\ pc'[p] \in {"submit", "fund"} /\ job'[p].launch = job[p].launch
        /\ job'[p].confirmation = job[p].confirmation
    BY <1>0, <1>1, <2>1 DEF Jobs
  <2> QED BY <1>0, <1>5, <2>2
          DEF PassWall, TrueMemory, Before, Unsubmitted, ChainUnchanged
<1>6. CASE FundingBlocked(p)
  <2>1. PICK b : Become(p, "record", [job[p] EXCEPT
                        !.outcome = "devnet-funding-blocked", !.balance = b])
    BY <1>6 DEF FundingBlocked
  <2>2. /\ pc'[p] = "record" /\ job'[p].launch = job[p].launch
        /\ job'[p].confirmation = job[p].confirmation
        /\ job'[p].session = job[p].session
    BY <1>0, <1>1, <2>1 DEF Jobs
  <2>3. job[p].launch \in QuietLaunches'
    BY <1>3, <1>6, <2>2 DEF FundingBlocked, Before, ChainUnchanged
  <2> QED BY <1>0, <1>6, <2>2, <2>3
          DEF FundingBlocked, TrueMemory, Before, Safeguarded, NotTracked
<1>7. CASE Fund(p)
  <2>1. PICK l : Become(p, "simulate", [job[p] EXCEPT !.balance = Observed(l)])
    BY <1>7 DEF Fund
  <2>2. /\ pc'[p] = "simulate" /\ job'[p].launch = job[p].launch
        /\ job'[p].confirmation = job[p].confirmation
    BY <1>0, <1>1, <2>1 DEF Jobs
  <2> QED BY <1>0, <1>7, <2>2
          DEF Fund, TrueMemory, Before, Unsubmitted, ChainUnchanged
<1>8. CASE SimulateFails(p)
  <2>1. /\ pc'[p] = "record" /\ job'[p].launch = job[p].launch
        /\ job'[p].confirmation = job[p].confirmation
        /\ job'[p].session = job[p].session
    BY <1>0, <1>1, <1>8 DEF SimulateFails, Jobs
  <2>2. job[p].launch \in QuietLaunches'
    BY <1>3, <1>8, <2>1 DEF SimulateFails, Before, ChainUnchanged
  <2> QED BY <1>0, <1>8, <2>1, <2>2
          DEF SimulateFails, TrueMemory, Before, Safeguarded, NotTracked
<1>9. CASE Simulate(p)
  <2>1. pc'[p] = "submit" /\ job'[p] = job[p]
    BY <1>1, <1>9 DEF Simulate
  <2> QED BY <1>0, <1>9, <2>1
          DEF Simulate, TrueMemory, Before, Unsubmitted, ChainUnchanged
<1>10. CASE RefuseAttempt(p) \/ SubmitLosesReply(p)
  <2>1. pc'[p] = "record" /\ job'[p] = Refused(job[p]) /\ pc[p] = "submit"
    BY <1>1, <1>10 DEF RefuseAttempt, SubmitLosesReply
  <2>2. /\ job'[p].launch = job[p].launch
        /\ job'[p].confirmation = job[p].confirmation
        /\ job'[p].session.at = job[p].launch
    BY <1>0, <2>1 DEF Refused, Jobs, DeriveSessionId, Safeguarded
  <2>3. job[p].launch \in QuietLaunches'
    BY <1>3, <1>10, <2>1
       DEF RefuseAttempt, SubmitLosesReply, Before, ChainUnchanged
  <2> QED BY <1>0, <2>1, <2>2, <2>3
          DEF TrueMemory, Before, NotTracked
<1>11. CASE Submit(p)
  <2> DEFINE signed == [job[p] EXCEPT !.signature = Observed(job[p].launch)]
             sent == [signed EXCEPT !.outcome = "submitted"]
  <2>1. pc[p] = "submit"
        /\ (Become(p, "record", sent) \/ Become(p, "observe", signed))
    BY <1>11 DEF Submit
  <2>2. /\ signed.signature # NoSignature /\ sent.signature # NoSignature
        /\ signed.confirmation = job[p].confirmation
        /\ sent.confirmation = job[p].confirmation
        /\ sent.launch = job[p].launch /\ sent.session = job[p].session
        /\ sent.outcome = "submitted"
    BY <1>0 DEF Jobs, Observed, NoSignature
  <2> HIDE DEF signed, sent
  <2>3. CASE Become(p, "record", sent)
    BY <1>0, <1>1, <2>1, <2>2, <2>3
       DEF TrueMemory, Before, Safeguarded, JobDenies, UnsentOutcomes,
           NotTracked
  <2>4. CASE Become(p, "observe", signed)
    BY <1>0, <1>1, <2>1, <2>2, <2>4 DEF TrueMemory, Before
  <2> QED BY <2>1, <2>3, <2>4
<1>12. CASE Observe(p)
  <2>1. PICK c \in ConfirmationFromRehearsal(job[p].launch), b \in BalanceReads :
           Become(p, "record", [job[p] EXCEPT
                !.confirmation = c, !.post = b,
                !.outcome = IF c = "confirmed" THEN "rehearsed"
                            ELSE "submitted-unconfirmed"])
    BY <1>12 DEF Observe
  <2> DEFINE j == [job[p] EXCEPT
                      !.confirmation = c, !.post = b,
                      !.outcome = IF c = "confirmed" THEN "rehearsed"
                                  ELSE "submitted-unconfirmed"]
  <2>a. /\ j.launch = job[p].launch /\ j.session = job[p].session
        /\ j.confirmation = c /\ j.signature = job[p].signature
        /\ j.outcome \in {"rehearsed", "submitted-unconfirmed"}
    BY <1>0 DEF Jobs
  <2>b. Become(p, "record", j)
    BY <2>1
  <2> HIDE DEF j
  <2>2. /\ pc'[p] = "record" /\ job'[p].launch = job[p].launch
        /\ job'[p].session = job[p].session /\ job'[p].confirmation = c
        /\ job'[p].signature = job[p].signature
        /\ job'[p].outcome \in {"rehearsed", "submitted-unconfirmed"}
    BY <1>1, <2>a, <2>b
  <2>3. /\ c \in {"timeout", "signature-error", "confirmed"}
        /\ c = "confirmed" => chain[job[p].launch] = "landed"
    BY <2>1 DEF ConfirmationFromRehearsal, IfDown
  <2>4. c = "confirmed" => job[p].launch \in Landed'
    BY <1>12, <2>3, LandedStays
       DEF Landed, Observe, TypeInv, JobsDated
  <2> QED BY <1>0, <1>12, <2>2, <2>3, <2>4
          DEF Observe, TrueMemory, Before, Safeguarded, JobDenies,
              UnsentOutcomes
<1>13. CASE AppendAttempt(p)
  <2>1. CASE Finish(p)
    BY <2>1, FinishForgets
  <2>2. CASE pc'[p] = "settle" /\ job'[p] = job[p]
    BY <1>0, <1>13, <2>2, QuietStays, LandedStays
       DEF AppendAttempt, TrueMemory, Before, JobDenies
  <2> QED BY <1>1, <1>13, <2>1, <2>2 DEF AppendAttempt
<1> QED BY <1>4, <1>5, <1>6, <1>7, <1>8, <1>9, <1>10, <1>11, <1>12, <1>13
        DEF Attempt

(* The commands that account for an attempt believe the file.              *)
LEMMA AccountMemory ==
    ASSUME TypeInv, TruthInv, [Next]_vars, NEW p \in Invokers, Account(p)
    PROVE  TrueMemory(pc[p], job[p])'
<1>0. /\ job[p] \in Jobs /\ pc \in [Invokers -> Places]
      /\ job \in [Invokers -> Jobs] /\ lines \in Seq(Lines)
      /\ TrueMemory(pc[p], job[p])
  BY DEF TypeInv, TypeOK, TruthInv
<1>1. ASSUME NEW place, NEW j, Become(p, place, j)
      PROVE  pc'[p] = place /\ job'[p] = j
  BY <1>0, <1>1 DEF Become
<1>2. CASE NothingToReconcile(p) \/ AppendVerdict(p)
           \/ NothingToAcknowledge(p) \/ AppendAcknowledgment(p)
  BY <1>2, FinishForgets DEF NothingToReconcile, AppendVerdict,
                             NothingToAcknowledge, AppendAcknowledgment
<1>3. CASE ReadLatestAttempt(p)
  <2>1. PICK i \in LatestAttempts :
           Become(p, IF lines[i].signature = NoSignature
                     THEN "conclude" ELSE "track",
                  [job[p] EXCEPT !.session = lines[i].session,
                                 !.outcome = lines[i].outcome,
                                 !.signature = lines[i].signature,
                                 !.balance = lines[i].balance])
    BY <1>3 DEF ReadLatestAttempt
  <2> DEFINE place == IF lines[i].signature = NoSignature
                      THEN "conclude" ELSE "track"
             j == [job[p] EXCEPT !.session = lines[i].session,
                                 !.outcome = lines[i].outcome,
                                 !.signature = lines[i].signature,
                                 !.balance = lines[i].balance]
  <2>a. /\ place \in {"conclude", "track"}
        /\ place = "track" => lines[i].signature # NoSignature
        /\ j.signature = lines[i].signature /\ j.outcome = lines[i].outcome
        /\ j.session = lines[i].session
        /\ j.confirmation = job[p].confirmation
    BY <1>0 DEF Jobs
  <2>b. Become(p, place, j)
    BY <2>1
  <2> HIDE DEF place, j
  <2>2. /\ pc'[p] \in {"conclude", "track"}
        /\ pc'[p] = "track" => lines[i].signature # NoSignature
        /\ job'[p].signature = lines[i].signature
        /\ job'[p].outcome = lines[i].outcome
        /\ job'[p].session = lines[i].session
        /\ job'[p].confirmation = job[p].confirmation
    BY <1>1, <2>a, <2>b
  <2>3. /\ i \in DOMAIN lines /\ lines[i] \in Lines
        /\ lines[i].kind = "execution-attempt" /\ TrueLine(lines[i])
    BY <1>0 DEF LatestAttempts, TruthInv
  <2>4. JobDenies(job'[p]) => lines[i].session.at \in QuietLaunches'
    BY <2>2, <2>3, QuietStays DEF JobDenies, TrueLine, LineDenies
  <2>5. pc'[p] = "track" => job'[p].signature = RedactedText
    BY <2>2, <2>3 DEF Lines
  <2>6. job[p].confirmation = NotTracked
    BY <1>0, <1>3 DEF ReadLatestAttempt, TrueMemory, Before
  <2> QED BY <2>2, <2>4, <2>5, <2>6 DEF TrueMemory, Before, JobDenies
<1>4. CASE Track(p)
  <2>1. PICK c \in TrackConfirmation(job[p].signature),
           f \in FeeReads(job[p].signature), b \in BalanceReads :
           Become(p, "conclude", [job[p] EXCEPT
                !.confirmation = c, !.fee = f, !.post = b])
    BY <1>4 DEF Track
  <2>2. /\ pc'[p] = "conclude" /\ job'[p].session = job[p].session
        /\ job'[p].signature = job[p].signature
        /\ job'[p].outcome = job[p].outcome /\ job'[p].confirmation = c
    BY <1>0, <1>1, <2>1 DEF Jobs
  <2>3. c = "rpc-unavailable"
    BY <1>0, <1>4, <2>1 DEF Track, TrueMemory, TrackConfirmation, IfDown
  <2> QED BY <1>0, <1>4, <2>2, <2>3, QuietStays
          DEF Track, TrueMemory, Before, JobDenies
<1>5. CASE ReadBlockedSession(p)
  <2>1. pc'[p] = "sign-off"
    BY <1>1, <1>5 DEF ReadBlockedSession
  <2> QED BY <2>1 DEF TrueMemory, Before
<1> QED BY <1>2, <1>3, <1>4, <1>5 DEF Account

LEMMA MemoryStep ==
    ASSUME TypeInv, TruthInv, [Next]_vars, NEW p \in Invokers
    PROVE  TrueMemory(pc[p], job[p])'
<1>1. CASE UNCHANGED <<pc, job>>
  BY <1>1, MemoryKept
<1>2. ASSUME NEW q \in Invokers, q # p,
             \/ \E command \in Commands : Launch(q, command)
             \/ Attempt(q) \/ Account(q) \/ Fail(q)
      PROVE  TrueMemory(pc[p], job[p])'
  BY <1>2, OthersStay, MemoryKept
<1>3. ASSUME NEW command \in Commands, Launch(p, command)
      PROVE  TrueMemory(pc[p], job[p])'
  BY <1>3, LaunchIsFresh
<1>4. CASE Fail(p)
  BY <1>4, FinishForgets DEF Fail, WriteFails, TornAppend, Crash
<1>5. CASE \E n \in Launches : Land(n)
  BY <1>1, <1>5 DEF Land
<1> QED BY <1>1, <1>2, <1>3, <1>4, <1>5, AttemptMemory, AccountMemory
        DEF Next, vars

-----------------------------------------------------------------------------
LEMMA TruthInit == Init => TruthInv
<1> SUFFICES ASSUME Init PROVE TruthInv
  OBVIOUS
<1>1. LaunchesApart
  BY DEF Init, LaunchesApart, Unsubmitted
<1>2. \A p \in Invokers : TrueMemory(pc[p], job[p])
  BY DEF Init, TrueMemory, Before
<1> QED BY <1>1, <1>2 DEF Init, TruthInv

LEMMA TruthStep == TypeInv /\ TruthInv /\ [Next]_vars => TruthInv'
<1> SUFFICES ASSUME TypeInv, TruthInv, [Next]_vars PROVE TruthInv'
  OBVIOUS
<1>1. LaunchesApart'
  BY ApartStep
<1>2. \A i \in DOMAIN lines' : TrueLine(lines[i])'
  BY LinesStep
<1>3. \A p \in Invokers : TrueMemory(pc[p], job[p])'
  BY MemoryStep
<1> QED BY <1>1, <1>2, <1>3 DEF TruthInv

(* However many commands overlap, whatever they read and however late they *)
(* append it: a line that says reconciled is of a transaction that landed, *)
(* and one that says refused, blocked or not sent is of a launch that sent *)
(* nothing, or whose answer was lost.                                      *)
THEOREM TrailIsTrue == Spec => []TrailTellsTheTruth
<1>1. TruthInv => TrailTellsTheTruth
  BY DEF TruthInv, TrailTellsTheTruth, TrueLine, LineDenies, Unsent,
         UnsentOutcomes, QuietLaunches, Landed
<1> QED BY <1>1, TypeInit, TypeStep, TruthInit, TruthStep, PTL DEF Spec
=============================================================================
