---------------------------- MODULE PaperRunsProofs ----------------------------
(***************************************************************************)
(* What holds of paper:run and strategy:plan over one journal, for every   *)
(* set of mints, prices, caps, sizes, strategies and batches and any       *)
(* number of runs and plans.  Four inductive invariants carry it:          *)
(*                                                                         *)
(*   PaperInv    one command at a time: who may write, and what a plan     *)
(*               buys of what the journal holds;                           *)
(*   TypeInv     the types, for any number of commands at once;            *)
(*   ExitInv     what the sweep and the exits of a plan have closed, for   *)
(*               any number of commands at once;                           *)
(*   HistoryInv  one command at a time: each line of the journal and of    *)
(*               the run's events may follow the lines before it.          *)
(*                                                                         *)
(* The replay of a journal is a fold; what it computes is taken from the   *)
(* lemmas of FoldProofs, one event after the other.                        *)
(***************************************************************************)
EXTENDS PaperRuns, StrategyPlanProofs, SequenceTheorems, FiniteSetTheorems,
        TLAPS

Replay == INSTANCE FoldProofs WITH step <- ApplyEvent, base <- InitialState

OneTerminal == \A p, q \in Terminals : p = q

IsSequence(s) == \E S : s \in Seq(S)

(* The local variables of a run.                                           *)
IsRun(r) ==
    DOMAIN r = {"file", "caps", "bands", "prices", "state", "events",
                "handled", "sweep"}

HeldBy(J) == OpenMints(ReduceJournal(J))

NoDamage(J) == \A i \in DOMAIN J : J[i].type # "malformed"

(* No buy of the plan is of a mint that the journal holds.                 *)
BuysNothingHeld(f, J) ==
    \A j \in DOMAIN f.candidates :
        f.candidates[j].side = "BUY" => f.candidates[j].mint \notin HeldBy(J)

(* Every buy a run has made is a buy of its plan.                          *)
BoughtFrom(f, events) ==
    \A i \in DOMAIN events :
        events[i].type = "PAPER_BUY_FILLED" =>
            \E j \in DOMAIN f.candidates :
                /\ f.candidates[j].side = "BUY"
                /\ f.candidates[j].mint = events[i].fill.mint

JournalInv == IsSequence(journal) /\ (~terminated => journal # <<>>)

(* A plan was made from the journal as it is or from a shorter one; the    *)
(* length tells whether the journal, if it is readable, is the same.       *)
PlanInv ==
    /\ \A f, g \in plan : f = g
    /\ \A f \in plan :
          /\ f.onto \in Nat /\ f.onto <= Len(journal)
          /\ f.onto = Len(journal) /\ NoDamage(journal)
                => BuysNothingHeld(f, journal)

(* A running command has read a journal without damage, and nobody else    *)
(* has written since.                                                      *)
RunInv(place, r) ==
    /\ IsRun(r) /\ IsSequence(r.events)
    /\ place # "idle" => NoDamage(journal)
    /\ place = "idle" => r.file = {}
    /\ r.file \subseteq plan
    /\ \A f \in r.file : BoughtFrom(f, r.events)

PaperInv ==
    /\ JournalInv /\ PlanInv
    /\ DOMAIN pc = Terminals /\ DOMAIN run = Terminals
    /\ \A p \in Terminals : RunInv(pc[p], run[p])

-----------------------------------------------------------------------------
(* Lemmas about sequences of lines.                                        *)

LEMMA Extended ==
    ASSUME NEW S, NEW s \in Seq(S), NEW T, NEW t \in Seq(T)
    PROVE  /\ s \in Seq(S \cup T) /\ t \in Seq(S \cup T)
           /\ s \o t \in Seq(S \cup T)
  OBVIOUS

(* A cut of a sequence, its front and its tail are sequences.              *)
LEMMA Cut ==
    ASSUME NEW S, NEW s \in Seq(S), NEW n \in 0..Len(s)
    PROVE  SubSeq(s, 1, n) \in Seq(S) /\ Len(SubSeq(s, 1, n)) = n
  OBVIOUS

LEMMA FrontAndTail ==
    ASSUME NEW S, NEW s \in Seq(S), s # <<>>
    PROVE  /\ Front(s) \in Seq(S) /\ Len(Front(s)) = Len(s) - 1
           /\ Tail(s) \in Seq(S) /\ Len(Tail(s)) = Len(s) - 1
           /\ Len(s) \in Nat \ {0}
<1>1. Len(s) \in Nat \ {0}
  OBVIOUS
<1>2. Front(s) \in Seq(S) /\ Len(Front(s)) = Len(s) - 1
  <2> DEFINE n == Len(s) - 1
  <2>1. n \in 0..Len(s)
    BY <1>1
  <2> HIDE DEF n
  <2>2. SubSeq(s, 1, n) \in Seq(S) /\ Len(SubSeq(s, 1, n)) = n
    BY <2>1, Cut
  <2> QED
    BY <2>2 DEF Front, n
<1> QED
  BY <1>1, <1>2, HeadTailProperties

(* An append never shortens the journal, and one of the same length either *)
(* changed nothing or left a damaged line.                                 *)
LEMMA AppendLinesFacts ==
    ASSUME NEW S, MalformedEvent \in S, journal \in Seq(S),
           NEW lines \in Seq(S), ~terminated => journal # <<>>
    PROVE  LET J == AppendLines(lines)
           IN  /\ J \in Seq(S)
               /\ Len(J) >= Len(journal)
               /\ Len(J) = Len(journal) => J = journal \/ ~NoDamage(J)
               /\ lines # <<>> => J # <<>>
               /\ ~terminated /\ lines # <<>> => ~NoDamage(J)
<1> DEFINE J == AppendLines(lines)
<1>1. Len(journal) \in Nat /\ Len(lines) \in Nat
  OBVIOUS
<1>2. CASE terminated \/ lines = <<>>
  <2>1. J = journal \o lines
    BY <1>2 DEF AppendLines
  <2>2. J \in Seq(S) /\ Len(J) = Len(journal) + Len(lines)
    BY <2>1, ConcatProperties
  <2>3. Len(lines) = 0 => lines = <<>>
    OBVIOUS
  <2>4. journal \o <<>> = journal
    BY ConcatEmptySeq
  <2> HIDE DEF J
  <2>5. lines # <<>> => J # <<>>
    BY <1>1, <2>2, <2>3
  <2> QED
    BY <1>1, <1>2, <2>1, <2>2, <2>3, <2>4, <2>5 DEF J
<1>3. CASE ~terminated /\ lines # <<>>
  <2> DEFINE F == Front(journal)
             T == Tail(lines)
             M == <<MalformedEvent>>
  <2>1. J = (F \o M) \o T
    BY <1>3 DEF AppendLines
  <2>2. /\ F \in Seq(S) /\ Len(F) = Len(journal) - 1
        /\ T \in Seq(S) /\ Len(T) = Len(lines) - 1
    BY <1>3, FrontAndTail
  <2>3. M \in Seq(S) /\ Len(M) = 1 /\ M[1] = MalformedEvent
    OBVIOUS
  <2> HIDE DEF F, T, M, J
  <2>4. Len(F) \in Nat /\ Len(T) \in Nat /\ Len(journal) = Len(F) + 1
    BY <1>1, <2>2
  <2>5. /\ F \o M \in Seq(S) /\ Len(F \o M) = Len(journal)
        /\ (F \o M)[Len(journal)] = MalformedEvent
    <3>1. /\ F \o M \in Seq(S) /\ Len(F \o M) = Len(F) + Len(M)
          /\ \A i \in 1..Len(F) + Len(M) :
                (F \o M)[i] = IF i <= Len(F) THEN F[i] ELSE M[i - Len(F)]
      BY <2>2, <2>3, ConcatProperties
    <3>2. Len(journal) \in 1..Len(F) + Len(M) /\ ~(Len(journal) <= Len(F))
          /\ Len(journal) - Len(F) = 1
      BY <2>3, <2>4
    <3> QED
      BY <2>3, <2>4, <3>1, <3>2
  <2>6. /\ J \in Seq(S) /\ Len(J) = Len(journal) + Len(T)
        /\ J[Len(journal)] = MalformedEvent
    <3> DEFINE G == F \o M
    <3> HIDE DEF G
    <3>5. J = G \o T
      BY <2>1, Zenon DEF G
    <3>1. G \in Seq(S) /\ Len(G) = Len(journal) /\ J = G \o T
      BY <2>5, <3>5, Zenon DEF G
    <3>2. /\ G \o T \in Seq(S) /\ Len(G \o T) = Len(G) + Len(T)
          /\ \A i \in 1..Len(G) + Len(T) :
                (G \o T)[i] = IF i <= Len(G) THEN G[i] ELSE T[i - Len(G)]
      <4>1. G \in Seq(S) /\ T \in Seq(S)
        BY <2>2, <3>1
      <4> QED
        BY <4>1, ConcatProperties
    <3>3. Len(journal) \in 1..Len(G) + Len(T) /\ Len(journal) <= Len(G)
      <4>1. Len(G) = Len(journal) /\ Len(journal) = Len(F) + 1
        BY <2>4, <3>1
      <4> QED
        BY <2>4, <4>1
    <3>4. J[Len(journal)] = G[Len(journal)]
      BY <3>1, <3>2, <3>3
    <3> QED
      BY <2>5, <3>1, <3>2, <3>4 DEF G
  <2>7. Len(journal) \in DOMAIN J
    BY <2>4, <2>6
  <2>8. ~NoDamage(J)
    BY <2>6, <2>7 DEF NoDamage, MalformedEvent
  <2>9. J # <<>>
    BY <2>4, <2>6
  <2> QED
    BY <1>1, <2>4, <2>6, <2>8, <2>9 DEF J
<1> QED
  BY <1>2, <1>3


(* The buys of a run stay those of its plan when lines are added that are  *)
(* no buys, or a buy of the plan.                                          *)
LEMMA OtherLinesAdded ==
    ASSUME NEW events, IsSequence(events), NEW more, IsSequence(more),
           \A i \in DOMAIN more : more[i].type # "PAPER_BUY_FILLED"
    PROVE  /\ IsSequence(events \o more)
           /\ \A f : BoughtFrom(f, events) => BoughtFrom(f, events \o more)
<1>1. PICK S : events \in Seq(S)
  BY DEF IsSequence
<1>2. PICK T : more \in Seq(T)
  BY DEF IsSequence
<1> DEFINE U == S \cup T
<1>3. events \in Seq(U) /\ more \in Seq(U) /\ events \o more \in Seq(U)
  BY <1>1, <1>2, Extended
<1> HIDE DEF U
<1>4. IsSequence(events \o more)
  BY <1>3 DEF IsSequence
<1>5. ASSUME NEW f, BoughtFrom(f, events),
             NEW i \in DOMAIN (events \o more),
             (events \o more)[i].type = "PAPER_BUY_FILLED"
      PROVE  \E j \in DOMAIN f.candidates :
                /\ f.candidates[j].side = "BUY"
                /\ f.candidates[j].mint = (events \o more)[i].fill.mint
  <2>1. /\ i \in 1..Len(events) + Len(more)
        /\ Len(events) \in Nat /\ Len(more) \in Nat
    BY <1>3
  <2>2. (events \o more)[i] = IF i <= Len(events) THEN events[i]
                              ELSE more[i - Len(events)]
    BY <1>3, <2>1, ConcatProperties
  <2>3. CASE i <= Len(events)
    <3>1. i \in DOMAIN events /\ (events \o more)[i] = events[i]
      BY <1>3, <2>1, <2>2, <2>3
    <3> QED
      BY <3>1, <1>5 DEF BoughtFrom
  <2>4. CASE ~(i <= Len(events))
    <3>1. i - Len(events) \in DOMAIN more
          /\ (events \o more)[i] = more[i - Len(events)]
      BY <1>3, <2>1, <2>2, <2>4
    <3> QED
      BY <3>1, <1>5
  <2> QED
    BY <2>3, <2>4
<1> QED
  BY <1>4, <1>5 DEF BoughtFrom

LEMMA LineAdded ==
    ASSUME NEW events, IsSequence(events), NEW e
    PROVE  /\ IsSequence(Append(events, e))
           /\ \A f :
                 /\ BoughtFrom(f, events)
                 /\ e.type = "PAPER_BUY_FILLED" =>
                       \E j \in DOMAIN f.candidates :
                          /\ f.candidates[j].side = "BUY"
                          /\ f.candidates[j].mint = e.fill.mint
                 => BoughtFrom(f, Append(events, e))
<1>1. PICK S : events \in Seq(S)
  BY DEF IsSequence
<1> DEFINE U == S \cup {e}
<1>2. events \in Seq(U) /\ e \in U
  BY <1>1, Extended
<1> HIDE DEF U
<1>3. Append(events, e) \in Seq(U)
  BY <1>2
<1>4. ASSUME NEW f, BoughtFrom(f, events),
             e.type = "PAPER_BUY_FILLED" =>
                \E j \in DOMAIN f.candidates :
                   /\ f.candidates[j].side = "BUY"
                   /\ f.candidates[j].mint = e.fill.mint
      PROVE  BoughtFrom(f, Append(events, e))
  <2> SUFFICES ASSUME NEW i \in DOMAIN Append(events, e),
                      Append(events, e)[i].type = "PAPER_BUY_FILLED"
               PROVE  \E j \in DOMAIN f.candidates :
                         /\ f.candidates[j].side = "BUY"
                         /\ f.candidates[j].mint = Append(events, e)[i].fill.mint
    BY DEF BoughtFrom
  <2>1. \/ i \in DOMAIN events /\ Append(events, e)[i] = events[i]
        \/ Append(events, e)[i] = e
    BY <1>2
  <2> QED
    BY <2>1, <1>4 DEF BoughtFrom
<1> QED
  BY <1>3, <1>4 DEF IsSequence

-----------------------------------------------------------------------------
LEMMA PlanBuysNothingHeld ==
    ASSUME NEW batch, batch \in Seq(Range(batch)), NEW config, NEW s,
           NEW default, NEW now,
           NEW j \in DOMAIN PaperCandidates(batch, config, {s}, default, now),
           PaperCandidates(batch, config, {s}, default, now)[j].side = "BUY"
    PROVE  PaperCandidates(batch, config, {s}, default, now)[j].mint
              \notin OpenMints(s)
<1> DEFINE C == PaperCandidates(batch, config, {s}, default, now)
<1>1. C[j] \in Planned(batch, config, {s}, default, now)
  <2>1. C \in Seq(Planned(batch, config, {s}, default, now))
    BY PlannedFromBatch
  <2> HIDE DEF C
  <2>2. j \in DOMAIN C
    BY DEF C
  <2> QED
    BY <2>1, <2>2, ElementOfSeq, LenProperties
<1>2. PICK i \in DOMAIN batch :
         C[j] = ToPaperCandidate(batch[i],
                   Decision(batch[i], config, {s}, now), default)
  BY <1>1 DEF Planned
<1>3. /\ C[j].side = Decision(batch[i], config, {s}, now).side
      /\ C[j].mint = batch[i].mint
  <2>1. \A side, mint, size, decision, why :
          LET c == PaperCandidate(side, mint, size, decision, why)
          IN  c.side = side /\ c.mint = mint
    BY DEF PaperCandidate
  <2> QED
    BY <1>2, <2>1 DEF ToPaperCandidate
<1>4. batch[i].mint \notin HeldMints({s})
  BY <1>3, BuysAreNotHeld
<1>5. HeldMints({s}) = OpenMints(s)
  BY DEF HeldMints
<1> QED
  BY <1>3, <1>4, <1>5

-----------------------------------------------------------------------------
(* The steps.  Two lemmas cover them: a command goes on in memory, or the  *)
(* one command there is writes to the journal and ends.                    *)

LEMMA Goes ==
    ASSUME PaperInv, NEW p \in Terminals, NEW place, NEW r,
           Become(p, place, r), RunInv(place, r),
           FileUnchanged, PlanUnchanged
    PROVE  PaperInv'
<1>1. JournalInv' /\ PlanInv'
  BY DEF PaperInv, JournalInv, PlanInv, FileUnchanged, PlanUnchanged,
         IsSequence, NoDamage, BuysNothingHeld, HeldBy
<1>2. /\ DOMAIN pc' = Terminals /\ DOMAIN run' = Terminals
      /\ \A q \in Terminals : \/ pc'[q] = place /\ run'[q] = r
                              \/ pc'[q] = pc[q] /\ run'[q] = run[q]
  BY DEF PaperInv, Become
<1>3. ASSUME NEW q \in Terminals PROVE RunInv(pc[q], run[q])'
  <2>1. RunInv(pc'[q], run'[q])
    BY <1>2 DEF PaperInv
  <2> QED
    BY <2>1 DEF RunInv, FileUnchanged, PlanUnchanged, NoDamage
<1> QED
  BY <1>1, <1>2, <1>3 DEF PaperInv

LEMMA NoRunInv == RunInv("idle", NoRun)
<1>1. IsRun(NoRun) /\ NoRun.file = {} /\ NoRun.events = <<>>
  BY DEF IsRun, NoRun
<1>2. IsSequence(<<>>)
  BY EmptySeq DEF IsSequence
<1> QED
  BY <1>1, <1>2 DEF RunInv

LEMMA Writes ==
    ASSUME OneTerminal, PaperInv, NEW p \in Terminals, Become(p, "idle", NoRun),
           NEW lines, IsSequence(lines), journal' = AppendLines(lines),
           ~terminated' => ~terminated \/ lines # <<>>, PlanUnchanged
    PROVE  PaperInv'
<1>1. PICK S : journal \in Seq(S)
  BY DEF PaperInv, JournalInv, IsSequence
<1>2. PICK T : lines \in Seq(T)
  BY DEF IsSequence
<1> DEFINE U == (S \cup T) \cup {MalformedEvent}
<1>3. /\ journal \in Seq(U) /\ lines \in Seq(U) /\ MalformedEvent \in U
  BY <1>1, <1>2, SeqMonotonic
<1> HIDE DEF U
<1>4. ~terminated => journal # <<>>
  BY DEF PaperInv, JournalInv
<1>5. /\ journal' \in Seq(U)
      /\ Len(journal') >= Len(journal)
      /\ Len(journal') = Len(journal)
            => journal' = journal \/ ~NoDamage(journal')
      /\ lines # <<>> => journal' # <<>>
  BY <1>3, <1>4, AppendLinesFacts
<1>6. /\ Len(journal) \in Nat /\ Len(journal') \in Nat
      /\ journal # <<>> => journal' # <<>>
  <2>1. Len(journal) \in Nat /\ Len(journal') \in Nat
    BY <1>3, <1>5
  <2>2. journal # <<>> => Len(journal) > 0
    BY <1>3
  <2>3. journal' = <<>> => Len(journal') = 0
    OBVIOUS
  <2> QED
    BY <1>5, <2>1, <2>2, <2>3
<1>7. JournalInv'
  BY <1>4, <1>5, <1>6 DEF JournalInv, IsSequence
<1>8. PlanInv'
  <2>1. \A f, g \in plan' : f = g
    BY DEF PaperInv, PlanInv, PlanUnchanged
  <2>2. ASSUME NEW f \in plan'
        PROVE  /\ f.onto \in Nat /\ f.onto <= Len(journal')
               /\ f.onto = Len(journal') /\ NoDamage(journal')
                     => BuysNothingHeld(f, journal')
    <3>1. /\ f.onto \in Nat /\ f.onto <= Len(journal)
          /\ f.onto = Len(journal) /\ NoDamage(journal)
                => BuysNothingHeld(f, journal)
      BY <2>2 DEF PaperInv, PlanInv, PlanUnchanged
    <3>2. f.onto <= Len(journal')
      BY <1>5, <1>6, <3>1
    <3>3. ASSUME f.onto = Len(journal'), NoDamage(journal')
          PROVE  BuysNothingHeld(f, journal')
      <4>1. Len(journal') = Len(journal)
        BY <1>5, <1>6, <3>1, <3>3
      <4>2. journal' = journal
        BY <1>5, <3>3, <4>1
      <4> QED
        BY <3>1, <3>3, <4>2
    <3> QED
      BY <3>1, <3>2, <3>3
  <2> QED
    BY <2>1, <2>2 DEF PlanInv
<1>9. /\ DOMAIN pc' = Terminals /\ DOMAIN run' = Terminals
      /\ \A q \in Terminals : pc'[q] = "idle" /\ run'[q] = NoRun
  BY DEF PaperInv, Become, OneTerminal
<1>10. \A q \in Terminals : RunInv(pc[q], run[q])'
  <2>1. IsRun(NoRun) /\ IsSequence(NoRun.events) /\ NoRun.file = {}
    BY NoRunInv DEF RunInv
  <2> QED
    BY <1>9, <2>1 DEF RunInv
<1> QED
  BY <1>7, <1>8, <1>9, <1>10 DEF PaperInv

LEMMA PInit == Init => PaperInv
<1> SUFFICES ASSUME Init PROVE PaperInv
  OBVIOUS
<1>1. IsSequence(<<>>)
  BY EmptySeq DEF IsSequence
<1>2. JournalInv /\ PlanInv
  BY <1>1 DEF Init, JournalInv, PlanInv
<1>3. \A p \in Terminals : RunInv(pc[p], run[p])
  <2> SUFFICES ASSUME NEW p \in Terminals PROVE RunInv(pc[p], run[p])
    OBVIOUS
  <2>1. pc[p] = "idle" /\ run[p] = NoRun
    BY DEF Init
  <2> QED
    BY <2>1, NoRunInv
<1> QED
  BY <1>2, <1>3 DEF PaperInv, Init

(* A candidate of a run that follows a plan is one of the plan.            *)
LEMMA CandidateOfPlan ==
    ASSUME PaperInv, NEW p \in Terminals, NEW c \in NextCandidate(run[p]),
           NEW f \in run[p].file
    PROVE  \E j \in DOMAIN f.candidates : c = f.candidates[j]
<1>1. PICK g \in run[p].file :
          /\ run[p].handled + 1 \in DOMAIN g.candidates
          /\ c = g.candidates[run[p].handled + 1]
  BY DEF NextCandidate
<1>2. f = g
  BY DEF PaperInv, PlanInv, RunInv
<1> QED
  BY <1>1, <1>2

(* The lines of a run that is about to append.                             *)
LEMMA BatchIsSequence ==
    ASSUME PaperInv, NEW p \in Terminals
    PROVE  \E S : Batch(p) \in Seq(S) /\ MalformedEvent \in S
<1>1. IsSequence(Batch(p))
  BY LineAdded DEF PaperInv, RunInv, Batch
<1>2. PICK S : Batch(p) \in Seq(S)
  BY <1>1 DEF IsSequence
<1>3. Batch(p) \in Seq(S \cup {MalformedEvent})
  BY <1>2, SeqMonotonic
<1> QED
  BY <1>3

LEMMA PlanStep ==
    ASSUME OneTerminal, PaperInv, NEW p \in Terminals, PlanStrategy(p)
    PROVE  PaperInv'
<1>1. JournalInv' /\ UNCHANGED <<journal, pc, run>>
  BY DEF PaperInv, JournalInv, PlanStrategy, FileUnchanged, IsSequence
<1>2. PICK batch \in Batches, config \in Strategies,
           default \in DefaultSizes :
        \E sized :
          plan' = {[candidates |-> PaperCandidates(batch, config,
                                       {StartingState}, default, 0),
                    onto |-> Len(journal), sized |-> sized]}
  BY DEF PlanStrategy
<1>6. PICK sized :
          plan' = {[candidates |-> PaperCandidates(batch, config,
                                       {StartingState}, default, 0),
                    onto |-> Len(journal), sized |-> sized]}
  BY <1>2
<1>7. batch \in Seq(Range(batch))
  BY PlansAssumption
<1>3. PlanInv'
  <2> DEFINE f == [candidates |-> PaperCandidates(batch, config,
                                      {StartingState}, default, 0),
                   onto |-> Len(journal), sized |-> sized]
  <2>1. plan' = {f}
    BY <1>6
  <2>2. f.onto = Len(journal) /\ Len(journal) \in Nat
    BY DEF PaperInv, JournalInv, IsSequence
  <2>3. BuysNothingHeld(f, journal)
    BY <1>7, PlanBuysNothingHeld DEF BuysNothingHeld, StartingState, HeldBy
  <2> HIDE DEF f
  <2> QED
    BY <1>1, <2>1, <2>2, <2>3 DEF PlanInv
<1>4. \A q \in Terminals : pc[q] = "idle"
  BY DEF PlanStrategy, OneTerminal
<1>5. \A q \in Terminals : RunInv(pc[q], run[q])'
  BY <1>1, <1>4 DEF PaperInv, RunInv
<1> QED
  BY <1>1, <1>3, <1>5 DEF PaperInv

LEMMA LaunchStep ==
    ASSUME PaperInv, NEW p \in Terminals, Launch(p)
    PROVE  PaperInv'
<1>1. NoDamage(journal)
  BY DEF Launch, JournalRefused, Readable, NoDamage
<1>2. PICK caps \in CapChoices, bands \in BandChoices, prices \in PriceFiles,
           file \in {{}, plan} :
          LET r == [NoRun EXCEPT !.file = file, !.caps = caps, !.bands = bands,
                                 !.prices = prices, !.state = StartingState]
          IN  IF caps.killSwitch
              THEN Become(p, "append",
                          [r EXCEPT !.events =
                               <<Started(caps), KillSwitchActive>>])
              ELSE Become(p, "candidates",
                          [r EXCEPT !.events = <<Started(caps)>>])
  BY DEF Launch
<1> DEFINE R(events) ==
        [[NoRun EXCEPT !.file = file, !.caps = caps, !.bands = bands,
                       !.prices = prices, !.state = StartingState]
            EXCEPT !.events = events]
<1>3. ASSUME NEW events, IsSequence(events),
             \A i \in DOMAIN events : events[i].type # "PAPER_BUY_FILLED",
             NEW place, place # "idle"
      PROVE  RunInv(place, R(events))
  <2>1. /\ IsRun(R(events)) /\ R(events).events = events
        /\ R(events).file = file
    BY DEF IsRun, NoRun
  <2> HIDE DEF R
  <2>2. \A f : BoughtFrom(f, events)
    BY <1>3 DEF BoughtFrom
  <2> QED
    BY <1>1, <1>3, <2>1, <2>2 DEF RunInv
<1>4. /\ IsSequence(<<Started(caps)>>)
      /\ IsSequence(<<Started(caps), KillSwitchActive>>)
  <2>1. /\ <<Started(caps)>> \in Seq({Started(caps), KillSwitchActive})
        /\ <<Started(caps), KillSwitchActive>>
              \in Seq({Started(caps), KillSwitchActive})
    OBVIOUS
  <2> QED
    BY <2>1 DEF IsSequence
<1>5. /\ Started(caps).type # "PAPER_BUY_FILLED"
      /\ KillSwitchActive.type # "PAPER_BUY_FILLED"
  BY DEF Started, KillSwitchActive
<1>6. /\ \A i \in DOMAIN <<Started(caps)>> :
            <<Started(caps)>>[i].type # "PAPER_BUY_FILLED"
      /\ \A i \in DOMAIN <<Started(caps), KillSwitchActive>> :
            <<Started(caps), KillSwitchActive>>[i].type # "PAPER_BUY_FILLED"
  BY <1>5
<1>7. \/ /\ RunInv("append", R(<<Started(caps), KillSwitchActive>>))
         /\ Become(p, "append", R(<<Started(caps), KillSwitchActive>>))
      \/ /\ RunInv("candidates", R(<<Started(caps)>>))
         /\ Become(p, "candidates", R(<<Started(caps)>>))
  BY <1>2, <1>3, <1>4, <1>6
<1> HIDE DEF R
<1> QED
  BY <1>7, Goes DEF Launch

LEMMA NoteKeeps ==
    ASSUME NEW r, NEW place, place # "idle", RunInv(place, r)
    PROVE  RunInv(place, Note(r, Rejected))
<1>1. /\ IsRun(Note(r, Rejected)) /\ Note(r, Rejected).file = r.file
      /\ Note(r, Rejected).events = Append(r.events, Rejected)
  BY DEF RunInv, IsRun, Note
<1>2. Rejected.type # "PAPER_BUY_FILLED"
  BY DEF Rejected
<1> QED
  BY <1>1, <1>2, LineAdded DEF RunInv

LEMMA BuyStep ==
    ASSUME PaperInv, NEW p \in Terminals, ProcessBuy(p)
    PROVE  PaperInv'
<1>1. PICK c, price :
          /\ c \in NextCandidate(run[p])
          /\ c.side = "BUY"
          /\ \/ Become(p, "candidates",
                   Buy(run[p], Fill(c.mint, price, c.size \div price)))
             \/ Become(p, "candidates", Note(run[p], Rejected))
  BY DEF ProcessBuy
<1> DEFINE fill == Fill(c.mint, price, c.size \div price)
<1>2. RunInv(pc[p], run[p]) /\ pc[p] # "idle"
  BY DEF PaperInv, ProcessBuy
<1>3. RunInv("candidates", Buy(run[p], fill))
  <2>1. /\ IsRun(Buy(run[p], fill)) /\ Buy(run[p], fill).file = run[p].file
        /\ Buy(run[p], fill).events = Append(run[p].events, Bought(fill))
    BY <1>2 DEF RunInv, IsRun, Buy
  <2>2. Bought(fill).fill.mint = c.mint
    BY DEF Bought, Fill
  <2> HIDE DEF fill
  <2>3. ASSUME NEW f \in run[p].file
        PROVE  BoughtFrom(f, Append(run[p].events, Bought(fill)))
    <3>1. \E j \in DOMAIN f.candidates :
             /\ f.candidates[j].side = "BUY"
             /\ f.candidates[j].mint = Bought(fill).fill.mint
      BY <1>1, <2>2, CandidateOfPlan
    <3> QED
      BY <1>2, <3>1, LineAdded DEF RunInv
  <2>4. IsSequence(Append(run[p].events, Bought(fill)))
    BY <1>2, LineAdded DEF RunInv
  <2> QED
    BY <1>2, <2>1, <2>3, <2>4 DEF RunInv
<1>4. RunInv("candidates", Note(run[p], Rejected))
  <2>1. RunInv("candidates", run[p])
    BY <1>2 DEF RunInv
  <2> QED
    BY <2>1, NoteKeeps
<1> HIDE DEF fill
<1> QED
  BY <1>1, <1>3, <1>4, Goes DEF ProcessBuy, fill

(* A sale, announced or not, keeps what is claimed of the run.             *)
LEMMA SaleKeeps ==
    ASSUME NEW r, NEW place, place # "idle", RunInv(place, r),
           NEW before, IsSequence(before),
           \A i \in DOMAIN before : before[i].type # "PAPER_BUY_FILLED",
           NEW fill, NEW n
    PROVE  /\ RunInv(place, Sell(r, before, fill))
           /\ RunInv(place, [Sell(r, before, fill) EXCEPT !.handled = n])
<1> DEFINE sold == Sell(r, before, fill)
           events == (r.events \o before) \o <<Sold(fill)>>
<1>1. /\ IsRun(sold) /\ sold.file = r.file /\ sold.events = events
      /\ IsRun([sold EXCEPT !.handled = n])
      /\ [sold EXCEPT !.handled = n].file = r.file
      /\ [sold EXCEPT !.handled = n].events = events
  BY DEF RunInv, IsRun, Sell
<1>2. /\ IsSequence(<<Sold(fill)>>)
      /\ \A i \in DOMAIN <<Sold(fill)>> :
            <<Sold(fill)>>[i].type # "PAPER_BUY_FILLED"
  <2>1. <<Sold(fill)>> \in Seq({Sold(fill)})
    OBVIOUS
  <2>2. Sold(fill).type # "PAPER_BUY_FILLED"
    BY DEF Sold
  <2>3. \A i \in DOMAIN <<Sold(fill)>> :
           <<Sold(fill)>>[i].type # "PAPER_BUY_FILLED"
    BY <2>2
  <2> QED
    BY <2>1, <2>3 DEF IsSequence
<1>3. /\ IsSequence(r.events \o before)
      /\ \A f \in r.file : BoughtFrom(f, r.events \o before)
  BY OtherLinesAdded DEF RunInv
<1>4. IsSequence(events) /\ \A f \in r.file : BoughtFrom(f, events)
  BY <1>2, <1>3, OtherLinesAdded
<1> HIDE DEF sold, events
<1> QED
  BY <1>1, <1>4 DEF RunInv, sold

LEMMA SellStep ==
    ASSUME PaperInv, NEW p \in Terminals, ProcessSell(p)
    PROVE  PaperInv'
<1>1. PICK fill, n :
          \/ Become(p, "candidates",
                [Sell(run[p], <<>>, fill) EXCEPT !.handled = n])
          \/ Become(p, "candidates", Note(run[p], Rejected))
  <2>1. PICK c \in NextCandidate(run[p]) :
          LET price == LastPrice(run[p], c.mint)
              held == run[p].state.positions[c.mint].quantity
              quantity == IF c.size > 0 THEN Lesser(c.size \div price, held)
                          ELSE held
          IN  Become(p, "candidates",
                IF held > 0 /\ price > 0
                THEN [Sell(run[p], <<>>, Fill(c.mint, price, quantity))
                         EXCEPT !.handled = @ + 1]
                ELSE Note(run[p], Rejected))
    BY DEF ProcessSell
  <2> QED
    BY <2>1
<1>2. RunInv("candidates", run[p])
  BY DEF PaperInv, ProcessSell, RunInv
<1>3. IsSequence(<<>>) /\ \A i \in DOMAIN <<>> : <<>>[i].type # "PAPER_BUY_FILLED"
  <2>1. IsSequence(<<>>)
    BY EmptySeq DEF IsSequence
  <2> QED
    BY <2>1
<1>4. RunInv("candidates", [Sell(run[p], <<>>, fill) EXCEPT !.handled = n])
  BY <1>2, <1>3, SaleKeeps
<1>5. RunInv("candidates", Note(run[p], Rejected))
  BY <1>2, NoteKeeps
<1> QED
  BY <1>1, <1>4, <1>5, Goes DEF ProcessSell

LEMMA SweepSteps ==
    ASSUME PaperInv, NEW p \in Terminals,
           StartSweep(p) \/ EvaluateExits(p) \/ EndSweep(p)
    PROVE  PaperInv'
<1>1. RunInv(pc[p], run[p]) /\ pc[p] # "idle"
  BY DEF PaperInv, StartSweep, EvaluateExits, EndSweep
<1>2. ASSUME NEW place, place # "idle", NEW sweep
      PROVE  RunInv(place, [run[p] EXCEPT !.sweep = sweep])
  <2> DEFINE r == run[p]
             q == [r EXCEPT !.sweep = sweep]
  <2>1. RunInv(pc[p], r)
    BY <1>1
  <2> HIDE DEF r
  <2>2. IsRun(q) /\ q.file = r.file /\ q.events = r.events
    BY <2>1 DEF RunInv, IsRun
  <2> HIDE DEF q
  <2>3. RunInv(place, q)
    BY <1>1, <1>2, <2>1, <2>2 DEF RunInv
  <2> QED
    BY <2>3 DEF q, r
<1>3. RunInv("append", run[p])
  BY <1>1 DEF RunInv
<1>4. CASE StartSweep(p)
  <2>1. PICK sweep :
            Become(p, "exits", [run[p] EXCEPT !.sweep = sweep])
    BY <1>4 DEF StartSweep
  <2> QED
    BY <1>2, <1>4, <2>1, Goes DEF StartSweep
<1>5. CASE EvaluateExits(p)
  <2>1. PICK sweep, which, mint, fill :
          \/ Become(p, "exits", [run[p] EXCEPT !.sweep = sweep])
          \/ Become(p, "exits", Sell([run[p] EXCEPT !.sweep = sweep],
                                     <<Triggered(which, mint)>>, fill))
             /\ which \in Triggers
    BY <1>5 DEF EvaluateExits, Triggers
  <2> DEFINE before == <<Triggered(which, mint)>>
             swept == [run[p] EXCEPT !.sweep = sweep]
  <2>2. RunInv("exits", swept)
    BY <1>2
  <2>3. ASSUME which \in Triggers
        PROVE  RunInv("exits", Sell(swept, before, fill))
    <3>1. Triggered(which, mint).type # "PAPER_BUY_FILLED"
      BY <2>3 DEF Triggered, Triggers
    <3>2. \A i \in DOMAIN before : before[i].type # "PAPER_BUY_FILLED"
      BY <3>1
    <3>3. before \in Seq({Triggered(which, mint)})
      OBVIOUS
    <3>4. IsSequence(before)
      BY <3>3 DEF IsSequence
    <3> HIDE DEF before, swept
    <3> QED
      BY <2>2, <3>2, <3>4, SaleKeeps
  <2> QED
    BY <1>5, <2>1, <2>2, <2>3, Goes DEF EvaluateExits
<1>6. CASE EndSweep(p)
  BY <1>3, <1>6, Goes DEF EndSweep
<1> QED
  BY <1>4, <1>5, <1>6

LEMMA AppendSteps ==
    ASSUME OneTerminal, PaperInv, NEW p \in Terminals,
           AppendEvents(p) \/ TearAppend(p)
    PROVE  PaperInv'
<1>1. PICK S : Batch(p) \in Seq(S) /\ MalformedEvent \in S
  BY BatchIsSequence
<1>2. CASE AppendEvents(p)
  <2>1. IsSequence(Batch(p))
    BY <1>1 DEF IsSequence
  <2> QED
    BY <1>2, <2>1, Writes DEF AppendEvents
<1>3. CASE TearAppend(p)
  <2>1. PICK n \in 0..Len(Batch(p)) - 1 :
          LET lines == SubSeq(Batch(p), 1, n)
          IN  \/ /\ journal' = AppendLines(lines)
                 /\ terminated' = IF n = 0 THEN terminated ELSE TRUE
              \/ /\ n > 0
                 /\ journal' = AppendLines(lines)
                 /\ terminated' = FALSE
              \/ /\ journal' = AppendLines(Append(lines, MalformedEvent))
                 /\ terminated' = FALSE
    BY <1>3 DEF TearAppend
  <2> DEFINE lines == SubSeq(Batch(p), 1, n)
  <2>2. n \in 0..Len(Batch(p)) /\ n \in Nat
    BY <1>1, <2>1
  <2>3. lines \in Seq(S) /\ Len(lines) = n
    BY <1>1, <2>2, Cut
  <2> HIDE DEF lines
  <2>4. /\ Append(lines, MalformedEvent) \in Seq(S)
        /\ Append(lines, MalformedEvent) # <<>>
        /\ n > 0 => lines # <<>>
    BY <1>1, <2>3
  <2>5. IsSequence(lines) /\ IsSequence(Append(lines, MalformedEvent))
    BY <2>3, <2>4 DEF IsSequence
  <2>6. \/ /\ journal' = AppendLines(lines)
           /\ ~terminated' => ~terminated \/ lines # <<>>
        \/ journal' = AppendLines(Append(lines, MalformedEvent))
    BY <2>1, <2>2, <2>4 DEF lines
  <2>7. Become(p, "idle", NoRun) /\ PlanUnchanged
    BY <1>3 DEF TearAppend
  <2> QED
    BY <2>4, <2>5, <2>6, <2>7, Writes
<1> QED
  BY <1>2, <1>3

LEMMA PStep ==
    ASSUME OneTerminal, PaperInv, [Next]_vars PROVE PaperInv'
<1>1. CASE UNCHANGED vars
  BY <1>1 DEF vars, PaperInv, JournalInv, PlanInv, RunInv, IsSequence,
              NoDamage, BuysNothingHeld, HeldBy
<1>2. ASSUME NEW p \in Terminals, RefuseJournal(p) PROVE PaperInv'
  BY <1>2 DEF RefuseJournal, FileUnchanged, PlanUnchanged, PaperInv,
              JournalInv, PlanInv, RunInv, IsSequence, NoDamage,
              BuysNothingHeld, HeldBy
<1>3. ASSUME NEW p \in Terminals, LoseRun(p) PROVE PaperInv'
  BY <1>3, NoRunInv, Goes DEF LoseRun
<1> QED
  BY <1>1, <1>2, <1>3, PlanStep, LaunchStep, BuyStep, SellStep, SweepSteps,
     AppendSteps DEF Next

LEMMA PaperInvariant == ASSUME OneTerminal PROVE Spec => []PaperInv
  BY PInit, PStep, PTL DEF Spec

-----------------------------------------------------------------------------
(* The portfolio.  A position has a quantity exactly when it has a cost.   *)
Portfolios ==
    {s \in [positions : [Mints -> Positions], realized : Int, closed : Nat] :
        \A m \in Mints :
            s.positions[m].quantity = 0 <=> s.positions[m].costBasis = 0}

IsFill(fill) ==
    fill \in [mint : Mints, price : Nat \ {0}, quantity : Nat, fee : {NoFee}]

(* A part of a cost is no more than the cost, and all of it for the whole. *)
LEMMA PartOfCost ==
    ASSUME NEW a \in Nat, NEW b \in Nat, NEW c \in Nat, 0 < c, b <= c
    PROVE  /\ (a * b) \div c \in 0..a
           /\ b < c /\ 0 < a => (a * b) \div c < a
           /\ b = c => (a * b) \div c = a
<1> DEFINE d == (a * b) \div c
           r == (a * b) % c
<1>1. a * b \in Nat
  OBVIOUS
<1>2. d \in Int /\ r \in 0..c - 1 /\ a * b = c * d + r
  BY <1>1
<1>3. a * b <= a * c /\ (b < c /\ 0 < a => a * b < a * c)
  OBVIOUS
<1> HIDE DEF d, r
<1>4. d >= 0
  <2> SUFFICES ASSUME d <= -1 PROVE FALSE
    BY <1>2
  <2>1. c * d <= c * (-1)
    BY <1>2
  <2> QED
    BY <1>1, <1>2, <2>1
<1>5. d <= a
  <2> SUFFICES ASSUME d >= a + 1 PROVE FALSE
    BY <1>2
  <2>1. c * d >= c * (a + 1)
    BY <1>2
  <2>2. c * (a + 1) = a * c + c
    OBVIOUS
  <2>3. a * c \in Int /\ c * d \in Int
    BY <1>2
  <2> HIDE DEF d
  <2> QED
    BY <1>1, <1>2, <1>3, <2>1, <2>2, <2>3
<1>6. b < c /\ 0 < a => d < a
  <2> SUFFICES ASSUME b < c, 0 < a, d = a PROVE FALSE
    BY <1>2, <1>5
  <2>1. c * d = a * c
    OBVIOUS
  <2>2. a * c \in Int
    OBVIOUS
  <2> QED
    BY <1>1, <1>2, <1>3, <2>1, <2>2
<1>7. b = c => d = a
  <2> SUFFICES ASSUME b = c, d <= a - 1 PROVE FALSE
    BY <1>2, <1>5
  <2>1. c * d <= c * (a - 1)
    BY <1>2
  <2>2. c * (a - 1) = a * c - c
    OBVIOUS
  <2>3. a * c \in Int /\ c * d \in Int /\ a * b = a * c
    BY <1>2
  <2> QED
    BY <1>1, <1>2, <2>1, <2>2, <2>3
<1> QED
  BY <1>2, <1>4, <1>5, <1>6, <1>7 DEF d

LEMMA NotionalType ==
    ASSUME NEW fill, IsFill(fill)
    PROVE  /\ Notional(fill) \in Nat
           /\ Notional(fill) = 0 <=> fill.quantity = 0
<1>1. fill.quantity \in Nat /\ fill.price \in Nat /\ fill.price > 0
  BY DEF IsFill
<1>2. \A q, p \in Nat : p > 0 => q * p \in Nat /\ (q * p = 0 <=> q = 0)
  <2> SUFFICES ASSUME NEW q \in Nat, NEW p \in Nat, p > 0
               PROVE  q * p \in Nat /\ (q * p = 0 <=> q = 0)
    OBVIOUS
  <2>1. q >= 1 => q * p >= p
    OBVIOUS
  <2> QED
    BY <2>1
<1> QED
  BY <1>1, <1>2 DEF Notional

LEMMA InitialPortfolio ==
    /\ InitialState \in Portfolios
    /\ InitialState.realized = 0
    /\ \A m \in Mints : InitialState.positions[m] = Flat
  BY DEF InitialState, Portfolios, Positions, Flat

(* What is held costs something, what is not is the empty position.        *)
LEMMA HeldOrFlat ==
    ASSUME NEW s \in Portfolios, NEW m \in Mints
    PROVE  /\ s.positions[m] \in Positions
           /\ m \notin OpenMints(s) <=> s.positions[m] = Flat
           /\ m \notin OpenMints(s) <=> s.positions[m].quantity = 0
           /\ m \in OpenMints(s) => s.positions[m].costBasis > 0
<1> DEFINE position == s.positions[m]
<1>1. /\ position \in [quantity : Nat, costBasis : Nat]
      /\ position.quantity = 0 <=> position.costBasis = 0
  BY DEF Portfolios, Positions
<1>2. m \in OpenMints(s) <=> position.quantity > 0
  BY DEF OpenMints
<1> HIDE DEF position
<1>3. position.quantity = 0 /\ position.costBasis = 0 <=> position = Flat
  BY <1>1 DEF Flat
<1> QED
  BY <1>1, <1>2, <1>3 DEF position, Positions

(* A buy adds its notional to the cost of its mint.                        *)
LEMMA BuyEffect ==
    ASSUME NEW s \in Portfolios, NEW fill, IsFill(fill)
    PROVE  LET t == ApplyBuyFill(s, fill)
               n == Notional(fill)
           IN  /\ t \in Portfolios
               /\ t.realized = s.realized
               /\ t.positions[fill.mint].costBasis
                     = s.positions[fill.mint].costBasis + n
               /\ \A m \in Mints \ {fill.mint} :
                     t.positions[m] = s.positions[m]
<1> DEFINE old == s.positions[fill.mint]
           new == [quantity |-> old.quantity + fill.quantity,
                   costBasis |-> old.costBasis + Notional(fill) + fill.fee]
           t == ApplyBuyFill(s, fill)
<1>1. /\ fill.mint \in Mints /\ fill.fee = 0 /\ fill.quantity \in Nat
      /\ old \in [quantity : Nat, costBasis : Nat]
      /\ old.quantity = 0 <=> old.costBasis = 0
  BY DEF IsFill, Portfolios, Positions, NoFee
<1>2. Notional(fill) \in Nat /\ (Notional(fill) = 0 <=> fill.quantity = 0)
  BY NotionalType
<1>3. /\ new \in Positions /\ (new.quantity = 0 <=> new.costBasis = 0)
      /\ new.costBasis = old.costBasis + Notional(fill)
  <2>1. /\ new = [quantity |-> old.quantity + fill.quantity,
                   costBasis |-> old.costBasis + Notional(fill) + fill.fee]
        /\ fill.fee = 0
    BY <1>1
  <2> HIDE DEF old, new
  <2> QED
    BY <1>1, <1>2, <2>1 DEF Positions
<1>4. t = [s EXCEPT !.positions = [s.positions EXCEPT ![fill.mint] = new]]
  BY DEF ApplyBuyFill
<1> HIDE DEF t, new, old
<1> QED
  BY <1>1, <1>3, <1>4 DEF Portfolios, t, old

(* A sale of no more than is held takes its part of the cost.              *)
LEMMA SaleEffect ==
    ASSUME NEW s \in Portfolios, NEW fill, IsFill(fill)
    PROVE  LET t == ApplySellFill(s, fill)
               old == s.positions[fill.mint]
               new == t.positions[fill.mint]
           IN  /\ t \in Portfolios
               /\ \A m \in Mints \ {fill.mint} :
                     t.positions[m] = s.positions[m]
               /\ fill.quantity >= old.quantity => new = Flat
               /\ fill.quantity <= old.quantity =>
                     t.realized - s.realized
                        = Notional(fill) - (old.costBasis - new.costBasis)
               /\ old = Flat => new = Flat
<1> DEFINE old == s.positions[fill.mint]
           sold == Lesser(fill.quantity, old.quantity)
           cost == SoldCost(old, sold)
           new == IF sold = old.quantity THEN Flat
                  ELSE [quantity |-> old.quantity - sold,
                        costBasis |-> old.costBasis - cost]
           t == ApplySellFill(s, fill)
<1>1. /\ fill.mint \in Mints /\ fill.fee = 0 /\ fill.quantity \in Nat
      /\ fill.price \in Nat
      /\ old \in [quantity : Nat, costBasis : Nat]
      /\ old.quantity = 0 <=> old.costBasis = 0
  BY DEF IsFill, Portfolios, Positions, NoFee
<1>2. CASE old.quantity = 0
  <2>1. t = s
    BY <1>2 DEF ApplySellFill
  <2>2. old = Flat
    BY <1>2, HeldOrFlat, <1>1
  <2>3. fill.quantity <= 0 => Notional(fill) = 0
    BY NotionalType, <1>1
  <2>4. s.realized \in Int
    BY DEF Portfolios
  <2> HIDE DEF t, old
  <2> QED
    BY <1>1, <1>2, <2>1, <2>2, <2>3, <2>4 DEF t, old
<1>3. CASE old.quantity > 0
  <2>1. /\ sold \in Nat /\ sold <= old.quantity
        /\ sold = old.quantity <=> fill.quantity >= old.quantity
        /\ fill.quantity <= old.quantity => sold = fill.quantity
    BY <1>1 DEF Lesser
  <2> HIDE DEF sold
  <2>2. /\ cost \in 0..old.costBasis
        /\ sold < old.quantity => cost < old.costBasis
        /\ sold = old.quantity => cost = old.costBasis
    <3>1. cost = (old.costBasis * sold) \div old.quantity
      BY DEF SoldCost
    <3> HIDE DEF old, cost
    <3> QED
      BY <1>1, <1>3, <2>1, <3>1, PartOfCost
  <2> HIDE DEF cost
  <2>3. /\ new \in Positions /\ (new.quantity = 0 <=> new.costBasis = 0)
        /\ new.costBasis = old.costBasis - cost
        /\ fill.quantity >= old.quantity => new = Flat
    BY <1>1, <2>1, <2>2 DEF Positions, Flat
  <2>4. t = [s EXCEPT !.positions = [s.positions EXCEPT ![fill.mint] = new],
                      !.realized = s.realized + fill.price * sold - cost - fill.fee,
                      !.closed = IF sold = old.quantity THEN s.closed + 1
                                 ELSE s.closed]
    BY <1>3 DEF ApplySellFill, sold, cost
  <2>5. fill.price * sold \in Int
        /\ (fill.quantity <= old.quantity => fill.price * sold = Notional(fill))
    BY <1>1, <2>1 DEF Notional
  <2>6. s.realized \in Int /\ s.closed \in Nat
    BY DEF Portfolios
  <2>7. old # Flat
    BY <1>3 DEF Flat
  <2> HIDE DEF new, t, old
  <2>8. t \in Portfolios
    <3> DEFINE realized == s.realized + fill.price * sold - cost - fill.fee
               closed == IF sold = old.quantity THEN s.closed + 1
                         ELSE s.closed
               positions == [s.positions EXCEPT ![fill.mint] = new]
    <3>1. realized \in Int /\ closed \in Nat
      BY <1>1, <2>2, <2>5, <2>6
    <3>2. /\ positions \in [Mints -> Positions]
          /\ \A m \in Mints : positions[m].quantity = 0
                                 <=> positions[m].costBasis = 0
      BY <1>1, <2>3 DEF Portfolios
    <3>3. t = [s EXCEPT !.positions = positions, !.realized = realized,
                        !.closed = closed]
      BY <2>4
    <3> HIDE DEF realized, closed, positions
    <3> QED
      BY <3>1, <3>2, <3>3 DEF Portfolios
  <2>9. /\ t.positions[fill.mint] = new
        /\ t.realized = s.realized + fill.price * sold - cost - fill.fee
        /\ \A m \in Mints \ {fill.mint} : t.positions[m] = s.positions[m]
    BY <1>1, <2>4 DEF Portfolios
  <2>10. fill.quantity <= old.quantity =>
            t.realized - s.realized
               = Notional(fill) - (old.costBasis - new.costBasis)
    BY <1>1, <2>2, <2>3, <2>5, <2>6, <2>9
  <2> QED
    BY <2>3, <2>7, <2>8, <2>9, <2>10 DEF t, old
<1> QED
  BY <1>1, <1>2, <1>3

-----------------------------------------------------------------------------
(* Sequences of lines, one line more or a cut of them. *)

LEMMA OneMore ==
    ASSUME NEW J, IsSequence(J), NEW e
    PROVE  LET K == Append(J, e)
           IN  /\ IsSequence(K)
               /\ Len(J) \in Nat /\ Len(K) = Len(J) + 1
               /\ DOMAIN J = 1..Len(J) /\ DOMAIN K = 1..Len(J) + 1
               /\ K[Len(J) + 1] = e
               /\ \A i \in 1..Len(J) : K[i] = J[i]
               /\ SubSeq(K, 1, Len(J)) = J
<1>1. PICK S : J \in Seq(S)
  BY DEF IsSequence
<1>2. J \in Seq(S \cup {e})
  BY <1>1, SeqMonotonic
<1> DEFINE K == Append(J, e)
<1>3. /\ K \in Seq(S \cup {e}) /\ Len(J) \in Nat /\ Len(K) = Len(J) + 1
      /\ DOMAIN J = 1..Len(J) /\ DOMAIN K = 1..Len(J) + 1
      /\ K[Len(J) + 1] = e
      /\ \A i \in 1..Len(J) : K[i] = J[i]
  BY <1>2
<1>4. SubSeq(K, 1, Len(J)) = J
  <2> HIDE DEF K
  <2>1. /\ SubSeq(K, 1, Len(J)) \in Seq(S \cup {e})
        /\ Len(SubSeq(K, 1, Len(J))) = Len(J)
        /\ \A i \in 1..Len(J) : SubSeq(K, 1, Len(J))[i] = K[i]
    BY <1>3
  <2> QED
    BY <1>2, <1>3, <2>1, SeqEqual
<1> QED
  BY <1>3, <1>4 DEF IsSequence

LEMMA PrefixOf ==
    ASSUME NEW J, IsSequence(J), NEW n \in 0..Len(J)
    PROVE  LET K == SubSeq(J, 1, n)
           IN  /\ IsSequence(K) /\ Len(J) \in Nat /\ DOMAIN J = 1..Len(J)
               /\ Len(K) = n /\ DOMAIN K = 1..n
               /\ \A i \in 1..n : K[i] = J[i]
               /\ \A m \in 0..n : SubSeq(K, 1, m) = SubSeq(J, 1, m)
<1>1. PICK S : J \in Seq(S)
  BY DEF IsSequence
<1> DEFINE K == SubSeq(J, 1, n)
<1>2. /\ K \in Seq(S) /\ Len(K) = n /\ DOMAIN K = 1..n
      /\ Len(J) \in Nat /\ DOMAIN J = 1..Len(J) /\ n \in Nat /\ n <= Len(J)
      /\ \A i \in 1..n : K[i] = J[i]
  BY <1>1
<1>3. ASSUME NEW m \in 0..n PROVE SubSeq(K, 1, m) = SubSeq(J, 1, m)
  <2> HIDE DEF K
  <2>1. /\ SubSeq(K, 1, m) \in Seq(S) /\ Len(SubSeq(K, 1, m)) = m
        /\ \A i \in 1..m : SubSeq(K, 1, m)[i] = K[i]
    BY <1>2
  <2>2. /\ SubSeq(J, 1, m) \in Seq(S) /\ Len(SubSeq(J, 1, m)) = m
        /\ \A i \in 1..m : SubSeq(J, 1, m)[i] = J[i]
    BY <1>1, <1>2
  <2> QED
    BY <1>2, <2>1, <2>2, SeqEqual
<1> QED
  BY <1>2, <1>3 DEF IsSequence

(* The last line is one more than the cut before it.                       *)
LEMMA PrefixAndNext ==
    ASSUME NEW J, IsSequence(J), NEW i \in DOMAIN J
    PROVE  SubSeq(J, 1, i) = Append(SubSeq(J, 1, i - 1), J[i])
<1>1. PICK S : J \in Seq(S)
  BY DEF IsSequence
<1>2. /\ Len(J) \in Nat /\ i \in 1..Len(J) /\ J[i] \in S
      /\ i \in 0..Len(J) /\ i - 1 \in 0..Len(J)
  BY <1>1
<1> DEFINE K == SubSeq(J, 1, i)
           L == SubSeq(J, 1, i - 1)
           M == Append(L, J[i])
<1>3. /\ K \in Seq(S) /\ Len(K) = i /\ \A k \in 1..i : K[k] = J[k]
      /\ L \in Seq(S) /\ Len(L) = i - 1 /\ \A k \in 1..i - 1 : L[k] = J[k]
  BY <1>1, <1>2
<1> HIDE DEF K, L
<1>4. /\ M \in Seq(S) /\ Len(M) = i /\ M[i] = J[i]
      /\ \A k \in 1..i - 1 : M[k] = L[k]
  BY <1>2, <1>3
<1> HIDE DEF M
<1>5. \A k \in 1..i : K[k] = M[k]
  BY <1>2, <1>3, <1>4
<1>6. K = M
  BY <1>3, <1>4, <1>5, SeqEqual
<1> QED
  BY <1>6 DEF K, L, M

LEMMA Joined ==
    ASSUME NEW J, IsSequence(J), NEW E, IsSequence(E)
    PROVE  LET H == J \o E
           IN  /\ IsSequence(H)
               /\ Len(J) \in Nat /\ Len(E) \in Nat
               /\ Len(H) = Len(J) + Len(E) /\ DOMAIN H = 1..Len(J) + Len(E)
               /\ \A i \in 1..Len(J) : H[i] = J[i]
               /\ \A i \in 1..Len(E) : H[Len(J) + i] = E[i]
               /\ \A n \in 0..Len(E) :
                     SubSeq(H, 1, Len(J) + n) = J \o SubSeq(E, 1, n)
<1>1. PICK S : J \in Seq(S)
  BY DEF IsSequence
<1>2. PICK T : E \in Seq(T)
  BY DEF IsSequence
<1> DEFINE U == S \cup T
           H == J \o E
<1>3. J \in Seq(U) /\ E \in Seq(U)
  BY <1>1, <1>2, Extended
<1> HIDE DEF U
<1>4. /\ H \in Seq(U) /\ Len(J) \in Nat /\ Len(E) \in Nat
      /\ Len(H) = Len(J) + Len(E) /\ DOMAIN H = 1..Len(J) + Len(E)
      /\ \A i \in 1..Len(J) + Len(E) :
            H[i] = IF i <= Len(J) THEN J[i] ELSE E[i - Len(J)]
  BY <1>3, ConcatProperties
<1>5. /\ \A i \in 1..Len(J) : H[i] = J[i]
      /\ \A i \in 1..Len(E) : H[Len(J) + i] = E[i]
  <2> HIDE DEF H
  <2>1. \A i \in 1..Len(J) : i \in 1..Len(J) + Len(E) /\ i <= Len(J)
    BY <1>4
  <2>2. \A i \in 1..Len(E) : /\ Len(J) + i \in 1..Len(J) + Len(E)
                             /\ ~(Len(J) + i <= Len(J))
                             /\ Len(J) + i - Len(J) = i
    BY <1>4
  <2> QED
    BY <1>4, <2>1, <2>2
<1>6. ASSUME NEW n \in 0..Len(E)
      PROVE  SubSeq(H, 1, Len(J) + n) = J \o SubSeq(E, 1, n)
  <2> DEFINE K == SubSeq(H, 1, Len(J) + n)
             L == SubSeq(E, 1, n)
             M == J \o L
  <2>1. L \in Seq(U) /\ Len(L) = n /\ \A i \in 1..n : L[i] = E[i]
    BY <1>3, <1>4
  <2> HIDE DEF H, L
  <2>2. Len(J) + n \in 0..Len(H)
    BY <1>4
  <2>3. /\ K \in Seq(U) /\ Len(K) = Len(J) + n
        /\ \A i \in 1..Len(J) + n : K[i] = H[i]
    BY <1>4, <2>2
  <2>4. /\ M \in Seq(U) /\ Len(M) = Len(J) + n
        /\ \A i \in 1..Len(J) + n :
              M[i] = IF i <= Len(J) THEN J[i] ELSE L[i - Len(J)]
    BY <1>3, <2>1, ConcatProperties
  <2> HIDE DEF K, M
  <2>5. ASSUME NEW i \in 1..Len(J) + n PROVE K[i] = M[i]
    <3>1. i \in 1..Len(J) + Len(E)
      BY <1>4
    <3>2. i <= Len(J) \/ i - Len(J) \in 1..n
      BY <1>4
    <3> QED
      BY <1>4, <2>1, <2>3, <2>4, <3>1, <3>2
  <2> QED
    BY <1>4, <2>3, <2>4, <2>5, SeqEqual DEF K, L, M, H
<1> QED
  BY <1>4, <1>5, <1>6 DEF IsSequence

LEMMA JoinedOneMore ==
    ASSUME NEW J, IsSequence(J), NEW E, IsSequence(E), NEW e
    PROVE  J \o Append(E, e) = Append(J \o E, e)
<1>1. PICK S : J \in Seq(S)
  BY DEF IsSequence
<1>2. PICK T : E \in Seq(T)
  BY DEF IsSequence
<1> DEFINE U == (S \cup T) \cup {e}
<1>3. J \in Seq(U) /\ E \in Seq(U) /\ e \in U
  BY <1>1, <1>2, SeqMonotonic
<1> HIDE DEF U
<1>4. <<e>> \in Seq(U) /\ Append(E, e) = E \o <<e>>
  BY <1>3, AppendIsConcat
<1>5. J \o E \in Seq(U)
  BY <1>3, ConcatProperties
<1>6. Append(J \o E, e) = (J \o E) \o <<e>>
  BY <1>3, <1>5, AppendIsConcat
<1>7. J \o (E \o <<e>>) = (J \o E) \o <<e>>
  BY <1>3, <1>4, ConcatAssociative
<1> QED
  BY <1>4, <1>6, <1>7

-----------------------------------------------------------------------------
(* The replay of a journal, one event after the other.  The lemmas of the  *)
(* fold are those of its instance.                                         *)

IsEvent(e) ==
    e.type \in {"PAPER_BUY_FILLED", "PAPER_SELL_FILLED"} => IsFill(e.fill)

Typed(J) == IsSequence(J) /\ \A i \in DOMAIN J : IsEvent(J[i])

LEMMA ReplayIsFold == \A J : ReduceJournal(J) = Replay!Folded(J)
  BY DEF ReduceJournal, Replay!Folded, FoldLeft, MapThenFoldSet, Max,
         Replay!FoldLeft, Replay!MapThenFoldSet, Replay!Max

(* An empty journal is the initial portfolio.                              *)
LEMMA ReplayEmpty == ReduceJournal(<<>>) = InitialState
  BY ReplayIsFold, Replay!FoldedEmpty

(* An event more is applied to what the journal held.                      *)
LEMMA ReplayAppend ==
    ASSUME NEW J, IsSequence(J), NEW e
    PROVE  ReduceJournal(Append(J, e)) = ApplyEvent(ReduceJournal(J), e)
<1>1. PICK S : J \in Seq(S)
  BY DEF IsSequence
<1>2. J \in Seq(S \cup {e}) /\ e \in S \cup {e}
  BY <1>1, SeqMonotonic
<1>3. Replay!Folded(Append(J, e)) = ApplyEvent(Replay!Folded(J), e)
  BY <1>2, Replay!FoldedAppend
<1> QED
  BY <1>3, ReplayIsFold

LEMMA ApplyTyped ==
    ASSUME NEW s \in Portfolios, NEW e, IsEvent(e)
    PROVE  ApplyEvent(s, e) \in Portfolios
<1>1. CASE e.type = "PAPER_BUY_FILLED"
  BY <1>1, BuyEffect DEF ApplyEvent, IsEvent
<1>2. CASE e.type = "PAPER_SELL_FILLED"
  BY <1>2, SaleEffect DEF ApplyEvent, IsEvent
<1>3. CASE e.type \notin {"PAPER_BUY_FILLED", "PAPER_SELL_FILLED"}
  BY <1>3 DEF ApplyEvent
<1> QED
  BY <1>1, <1>2, <1>3

(* A journal of events is a portfolio.                                     *)
LEMMA ReplayTyped ==
    ASSUME NEW J, Typed(J)
    PROVE  ReduceJournal(J) \in Portfolios
<1>1. PICK S : J \in Seq(S)
  BY DEF Typed, IsSequence
<1>2. \A s \in Portfolios, i \in DOMAIN J : ApplyEvent(s, J[i]) \in Portfolios
  BY ApplyTyped DEF Typed
<1>3. InitialState \in Portfolios
  BY InitialPortfolio
<1>4. Replay!Folded(J) \in Portfolios
  BY <1>1, <1>2, <1>3, Replay!FoldedIn
<1> QED
  BY <1>4, ReplayIsFold

-----------------------------------------------------------------------------
(* An orderly history: each line may follow those before it. *)

(* The last run to have started in J started at k.                         *)
StartedAt(J, k) ==
    /\ k \in DOMAIN J /\ J[k].type = "RUN_STARTED"
    /\ \A i \in DOMAIN J : i > k => J[i].type # "RUN_STARTED"

MayBuy(J, fill) ==
    \E k \in DOMAIN J :
        /\ StartedAt(J, k)
        /\ WithinCaps(J[k].caps, ReduceJournal(J), fill.mint, Notional(fill))

MaySell(J, fill) ==
    fill.quantity <= ReduceJournal(J).positions[fill.mint].quantity

(* What comes after a line that announces an exit.                         *)
Answers(J, trigger, e) ==
    \/ /\ e.type = "PAPER_SELL_FILLED" /\ e.fill.mint = trigger.mint
       /\ ReduceJournal(Append(J, e)).positions[trigger.mint] = Flat
    \/ e.type = "RUN_STARTED"

MayFollow(J, e) ==
    /\ IsEvent(e)
    /\ e.type = "PAPER_BUY_FILLED" => MayBuy(J, e.fill)
    /\ e.type = "PAPER_SELL_FILLED" => MaySell(J, e.fill)
    /\ Len(J) > 0 /\ J[Len(J)].type \in Triggers => Answers(J, J[Len(J)], e)

Orderly(J) ==
    /\ IsSequence(J)
    /\ \A i \in DOMAIN J : MayFollow(SubSeq(J, 1, i - 1), J[i])

LEMMA OrderlyEmpty == Orderly(<<>>)
<1>1. IsSequence(<<>>)
  BY EmptySeq DEF IsSequence
<1> QED
  BY <1>1 DEF Orderly

LEMMA OrderlyTyped ==
    ASSUME NEW J, Orderly(J)
    PROVE  Typed(J) /\ IsSequence(J) /\ ReduceJournal(J) \in Portfolios
<1>1. Typed(J)
  BY DEF Orderly, Typed, MayFollow
<1> QED
  BY <1>1, ReplayTyped DEF Typed

LEMMA OrderlyAppend ==
    ASSUME NEW J, Orderly(J), NEW e, MayFollow(J, e)
    PROVE  Orderly(Append(J, e))
<1> DEFINE K == Append(J, e)
<1>1. IsSequence(J)
  BY DEF Orderly
<1>2. /\ IsSequence(K) /\ Len(J) \in Nat /\ Len(K) = Len(J) + 1
      /\ DOMAIN J = 1..Len(J) /\ DOMAIN K = 1..Len(J) + 1
      /\ K[Len(J) + 1] = e /\ \A i \in 1..Len(J) : K[i] = J[i]
      /\ SubSeq(K, 1, Len(J)) = J
  BY <1>1, OneMore
<1> HIDE DEF K
<1>3. ASSUME NEW i \in DOMAIN K
      PROVE  MayFollow(SubSeq(K, 1, i - 1), K[i])
  <2>1. CASE i = Len(J) + 1
    <3>1. i - 1 = Len(J)
      BY <1>2, <2>1
    <3> QED
      BY <1>2, <2>1, <3>1
  <2>2. CASE i # Len(J) + 1
    <3>1. /\ i \in DOMAIN J /\ K[i] = J[i] /\ i - 1 \in 0..Len(J)
          /\ Len(J) \in 0..Len(K)
      BY <1>2, <2>2
    <3>2. \A m \in 0..Len(J) :
             SubSeq(SubSeq(K, 1, Len(J)), 1, m) = SubSeq(K, 1, m)
      BY <1>2, <3>1, PrefixOf
    <3>3. SubSeq(K, 1, i - 1) = SubSeq(J, 1, i - 1)
      BY <1>2, <3>1, <3>2
    <3> QED
      BY <3>1, <3>3 DEF Orderly
  <2> QED
    BY <2>1, <2>2
<1> QED
  BY <1>2, <1>3 DEF Orderly, K

LEMMA OrderlyPrefix ==
    ASSUME NEW J, Orderly(J), NEW n \in 0..Len(J)
    PROVE  Orderly(SubSeq(J, 1, n))
<1> DEFINE K == SubSeq(J, 1, n)
<1>1. IsSequence(J)
  BY DEF Orderly
<1>2. /\ IsSequence(K) /\ Len(J) \in Nat /\ DOMAIN J = 1..Len(J)
      /\ DOMAIN K = 1..n /\ \A i \in 1..n : K[i] = J[i]
      /\ \A m \in 0..n : SubSeq(K, 1, m) = SubSeq(J, 1, m)
  BY <1>1, PrefixOf
<1> HIDE DEF K
<1>3. ASSUME NEW i \in DOMAIN K
      PROVE  MayFollow(SubSeq(K, 1, i - 1), K[i])
  <2>1. i - 1 \in 0..n /\ i \in DOMAIN J /\ K[i] = J[i]
    BY <1>2
  <2>2. SubSeq(K, 1, i - 1) = SubSeq(J, 1, i - 1)
    BY <1>2, <2>1
  <2> QED
    BY <2>1, <2>2 DEF Orderly
<1> QED
  BY <1>2, <1>3 DEF Orderly, K

(* A line that starts no run leaves the last start where it was.           *)
LEMMA StartStays ==
    ASSUME NEW J, IsSequence(J), NEW k, StartedAt(J, k),
           NEW e, e.type # "RUN_STARTED"
    PROVE  StartedAt(Append(J, e), k) /\ Append(J, e)[k] = J[k]
<1> DEFINE K == Append(J, e)
<1>1. /\ Len(J) \in Nat /\ DOMAIN J = 1..Len(J) /\ DOMAIN K = 1..Len(J) + 1
      /\ K[Len(J) + 1] = e /\ \A i \in 1..Len(J) : K[i] = J[i]
  BY OneMore
<1> HIDE DEF K
<1>2. k \in DOMAIN K /\ K[k] = J[k]
  BY <1>1 DEF StartedAt
<1>3. \A i \in DOMAIN K : (i \in DOMAIN J /\ K[i] = J[i]) \/ K[i] = e
  BY <1>1
<1> QED
  BY <1>2, <1>3 DEF StartedAt, K

-----------------------------------------------------------------------------
(* What an orderly journal says. *)

LEMMA OrderlyBuys ==
    ASSUME NEW i, Orderly(journal), i \in Fills("PAPER_BUY_FILLED")
    PROVE  LET fill == journal[i].fill
           IN  WithinCaps(CapsAt(i), Before(i), fill.mint, Notional(fill))
<1> DEFINE J == SubSeq(journal, 1, i - 1)
           fill == journal[i].fill
<1>1. /\ i \in DOMAIN journal /\ journal[i].type = "PAPER_BUY_FILLED"
      /\ MayFollow(J, journal[i]) /\ IsSequence(journal)
  BY DEF Fills, Orderly
<1>2. i - 1 \in 0..Len(journal)
  <2>1. DOMAIN journal = 1..Len(journal) /\ Len(journal) \in Nat
    BY <1>1 DEF IsSequence
  <2> QED
    BY <1>1, <2>1
<1>3. /\ DOMAIN J = 1..i - 1 /\ \A k \in 1..i - 1 : J[k] = journal[k]
      /\ DOMAIN journal = 1..Len(journal) /\ Len(journal) \in Nat
  BY <1>1, <1>2, PrefixOf
<1>4. PICK k \in DOMAIN J :
          /\ StartedAt(J, k)
          /\ WithinCaps(J[k].caps, ReduceJournal(J), fill.mint, Notional(fill))
  BY <1>1 DEF MayFollow, MayBuy
<1> DEFINE starts == {n \in 1..i : journal[n].type = "RUN_STARTED"}
<1> HIDE DEF J
<1>5. Max(starts) = k /\ journal[k] = J[k]
  <2>1. k \in starts /\ k \in Int
    BY <1>1, <1>3, <1>4 DEF StartedAt
  <2>2. \A n \in starts : k >= n /\ n \in Int
    <3> SUFFICES ASSUME NEW n \in starts, ~(k >= n) PROVE FALSE
      BY <1>1, <1>3
    <3>1. n \in 1..i /\ journal[n].type = "RUN_STARTED" /\ n # i
      BY <1>1
    <3>2. n \in DOMAIN J /\ J[n].type = "RUN_STARTED" /\ n > k
      BY <1>1, <1>2, <1>3, <2>1, <3>1
    <3> QED
      BY <1>4, <3>2 DEF StartedAt
  <2> HIDE DEF starts
  <2>3. \A x \in starts : (\A y \in starts : x >= y) => x = k
    BY <2>1, <2>2
  <2>4. Max(starts) = k
    BY <2>1, <2>2, <2>3, Zenon DEF Max
  <2> QED
    BY <1>3, <1>4, <2>4
<1>6. CapsAt(i) = J[k].caps
  BY <1>5 DEF CapsAt
<1> QED
  BY <1>4, <1>6 DEF Before, J

LEMMA OrderlySales ==
    ASSUME NEW i, Orderly(journal), i \in Fills("PAPER_SELL_FILLED")
    PROVE  journal[i].fill.quantity
              <= Before(i).positions[journal[i].fill.mint].quantity
  BY DEF Fills, Orderly, MayFollow, MaySell, Before

LEMMA OrderlyExits ==
    ASSUME NEW i \in DOMAIN journal, Orderly(journal),
           journal[i].type \in Triggers, i + 1 \in DOMAIN journal
    PROVE  \/ /\ journal[i + 1].type = "PAPER_SELL_FILLED"
              /\ journal[i + 1].fill.mint = journal[i].mint
              /\ Before(i + 2).positions[journal[i].mint] = Flat
           \/ journal[i + 1].type = "RUN_STARTED"
<1> DEFINE J == SubSeq(journal, 1, i)
<1>1. /\ IsSequence(journal)
      /\ \A k \in DOMAIN journal :
            MayFollow(SubSeq(journal, 1, k - 1), journal[k])
  BY DEF Orderly
<1>2. DOMAIN journal = 1..Len(journal) /\ Len(journal) \in Nat
  BY <1>1 DEF IsSequence
<1>3. /\ i \in 0..Len(journal) /\ i + 1 - 1 = i /\ i + 2 - 1 = i + 1
      /\ i \in Nat /\ i > 0
  BY <1>2
<1>4. Len(J) = i /\ J[i] = journal[i]
  BY <1>1, <1>3, PrefixOf
<1>5. SubSeq(journal, 1, i + 1) = Append(J, journal[i + 1])
  BY <1>1, <1>3, PrefixAndNext
<1>6. MayFollow(J, journal[i + 1])
  <2> DEFINE k == i + 1
  <2>1. k \in DOMAIN journal /\ k - 1 = i
    BY <1>3
  <2> HIDE DEF k
  <2>2. MayFollow(SubSeq(journal, 1, k - 1), journal[k])
    BY <1>1, <2>1
  <2> QED
    BY <2>1, <2>2 DEF k
<1>7. Answers(J, journal[i], journal[i + 1])
  <2> HIDE DEF J
  <2> QED
    BY <1>3, <1>4, <1>6 DEF MayFollow
<1>8. Before(i + 2) = ReduceJournal(Append(J, journal[i + 1]))
  <2>1. \A n, m : n - 1 = m => Before(n) = ReduceJournal(SubSeq(journal, 1, m))
    BY DEF Before
  <2>2. Before(i + 2) = ReduceJournal(SubSeq(journal, 1, i + 1))
    BY <1>3, <2>1
  <2> QED
    BY <1>5, <2>2
<1> HIDE DEF J
<1> QED
  BY <1>7, <1>8 DEF Answers

-----------------------------------------------------------------------------
(* The candidates of a plan. *)

(* A size that every price divides.                                        *)
Whole(size) ==
    \A prices \in PriceFiles, m \in Mints :
        \A i \in DOMAIN prices[m] :
            prices[m][i] > 0 => size % prices[m][i] = 0

IsCandidate(c) ==
    /\ c.mint \in Mints /\ c.size \in Nat
    /\ c.side = "BUY" => Whole(c.size)

(* A full exit of a plan for which nobody gave a size sells everything.    *)
PlanShape(f) ==
    /\ IsSequence(f.candidates)
    /\ \A i \in DOMAIN f.candidates :
          /\ IsCandidate(f.candidates[i])
          /\ f.candidates[i].why = "FULL_EXIT" /\ ~f.sized =>
                f.candidates[i].side = "SELL" /\ f.candidates[i].size = 0

LEMMA WholeSizes ==
    /\ \A size \in Sizes : size \in Nat /\ Whole(size)
    /\ \A size \in PlanSizes : Whole(size)
    /\ Whole(0)
<1>1. \A size \in Sizes \cup PlanSizes : Whole(size)
  BY SizesAssumption DEF Whole
<1>2. \A size \in Sizes : size \in Nat
  BY InputsAssumption
<1>3. Whole(0)
  <2> SUFFICES ASSUME NEW prices \in PriceFiles, NEW m \in Mints,
                      NEW i \in DOMAIN prices[m], prices[m][i] > 0
               PROVE  0 % prices[m][i] = 0
    BY DEF Whole
  <2>1. prices[m] \in Seq(Nat)
    BY InputsAssumption
  <2>2. prices[m][i] \in Nat
    BY <2>1
  <2>3. \A n \in Nat : n > 0 => 0 % n = 0
    OBVIOUS
  <2> QED
    BY <2>2, <2>3
<1> QED
  BY <1>1, <1>2, <1>3

(* The size of a partial exit is a number.                                 *)
LEMMA PartialSize ==
    ASSUME NEW c, c.mint \in Mints, IsOptional(c.positionSize, Int),
           NEW config, IsOptional(config.partialFraction, Int),
           NEW s \in Portfolios
    PROVE  Partial(c, config, {s}).size \in Nat
<1> DEFINE fraction == PartialFraction(config)
           position == PositionSize(c, {s})
           sizes == {Rounded(fraction * size) : size \in position}
<1>1. fraction \in Nat
  <2>1. CASE \E f \in config.partialFraction : 0 < f /\ f < 100
    <3>1. PICK f \in config.partialFraction : 0 < f /\ f < 100
      BY <2>1
    <3>2. f \in Int /\ \A g \in config.partialFraction : g = f
      BY DEF IsOptional
    <3>3. (CHOOSE g \in config.partialFraction : TRUE) = f
      BY <3>2
    <3>4. fraction = f
      BY <2>1, <3>3 DEF PartialFraction
    <3> HIDE DEF fraction
    <3> QED
      BY <3>1, <3>2, <3>4
  <2>2. CASE ~\E f \in config.partialFraction : 0 < f /\ f < 100
    <3>1. fraction = 50
      BY <2>2 DEF PartialFraction
    <3> QED
      BY <3>1
  <2> QED
    BY <2>1, <2>2
<1>2. \A size \in position : size \in Nat
  <2>1. \A size \in Enabled(c.positionSize) : size \in Nat
    BY DEF Enabled, IsOptional
  <2>2. \A size \in Enabled(BasisOf({s}, c.mint)) : size \in Nat
    <3>1. s.positions[c.mint].costBasis \in Nat
      BY DEF Portfolios, Positions
    <3> QED
      BY <3>1 DEF Enabled, BasisOf
  <2> QED
    BY <2>1, <2>2 DEF PositionSize
<1> HIDE DEF fraction, position
<1>3. \A size \in sizes : size \in Nat
  <2> SUFFICES ASSUME NEW size \in position
               PROVE  Rounded(fraction * size) \in Nat
    OBVIOUS
  <2>1. size \in Nat /\ fraction * size \in Nat
    BY <1>1, <1>2
  <2>2. \A n \in Nat : Rounded(n) \in Nat
    BY DEF Rounded
  <2> QED
    BY <2>1, <2>2
<1>4. Partial(c, config, {s})
        = IF \E size \in sizes : size > 0
          THEN PartialExit(CHOOSE size \in sizes : TRUE) ELSE Hold
  BY DEF Partial, fraction, position
<1> HIDE DEF sizes
<1>5. sizes # {} => (CHOOSE size \in sizes : TRUE) \in Nat
  BY <1>3
<1>6. PartialExit(CHOOSE size \in sizes : TRUE).size
         = (CHOOSE size \in sizes : TRUE)
      /\ Hold.size = 0
  BY DEF PartialExit, Hold
<1>7. CASE \E size \in sizes : size > 0
  BY <1>4, <1>5, <1>6, <1>7
<1>8. CASE ~\E size \in sizes : size > 0
  BY <1>4, <1>6, <1>8
<1> QED
  BY <1>7, <1>8

(* What a decision to trade can be.                                        *)
LEMMA DecisionShape ==
    ASSUME NEW c, c.mint \in Mints, IsOptional(c.positionSize, Int),
           NEW config, IsOptional(config.partialFraction, Int),
           NEW s \in Portfolios, NEW now
    PROVE  LET d == Decision(c, config, {s}, now)
           IN  /\ d.why = "PARTIAL_EXIT" => d.size \in Nat /\ d.side = "SELL"
               /\ d.why = "FULL_EXIT" => d.side = "SELL"
<1>1. /\ NoTrade.why = "none"
      /\ EntryDecision(c, config, {s}, now).why \in {"none", "entry"}
  BY DEF NoTrade, EntryDecision
<1>2. LET d == ExitDecision(c, config, {s}, now)
      IN  /\ d.why = "PARTIAL_EXIT" => d.size \in Nat /\ d.side = "SELL"
          /\ d.why = "FULL_EXIT" => d.side = "SELL"
  <2> DEFINE exits == {SimulatedExit(c, change, config, {s}) :
                          change \in c.change} \ {Hold}
             e == CHOOSE x \in exits : TRUE
             d == ExitDecision(c, config, {s}, now)
  <2>1. CASE d = NoTrade
    BY <1>1, <2>1
  <2>2. CASE d # NoTrade
    <3>1. exits # {} /\ d = [side |-> "SELL", why |-> e.action, size |-> e.size]
      BY <2>2 DEF ExitDecision
    <3>2. e \in exits
      BY <3>1
    <3>3. PICK change \in c.change : e = SimulatedExit(c, change, config, {s})
      BY <3>2
    <3>4. e \in {FullExit, Partial(c, config, {s}), Hold}
      BY <3>3 DEF SimulatedExit
    <3>5. e.action = "PARTIAL_EXIT" => e.size \in Nat
      <4>1. FullExit.action = "FULL_EXIT" /\ Hold.action = "HOLD"
        BY DEF FullExit, Hold
      <4>2. Partial(c, config, {s}).size \in Nat
        BY PartialSize
      <4> HIDE DEF e
      <4> QED
        BY <3>4, <4>1, <4>2
    <3> HIDE DEF e, exits
    <3>6. /\ d.why = "PARTIAL_EXIT" => d.size \in Nat /\ d.side = "SELL"
          /\ d.why = "FULL_EXIT" => d.side = "SELL"
      <4> HIDE DEF d
      <4> QED
        BY <3>1, <3>5
    <3> QED
      BY <3>6
  <2> QED
    BY <2>1, <2>2
<1> HIDE DEF Decision
<1>3. Decision(c, config, {s}, now) \in
          {NoTrade, ExitDecision(c, config, {s}, now),
           EntryDecision(c, config, {s}, now)}
  BY DEF Decision
<1> QED
  BY <1>1, <1>2, <1>3

(* A size is proposed by the candidate, by the operator or by nobody.      *)
LEMMA ProposedSizes ==
    ASSUME NEW c, IsOptionalSize(c.proposedSize),
           NEW default, IsOptionalSize(default)
    PROVE  /\ ProposedSize(c, default) \in Nat
           /\ \/ ProposedSize(c, default) \in c.proposedSize
              \/ ProposedSize(c, default) \in default
              \/ ProposedSize(c, default) = 0
           /\ c.proposedSize = Absent /\ default = Absent
                 => ProposedSize(c, default) = 0
<1>1. /\ c.proposedSize # {} =>
            (CHOOSE size \in c.proposedSize : TRUE) \in c.proposedSize
      /\ default # {} => (CHOOSE size \in default : TRUE) \in default
  OBVIOUS
<1>2. c.proposedSize \subseteq Nat /\ default \subseteq Nat
  BY DEF IsOptionalSize, IsOptional
<1>3. CASE c.proposedSize # Absent
  <2>1. ProposedSize(c, default) = CHOOSE size \in c.proposedSize : TRUE
    BY <1>3 DEF ProposedSize
  <2>2. ProposedSize(c, default) \in c.proposedSize
    BY <1>1, <1>3, <2>1 DEF Absent
  <2> QED
    BY <1>2, <1>3, <2>2
<1>4. CASE c.proposedSize = Absent /\ default # Absent
  <2>1. ProposedSize(c, default) = CHOOSE size \in default : TRUE
    BY <1>4 DEF ProposedSize
  <2>2. ProposedSize(c, default) \in default
    BY <1>1, <1>4, <2>1 DEF Absent
  <2> QED
    BY <1>2, <1>4, <2>2
<1>5. CASE c.proposedSize = Absent /\ default = Absent
  <2>1. ProposedSize(c, default) = 0
    BY <1>5 DEF ProposedSize
  <2> QED
    BY <2>1
<1> QED
  BY <1>3, <1>4, <1>5

(* Whatever a plan proposes is a size that an instance knows.              *)
LEMMA SizesOfPlans ==
    /\ \A batch \in Batches : \A i \in DOMAIN batch :
          batch[i].proposedSize \subseteq PlanSizes
    /\ \A default \in DefaultSizes : default \subseteq PlanSizes
<1>1. ASSUME NEW batch \in Batches, NEW i \in DOMAIN batch,
             NEW x \in batch[i].proposedSize
      PROVE  x \in PlanSizes
  <2>1. x \in UNION {batch[k].proposedSize : k \in DOMAIN batch}
    BY <1>1, Zenon
  <2>2. x \in UNION {UNION {b[k].proposedSize : k \in DOMAIN b} :
                        b \in Batches}
    BY <2>1, Zenon
  <2> QED
    BY <2>2, Zenon DEF PlanSizes
<1>2. ASSUME NEW default \in DefaultSizes, NEW x \in default
      PROVE  x \in PlanSizes
  <2>1. x \in UNION DefaultSizes
    BY <1>2, Zenon
  <2> QED
    BY <2>1, Zenon DEF PlanSizes
<1> QED
  BY <1>1, <1>2

LEMMA PlanHasShape ==
    ASSUME NEW batch \in Batches, NEW config \in Strategies,
           NEW default \in DefaultSizes, NEW s \in Portfolios, NEW now,
           NEW f, f.candidates = PaperCandidates(batch, config, {s}, default, now),
           f.sized = (\/ default # Absent
                      \/ \E i \in DOMAIN batch : batch[i].proposedSize # Absent)
    PROVE  PlanShape(f)
<1> DEFINE C == PaperCandidates(batch, config, {s}, default, now)
           P == Planned(batch, config, {s}, default, now)
<1>1. C \in Seq(P)
  BY PlansAssumption, PlannedFromBatch
<1>2. IsOptionalSize(default) /\ IsOptional(config.partialFraction, Int)
  BY PlansAssumption
<1>3. ASSUME NEW c \in P
      PROVE  /\ IsCandidate(c)
             /\ c.why = "FULL_EXIT" /\ ~f.sized => c.side = "SELL" /\ c.size = 0
  <2>1. PICK i \in DOMAIN batch :
           c = ToPaperCandidate(batch[i],
                  Decision(batch[i], config, {s}, now), default)
    BY <1>3 DEF Planned
  <2> DEFINE d == Decision(batch[i], config, {s}, now)
             proposed == ProposedSize(batch[i], default)
  <2>2. /\ batch[i].mint \in Mints /\ IsOptionalSize(batch[i].proposedSize)
        /\ IsOptional(batch[i].positionSize, Int)
    BY PlansAssumption
  <2>3. /\ d.why = "PARTIAL_EXIT" => d.size \in Nat /\ d.side = "SELL"
        /\ d.why = "FULL_EXIT" => d.side = "SELL"
    BY <1>2, <2>2, DecisionShape
  <2>4. /\ proposed \in Nat
        /\ \/ proposed \in batch[i].proposedSize
           \/ proposed \in default
           \/ proposed = 0
        /\ batch[i].proposedSize = Absent /\ default = Absent => proposed = 0
    BY <1>2, <2>2, ProposedSizes
  <2>5. Whole(proposed)
    <3>1. batch[i].proposedSize \subseteq PlanSizes
      BY SizesOfPlans
    <3>2. default \subseteq PlanSizes
      BY SizesOfPlans
    <3> HIDE DEF proposed, d
    <3>3. proposed \in PlanSizes \cup {0}
      BY <2>4, <3>1, <3>2
    <3> QED
      BY <3>3, WholeSizes
  <2>6. \A side, mint, size, decision, why :
           LET x == PaperCandidate(side, mint, size, decision, why)
           IN  x.side = side /\ x.mint = mint /\ x.size = size /\ x.why = why
    BY DEF PaperCandidate
  <2>7. /\ c.side = d.side /\ c.mint = batch[i].mint /\ c.why = d.why
        /\ c.size = IF d.why = "PARTIAL_EXIT" THEN d.size ELSE proposed
    BY <2>1, <2>6 DEF ToPaperCandidate
  <2>8. ~f.sized => proposed = 0
    BY <2>4
  <2> HIDE DEF d, proposed
  <2>9. IsCandidate(c)
    BY <2>2, <2>3, <2>4, <2>5, <2>7 DEF IsCandidate
  <2>10. c.why = "FULL_EXIT" /\ ~f.sized => c.side = "SELL" /\ c.size = 0
    BY <2>3, <2>7, <2>8
  <2> QED
    BY <2>9, <2>10
<1> HIDE DEF P, C
<1>4. f.candidates \in Seq(P)
  BY <1>1 DEF C
<1>5. \A i \in DOMAIN f.candidates : f.candidates[i] \in P
  BY <1>4
<1> QED
  BY <1>3, <1>4, <1>5 DEF PlanShape, IsSequence

-----------------------------------------------------------------------------
(* The types. *)

RunTyped(r) ==
    /\ IsRun(r)
    /\ r.caps \in CapChoices /\ r.bands \in BandChoices
    /\ r.prices \in PriceFiles
    /\ r.state \in Portfolios /\ Typed(r.events)
    /\ r.handled \in Nat /\ r.sweep \subseteq Mints
    /\ \A f \in r.file : PlanShape(f)
    /\ \A f, g \in r.file : f = g

TypeInv ==
    /\ Typed(journal)
    /\ terminated \in BOOLEAN /\ (~terminated => journal # <<>>)
    /\ launches \in 0..MaxLaunches
    /\ \A f \in plan : PlanShape(f)
    /\ \A f, g \in plan : f = g
    /\ pc \in [Terminals -> Places] /\ DOMAIN run = Terminals
    /\ \A p \in Terminals : RunTyped(run[p])

(* The operator's inputs stay those of the run.                            *)
SameInputs(q, r) ==
    /\ q.file = r.file /\ q.caps = r.caps
    /\ q.bands = r.bands /\ q.prices = r.prices

LEMMA EventTypes ==
    /\ IsEvent(Rejected) /\ IsEvent(KillSwitchActive) /\ IsEvent(Completed)
    /\ IsEvent(MalformedEvent)
    /\ \A caps : IsEvent(Started(caps))
    /\ \A which \in Triggers : \A mint : IsEvent(Triggered(which, mint))
    /\ \A fill : IsFill(fill) => IsEvent(Bought(fill)) /\ IsEvent(Sold(fill))
  BY DEF IsEvent, Rejected, KillSwitchActive, Completed, MalformedEvent,
         Started, Triggered, Triggers, Bought, Sold

LEMMA TypedAppend ==
    ASSUME NEW J, Typed(J), NEW e, IsEvent(e) PROVE Typed(Append(J, e))
<1> DEFINE K == Append(J, e)
<1>1. /\ IsSequence(K) /\ Len(J) \in Nat
      /\ DOMAIN J = 1..Len(J) /\ DOMAIN K = 1..Len(J) + 1
      /\ K[Len(J) + 1] = e /\ \A i \in 1..Len(J) : K[i] = J[i]
  BY OneMore DEF Typed
<1> HIDE DEF K
<1>2. \A i \in DOMAIN K : K[i] = e \/ (i \in DOMAIN J /\ K[i] = J[i])
  BY <1>1
<1> QED
  BY <1>1, <1>2 DEF Typed, K

LEMMA TypedPrefix ==
    ASSUME NEW J, Typed(J), NEW n \in 0..Len(J)
    PROVE  Typed(SubSeq(J, 1, n))
<1> DEFINE K == SubSeq(J, 1, n)
<1>1. /\ IsSequence(K) /\ Len(J) \in Nat /\ DOMAIN J = 1..Len(J)
      /\ DOMAIN K = 1..n /\ \A i \in 1..n : K[i] = J[i]
  BY PrefixOf DEF Typed
<1> HIDE DEF K
<1>2. \A i \in DOMAIN K : i \in DOMAIN J /\ K[i] = J[i]
  BY <1>1
<1> QED
  BY <1>1, <1>2 DEF Typed, K

LEMMA TypedJoined ==
    ASSUME NEW J, Typed(J), NEW E, Typed(E) PROVE Typed(J \o E)
<1> DEFINE H == J \o E
<1>1. /\ IsSequence(H)
      /\ Len(J) \in Nat /\ Len(E) \in Nat
      /\ DOMAIN J = 1..Len(J) /\ DOMAIN E = 1..Len(E)
      /\ DOMAIN H = 1..Len(J) + Len(E)
      /\ \A i \in 1..Len(J) : H[i] = J[i]
      /\ \A i \in 1..Len(E) : H[Len(J) + i] = E[i]
  <2>1. DOMAIN J = 1..Len(J) /\ DOMAIN E = 1..Len(E)
    BY DEF Typed, IsSequence
  <2>2. IsSequence(J) /\ IsSequence(E)
    BY DEF Typed
  <2>3. /\ IsSequence(J \o E)
        /\ DOMAIN (J \o E) = 1..Len(J) + Len(E)
        /\ \A i \in 1..Len(J) : (J \o E)[i] = J[i]
        /\ \A i \in 1..Len(E) : (J \o E)[Len(J) + i] = E[i]
    BY <2>2, Joined
  <2>4. Len(J) \in Nat /\ Len(E) \in Nat
    BY <2>2 DEF IsSequence
  <2> HIDE DEF H
  <2>5. H = J \o E
    BY DEF H
  <2> QED
    BY <2>1, <2>3, <2>4, <2>5
<1> HIDE DEF H
<1>2. ASSUME NEW i \in DOMAIN H PROVE IsEvent(H[i])
  <2>1. CASE i <= Len(J)
    <3>1. i \in DOMAIN J /\ H[i] = J[i]
      BY <1>1, <2>1
    <3> QED
      BY <3>1 DEF Typed
  <2>2. CASE ~(i <= Len(J))
    <3> DEFINE k == i - Len(J)
    <3>1. k \in DOMAIN E /\ i = Len(J) + k
      BY <1>1, <2>2
    <3> HIDE DEF k
    <3>2. H[i] = E[k]
      BY <1>1, <3>1
    <3> QED
      BY <3>1, <3>2 DEF Typed
  <2> QED
    BY <2>1, <2>2
<1> QED
  BY <1>1, <1>2 DEF Typed, H

(* The lines of a sale, one after the other.                               *)
LEMMA SaleLines ==
    ASSUME NEW E, IsSequence(E), NEW a, NEW b
    PROVE  /\ (E \o <<>>) \o <<b>> = Append(E, b)
           /\ (E \o <<a>>) \o <<b>> = Append(Append(E, a), b)
<1>1. PICK S : E \in Seq(S)
  BY DEF IsSequence
<1> DEFINE U == S \cup {a, b}
<1>2. E \in Seq(U) /\ a \in U /\ b \in U
  BY <1>1, SeqMonotonic
<1> HIDE DEF U
<1>3. E \o <<>> = E
  BY <1>2, ConcatEmptySeq
<1>4. Append(E, b) = E \o <<b>> /\ Append(E, a) = E \o <<a>>
      /\ Append(E, a) \in Seq(U)
  BY <1>2, AppendIsConcat, AppendProperties
<1>5. Append(Append(E, a), b) = Append(E, a) \o <<b>>
  BY <1>2, <1>4, AppendIsConcat
<1> QED
  BY <1>3, <1>4, <1>5

-----------------------------------------------------------------------------
(* What the steps of a run do to it. *)

LEMMA NoteEffect ==
    ASSUME NEW r, RunTyped(r)
    PROVE  LET q == Note(r, Rejected)
           IN  /\ RunTyped(q) /\ SameInputs(q, r)
               /\ q.state = r.state /\ q.sweep = r.sweep
               /\ q.events = Append(r.events, Rejected)
               /\ q.handled = r.handled + 1
<1> DEFINE q == Note(r, Rejected)
<1>1. /\ IsRun(q) /\ SameInputs(q, r)
      /\ q.state = r.state /\ q.sweep = r.sweep
      /\ q.events = Append(r.events, Rejected)
      /\ q.handled = r.handled + 1
  BY DEF RunTyped, IsRun, SameInputs, Note
<1>2. Typed(Append(r.events, Rejected))
  BY TypedAppend, EventTypes DEF RunTyped
<1> HIDE DEF q
<1>3. RunTyped(q)
  BY <1>1, <1>2 DEF RunTyped, SameInputs
<1> QED
  BY <1>1, <1>3 DEF q

LEMMA BuyEffectOnRun ==
    ASSUME NEW r, RunTyped(r), NEW fill, IsFill(fill)
    PROVE  LET q == Buy(r, fill)
           IN  /\ RunTyped(q) /\ SameInputs(q, r)
               /\ q.state = ApplyBuyFill(r.state, fill) /\ q.sweep = r.sweep
               /\ q.events = Append(r.events, Bought(fill))
               /\ q.handled = r.handled + 1
<1> DEFINE q == Buy(r, fill)
<1>1. /\ IsRun(q) /\ SameInputs(q, r)
      /\ q.state = ApplyBuyFill(r.state, fill) /\ q.sweep = r.sweep
      /\ q.events = Append(r.events, Bought(fill))
      /\ q.handled = r.handled + 1
  BY DEF RunTyped, IsRun, SameInputs, Buy
<1>2. Typed(Append(r.events, Bought(fill)))
  BY TypedAppend, EventTypes DEF RunTyped
<1>3. ApplyBuyFill(r.state, fill) \in Portfolios
  BY BuyEffect DEF RunTyped
<1> HIDE DEF q
<1>4. RunTyped(q)
  BY <1>1, <1>2, <1>3 DEF RunTyped, SameInputs
<1> QED
  BY <1>1, <1>4 DEF q

LEMMA SellEffectOnRun ==
    ASSUME NEW r, RunTyped(r), NEW fill, IsFill(fill)
    PROVE  LET q == [Sell(r, <<>>, fill) EXCEPT !.handled = @ + 1]
           IN  /\ RunTyped(q) /\ SameInputs(q, r)
               /\ q.state = ApplySellFill(r.state, fill) /\ q.sweep = r.sweep
               /\ q.events = Append(r.events, Sold(fill))
               /\ q.handled = r.handled + 1
<1> DEFINE q == [Sell(r, <<>>, fill) EXCEPT !.handled = @ + 1]
<1>1. /\ IsRun(q) /\ SameInputs(q, r)
      /\ q.state = ApplySellFill(r.state, fill) /\ q.sweep = r.sweep
      /\ q.events = (r.events \o <<>>) \o <<Sold(fill)>>
      /\ q.handled = r.handled + 1
  BY DEF RunTyped, IsRun, SameInputs, Sell
<1> HIDE DEF q
<1>2. q.events = Append(r.events, Sold(fill))
  <2>1. IsSequence(r.events)
    BY DEF RunTyped, Typed
  <2> QED
    BY <1>1, <2>1, SaleLines
<1>3. Typed(Append(r.events, Sold(fill)))
  BY TypedAppend, EventTypes DEF RunTyped
<1>4. ApplySellFill(r.state, fill) \in Portfolios
  BY SaleEffect DEF RunTyped
<1>5. RunTyped(q)
  <2>1. q.state \in Portfolios /\ Typed(q.events)
    BY <1>1, <1>2, <1>3, <1>4
  <2> QED
    BY <1>1, <2>1 DEF RunTyped, SameInputs
<1> QED
  BY <1>1, <1>2, <1>5 DEF q

LEMMA SweptEffect ==
    ASSUME NEW r, RunTyped(r), NEW sweep, sweep \subseteq Mints
    PROVE  LET q == [r EXCEPT !.sweep = sweep]
           IN  /\ RunTyped(q) /\ SameInputs(q, r)
               /\ q.state = r.state /\ q.sweep = sweep
               /\ q.events = r.events /\ q.handled = r.handled
<1> DEFINE q == [r EXCEPT !.sweep = sweep]
<1>1. /\ IsRun(q) /\ SameInputs(q, r)
      /\ q.state = r.state /\ q.sweep = sweep
      /\ q.events = r.events /\ q.handled = r.handled
  BY DEF RunTyped, IsRun, SameInputs
<1> HIDE DEF q
<1>2. RunTyped(q)
  BY <1>1 DEF RunTyped, SameInputs
<1> QED
  BY <1>1, <1>2 DEF q

LEMMA ExitEffectOnRun ==
    ASSUME NEW r, RunTyped(r), NEW fill, IsFill(fill),
           NEW which \in Triggers, NEW mint
    PROVE  LET q == Sell(r, <<Triggered(which, mint)>>, fill)
           IN  /\ RunTyped(q) /\ SameInputs(q, r)
               /\ q.state = ApplySellFill(r.state, fill) /\ q.sweep = r.sweep
               /\ q.events = Append(Append(r.events, Triggered(which, mint)),
                                    Sold(fill))
               /\ q.handled = r.handled
<1> DEFINE T == Triggered(which, mint)
           q == Sell(r, <<T>>, fill)
<1>1. IsEvent(T)
  BY EventTypes
<1> HIDE DEF T
<1>2. /\ IsRun(q) /\ SameInputs(q, r)
      /\ q.state = ApplySellFill(r.state, fill) /\ q.sweep = r.sweep
      /\ q.events = (r.events \o <<T>>) \o <<Sold(fill)>>
      /\ q.handled = r.handled
  BY DEF RunTyped, IsRun, SameInputs, Sell
<1> HIDE DEF q
<1>3. q.events = Append(Append(r.events, T), Sold(fill))
  <2>1. IsSequence(r.events)
    BY DEF RunTyped, Typed
  <2> QED
    BY <1>2, <2>1, SaleLines
<1>4. Typed(Append(Append(r.events, T), Sold(fill)))
  BY <1>1, TypedAppend, EventTypes DEF RunTyped
<1>5. ApplySellFill(r.state, fill) \in Portfolios
  BY SaleEffect DEF RunTyped
<1>6. RunTyped(q)
  BY <1>2, <1>3, <1>4, <1>5 DEF RunTyped, SameInputs
<1> QED
  BY <1>2, <1>3, <1>6 DEF q, T

-----------------------------------------------------------------------------
(* What the commands do with a candidate and with an open position. *)

LEMMA CandidateShape ==
    ASSUME NEW r, RunTyped(r), NEW c \in NextCandidate(r)
    PROVE  /\ IsCandidate(c)
           /\ \A f \in r.file : /\ r.handled + 1 \in DOMAIN f.candidates
                                /\ c = f.candidates[r.handled + 1]
<1>1. CASE r.file = {}
  <2>1. c \in AnyCandidate
    BY <1>1 DEF NextCandidate
  <2>2. PICK mint \in Mints, size \in Sizes, side \in {"BUY", "SELL"},
             decision \in Decisions \cup {"UNKNOWN"} :
           c = PaperCandidate(side, mint, size, decision, "operator")
    BY <2>1 DEF AnyCandidate
  <2>3. c.mint = mint /\ c.size = size
    BY <2>2 DEF PaperCandidate
  <2>4. size \in Nat /\ Whole(size)
    BY WholeSizes
  <2> QED
    BY <1>1, <2>3, <2>4 DEF IsCandidate
<1>2. CASE r.file # {}
  <2> DEFINE k == r.handled + 1
  <2>1. c \in {f.candidates[k] : f \in {g \in r.file : k \in DOMAIN g.candidates}}
    BY <1>2 DEF NextCandidate
  <2> HIDE DEF k
  <2>2. PICK f \in r.file : k \in DOMAIN f.candidates /\ c = f.candidates[k]
    BY <2>1
  <2>3. PlanShape(f) /\ \A g \in r.file : g = f
    BY DEF RunTyped
  <2>4. IsCandidate(c)
    BY <2>2, <2>3 DEF PlanShape
  <2> QED
    BY <2>2, <2>3, <2>4 DEF k
<1> QED
  BY <1>1, <1>2

LEMMA Prices ==
    ASSUME NEW prices \in PriceFiles, NEW mint \in Mints
    PROVE  /\ IsSequence(prices[mint])
           /\ DOMAIN prices[mint] \subseteq Nat
           /\ \A i \in DOMAIN prices[mint] : prices[mint][i] \in Nat
           /\ prices[mint] # <<>> =>
                 /\ \E i \in DOMAIN prices[mint] :
                       Head(prices[mint]) = prices[mint][i]
                 /\ \E i \in DOMAIN prices[mint] :
                       Last(prices[mint]) = prices[mint][i]
<1> DEFINE series == prices[mint]
<1>1. series \in Seq(Nat)
  BY InputsAssumption
<1> HIDE DEF series
<1>2. /\ IsSequence(series) /\ DOMAIN series = 1..Len(series)
      /\ Len(series) \in Nat /\ \A i \in DOMAIN series : series[i] \in Nat
      /\ series # <<>> => Len(series) > 0
  BY <1>1 DEF IsSequence
<1>3. series # <<>> => Head(series) = series[1] /\ Last(series) = series[Len(series)]
                       /\ 1 \in DOMAIN series /\ Len(series) \in DOMAIN series
  BY <1>1, <1>2 DEF Last
<1> QED
  BY <1>2, <1>3 DEF series

(* A size that the price divides is the notional of what it buys.          *)
LEMMA WholeSize ==
    ASSUME NEW size \in Nat, NEW price \in Nat, price > 0, size % price = 0
    PROVE  (size \div price) * price = size
<1> DEFINE d == size \div price
<1>1. d \in Int /\ size = price * d + (size % price)
  OBVIOUS
<1> HIDE DEF d
<1>2. price * d = d * price /\ size = price * d
  BY <1>1
<1> QED
  BY <1>2 DEF d

LEMMA Quotient ==
    ASSUME NEW size \in Nat, NEW price \in Nat, price > 0
    PROVE  size \div price \in Nat
  OBVIOUS

LEMMA FillFields ==
    \A mint, price, quantity :
        LET fill == Fill(mint, price, quantity)
        IN  /\ fill.mint = mint /\ fill.quantity = quantity
            /\ Notional(fill) = quantity * price
            /\ mint \in Mints /\ price \in Nat /\ price > 0 /\ quantity \in Nat
                  => IsFill(fill)
  BY DEF Fill, IsFill, Notional, NoFee

(* A buy is refused, or is a fill within the caps.                         *)
LEMMA BuyDoes ==
    ASSUME NEW p, RunTyped(run[p]), ProcessBuy(p)
    PROVE  \E c \in NextCandidate(run[p]) :
             /\ c.side = "BUY" /\ c.mint \in Mints
             /\ \/ Become(p, "candidates", Note(run[p], Rejected))
                \/ \E fill :
                      /\ IsFill(fill) /\ fill.mint = c.mint
                      /\ WithinCaps(run[p].caps, run[p].state, fill.mint,
                                    Notional(fill))
                      /\ Become(p, "candidates", Buy(run[p], fill))
<1>1. PICK c \in NextCandidate(run[p]) :
          LET price == FirstPrice(run[p], c.mint)
              filled ==
                  /\ Eligible(run[p], c.decision)
                  /\ price > 0
                  /\ WithinCaps(run[p].caps, run[p].state, c.mint, c.size)
          IN  /\ c.side = "BUY"
              /\ Become(p, "candidates",
                    IF filled
                    THEN Buy(run[p], Fill(c.mint, price, c.size \div price))
                    ELSE Note(run[p], Rejected))
  BY DEF ProcessBuy
<1> DEFINE price == FirstPrice(run[p], c.mint)
           filled ==
              /\ Eligible(run[p], c.decision)
              /\ price > 0
              /\ WithinCaps(run[p].caps, run[p].state, c.mint, c.size)
           fill == Fill(c.mint, price, c.size \div price)
<1>2. c.side = "BUY" /\ c.mint \in Mints /\ c.size \in Nat /\ Whole(c.size)
  BY <1>1, CandidateShape DEF IsCandidate
<1>3. CASE ~filled
  BY <1>1, <1>2, <1>3
<1>4. CASE filled
  <2>1. Become(p, "candidates", Buy(run[p], fill))
    BY <1>1, <1>4
  <2>2. price > 0 /\ WithinCaps(run[p].caps, run[p].state, c.mint, c.size)
    BY <1>4
  <2>3. price \in Nat /\ c.size % price = 0
    <3> DEFINE prices == run[p].prices
    <3>1. prices \in PriceFiles
      BY DEF RunTyped
    <3>2. price = IF prices[c.mint] = <<>> THEN 0 ELSE Head(prices[c.mint])
      BY DEF FirstPrice
    <3> HIDE DEF price, prices
    <3>3. \E i \in DOMAIN prices[c.mint] : price = prices[c.mint][i]
      BY <1>2, <2>2, <3>1, <3>2, Prices
    <3> QED
      BY <1>2, <2>2, <3>1, <3>3, Prices DEF Whole
  <2> HIDE DEF price
  <2>4. c.size \div price \in Nat /\ (c.size \div price) * price = c.size
    BY <1>2, <2>2, <2>3, WholeSize, Quotient
  <2>5. IsFill(fill) /\ fill.mint = c.mint /\ Notional(fill) = c.size
    BY <1>2, <2>2, <2>3, <2>4, FillFields
  <2> HIDE DEF fill
  <2> QED
    BY <1>2, <2>1, <2>2, <2>5
<1> QED
  BY <1>3, <1>4

(* A sale is refused when nothing is held or there is no price; it sells   *)
(* no more than is held, and all of it when no size is given.              *)
LEMMA SellDoes ==
    ASSUME NEW p, RunTyped(run[p]), ProcessSell(p)
    PROVE  \E c \in NextCandidate(run[p]) :
             LET position == run[p].state.positions[c.mint]
             IN  /\ c.side = "SELL" /\ c.mint \in Mints
                 /\ \/ /\ position = Flat \/ ~(LastPrice(run[p], c.mint) > 0)
                       /\ Become(p, "candidates", Note(run[p], Rejected))
                    \/ \E fill :
                          /\ IsFill(fill) /\ fill.mint = c.mint
                          /\ fill.quantity <= position.quantity
                          /\ c.size = 0 => fill.quantity = position.quantity
                          /\ Become(p, "candidates",
                                [Sell(run[p], <<>>, fill)
                                    EXCEPT !.handled = @ + 1])
<1>1. PICK c \in NextCandidate(run[p]) :
          LET price == LastPrice(run[p], c.mint)
              held == run[p].state.positions[c.mint].quantity
              quantity == IF c.size > 0 THEN Lesser(c.size \div price, held)
                          ELSE held
          IN  /\ c.side = "SELL"
              /\ Become(p, "candidates",
                    IF held > 0 /\ price > 0
                    THEN [Sell(run[p], <<>>, Fill(c.mint, price, quantity))
                             EXCEPT !.handled = @ + 1]
                    ELSE Note(run[p], Rejected))
  BY DEF ProcessSell
<1> DEFINE price == LastPrice(run[p], c.mint)
           position == run[p].state.positions[c.mint]
           held == position.quantity
           quantity == IF c.size > 0 THEN Lesser(c.size \div price, held)
                       ELSE held
           fill == Fill(c.mint, price, quantity)
<1>2. c.side = "SELL" /\ c.mint \in Mints /\ c.size \in Nat
  BY <1>1, CandidateShape DEF IsCandidate
<1>3. held \in Nat /\ (position = Flat <=> held = 0)
  <2>1. run[p].state \in Portfolios
    BY DEF RunTyped
  <2>2. position \in Positions /\ (position = Flat <=> held = 0)
    BY <1>2, <2>1, HeldOrFlat
  <2> QED
    BY <2>2 DEF Positions
<1>4. CASE ~(held > 0 /\ price > 0)
  <2>1. Become(p, "candidates", Note(run[p], Rejected))
    BY <1>1, <1>4
  <2>2. position = Flat \/ ~(price > 0)
    BY <1>3, <1>4
  <2> QED
    BY <1>2, <2>1, <2>2
<1>5. CASE held > 0 /\ price > 0
  <2>1. Become(p, "candidates",
               [Sell(run[p], <<>>, fill) EXCEPT !.handled = @ + 1])
    BY <1>1, <1>5
  <2>2. price \in Nat
    <3> DEFINE prices == run[p].prices
    <3>1. prices \in PriceFiles
      BY DEF RunTyped
    <3>2. price = IF prices[c.mint] = <<>> THEN 0 ELSE Last(prices[c.mint])
      BY DEF LastPrice
    <3> HIDE DEF price, prices
    <3> QED
      BY <1>2, <3>1, <3>2, Prices
  <2>3. /\ quantity \in Nat /\ quantity <= held
        /\ c.size = 0 => quantity = held
    <3> HIDE DEF price, held
    <3>1. c.size \div price \in Nat
      BY <1>2, <1>5, <2>2, Quotient
    <3> QED
      BY <1>2, <1>3, <3>1 DEF Lesser
  <2> HIDE DEF price, quantity
  <2>4. IsFill(fill) /\ fill.mint = c.mint /\ fill.quantity = quantity
    BY <1>2, <1>5, <2>2, <2>3, FillFields
  <2> HIDE DEF fill
  <2> QED
    BY <1>2, <2>1, <2>3, <2>4
<1> QED
  BY <1>4, <1>5

(* The sweep leaves a position that no tick takes across a threshold, or   *)
(* sells it whole.                                                         *)
LEMMA ExitDoes ==
    ASSUME NEW p, RunTyped(run[p]), EvaluateExits(p)
    PROVE  \E mint \in run[p].sweep :
             LET position == run[p].state.positions[mint]
                 swept == [run[p] EXCEPT !.sweep = @ \ {mint}]
             IN  \/ /\ ExitTicks(position, run[p].prices[mint],
                                 run[p].bands) = {}
                    /\ Become(p, "exits", swept)
                 \/ \E fill : \E which \in Triggers :
                       /\ IsFill(fill) /\ fill.mint = mint
                       /\ fill.quantity = position.quantity
                       /\ Become(p, "exits",
                             Sell(swept, <<Triggered(which, mint)>>, fill))
<1> DEFINE mint == Min(run[p].sweep)
           position == run[p].state.positions[mint]
           series == run[p].prices[mint]
           ticks == ExitTicks(position, series, run[p].bands)
           price == series[Min(ticks)]
           which == IF TakesProfit(position, price, run[p].bands.takeProfit)
                    THEN "TAKE_PROFIT_TRIGGERED" ELSE "STOP_LOSS_TRIGGERED"
           swept == [run[p] EXCEPT !.sweep = @ \ {mint}]
           fill == Fill(mint, price, position.quantity)
<1>1. /\ run[p].sweep # {}
      /\ Become(p, "exits",
               IF ticks = {} THEN swept
               ELSE Sell(swept, <<Triggered(which, mint)>>, fill))
  BY DEF EvaluateExits
<1>2. \A T : T \subseteq Nat /\ T # {} => Min(T) \in T
  <2> SUFFICES ASSUME NEW T \in SUBSET Nat, T # {} PROVE Min(T) \in T
    OBVIOUS
  <2>1. \E n \in T : \A m \in T : n <= m
    BY Replay!LeastElement
  <2> QED
    BY <2>1, Zenon DEF Min
<1>3. mint \in run[p].sweep /\ mint \in Mints
  BY <1>1, <1>2, MintsAssumption DEF RunTyped
<1>4. CASE ticks = {}
  BY <1>1, <1>3, <1>4
<1>5. CASE ticks # {}
  <2>1. Become(p, "exits", Sell(swept, <<Triggered(which, mint)>>, fill))
    BY <1>1, <1>5
  <2>2. which \in Triggers
    BY DEF Triggers
  <2> HIDE DEF mint, which
  <2>3. ticks \subseteq DOMAIN series /\ \A i \in ticks : series[i] > 0
    BY DEF ExitTicks
  <2>4. DOMAIN series \subseteq Nat /\ \A i \in DOMAIN series : series[i] \in Nat
    BY <1>3, Prices DEF RunTyped
  <2> HIDE DEF ticks, series
  <2>5. price \in Nat /\ price > 0
    BY <1>2, <1>5, <2>3, <2>4
  <2>6. position.quantity \in Nat
    BY <1>3 DEF RunTyped, Portfolios, Positions
  <2> HIDE DEF price, position
  <2>7. IsFill(fill) /\ fill.mint = mint /\ fill.quantity = position.quantity
    BY <1>3, <2>5, <2>6, FillFields
  <2> HIDE DEF fill
  <2> QED
    BY <1>3, <2>1, <2>2, <2>7 DEF position
<1> QED
  BY <1>4, <1>5

-----------------------------------------------------------------------------
(* The types are kept. *)

LEMMA NoRunTyped ==
    /\ RunTyped(NoRun) /\ NoRun.file = {} /\ NoRun.state = InitialState
    /\ NoRun.handled = 0 /\ NoRun.sweep = {}
<1>1. /\ (CHOOSE caps \in CapChoices : TRUE) \in CapChoices
      /\ (CHOOSE bands \in BandChoices : TRUE) \in BandChoices
      /\ (CHOOSE prices \in PriceFiles : TRUE) \in PriceFiles
  BY InputsAssumption
<1>2. \A caps \in CapChoices, bands \in BandChoices, prices \in PriceFiles :
         LET r == [file |-> {}, caps |-> caps, bands |-> bands,
                   prices |-> prices, state |-> InitialState, events |-> <<>>,
                   handled |-> 0, sweep |-> {}]
         IN  /\ RunTyped(r) /\ r.file = {} /\ r.state = InitialState
             /\ r.handled = 0 /\ r.sweep = {}
  <2>1. Typed(<<>>)
    BY EmptySeq DEF Typed, IsSequence
  <2>2. InitialState \in Portfolios
    BY InitialPortfolio
  <2> QED
    BY <2>1, <2>2 DEF RunTyped, IsRun
<1> QED
  BY <1>1, <1>2 DEF NoRun

(* What is appended to the journal, glued to a damaged line or not.        *)
LEMMA LinesTyped ==
    ASSUME Typed(journal), ~terminated => journal # <<>>,
           NEW lines, Typed(lines)
    PROVE  /\ Typed(AppendLines(lines))
           /\ lines # <<>> => AppendLines(lines) # <<>>
           /\ journal # <<>> => AppendLines(lines) # <<>>
<1>1. PICK S : journal \in Seq(S)
  BY DEF Typed, IsSequence
<1>2. PICK T : lines \in Seq(T)
  BY DEF Typed, IsSequence
<1> DEFINE U == (S \cup T) \cup {MalformedEvent}
<1>3. journal \in Seq(U) /\ lines \in Seq(U) /\ MalformedEvent \in U
  BY <1>1, <1>2, SeqMonotonic
<1> HIDE DEF U
<1>4. /\ lines # <<>> => AppendLines(lines) # <<>>
      /\ AppendLines(lines) \in Seq(U)
      /\ Len(AppendLines(lines)) >= Len(journal)
  BY <1>3, AppendLinesFacts
<1>5. journal # <<>> => AppendLines(lines) # <<>>
  <2>1. Len(journal) \in Nat /\ (journal # <<>> => Len(journal) > 0)
    BY <1>3
  <2>2. AppendLines(lines) = <<>> => Len(AppendLines(lines)) = 0
    OBVIOUS
  <2> QED
    BY <1>4, <2>1, <2>2
<1>6. CASE terminated \/ lines = <<>>
  BY <1>4, <1>5, <1>6, TypedJoined DEF AppendLines
<1>7. CASE ~terminated /\ lines # <<>>
  <2> DEFINE F == Front(journal)
             M == <<MalformedEvent>>
             L == Tail(lines)
  <2>1. Typed(F)
    <3> DEFINE n == Len(journal) - 1
    <3>1. n \in 0..Len(journal)
      BY <1>3, <1>7
    <3> HIDE DEF n
    <3>2. Typed(SubSeq(journal, 1, n))
      BY <3>1, TypedPrefix
    <3> QED
      BY <3>2 DEF Front, n
  <2>2. Typed(M)
    <3>1. M \in Seq({MalformedEvent}) /\ DOMAIN M = {1} /\ M[1] = MalformedEvent
      OBVIOUS
    <3>2. IsEvent(MalformedEvent)
      BY EventTypes
    <3> HIDE DEF M
    <3> QED
      BY <3>1, <3>2 DEF Typed, IsSequence
  <2>3. Typed(L)
    <3>1. /\ L \in Seq(U) /\ DOMAIN L = 1..Len(lines) - 1
          /\ DOMAIN lines = 1..Len(lines) /\ Len(lines) \in Nat
          /\ \A i \in DOMAIN L : L[i] = lines[i + 1]
      BY <1>3, <1>7
    <3> HIDE DEF L
    <3>2. \A i \in DOMAIN L : i + 1 \in DOMAIN lines
      BY <3>1
    <3> QED
      BY <3>1, <3>2 DEF Typed, IsSequence
  <2>4. AppendLines(lines) = (F \o M) \o L
    BY <1>7 DEF AppendLines
  <2> HIDE DEF F, M, L
  <2>5. Typed((F \o M) \o L)
    BY <2>1, <2>2, <2>3, TypedJoined
  <2> QED
    BY <1>4, <1>5, <2>4, <2>5
<1> QED
  BY <1>6, <1>7

LEMMA TypeGoes ==
    ASSUME TypeInv, NEW p \in Terminals, NEW place \in Places,
           NEW r, RunTyped(r), Become(p, place, r),
           FileUnchanged, PlanUnchanged, launches' \in 0..MaxLaunches
    PROVE  TypeInv'
<1>1. /\ pc' = [pc EXCEPT ![p] = place] /\ run' = [run EXCEPT ![p] = r]
      /\ journal' = journal /\ terminated' = terminated /\ plan' = plan
  BY DEF Become, FileUnchanged, PlanUnchanged
<1>2. pc' \in [Terminals -> Places] /\ DOMAIN run' = Terminals
  BY <1>1 DEF TypeInv
<1>3. \A q \in Terminals : RunTyped(run'[q])
  BY <1>1 DEF TypeInv
<1>4. \A q \in Terminals : RunTyped(run[q])'
  BY <1>3 DEF RunTyped, IsRun, Typed, IsSequence, IsEvent, IsFill, PlanShape,
              IsCandidate, Whole, Portfolios
<1> QED
  BY <1>1, <1>2, <1>4 DEF TypeInv

LEMMA TypeWrites ==
    ASSUME TypeInv, NEW p \in Terminals, NEW lines, Typed(lines),
           journal' = AppendLines(lines), terminated' \in BOOLEAN,
           ~terminated' => ~terminated \/ lines # <<>>,
           Become(p, "idle", NoRun), PlanUnchanged, launches' = launches
    PROVE  TypeInv'
<1>1. Typed(journal') /\ (~terminated' => journal' # <<>>)
  BY LinesTyped DEF TypeInv
<1>2. /\ pc' = [pc EXCEPT ![p] = "idle"] /\ run' = [run EXCEPT ![p] = NoRun]
      /\ plan' = plan
  BY DEF Become, PlanUnchanged
<1>3. RunTyped(NoRun)
  BY NoRunTyped
<1>4. pc' \in [Terminals -> Places] /\ DOMAIN run' = Terminals
  BY <1>2 DEF TypeInv, Places
<1>5. \A q \in Terminals : RunTyped(run'[q])
  BY <1>2, <1>3 DEF TypeInv
<1> QED
  BY <1>1, <1>2, <1>4, <1>5 DEF TypeInv

LEMMA TypeInit == Init => TypeInv
<1> SUFFICES ASSUME Init PROVE TypeInv
  OBVIOUS
<1>1. Typed(<<>>)
  BY EmptySeq DEF Typed, IsSequence
<1>2. RunTyped(NoRun)
  BY NoRunTyped
<1>3. /\ journal = <<>> /\ terminated = TRUE /\ plan = {} /\ launches = 0
      /\ pc = [p \in Terminals |-> "idle"]
      /\ run = [p \in Terminals |-> NoRun]
  BY DEF Init
<1> QED
  BY <1>1, <1>2, <1>3, BoundsAssumption DEF TypeInv, Places

LEMMA PlanTypes ==
    ASSUME TypeInv, NEW p \in Terminals, PlanStrategy(p)
    PROVE  TypeInv'
<1>1. PICK batch \in Batches, config \in Strategies,
           default \in DefaultSizes :
          plan' = {[candidates |-> PaperCandidates(batch, config,
                                       {StartingState}, default, 0),
                    onto |-> Len(journal),
                    sized |-> \/ default # Absent
                              \/ \E i \in DOMAIN batch :
                                    batch[i].proposedSize # Absent]}
  BY DEF PlanStrategy
<1> DEFINE C == PaperCandidates(batch, config, {StartingState}, default, 0)
           sized == \/ default # Absent
                    \/ \E i \in DOMAIN batch : batch[i].proposedSize # Absent
           f == [candidates |-> C, onto |-> Len(journal), sized |-> sized]
<1>2. StartingState \in Portfolios
  BY ReplayTyped DEF StartingState, TypeInv
<1>3. f.candidates = C /\ f.sized = sized
  OBVIOUS
<1>4. plan' = {f}
  BY <1>1
<1> HIDE DEF f
<1>5. PlanShape(f)
  BY <1>2, <1>3, PlanHasShape
<1>6. /\ journal' = journal /\ terminated' = terminated /\ pc' = pc
      /\ run' = run /\ launches' = launches
  BY DEF PlanStrategy, FileUnchanged
<1> HIDE DEF C, sized
<1> QED
  BY <1>4, <1>5, <1>6 DEF TypeInv

(* How a run starts.                                                       *)
LEMMA LaunchDoes ==
    ASSUME TypeInv, NEW p \in Terminals, Launch(p)
    PROVE  /\ pc[p] = "idle" /\ ~JournalRefused
           /\ launches' \in 0..MaxLaunches
           /\ FileUnchanged /\ PlanUnchanged
           /\ \E place, r :
                 /\ Become(p, place, r) /\ RunTyped(r)
                 /\ r.file \subseteq plan
                 /\ r.state = ReduceJournal(journal)
                 /\ r.handled = 0 /\ r.sweep = {}
                 /\ IF r.caps.killSwitch
                    THEN /\ place = "append"
                         /\ r.events = <<Started(r.caps), KillSwitchActive>>
                    ELSE /\ place = "candidates"
                         /\ r.events = <<Started(r.caps)>>
<1>1. PICK caps \in CapChoices, bands \in BandChoices, prices \in PriceFiles,
           file \in {{}, plan} :
         LET r == [NoRun EXCEPT !.file = file, !.caps = caps, !.bands = bands,
                                !.prices = prices, !.state = StartingState]
         IN  IF caps.killSwitch
             THEN Become(p, "append",
                         [r EXCEPT !.events =
                              <<Started(caps), KillSwitchActive>>])
             ELSE Become(p, "candidates",
                         [r EXCEPT !.events = <<Started(caps)>>])
  BY DEF Launch
<1> DEFINE lines == IF caps.killSwitch THEN <<Started(caps), KillSwitchActive>>
                    ELSE <<Started(caps)>>
           place == IF caps.killSwitch THEN "append" ELSE "candidates"
           r == [NoRun EXCEPT !.file = file, !.caps = caps, !.bands = bands,
                              !.prices = prices, !.state = StartingState,
                              !.events = lines]
<1>2. Become(p, place, r)
  BY <1>1
<1>3. RunTyped(NoRun) /\ NoRun.handled = 0 /\ NoRun.sweep = {}
  BY NoRunTyped
<1>4. StartingState \in Portfolios
  BY ReplayTyped DEF StartingState, TypeInv
<1>5. Typed(lines)
  <2> DEFINE A == Started(caps)
             B == KillSwitchActive
  <2>1. IsEvent(A) /\ IsEvent(B)
    BY EventTypes
  <2>2. lines = IF caps.killSwitch THEN <<A, B>> ELSE <<A>>
    OBVIOUS
  <2> HIDE DEF A, B, lines
  <2>3. /\ <<A, B>> \in Seq({A, B}) /\ <<A>> \in Seq({A, B})
        /\ DOMAIN <<A, B>> = {1, 2} /\ DOMAIN <<A>> = {1}
        /\ <<A, B>>[1] = A /\ <<A, B>>[2] = B /\ <<A>>[1] = A
    OBVIOUS
  <2> QED
    BY <2>1, <2>2, <2>3 DEF Typed, IsSequence
<1>6. /\ IsRun(r) /\ r.file = file /\ r.caps = caps /\ r.bands = bands
      /\ r.prices = prices /\ r.state = StartingState /\ r.events = lines
      /\ r.handled = 0 /\ r.sweep = {}
  <2> HIDE DEF lines
  <2> QED
    BY <1>3 DEF RunTyped, IsRun
<1>7. /\ file \subseteq plan
      /\ \A f \in file : PlanShape(f)
      /\ \A f, g \in file : f = g
  BY DEF TypeInv
<1>8. r.caps.killSwitch = caps.killSwitch /\ place =
         (IF r.caps.killSwitch THEN "append" ELSE "candidates")
      /\ r.events = IF r.caps.killSwitch
                    THEN <<Started(r.caps), KillSwitchActive>>
                    ELSE <<Started(r.caps)>>
  BY <1>6
<1> HIDE DEF r, lines, place
<1>9. RunTyped(r)
  BY <1>4, <1>5, <1>6, <1>7 DEF RunTyped
<1>10. launches' \in 0..MaxLaunches
  BY BoundsAssumption DEF Launch, TypeInv
<1>11. r.file \subseteq plan /\ r.state = ReduceJournal(journal)
       /\ r.handled = 0 /\ r.sweep = {}
  BY <1>6, <1>7 DEF StartingState
<1> QED
  BY <1>2, <1>8, <1>9, <1>10, <1>11 DEF Launch

(* The lines that an append leaves, torn or not.                           *)
LEMMA AppendDoes ==
    ASSUME NEW p, Typed(run[p].events), AppendEvents(p) \/ TearAppend(p)
    PROVE  /\ Typed(Batch(p)) /\ pc[p] = "append"
           /\ Become(p, "idle", NoRun) /\ PlanUnchanged /\ launches' = launches
           /\ \E lines :
                 /\ Typed(lines) /\ journal' = AppendLines(lines)
                 /\ terminated' \in {TRUE, FALSE, terminated}
                 /\ ~terminated' => ~terminated \/ lines # <<>>
                 /\ \/ \E n \in 0..Len(Batch(p)) :
                          lines = SubSeq(Batch(p), 1, n)
                    \/ \E n \in 0..Len(Batch(p)) :
                          lines = Append(SubSeq(Batch(p), 1, n), MalformedEvent)
<1>1. Typed(Batch(p))
  BY TypedAppend, EventTypes DEF Batch
<1> DEFINE B == Batch(p)
<1>2. PICK S : B \in Seq(S)
  BY <1>1 DEF Typed, IsSequence
<1>3. CASE AppendEvents(p)
  <2>1. Len(B) \in 0..Len(B) /\ SubSeq(B, 1, Len(B)) = B
    <3> HIDE DEF B
    <3>1. Len(B) \in 0..Len(B)
      BY <1>2
    <3> DEFINE C == SubSeq(B, 1, Len(B))
    <3>2. C \in Seq(S) /\ Len(C) = Len(B) /\ \A i \in 1..Len(B) : C[i] = B[i]
      BY <1>2
    <3> QED
      BY <1>2, <3>1, <3>2, SeqEqual
  <2> QED
    BY <1>1, <1>3, <2>1 DEF AppendEvents
<1>4. CASE TearAppend(p)
  <2>1. PICK n \in 0..Len(B) - 1 :
          LET lines == SubSeq(B, 1, n)
          IN  \/ /\ journal' = AppendLines(lines)
                 /\ terminated' = IF n = 0 THEN terminated ELSE TRUE
              \/ /\ n > 0
                 /\ journal' = AppendLines(lines)
                 /\ terminated' = FALSE
              \/ /\ journal' = AppendLines(Append(lines, MalformedEvent))
                 /\ terminated' = FALSE
    BY <1>4 DEF TearAppend
  <2> DEFINE lines == SubSeq(B, 1, n)
             damaged == Append(lines, MalformedEvent)
  <2> HIDE DEF B
  <2>2. n \in 0..Len(B) /\ n \in Nat
    BY <1>2, <2>1
  <2>3. Typed(lines) /\ (n > 0 => lines # <<>>)
    <3>1. Typed(lines)
      BY <1>1, <2>2, TypedPrefix DEF B
    <3>2. Len(lines) = n
      BY <1>2, <2>2
    <3> HIDE DEF lines
    <3> QED
      BY <2>2, <3>1, <3>2
  <2>4. Typed(damaged) /\ damaged # <<>>
    <3>1. Typed(damaged)
      BY <2>3, TypedAppend, EventTypes
    <3>2. damaged # <<>>
      <4> HIDE DEF lines
      <4>1. IsSequence(lines)
        BY <2>3 DEF Typed
      <4>2. Len(damaged) = Len(lines) + 1 /\ Len(lines) \in Nat
        BY <4>1, OneMore
      <4> HIDE DEF damaged
      <4> QED
        BY <4>2
    <3> QED
      BY <3>1, <3>2
  <2>5. \/ /\ journal' = AppendLines(lines)
           /\ terminated' \in {TRUE, FALSE, terminated}
           /\ ~terminated' => ~terminated \/ lines # <<>>
        \/ /\ journal' = AppendLines(damaged)
           /\ terminated' = FALSE
    BY <2>1, <2>2, <2>3
  <2>6. Become(p, "idle", NoRun) /\ PlanUnchanged /\ launches' = launches
        /\ pc[p] = "append"
    BY <1>4 DEF TearAppend
  <2>7. CASE journal' = AppendLines(lines)
             /\ terminated' \in {TRUE, FALSE, terminated}
             /\ (~terminated' => ~terminated \/ lines # <<>>)
    BY <1>1, <2>2, <2>3, <2>6, <2>7 DEF B
  <2>8. CASE journal' = AppendLines(damaged) /\ terminated' = FALSE
    BY <1>1, <2>2, <2>4, <2>6, <2>8 DEF B
  <2> QED
    BY <2>5, <2>7, <2>8
<1> QED
  BY <1>3, <1>4

LEMMA TypeStep == TypeInv /\ [Next]_vars => TypeInv'
<1> SUFFICES ASSUME TypeInv, [Next]_vars PROVE TypeInv'
  OBVIOUS
<1>1. CASE UNCHANGED vars
  BY <1>1 DEF vars, TypeInv
<1>2. ASSUME NEW p \in Terminals, RefuseJournal(p) PROVE TypeInv'
  <2>1. launches' \in 0..MaxLaunches
    BY <1>2, BoundsAssumption DEF RefuseJournal, TypeInv
  <2> QED
    BY <1>2, <2>1 DEF RefuseJournal, FileUnchanged, PlanUnchanged, TypeInv
<1>3. \A p \in Terminals : RunTyped(run[p])
  BY DEF TypeInv
<1>4. launches \in 0..MaxLaunches
      /\ {"candidates", "exits", "append", "idle"} \subseteq Places
  BY DEF TypeInv, Places
<1>5. ASSUME NEW p \in Terminals, Launch(p) PROVE TypeInv'
  <2>1. PICK place, r : /\ Become(p, place, r) /\ RunTyped(r)
                        /\ place \in {"append", "candidates"}
    BY <1>5, LaunchDoes
  <2> QED
    BY <1>4, <1>5, <2>1, LaunchDoes, TypeGoes
<1>6. ASSUME NEW p \in Terminals, ProcessBuy(p) PROVE TypeInv'
  <2>1. PICK r : RunTyped(r) /\ Become(p, "candidates", r)
    BY <1>3, <1>6, BuyDoes, NoteEffect, BuyEffectOnRun
  <2> QED
    BY <1>4, <1>6, <2>1, TypeGoes DEF ProcessBuy
<1>7. ASSUME NEW p \in Terminals, ProcessSell(p) PROVE TypeInv'
  <2>1. PICK r : RunTyped(r) /\ Become(p, "candidates", r)
    BY <1>3, <1>7, SellDoes, NoteEffect, SellEffectOnRun
  <2> QED
    BY <1>4, <1>7, <2>1, TypeGoes DEF ProcessSell
<1>8. ASSUME NEW p \in Terminals, StartSweep(p) PROVE TypeInv'
  <2>1. PICK sweep : /\ sweep \subseteq Mints
                     /\ Become(p, "exits", [run[p] EXCEPT !.sweep = sweep])
    BY <1>8 DEF StartSweep, OpenMints
  <2>2. RunTyped([run[p] EXCEPT !.sweep = sweep])
    BY <1>3, <2>1, SweptEffect
  <2> QED
    BY <1>4, <1>8, <2>1, <2>2, TypeGoes DEF StartSweep
<1>9. ASSUME NEW p \in Terminals, EvaluateExits(p) PROVE TypeInv'
  <2>1. PICK mint \in run[p].sweep :
           LET q == [run[p] EXCEPT !.sweep = @ \ {mint}]
           IN  \/ Become(p, "exits", q)
               \/ \E fill : \E which \in Triggers :
                     /\ IsFill(fill)
                     /\ Become(p, "exits",
                           Sell(q, <<Triggered(which, mint)>>, fill))
    BY <1>3, <1>9, ExitDoes
  <2> DEFINE q == [run[p] EXCEPT !.sweep = @ \ {mint}]
  <2>2. RunTyped(q)
    <3> DEFINE sweep == run[p].sweep \ {mint}
    <3>1. sweep \subseteq Mints
      BY <1>3 DEF RunTyped
    <3>2. q = [run[p] EXCEPT !.sweep = sweep]
      OBVIOUS
    <3> HIDE DEF sweep, q
    <3> QED
      BY <1>3, <3>1, <3>2, SweptEffect
  <2>3. PICK r : RunTyped(r) /\ Become(p, "exits", r)
    BY <2>1, <2>2, ExitEffectOnRun
  <2> QED
    BY <1>4, <1>9, <2>3, TypeGoes DEF EvaluateExits
<1>10. ASSUME NEW p \in Terminals, EndSweep(p) PROVE TypeInv'
  BY <1>3, <1>4, <1>10, TypeGoes DEF EndSweep
<1>11. ASSUME NEW p \in Terminals, LoseRun(p) PROVE TypeInv'
  BY <1>4, <1>11, NoRunTyped, TypeGoes DEF LoseRun
<1>12. ASSUME NEW p \in Terminals, AppendEvents(p) \/ TearAppend(p)
       PROVE  TypeInv'
  <2>1. Typed(run[p].events)
    BY <1>3 DEF RunTyped
  <2>2. terminated \in BOOLEAN
    BY DEF TypeInv
  <2> QED
    BY <1>12, <2>1, <2>2, AppendDoes, TypeWrites
<1> QED
  BY <1>1, <1>2, <1>5, <1>6, <1>7, <1>8, <1>9, <1>10, <1>11, <1>12, PlanTypes
     DEF Next

LEMMA TypeInvariant == Spec => []TypeInv
  BY TypeInit, TypeStep, PTL DEF Spec

-----------------------------------------------------------------------------
(* The exits: what the sweep and the candidates of a plan have closed. *)

(* No tick of the run's prices takes the position across a threshold.      *)
Uncrossed(r, m) ==
    \A i \in DOMAIN r.prices[m] :
        r.prices[m][i] > 0 =>
            /\ ~TakesProfit(r.state.positions[m], r.prices[m][i],
                            r.bands.takeProfit)
            /\ ~StopsLoss(r.state.positions[m], r.prices[m][i],
                          r.bands.stopLoss)

(* What is open is still to be swept, or no tick closes it.                *)
Swept(place, r) ==
    place \in {"exits", "append"} /\ ~r.caps.killSwitch =>
        /\ \A m \in OpenMints(r.state) : m \in r.sweep \/ Uncrossed(r, m)
        /\ place = "append" => r.sweep = {}

(* The candidate at i is a full exit, the last of its mint, with a price.  *)
IsLastExit(f, r, i) ==
    /\ f.candidates[i].why = "FULL_EXIT"
    /\ \A j \in DOMAIN f.candidates :
          j > i => f.candidates[j].mint # f.candidates[i].mint
    /\ LastPrice(r, f.candidates[i].mint) > 0

(* The full exits that were handled have left nothing.                     *)
Closed(f, r) ==
    ~f.sized =>
        \A i \in DOMAIN f.candidates :
            i <= r.handled /\ IsLastExit(f, r, i) =>
                r.state.positions[f.candidates[i].mint] = Flat

Followed(place, r) ==
    \A f \in r.file :
        /\ r.handled <= Len(f.candidates)
        /\ place \in {"exits", "append"} /\ ~r.caps.killSwitch
              => r.handled = Len(f.candidates)
        /\ Closed(f, r)

ExitInv == \A p \in Terminals : Swept(pc[p], run[p]) /\ Followed(pc[p], run[p])

LEMMA SamePrice ==
    ASSUME NEW q, NEW r, q.prices = r.prices, NEW f, NEW i
    PROVE  IsLastExit(f, q, i) <=> IsLastExit(f, r, i)
  BY DEF IsLastExit, LastPrice

(* The candidate of a plan is handled: the earlier ones are of other mints *)
(* or not the last of theirs.                                              *)
LEMMA OneHandled ==
    ASSUME NEW r, RunTyped(r), Followed("candidates", r),
           NEW c \in NextCandidate(r),
           NEW q, SameInputs(q, r), q.handled = r.handled + 1,
           \A m \in Mints \ {c.mint} : q.state.positions[m] = r.state.positions[m],
           c.why = "FULL_EXIT" /\ LastPrice(r, c.mint) > 0
              /\ (\E f \in r.file : ~f.sized)
              => q.state.positions[c.mint] = Flat
    PROVE  Followed("candidates", q)
<1> SUFFICES ASSUME NEW f \in r.file
             PROVE  q.handled <= Len(f.candidates) /\ Closed(f, q)
  BY DEF Followed, SameInputs
<1> DEFINE n == r.handled + 1
<1>1. PlanShape(f) /\ r.handled \in Nat
  BY DEF RunTyped
<1>2. DOMAIN f.candidates = 1..Len(f.candidates) /\ Len(f.candidates) \in Nat
  BY <1>1 DEF PlanShape, IsSequence
<1>3. n \in DOMAIN f.candidates /\ c = f.candidates[n]
  BY CandidateShape
<1>4. q.handled = n /\ n \in Nat /\ (\A i \in Nat : i <= n => i <= r.handled \/ i = n)
  BY <1>1
<1> HIDE DEF n
<1>5. ASSUME ~f.sized, NEW i \in DOMAIN f.candidates, i <= n,
             IsLastExit(f, q, i)
      PROVE  q.state.positions[f.candidates[i].mint] = Flat
  <2>1. IsLastExit(f, r, i)
    BY <1>5, SamePrice DEF SameInputs
  <2>2. CASE i = n
    BY <1>3, <1>5, <2>1, <2>2 DEF IsLastExit
  <2>3. CASE i # n
    <3>1. i <= r.handled /\ n > i
      BY <1>2, <1>4, <1>5, <2>3
    <3>2. r.state.positions[f.candidates[i].mint] = Flat
      BY <1>5, <2>1, <3>1 DEF Followed, Closed
    <3>3. c.mint # f.candidates[i].mint
      BY <1>3, <2>1, <3>1 DEF IsLastExit
    <3>4. f.candidates[i].mint \in Mints
      BY <1>1 DEF PlanShape, IsCandidate
    <3> QED
      BY <3>2, <3>3, <3>4
  <2> QED
    BY <2>2, <2>3
<1> QED
  BY <1>2, <1>3, <1>4, <1>5 DEF Closed

LEMMA ExitGoes ==
    ASSUME ExitInv, DOMAIN pc = Terminals, DOMAIN run = Terminals,
           NEW p \in Terminals, NEW place, NEW r,
           Become(p, place, r), Swept(place, r), Followed(place, r)
    PROVE  ExitInv'
<1>1. /\ pc' = [pc EXCEPT ![p] = place] /\ run' = [run EXCEPT ![p] = r]
  BY DEF Become
<1>2. \A q \in Terminals : /\ q = p => pc'[q] = place /\ run'[q] = r
                           /\ q # p => pc'[q] = pc[q] /\ run'[q] = run[q]
  BY <1>1
<1>3. \A q \in Terminals : Swept(pc'[q], run'[q]) /\ Followed(pc'[q], run'[q])
  BY <1>2 DEF ExitInv
<1> QED
  BY <1>3 DEF ExitInv, Swept, Followed, Uncrossed, Closed, IsLastExit,
              LastPrice

LEMMA ExitNoRun == Swept("idle", NoRun) /\ Followed("idle", NoRun)
  BY NoRunTyped DEF Swept, Followed

LEMMA ExitInit == Init => ExitInv
  BY ExitNoRun DEF Init, ExitInv

LEMMA ExitBuy ==
    ASSUME TypeInv, ExitInv, NEW p \in Terminals, ProcessBuy(p)
    PROVE  ExitInv'
<1> DEFINE r == run[p]
<1>1. RunTyped(r) /\ Followed("candidates", r) /\ r.state \in Portfolios
  BY DEF TypeInv, ExitInv, ProcessBuy, RunTyped
<1>2. PICK c \in NextCandidate(r) :
             /\ c.side = "BUY" /\ c.mint \in Mints
             /\ \/ Become(p, "candidates", Note(r, Rejected))
                \/ \E fill :
                      /\ IsFill(fill) /\ fill.mint = c.mint
                      /\ Become(p, "candidates", Buy(r, fill))
  BY <1>1, BuyDoes
<1>3. c.why = "FULL_EXIT" => \A f \in r.file : f.sized
  BY <1>1, <1>2, CandidateShape DEF RunTyped, PlanShape
<1>4. PICK q : /\ Become(p, "candidates", q) /\ SameInputs(q, r)
               /\ q.handled = r.handled + 1
               /\ \A m \in Mints \ {c.mint} :
                     q.state.positions[m] = r.state.positions[m]
  <2> HIDE DEF r
  <2>1. CASE Become(p, "candidates", Note(r, Rejected))
    BY <1>1, <2>1, NoteEffect
  <2>2. CASE \E fill : /\ IsFill(fill) /\ fill.mint = c.mint
                       /\ Become(p, "candidates", Buy(r, fill))
    <3>1. PICK fill : /\ IsFill(fill) /\ fill.mint = c.mint
                      /\ Become(p, "candidates", Buy(r, fill))
      BY <2>2
    <3> DEFINE q == Buy(r, fill)
    <3>2. /\ SameInputs(q, r) /\ q.handled = r.handled + 1
          /\ q.state = ApplyBuyFill(r.state, fill)
      BY <1>1, <3>1, BuyEffectOnRun
    <3> HIDE DEF q
    <3>3. \A m \in Mints \ {c.mint} : q.state.positions[m] = r.state.positions[m]
      BY <1>1, <3>1, <3>2, BuyEffect
    <3> QED
      BY <3>1, <3>2, <3>3 DEF q
  <2> QED
    BY <1>2, <2>1, <2>2
<1>5. Followed("candidates", q)
  BY <1>1, <1>3, <1>4, OneHandled
<1>6. Swept("candidates", q)
  BY DEF Swept
<1> QED
  BY <1>4, <1>5, <1>6, ExitGoes DEF TypeInv

LEMMA ExitSell ==
    ASSUME TypeInv, ExitInv, NEW p \in Terminals, ProcessSell(p)
    PROVE  ExitInv'
<1> DEFINE r == run[p]
<1>1. RunTyped(r) /\ Followed("candidates", r) /\ r.state \in Portfolios
  BY DEF TypeInv, ExitInv, ProcessSell, RunTyped
<1>2. PICK c \in NextCandidate(r) :
         LET position == r.state.positions[c.mint]
         IN  /\ c.side = "SELL" /\ c.mint \in Mints
             /\ \/ /\ position = Flat \/ ~(LastPrice(r, c.mint) > 0)
                   /\ Become(p, "candidates", Note(r, Rejected))
                \/ \E fill :
                      /\ IsFill(fill) /\ fill.mint = c.mint
                      /\ fill.quantity <= position.quantity
                      /\ c.size = 0 => fill.quantity = position.quantity
                      /\ Become(p, "candidates",
                            [Sell(r, <<>>, fill) EXCEPT !.handled = @ + 1])
  BY <1>1, SellDoes
<1>3. c.why = "FULL_EXIT" /\ (\E f \in r.file : ~f.sized) => c.size = 0
  BY <1>1, <1>2, CandidateShape DEF RunTyped, PlanShape
<1> DEFINE position == r.state.positions[c.mint]
<1>4. PICK q : /\ Become(p, "candidates", q) /\ SameInputs(q, r)
               /\ q.handled = r.handled + 1
               /\ \A m \in Mints \ {c.mint} :
                     q.state.positions[m] = r.state.positions[m]
               /\ c.size = 0 /\ LastPrice(r, c.mint) > 0 =>
                     q.state.positions[c.mint] = Flat
  <2> HIDE DEF r
  <2>1. CASE (position = Flat \/ ~(LastPrice(r, c.mint) > 0))
             /\ Become(p, "candidates", Note(r, Rejected))
    BY <1>1, <2>1, NoteEffect
  <2>2. CASE \E fill : /\ IsFill(fill) /\ fill.mint = c.mint
                       /\ c.size = 0 => fill.quantity = position.quantity
                       /\ Become(p, "candidates",
                             [Sell(r, <<>>, fill) EXCEPT !.handled = @ + 1])
    <3>1. PICK fill : /\ IsFill(fill) /\ fill.mint = c.mint
                      /\ c.size = 0 => fill.quantity = position.quantity
                      /\ Become(p, "candidates",
                             [Sell(r, <<>>, fill) EXCEPT !.handled = @ + 1])
      BY <2>2
    <3> DEFINE q == [Sell(r, <<>>, fill) EXCEPT !.handled = @ + 1]
    <3>2. /\ SameInputs(q, r) /\ q.handled = r.handled + 1
          /\ q.state = ApplySellFill(r.state, fill)
      BY <1>1, <3>1, SellEffectOnRun
    <3> HIDE DEF q
    <3>3. /\ \A m \in Mints \ {c.mint} :
                q.state.positions[m] = r.state.positions[m]
          /\ fill.quantity >= r.state.positions[c.mint].quantity =>
                q.state.positions[c.mint] = Flat
      BY <1>1, <3>1, <3>2, SaleEffect
    <3>4. c.size = 0 => fill.quantity >= r.state.positions[c.mint].quantity
      BY <3>1 DEF IsFill
    <3> QED
      BY <3>1, <3>2, <3>3, <3>4 DEF q
  <2> QED
    BY <1>2, <2>1, <2>2
<1>5. Followed("candidates", q)
  BY <1>1, <1>3, <1>4, OneHandled
<1>6. Swept("candidates", q)
  BY DEF Swept
<1> QED
  BY <1>4, <1>5, <1>6, ExitGoes DEF TypeInv

LEMMA ExitStart ==
    ASSUME TypeInv, ExitInv, NEW p \in Terminals, StartSweep(p)
    PROVE  ExitInv'
<1> DEFINE r == run[p]
           sweep == IF r.bands.takeProfit > 0 \/ r.bands.stopLoss > 0
                    THEN OpenMints(r.state) ELSE {}
           q == [r EXCEPT !.sweep = sweep]
<1>1. RunTyped(r) /\ Followed("candidates", r)
  BY DEF TypeInv, ExitInv, StartSweep
<1>2. Become(p, "exits", q) /\ \A f \in r.file : r.handled = Len(f.candidates)
  BY DEF StartSweep, AllHandled
<1> HIDE DEF r
<1>3. /\ SameInputs(q, r) /\ q.state = r.state /\ q.sweep = sweep
      /\ q.handled = r.handled
  <2>1. sweep \subseteq Mints
    BY DEF OpenMints
  <2> HIDE DEF sweep
  <2> QED
    BY <1>1, <2>1, SweptEffect
<1> HIDE DEF q
<1>4. Swept("exits", q)
  <2>1. r.bands.takeProfit \in Nat /\ r.bands.stopLoss \in Nat
    BY <1>1, InputsAssumption DEF RunTyped
  <2>2. CASE sweep = OpenMints(r.state)
    BY <1>3, <2>2 DEF Swept
  <2>3. CASE ~(r.bands.takeProfit > 0) /\ ~(r.bands.stopLoss > 0)
    BY <1>3, <2>3 DEF Swept, Uncrossed, TakesProfit, StopsLoss, SameInputs
  <2> QED
    BY <2>2, <2>3
<1>5. Followed("exits", q)
  BY <1>1, <1>2, <1>3, SamePrice DEF Followed, Closed, SameInputs
<1> QED
  BY <1>2, <1>4, <1>5, ExitGoes DEF TypeInv

LEMMA ExitSweep ==
    ASSUME TypeInv, ExitInv, NEW p \in Terminals, EvaluateExits(p)
    PROVE  ExitInv'
<1> DEFINE r == run[p]
<1>1. /\ RunTyped(r) /\ Followed("exits", r) /\ Swept("exits", r)
      /\ r.state \in Portfolios
  BY DEF TypeInv, ExitInv, EvaluateExits, RunTyped
<1>2. PICK mint \in r.sweep :
         LET position == r.state.positions[mint]
             swept == [r EXCEPT !.sweep = @ \ {mint}]
         IN  \/ /\ ExitTicks(position, r.prices[mint], r.bands) = {}
                /\ Become(p, "exits", swept)
             \/ \E fill : \E which \in Triggers :
                   /\ IsFill(fill) /\ fill.mint = mint
                   /\ fill.quantity = position.quantity
                   /\ Become(p, "exits",
                         Sell(swept, <<Triggered(which, mint)>>, fill))
  BY <1>1, ExitDoes
<1> HIDE DEF r
<1> DEFINE position == r.state.positions[mint]
           rest == r.sweep \ {mint}
           swept == [r EXCEPT !.sweep = @ \ {mint}]
<1>3. mint \in Mints /\ rest \subseteq Mints
  BY <1>1, <1>2 DEF RunTyped
<1>4. /\ RunTyped(swept) /\ SameInputs(swept, r) /\ swept.state = r.state
      /\ swept.sweep = rest /\ swept.handled = r.handled
  <2>1. swept = [r EXCEPT !.sweep = rest]
    OBVIOUS
  <2> HIDE DEF rest, swept
  <2> QED
    BY <1>1, <1>3, <2>1, SweptEffect
<1>5. PICK q : /\ Become(p, "exits", q) /\ SameInputs(q, r)
               /\ q.handled = r.handled /\ q.sweep = rest
               /\ q.state \in Portfolios
               /\ \A m \in Mints \ {mint} :
                     q.state.positions[m] = r.state.positions[m]
               /\ \/ q.state.positions[mint] = Flat
                  \/ /\ q.state.positions[mint] = r.state.positions[mint]
                     /\ ExitTicks(position, r.prices[mint], r.bands) = {}
  <2> HIDE DEF rest, swept
  <2>1. CASE /\ ExitTicks(position, r.prices[mint], r.bands) = {}
             /\ Become(p, "exits", swept)
    BY <1>1, <1>4, <2>1
  <2>2. ASSUME NEW fill, NEW which \in Triggers,
               IsFill(fill), fill.mint = mint,
               fill.quantity = position.quantity,
               Become(p, "exits",
                      Sell(swept, <<Triggered(which, mint)>>, fill))
        PROVE  \E q :
                  /\ Become(p, "exits", q) /\ SameInputs(q, r)
                  /\ q.handled = r.handled /\ q.sweep = rest
                  /\ q.state \in Portfolios
                  /\ \A m \in Mints \ {mint} :
                        q.state.positions[m] = r.state.positions[m]
                  /\ q.state.positions[mint] = Flat
    <3> DEFINE q == Sell(swept, <<Triggered(which, mint)>>, fill)
    <3>1. /\ RunTyped(q) /\ SameInputs(q, swept) /\ q.sweep = swept.sweep
          /\ q.state = ApplySellFill(swept.state, fill)
          /\ q.handled = swept.handled
      BY <1>4, <2>2, ExitEffectOnRun
    <3>2. Become(p, "exits", q)
      BY <2>2
    <3> HIDE DEF q
    <3>3. fill.quantity >= r.state.positions[mint].quantity
      BY <2>2 DEF IsFill
    <3>4. /\ \A m \in Mints \ {mint} :
                q.state.positions[m] = r.state.positions[m]
          /\ q.state.positions[mint] = Flat
      BY <1>1, <1>4, <2>2, <3>1, <3>3, SaleEffect
    <3>5. SameInputs(q, r) /\ q.state \in Portfolios
      BY <1>4, <3>1 DEF SameInputs, RunTyped
    <3> QED
      BY <1>4, <3>1, <3>2, <3>4, <3>5
  <2> QED
    BY <1>2, <2>1, <2>2 DEF swept
<1> HIDE DEF rest, swept, position
<1>6. Swept("exits", q)
  <2> SUFFICES ASSUME ~q.caps.killSwitch, NEW m \in OpenMints(q.state),
                      m \notin q.sweep
               PROVE  Uncrossed(q, m)
    BY DEF Swept
  <2>1. m \in Mints /\ q.state.positions[m] # Flat
    <3>1. m \in Mints
      BY DEF OpenMints
    <3> QED
      BY <1>5, <3>1, HeldOrFlat
  <2>2. q.state.positions[m] = r.state.positions[m]
    BY <1>5, <2>1
  <2>3. m \in OpenMints(r.state)
    BY <1>1, <2>1, <2>2, HeldOrFlat
  <2>4. CASE m # mint
    <3>1. m \notin r.sweep
      BY <1>5, <2>4 DEF rest
    <3>2. Uncrossed(r, m)
      BY <1>1, <1>5, <2>3, <3>1 DEF Swept, SameInputs
    <3> QED
      BY <1>5, <2>2, <3>2 DEF Uncrossed, SameInputs
  <2>5. CASE m = mint
    <3>1. ExitTicks(r.state.positions[m], r.prices[m], r.bands) = {}
      BY <1>5, <2>1, <2>5 DEF position
    <3>2. r.state.positions[m].costBasis > 0
      BY <1>1, <2>1, <2>3, HeldOrFlat
    <3>3. Uncrossed(r, m)
      BY <3>1, <3>2 DEF ExitTicks, Uncrossed
    <3> QED
      BY <1>5, <2>2, <3>3 DEF Uncrossed, SameInputs
  <2> QED
    BY <2>4, <2>5
<1>7. Followed("exits", q)
  <2> SUFFICES ASSUME NEW f \in r.file
               PROVE  /\ q.handled <= Len(f.candidates)
                      /\ ~q.caps.killSwitch => q.handled = Len(f.candidates)
                      /\ Closed(f, q)
    BY <1>5 DEF Followed, SameInputs
  <2>1. /\ q.handled <= Len(f.candidates)
        /\ ~q.caps.killSwitch => q.handled = Len(f.candidates)
    BY <1>1, <1>5 DEF Followed, SameInputs
  <2>2. ASSUME ~f.sized, NEW i \in DOMAIN f.candidates, i <= q.handled,
               IsLastExit(f, q, i)
        PROVE  q.state.positions[f.candidates[i].mint] = Flat
    <3>1. IsLastExit(f, r, i)
      BY <1>5, <2>2, SamePrice DEF SameInputs
    <3>2. r.state.positions[f.candidates[i].mint] = Flat
      BY <1>1, <1>5, <2>2, <3>1 DEF Followed, Closed
    <3>3. f.candidates[i].mint \in Mints
      BY <1>1 DEF RunTyped, PlanShape, IsCandidate
    <3> QED
      BY <1>5, <3>2, <3>3
  <2> QED
    BY <2>1, <2>2 DEF Closed
<1> QED
  BY <1>5, <1>6, <1>7, ExitGoes DEF TypeInv

LEMMA ExitStep == TypeInv /\ ExitInv /\ [Next]_vars => ExitInv'
<1> SUFFICES ASSUME TypeInv, ExitInv, [Next]_vars PROVE ExitInv'
  OBVIOUS
<1>1. DOMAIN pc = Terminals /\ DOMAIN run = Terminals
  BY DEF TypeInv
<1>2. CASE UNCHANGED <<pc, run>>
  BY <1>2 DEF ExitInv, Swept, Followed, Uncrossed, Closed, IsLastExit,
              LastPrice
<1>3. ASSUME NEW p \in Terminals, Launch(p) PROVE ExitInv'
  <2>1. PICK place, r :
           /\ Become(p, place, r) /\ RunTyped(r) /\ r.handled = 0
           /\ place = "candidates" \/ r.caps.killSwitch
    BY <1>3, LaunchDoes
  <2>2. ASSUME NEW f \in r.file
        PROVE  r.handled <= Len(f.candidates) /\ Closed(f, r)
    <3>1. DOMAIN f.candidates = 1..Len(f.candidates) /\ Len(f.candidates) \in Nat
      BY <2>1 DEF RunTyped, PlanShape, IsSequence
    <3> QED
      BY <2>1, <3>1 DEF Closed
  <2>3. Swept(place, r) /\ Followed(place, r)
    BY <2>1, <2>2 DEF Swept, Followed
  <2> QED
    BY <1>1, <2>1, <2>3, ExitGoes
<1>4. ASSUME NEW p \in Terminals, EndSweep(p) PROVE ExitInv'
  <2>1. Swept("append", run[p]) /\ Followed("append", run[p])
    BY <1>4 DEF ExitInv, EndSweep, Swept, Followed
  <2> QED
    BY <1>1, <1>4, <2>1, ExitGoes DEF EndSweep
<1>5. ASSUME NEW p \in Terminals,
             LoseRun(p) \/ AppendEvents(p) \/ TearAppend(p)
      PROVE  ExitInv'
  <2>1. Become(p, "idle", NoRun)
    BY <1>5 DEF LoseRun, AppendEvents, TearAppend
  <2> QED
    BY <1>1, <2>1, ExitNoRun, ExitGoes
<1>6. ASSUME NEW p \in Terminals, PlanStrategy(p) \/ RefuseJournal(p)
      PROVE  UNCHANGED <<pc, run>>
  BY <1>6 DEF PlanStrategy, RefuseJournal
<1> QED
  BY <1>2, <1>3, <1>4, <1>5, <1>6, ExitBuy, ExitSell, ExitStart, ExitSweep
     DEF Next, vars

LEMMA ExitInvariant == Spec => []ExitInv
  BY ExitInit, ExitStep, TypeInvariant, PTL DEF Spec

-----------------------------------------------------------------------------
(* The history: the journal and what a run will append to it. *)

(* H is orderly, holds s, its last run has these caps, and no exit that it *)
(* announces is still to come.                                             *)
Tells(H, caps, s) ==
    /\ Orderly(H) /\ ReduceJournal(H) = s
    /\ \E k \in DOMAIN H : StartedAt(H, k) /\ H[k].caps = caps
    /\ H[Len(H)].type \notin Triggers

HistoryInv ==
    /\ NoDamage(journal) => Orderly(journal)
    /\ \A p \in Terminals :
          pc[p] # "idle" =>
             Tells(journal \o run[p].events, run[p].caps, run[p].state)

LEMMA StartTells ==
    ASSUME NEW J, Orderly(J), NEW caps
    PROVE  Tells(Append(J, Started(caps)), caps, ReduceJournal(J))
<1> DEFINE e == Started(caps)
           H == Append(J, e)
<1>1. e.type = "RUN_STARTED" /\ e.caps = caps
  BY DEF Started
<1> HIDE DEF e
<1>2. IsSequence(J)
  BY DEF Orderly
<1>3. /\ Len(J) \in Nat /\ Len(H) = Len(J) + 1
      /\ DOMAIN H = 1..Len(J) + 1 /\ H[Len(J) + 1] = e
  BY <1>2, OneMore
<1>4. MayFollow(J, e)
  BY <1>1 DEF MayFollow, IsEvent, Answers
<1>5. Orderly(H)
  BY <1>4, OrderlyAppend
<1>6. ReduceJournal(H) = ReduceJournal(J)
  BY <1>1, <1>2, ReplayAppend DEF ApplyEvent
<1> HIDE DEF H
<1>7. StartedAt(H, Len(J) + 1) /\ Len(J) + 1 \in DOMAIN H
  BY <1>1, <1>3 DEF StartedAt
<1> QED
  BY <1>1, <1>3, <1>5, <1>6, <1>7 DEF Tells, Triggers, H, e

(* An event that neither starts a run nor announces an exit.               *)
LEMMA LineTells ==
    ASSUME NEW H, NEW caps, NEW s, Tells(H, caps, s),
           NEW e, IsEvent(e), e.type \notin Triggers, e.type # "RUN_STARTED",
           e.type = "PAPER_BUY_FILLED" =>
              WithinCaps(caps, s, e.fill.mint, Notional(e.fill)),
           e.type = "PAPER_SELL_FILLED" =>
              e.fill.quantity <= s.positions[e.fill.mint].quantity
    PROVE  Tells(Append(H, e), caps, ApplyEvent(s, e))
<1> DEFINE K == Append(H, e)
<1>1. PICK k \in DOMAIN H : StartedAt(H, k) /\ H[k].caps = caps
  BY DEF Tells
<1>2. /\ Orderly(H) /\ ReduceJournal(H) = s /\ IsSequence(H)
      /\ H[Len(H)].type \notin Triggers
  BY DEF Tells, Orderly
<1>3. MayFollow(H, e)
  BY <1>1, <1>2 DEF MayFollow, MayBuy, MaySell
<1>4. Orderly(K)
  BY <1>2, <1>3, OrderlyAppend
<1>5. ReduceJournal(K) = ApplyEvent(s, e)
  BY <1>2, ReplayAppend
<1>6. StartedAt(K, k) /\ K[k] = H[k]
  BY <1>1, <1>2, StartStays
<1>7. Len(H) \in Nat /\ Len(K) = Len(H) + 1 /\ K[Len(H) + 1] = e
  BY <1>2, OneMore
<1> HIDE DEF K
<1>8. K[Len(K)] = e /\ k \in DOMAIN K
  BY <1>6, <1>7 DEF StartedAt
<1> QED
  BY <1>1, <1>4, <1>5, <1>6, <1>8 DEF Tells, K

(* An announced exit and its sale of the whole position.                   *)
LEMMA ExitTells ==
    ASSUME NEW H, NEW caps, NEW s \in Portfolios, Tells(H, caps, s),
           NEW fill, IsFill(fill), NEW which \in Triggers,
           fill.quantity = s.positions[fill.mint].quantity
    PROVE  Tells(Append(Append(H, Triggered(which, fill.mint)), Sold(fill)),
                 caps, ApplySellFill(s, fill))
<1> DEFINE t == Triggered(which, fill.mint)
           e == Sold(fill)
           K == Append(H, t)
           L == Append(K, e)
<1>1. /\ t.type \in Triggers /\ t.mint = fill.mint /\ IsEvent(t)
      /\ t.type \notin {"PAPER_BUY_FILLED", "PAPER_SELL_FILLED", "RUN_STARTED"}
  BY DEF Triggered, Triggers, IsEvent
<1>2. /\ e.type = "PAPER_SELL_FILLED" /\ e.fill = fill /\ IsEvent(e)
      /\ e.type \notin Triggers
  BY DEF Sold, IsEvent, Triggers
<1>3. PICK k \in DOMAIN H : StartedAt(H, k) /\ H[k].caps = caps
  BY DEF Tells
<1>4. /\ Orderly(H) /\ ReduceJournal(H) = s /\ IsSequence(H)
      /\ H[Len(H)].type \notin Triggers
  BY DEF Tells, Orderly
<1> HIDE DEF t, e
<1>5. MayFollow(H, t)
  BY <1>1, <1>4 DEF MayFollow
<1>6. Orderly(K)
  BY <1>4, <1>5, OrderlyAppend
<1>7. ReduceJournal(K) = s
  BY <1>1, <1>4, ReplayAppend DEF ApplyEvent
<1>8. StartedAt(K, k) /\ K[k] = H[k]
  BY <1>1, <1>3, <1>4, StartStays
<1>9. Len(H) \in Nat /\ Len(K) = Len(H) + 1 /\ K[Len(H) + 1] = t
  BY <1>4, OneMore
<1> HIDE DEF K
<1>10. IsSequence(K) /\ K[Len(K)] = t
  BY <1>6, <1>9 DEF Orderly
<1>11. ReduceJournal(L) = ApplySellFill(s, fill)
  BY <1>2, <1>7, <1>10, ReplayAppend DEF ApplyEvent
<1>12. ApplySellFill(s, fill).positions[fill.mint] = Flat
  <2>1. fill.quantity >= s.positions[fill.mint].quantity
    BY DEF IsFill
  <2> QED
    BY <2>1, SaleEffect
<1>13. MayFollow(K, e)
  <2>1. Answers(K, t, e)
    BY <1>1, <1>2, <1>11, <1>12 DEF Answers
  <2>2. MaySell(K, fill)
    BY <1>7 DEF MaySell, IsFill
  <2> QED
    BY <1>2, <1>10, <2>1, <2>2 DEF MayFollow
<1>14. Orderly(L)
  BY <1>6, <1>13, OrderlyAppend
<1>15. StartedAt(L, k) /\ L[k] = K[k]
  BY <1>2, <1>8, <1>10, StartStays
<1>16. Len(K) \in Nat /\ Len(L) = Len(K) + 1 /\ L[Len(K) + 1] = e
  BY <1>10, OneMore
<1> HIDE DEF L
<1>17. L[Len(L)] = e /\ k \in DOMAIN L
  BY <1>15, <1>16 DEF StartedAt
<1> QED
  BY <1>2, <1>3, <1>8, <1>11, <1>14, <1>15, <1>17 DEF Tells, L, K, t, e

-----------------------------------------------------------------------------
(* One command at a time, the history is kept. *)

LEMMA HistoryGoes ==
    ASSUME OneTerminal, TypeInv, HistoryInv, NEW p \in Terminals, NEW place,
           NEW r, Become(p, place, r), FileUnchanged,
           place # "idle" => Tells(journal \o r.events, r.caps, r.state)
    PROVE  HistoryInv'
<1>1. /\ pc' = [pc EXCEPT ![p] = place] /\ run' = [run EXCEPT ![p] = r]
      /\ journal' = journal
  BY DEF Become, FileUnchanged
<1>2. \A q \in Terminals : q = p
  BY DEF OneTerminal
<1>3. pc'[p] = place /\ run'[p] = r
  BY <1>1 DEF TypeInv
<1>4. \A q \in Terminals :
         pc'[q] # "idle" =>
            Tells(journal' \o run'[q].events, run'[q].caps, run'[q].state)
  BY <1>1, <1>2, <1>3
<1> QED
  BY <1>1, <1>4 DEF HistoryInv

LEMMA HistoryLaunch ==
    ASSUME OneTerminal, TypeInv, HistoryInv, NEW p \in Terminals, Launch(p)
    PROVE  HistoryInv'
<1>1. PICK place, r :
          /\ Become(p, place, r) /\ RunTyped(r)
          /\ r.state = ReduceJournal(journal)
          /\ r.events = IF r.caps.killSwitch
                        THEN <<Started(r.caps), KillSwitchActive>>
                        ELSE <<Started(r.caps)>>
  BY LaunchDoes
<1> DEFINE J == journal
           a == Started(r.caps)
           b == KillSwitchActive
<1>2. Orderly(J) /\ IsSequence(J)
  BY LaunchDoes DEF HistoryInv, JournalRefused, Readable, NoDamage, Orderly
<1>3. Tells(Append(J, a), r.caps, r.state)
  BY <1>1, <1>2, StartTells
<1>4. Tells(Append(Append(J, a), b), r.caps, r.state)
  <2>1. IsEvent(b) /\ b.type \notin Triggers /\ ApplyEvent(r.state, b) = r.state
        /\ b.type \notin {"RUN_STARTED", "PAPER_BUY_FILLED", "PAPER_SELL_FILLED"}
    BY DEF KillSwitchActive, IsEvent, Triggers, ApplyEvent
  <2> HIDE DEF a, b, J
  <2> QED
    BY <1>3, <2>1, LineTells
<1>5. /\ J \o <<a>> = Append(J, a)
      /\ J \o <<a, b>> = Append(Append(J, a), b)
  <2> HIDE DEF a, b, J
  <2>1. PICK S : J \in Seq(S)
    BY <1>2 DEF IsSequence
  <2>2. J \in Seq(S \cup {a}) /\ a \in S \cup {a}
    BY <2>1, SeqMonotonic
  <2>3. Append(J, a) = J \o <<a>>
    BY <2>2, AppendIsConcat
  <2>4. IsSequence(<<a>>) /\ <<a, b>> = Append(<<a>>, b)
    <3>1. <<a>> \in Seq({a}) /\ <<a, b>> = Append(<<a>>, b)
      OBVIOUS
    <3> QED
      BY <3>1 DEF IsSequence
  <2>5. J \o Append(<<a>>, b) = Append(J \o <<a>>, b)
    BY <1>2, <2>4, JoinedOneMore
  <2> QED
    BY <2>3, <2>4, <2>5
<1>6. Tells(J \o r.events, r.caps, r.state)
  <2>1. r.events = <<a, b>> \/ r.events = <<a>>
    BY <1>1
  <2> HIDE DEF a, b, J
  <2> QED
    BY <1>3, <1>4, <1>5, <2>1
<1> QED
  BY <1>1, <1>6, LaunchDoes, HistoryGoes

(* A line of a run is a line of its history.                               *)
LEMMA RunLine ==
    ASSUME TypeInv, NEW r, RunTyped(r), NEW e
    PROVE  journal \o Append(r.events, e) = Append(journal \o r.events, e)
  BY JoinedOneMore DEF TypeInv, RunTyped, Typed

LEMMA NoteTells ==
    ASSUME TypeInv, NEW r, RunTyped(r),
           Tells(journal \o r.events, r.caps, r.state)
    PROVE  LET q == Note(r, Rejected)
           IN  Tells(journal \o q.events, q.caps, q.state)
<1> DEFINE q == Note(r, Rejected)
<1>1. /\ q.events = Append(r.events, Rejected) /\ q.caps = r.caps
      /\ q.state = r.state
  BY NoteEffect DEF SameInputs
<1>2. /\ IsEvent(Rejected) /\ Rejected.type \notin Triggers
      /\ ApplyEvent(r.state, Rejected) = r.state
      /\ Rejected.type \notin {"RUN_STARTED", "PAPER_BUY_FILLED",
                               "PAPER_SELL_FILLED"}
  BY DEF Rejected, IsEvent, Triggers, ApplyEvent
<1>3. Tells(Append(journal \o r.events, Rejected), r.caps, r.state)
  BY <1>2, LineTells
<1> HIDE DEF q
<1> QED
  BY <1>1, <1>3, RunLine DEF q

LEMMA HistoryBuy ==
    ASSUME OneTerminal, TypeInv, HistoryInv, NEW p \in Terminals, ProcessBuy(p)
    PROVE  HistoryInv'
<1> DEFINE r == run[p]
<1>1. /\ RunTyped(r) /\ Tells(journal \o r.events, r.caps, r.state)
      /\ FileUnchanged
  BY DEF TypeInv, HistoryInv, ProcessBuy
<1>2. \/ Become(p, "candidates", Note(r, Rejected))
      \/ \E fill :
            /\ IsFill(fill)
            /\ WithinCaps(r.caps, r.state, fill.mint, Notional(fill))
            /\ Become(p, "candidates", Buy(r, fill))
  BY <1>1, BuyDoes
<1>3. CASE Become(p, "candidates", Note(r, Rejected))
  BY <1>1, <1>3, NoteTells, HistoryGoes
<1>4. ASSUME NEW fill, IsFill(fill),
             WithinCaps(r.caps, r.state, fill.mint, Notional(fill)),
             Become(p, "candidates", Buy(r, fill))
      PROVE  HistoryInv'
  <2> DEFINE q == Buy(r, fill)
             e == Bought(fill)
  <2>1. Become(p, "candidates", q)
    BY <1>4
  <2> HIDE DEF r
  <2>2. /\ q.events = Append(r.events, e) /\ q.caps = r.caps
        /\ q.state = ApplyBuyFill(r.state, fill)
    BY <1>1, <1>4, BuyEffectOnRun DEF SameInputs
  <2>3. /\ e.type = "PAPER_BUY_FILLED" /\ e.fill = fill /\ IsEvent(e)
        /\ e.type \notin Triggers
    BY <1>4 DEF Bought, IsEvent, Triggers
  <2> HIDE DEF q, e
  <2>4. Tells(Append(journal \o r.events, e), r.caps, ApplyEvent(r.state, e))
    BY <1>1, <1>4, <2>3, LineTells
  <2>5. ApplyEvent(r.state, e) = ApplyBuyFill(r.state, fill)
    BY <2>3 DEF ApplyEvent
  <2>6. journal \o Append(r.events, e) = Append(journal \o r.events, e)
    BY <1>1, RunLine
  <2>7. Tells(journal \o q.events, q.caps, q.state)
    BY <2>2, <2>4, <2>5, <2>6
  <2> QED
    BY <1>1, <2>1, <2>7, HistoryGoes
<1> QED
  BY <1>2, <1>3, <1>4

LEMMA HistorySell ==
    ASSUME OneTerminal, TypeInv, HistoryInv, NEW p \in Terminals, ProcessSell(p)
    PROVE  HistoryInv'
<1> DEFINE r == run[p]
<1>1. /\ RunTyped(r) /\ Tells(journal \o r.events, r.caps, r.state)
      /\ FileUnchanged
  BY DEF TypeInv, HistoryInv, ProcessSell
<1>2. \/ Become(p, "candidates", Note(r, Rejected))
      \/ \E fill :
            /\ IsFill(fill)
            /\ fill.quantity <= r.state.positions[fill.mint].quantity
            /\ Become(p, "candidates",
                  [Sell(r, <<>>, fill) EXCEPT !.handled = @ + 1])
  BY <1>1, SellDoes
<1>3. CASE Become(p, "candidates", Note(r, Rejected))
  BY <1>1, <1>3, NoteTells, HistoryGoes
<1>4. ASSUME NEW fill, IsFill(fill),
             fill.quantity <= r.state.positions[fill.mint].quantity,
             Become(p, "candidates",
                    [Sell(r, <<>>, fill) EXCEPT !.handled = @ + 1])
      PROVE  HistoryInv'
  <2> DEFINE q == [Sell(r, <<>>, fill) EXCEPT !.handled = @ + 1]
             e == Sold(fill)
  <2>1. Become(p, "candidates", q)
    BY <1>4
  <2> HIDE DEF r
  <2>2. /\ q.events = Append(r.events, e) /\ q.caps = r.caps
        /\ q.state = ApplySellFill(r.state, fill)
    BY <1>1, <1>4, SellEffectOnRun DEF SameInputs
  <2>3. /\ e.type = "PAPER_SELL_FILLED" /\ e.fill = fill /\ IsEvent(e)
        /\ e.type \notin Triggers
    BY <1>4 DEF Sold, IsEvent, Triggers
  <2> HIDE DEF q, e
  <2>4. Tells(Append(journal \o r.events, e), r.caps, ApplyEvent(r.state, e))
    BY <1>1, <1>4, <2>3, LineTells
  <2>5. ApplyEvent(r.state, e) = ApplySellFill(r.state, fill)
    BY <2>3 DEF ApplyEvent
  <2>6. journal \o Append(r.events, e) = Append(journal \o r.events, e)
    BY <1>1, RunLine
  <2>7. Tells(journal \o q.events, q.caps, q.state)
    BY <2>2, <2>4, <2>5, <2>6
  <2> QED
    BY <1>1, <2>1, <2>7, HistoryGoes
<1> QED
  BY <1>2, <1>3, <1>4

LEMMA HistorySweep ==
    ASSUME OneTerminal, TypeInv, HistoryInv, NEW p \in Terminals,
           EvaluateExits(p)
    PROVE  HistoryInv'
<1> DEFINE r == run[p]
<1>1. /\ RunTyped(r) /\ Tells(journal \o r.events, r.caps, r.state)
      /\ FileUnchanged /\ r.state \in Portfolios
  BY DEF TypeInv, HistoryInv, EvaluateExits, RunTyped
<1>2. PICK mint \in r.sweep :
         LET swept == [r EXCEPT !.sweep = @ \ {mint}]
         IN  \/ Become(p, "exits", swept)
             \/ \E fill : \E which \in Triggers :
                   /\ IsFill(fill) /\ fill.mint = mint
                   /\ fill.quantity = r.state.positions[mint].quantity
                   /\ Become(p, "exits",
                         Sell(swept, <<Triggered(which, mint)>>, fill))
  BY <1>1, ExitDoes
<1> HIDE DEF r
<1> DEFINE rest == r.sweep \ {mint}
           swept == [r EXCEPT !.sweep = @ \ {mint}]
<1>3. /\ RunTyped(swept) /\ SameInputs(swept, r) /\ swept.state = r.state
      /\ swept.events = r.events
  <2>1. swept = [r EXCEPT !.sweep = rest] /\ rest \subseteq Mints
    BY <1>1 DEF RunTyped
  <2> HIDE DEF rest, swept
  <2> QED
    BY <1>1, <2>1, SweptEffect
<1>4. CASE Become(p, "exits", swept)
  <2>1. Tells(journal \o swept.events, swept.caps, swept.state)
    BY <1>1, <1>3 DEF SameInputs
  <2> HIDE DEF swept
  <2> QED
    BY <1>1, <1>4, <2>1, HistoryGoes
<1>5. ASSUME NEW fill, NEW which \in Triggers, IsFill(fill), fill.mint = mint,
             fill.quantity = r.state.positions[mint].quantity,
             Become(p, "exits",
                    Sell(swept, <<Triggered(which, mint)>>, fill))
      PROVE  HistoryInv'
  <2> HIDE DEF swept
  <2> DEFINE t == Triggered(which, mint)
             e == Sold(fill)
             q == Sell(swept, <<t>>, fill)
             H == journal \o r.events
  <2>1. Become(p, "exits", q)
    BY <1>5
  <2>2. /\ q.events = Append(Append(r.events, t), e) /\ q.caps = r.caps
        /\ q.state = ApplySellFill(r.state, fill)
    BY <1>3, <1>5, ExitEffectOnRun DEF SameInputs
  <2>3. Tells(Append(Append(H, t), e), r.caps, ApplySellFill(r.state, fill))
    BY <1>1, <1>5, ExitTells
  <2>4. journal \o Append(Append(r.events, t), e) = Append(Append(H, t), e)
    <3> HIDE DEF t, e, q
    <3>1. IsSequence(journal) /\ IsSequence(r.events)
      BY <1>1 DEF TypeInv, RunTyped, Typed
    <3>2. IsSequence(Append(r.events, t))
      BY <3>1, OneMore
    <3> QED
      BY <3>1, <3>2, JoinedOneMore
  <2> HIDE DEF t, e, q, H
  <2>5. Tells(journal \o q.events, q.caps, q.state)
    BY <2>2, <2>3, <2>4
  <2> QED
    BY <1>1, <2>1, <2>5, HistoryGoes
<1> QED
  BY <1>2, <1>4, <1>5

(* What is appended, or torn, leaves an orderly journal or a damaged one.  *)
LEMMA HistoryWrites ==
    ASSUME OneTerminal, TypeInv, HistoryInv, NEW p \in Terminals,
           AppendEvents(p) \/ TearAppend(p)
    PROVE  HistoryInv'
<1> DEFINE r == run[p]
           B == Batch(p)
<1>1. RunTyped(r) /\ Typed(r.events)
  BY DEF TypeInv, RunTyped
<1>2. /\ Typed(B) /\ pc[p] = "append" /\ Become(p, "idle", NoRun)
  BY <1>1, AppendDoes
<1>3. PICK lines :
         /\ Typed(lines) /\ journal' = AppendLines(lines)
         /\ \/ \E n \in 0..Len(B) : lines = SubSeq(B, 1, n)
            \/ \E n \in 0..Len(B) :
                  lines = Append(SubSeq(B, 1, n), MalformedEvent)
  BY <1>1, AppendDoes
<1>4. Typed(journal) /\ IsSequence(journal) /\ (~terminated => journal # <<>>)
  BY DEF TypeInv, Typed
<1>5. Orderly(journal \o B)
  <2>1. Tells(journal \o r.events, r.caps, r.state)
    BY <1>2 DEF HistoryInv
  <2>2. /\ IsEvent(Completed) /\ Completed.type \notin Triggers
        /\ Completed.type \notin {"RUN_STARTED", "PAPER_BUY_FILLED",
                                  "PAPER_SELL_FILLED"}
    BY DEF Completed, IsEvent, Triggers
  <2>3. Orderly(Append(journal \o r.events, Completed))
    BY <2>1, <2>2, LineTells DEF Tells
  <2>4. journal \o Append(r.events, Completed)
           = Append(journal \o r.events, Completed)
    BY <1>1, RunLine
  <2> QED
    BY <2>3, <2>4 DEF Batch
<1>6. ASSUME NoDamage(journal') PROVE Orderly(journal')
  <2>1. terminated \/ lines = <<>>
    <3> SUFFICES ASSUME ~terminated, lines # <<>> PROVE FALSE
      OBVIOUS
    <3>1. PICK S : journal \in Seq(S)
      BY <1>4 DEF IsSequence
    <3>2. PICK T : lines \in Seq(T)
      BY <1>3 DEF Typed, IsSequence
    <3> DEFINE U == (S \cup T) \cup {MalformedEvent}
    <3>3. journal \in Seq(U) /\ lines \in Seq(U) /\ MalformedEvent \in U
      BY <3>1, <3>2, SeqMonotonic
    <3> HIDE DEF U
    <3> QED
      BY <1>3, <1>4, <1>6, <3>3, AppendLinesFacts
  <2>2. journal' = journal \o lines
    BY <1>3, <2>1 DEF AppendLines
  <2>3. ASSUME NEW n \in 0..Len(B), lines = SubSeq(B, 1, n)
        PROVE  Orderly(journal')
    <3> HIDE DEF B
    <3>1. /\ Len(journal) \in Nat /\ Len(B) \in Nat
          /\ Len(journal \o B) = Len(journal) + Len(B)
          /\ SubSeq(journal \o B, 1, Len(journal) + n) = journal \o lines
      BY <1>2, <1>4, <2>3, Joined DEF Typed
    <3> DEFINE k == Len(journal) + n
    <3>2. k \in 0..Len(journal \o B)
      BY <3>1
    <3> HIDE DEF k
    <3>3. Orderly(SubSeq(journal \o B, 1, k))
      BY <1>5, <3>2, OrderlyPrefix
    <3> QED
      BY <2>2, <3>1, <3>3 DEF k
  <2>4. ASSUME NEW n \in 0..Len(B),
               lines = Append(SubSeq(B, 1, n), MalformedEvent)
        PROVE  FALSE
    <3> DEFINE cut == SubSeq(B, 1, n)
    <3> HIDE DEF B
    <3>1. IsSequence(cut)
      BY <1>2, PrefixOf DEF Typed
    <3> HIDE DEF cut
    <3>2. /\ Len(cut) \in Nat /\ Len(lines) = Len(cut) + 1
          /\ lines[Len(cut) + 1] = MalformedEvent
      BY <2>4, <3>1, OneMore DEF cut
    <3> DEFINE i == Len(cut) + 1
    <3>3. i \in 1..Len(lines) /\ lines[i] = MalformedEvent
      BY <3>2
    <3>4. /\ Len(journal) \in Nat /\ Len(lines) \in Nat
          /\ DOMAIN (journal \o lines) = 1..Len(journal) + Len(lines)
          /\ \A j \in 1..Len(lines) :
                (journal \o lines)[Len(journal) + j] = lines[j]
      BY <1>3, <1>4, Joined DEF Typed
    <3> HIDE DEF i
    <3>5. /\ Len(journal) + i \in DOMAIN journal'
          /\ journal'[Len(journal) + i] = MalformedEvent
      BY <2>2, <3>3, <3>4
    <3> QED
      BY <1>6, <3>5 DEF NoDamage, MalformedEvent
  <2> QED
    BY <1>3, <2>3, <2>4
<1>7. \A q \in Terminals : pc'[q] = "idle"
  BY <1>2 DEF Become, OneTerminal, TypeInv
<1> QED
  BY <1>6, <1>7 DEF HistoryInv

LEMMA HistoryInit == Init => HistoryInv
  BY OrderlyEmpty DEF Init, HistoryInv

LEMMA HistoryStep ==
    ASSUME OneTerminal, TypeInv, HistoryInv, [Next]_vars
    PROVE  HistoryInv'
<1>1. CASE UNCHANGED <<journal, pc, run>>
  BY <1>1 DEF HistoryInv
<1>2. ASSUME NEW p \in Terminals, PlanStrategy(p) \/ RefuseJournal(p)
      PROVE  UNCHANGED <<journal, pc, run>>
  BY <1>2 DEF PlanStrategy, RefuseJournal, FileUnchanged
<1>3. ASSUME NEW p \in Terminals, StartSweep(p) PROVE HistoryInv'
  <2>1. PICK sweep : /\ sweep \subseteq Mints
                     /\ Become(p, "exits", [run[p] EXCEPT !.sweep = sweep])
    BY <1>3 DEF StartSweep, OpenMints
  <2> DEFINE q == [run[p] EXCEPT !.sweep = sweep]
  <2>2. /\ RunTyped(run[p])
        /\ Tells(journal \o run[p].events, run[p].caps, run[p].state)
    BY <1>3 DEF TypeInv, HistoryInv, StartSweep
  <2>3. q.events = run[p].events /\ q.caps = run[p].caps
        /\ q.state = run[p].state
    BY <2>1, <2>2, SweptEffect DEF SameInputs
  <2>4. Become(p, "exits", q) /\ FileUnchanged
    BY <1>3, <2>1 DEF StartSweep
  <2> HIDE DEF q
  <2> QED
    BY <2>2, <2>3, <2>4, HistoryGoes
<1>4. ASSUME NEW p \in Terminals, EndSweep(p) PROVE HistoryInv'
  BY <1>4, HistoryGoes DEF EndSweep, HistoryInv
<1>5. ASSUME NEW p \in Terminals, LoseRun(p) PROVE HistoryInv'
  BY <1>5, HistoryGoes DEF LoseRun
<1> QED
  BY <1>1, <1>2, <1>3, <1>4, <1>5, HistoryLaunch, HistoryBuy, HistorySell,
     HistorySweep, HistoryWrites DEF Next, vars

LEMMA HistoryInvariant == ASSUME OneTerminal PROVE Spec => []HistoryInv
<1>1. TypeInv /\ HistoryInv /\ [Next]_vars => HistoryInv'
  BY HistoryStep
<1> QED
  BY <1>1, HistoryInit, TypeInvariant, PTL DEF Spec

-----------------------------------------------------------------------------
(* Money: what is bought, sold and held. *)

LEMMA FiniteHere == \A S : IsFiniteSet(S) <=> Replay!IsFiniteSet(S)
  BY DEF IsFiniteSet, Replay!IsFiniteSet

LEMMA TotalIsFold ==
    /\ \A f, S : FoldFunctionOnSet(+, 0, f, S) = Replay!Total(f, S)
    /\ \A f : FoldFunction(+, 0, f) = Replay!Total(f, DOMAIN f)
<1>1. \A f, S : FoldFunctionOnSet(+, 0, f, S) = Replay!Total(f, S)
  BY DEF Replay!Total, FoldFunctionOnSet, MapThenFoldSet,
         Replay!FoldFunctionOnSet, Replay!MapThenFoldSet
<1>2. \A f : FoldFunction(+, 0, f) = FoldFunctionOnSet(+, 0, f, DOMAIN f)
  BY DEF FoldFunction
<1> QED
  BY <1>1, <1>2

(* The turnover of a journal.                                              *)
Amounts(J, type) ==
    [i \in DOMAIN J |-> IF J[i].type = type THEN Notional(J[i].fill) ELSE 0]

TurnoverOf(J, type) == Replay!Total(Amounts(J, type), DOMAIN J)

FillTypes == {"PAPER_BUY_FILLED", "PAPER_SELL_FILLED"}

LEMMA TurnoverHere ==
    \A type : Turnover(type) = TurnoverOf(journal, type)
  BY TotalIsFold DEF Turnover, TurnoverOf, Amounts

LEMMA AmountsAreNumbers ==
    ASSUME NEW J, Typed(J), NEW type \in FillTypes
    PROVE  \A i \in DOMAIN J : Amounts(J, type)[i] \in Int
<1> SUFFICES ASSUME NEW i \in DOMAIN J
             PROVE  (IF J[i].type = type THEN Notional(J[i].fill) ELSE 0) \in Int
  BY DEF Amounts
<1>1. J[i].type = type => IsFill(J[i].fill)
  BY DEF Typed, IsEvent, FillTypes
<1>2. J[i].type = type => Notional(J[i].fill) \in Nat
  BY <1>1, NotionalType
<1> QED
  BY <1>2

LEMMA TurnoverEmpty == \A type : TurnoverOf(<<>>, type) = 0
<1>1. DOMAIN <<>> = {}
  OBVIOUS
<1> QED
  BY <1>1, Replay!SumOfNone DEF TurnoverOf

LEMMA TurnoverAppend ==
    ASSUME NEW J, Typed(J), NEW e, IsEvent(e), NEW type \in FillTypes
    PROVE  /\ TurnoverOf(Append(J, e), type)
                = TurnoverOf(J, type)
                    + (IF e.type = type THEN Notional(e.fill) ELSE 0)
           /\ TurnoverOf(J, type) \in Int
<1> DEFINE K == Append(J, e)
           z == Len(J) + 1
           f == Amounts(J, type)
           g == Amounts(K, type)
<1>1. /\ Len(J) \in Nat /\ DOMAIN J = 1..Len(J) /\ DOMAIN K = 1..Len(J) + 1
      /\ K[Len(J) + 1] = e /\ \A i \in 1..Len(J) : K[i] = J[i]
  BY OneMore DEF Typed
<1>2. Typed(K)
  BY TypedAppend
<1> HIDE DEF K
<1>3. /\ DOMAIN K = (DOMAIN J) \cup {z} /\ z \notin DOMAIN J /\ K[z] = e
      /\ \A i \in DOMAIN J : K[i] = J[i]
  BY <1>1
<1>4. Replay!IsFiniteSet(DOMAIN J)
  <2>1. IsFiniteSet(1..Len(J))
    BY <1>1, FS_Interval
  <2> QED
    BY <1>1, <2>1, FiniteHere
<1> HIDE DEF z
<1>5. /\ \A i \in DOMAIN J : f[i] \in Int
      /\ \A i \in DOMAIN J : g[i] = f[i]
      /\ g[z] \in Int
      /\ g[z] = IF e.type = type THEN Notional(e.fill) ELSE 0
  <2>1. \A i \in DOMAIN J : f[i] \in Int
    BY AmountsAreNumbers
  <2>2. \A i \in DOMAIN K : g[i] \in Int
    BY <1>2, AmountsAreNumbers
  <2>3. \A i \in DOMAIN J : g[i] = f[i]
    BY <1>3 DEF Amounts
  <2>4. z \in DOMAIN K
    BY <1>3
  <2>5. g[z] = IF e.type = type THEN Notional(e.fill) ELSE 0
    BY <1>3, <2>4 DEF Amounts
  <2> HIDE DEF f, g
  <2> QED
    BY <2>1, <2>2, <2>3, <2>4, <2>5
<1> HIDE DEF f, g
<1>6. /\ Replay!Total(g, (DOMAIN J) \cup {z}) = g[z] + Replay!Total(f, DOMAIN J)
      /\ Replay!Total(f, DOMAIN J) \in Int
  BY <1>3, <1>4, <1>5, Replay!SumAdd
<1>7. /\ TurnoverOf(K, type) = g[z] + TurnoverOf(J, type)
      /\ TurnoverOf(J, type) \in Int
  BY <1>3, <1>6 DEF TurnoverOf, f, g
<1>8. TurnoverOf(K, type) = TurnoverOf(J, type) + g[z]
  BY <1>5, <1>7
<1> QED
  BY <1>5, <1>7, <1>8 DEF K

(* What the open positions cost.                                           *)
Costs(s) == [m \in Mints |-> s.positions[m].costBasis]

CostOf(s) == Replay!Total(Costs(s), Mints)

LEMMA CostsAreNumbers ==
    ASSUME NEW s \in Portfolios
    PROVE  \A m \in Mints : Costs(s)[m] \in Int
  BY DEF Costs, Portfolios, Positions

LEMMA CostInitially == CostOf(InitialState) = 0
<1> DEFINE f == Costs(InitialState)
           N == {n \in Nat : \A S \in SUBSET Mints :
                                Cardinality(S) <= n => Replay!Total(f, S) = 0}
<1>1. \A m \in Mints : f[m] = 0
  BY InitialPortfolio DEF Costs, Flat
<1>2. \A S \in SUBSET Mints : IsFiniteSet(S) /\ Cardinality(S) \in Nat
  BY MintsAssumption, FS_Subset, FS_CardinalityType
<1>3. Replay!Total(f, {}) = 0
  BY Replay!SumOfNone
<1> HIDE DEF f
<1>4. 0 \in N
  <2>1. \A S \in SUBSET Mints : Cardinality(S) <= 0 => S = {}
    BY <1>2, FS_EmptySet
  <2> QED
    BY <1>3, <2>1
<1>5. ASSUME NEW n \in Nat, n \in N PROVE n + 1 \in N
  <2> SUFFICES ASSUME NEW S \in SUBSET Mints, Cardinality(S) <= n + 1, S # {}
               PROVE  Replay!Total(f, S) = 0
    BY <1>3
  <2>1. PICK x : x \in S
    OBVIOUS
  <2>2. Replay!Total(f, S) = f[x] + Replay!Total(f, S \ {x})
    <3>1. \A m \in S : f[m] \in Int
      BY <1>1
    <3> QED
      BY <1>2, <2>1, <3>1, FiniteHere, Replay!SumWithout
  <2>3. Cardinality(S \ {x}) <= n
    <3>1. IsFiniteSet(S) /\ Cardinality(S) \in Nat
      BY <1>2
    <3>2. Cardinality(S \ {x}) = Cardinality(S) - 1
      BY <2>1, <3>1, FS_RemoveElement
    <3> QED
      BY <3>1, <3>2
  <2>4. Replay!Total(f, S \ {x}) = 0
    BY <1>5, <2>3
  <2> QED
    BY <1>1, <2>1, <2>2, <2>4
<1> HIDE DEF N
<1>6. Cardinality(Mints) \in N
  <2>1. Nat \subseteq N
    BY <1>4, <1>5, Replay!SetInduction
  <2> QED
    BY <1>2, <2>1
<1>7. Replay!Total(f, Mints) = 0
  BY <1>2, <1>6 DEF N
<1> QED
  BY <1>7 DEF CostOf, f

LEMMA CostChange ==
    ASSUME NEW s \in Portfolios, NEW t \in Portfolios, NEW mint \in Mints,
           \A m \in Mints \ {mint} : t.positions[m] = s.positions[m]
    PROVE  /\ CostOf(t) - CostOf(s) = t.positions[mint].costBasis
                                        - s.positions[mint].costBasis
           /\ CostOf(s) \in Int /\ CostOf(t) \in Int
<1> DEFINE f == Costs(s)
           g == Costs(t)
<1>1. /\ \A m \in Mints : f[m] \in Int
      /\ \A m \in Mints : g[m] \in Int
  BY CostsAreNumbers
<1>2. /\ \A m \in Mints \ {mint} : g[m] = f[m]
      /\ g[mint] = t.positions[mint].costBasis
      /\ f[mint] = s.positions[mint].costBasis
  BY DEF Costs
<1>3. Replay!IsFiniteSet(Mints)
  BY MintsAssumption, FiniteHere
<1> HIDE DEF f, g
<1>4. /\ Replay!Total(g, Mints) - Replay!Total(f, Mints) = g[mint] - f[mint]
      /\ Replay!Total(g, Mints) \in Int /\ Replay!Total(f, Mints) \in Int
  <2>1. g[mint] \in Int
    BY <1>1
  <2> QED
    BY <1>1, <1>2, <1>3, <2>1, Replay!SumChange
<1> QED
  BY <1>2, <1>4 DEF CostOf, f, g

(* The books of a journal balance.                                         *)
Balanced(J) ==
    LET s == ReduceJournal(J)
    IN  TurnoverOf(J, "PAPER_SELL_FILLED")
           = TurnoverOf(J, "PAPER_BUY_FILLED") - CostOf(s) + s.realized

LEMMA BalancedEmpty == Balanced(<<>>)
  BY TurnoverEmpty, CostInitially, ReplayEmpty, InitialPortfolio DEF Balanced

LEMMA BalancedAppend ==
    ASSUME NEW J, Orderly(J), Balanced(J), NEW e, MayFollow(J, e)
    PROVE  Balanced(Append(J, e))
<1> DEFINE K == Append(J, e)
           s == ReduceJournal(J)
           t == ReduceJournal(K)
           bought(H) == TurnoverOf(H, "PAPER_BUY_FILLED")
           sold(H) == TurnoverOf(H, "PAPER_SELL_FILLED")
<1>1. Typed(J) /\ IsSequence(J) /\ s \in Portfolios /\ IsEvent(e)
  BY OrderlyTyped DEF MayFollow
<1>2. t = ApplyEvent(s, e)
  BY <1>1, ReplayAppend
<1>3. /\ bought(K) = bought(J) + (IF e.type = "PAPER_BUY_FILLED"
                                  THEN Notional(e.fill) ELSE 0)
      /\ sold(K) = sold(J) + (IF e.type = "PAPER_SELL_FILLED"
                              THEN Notional(e.fill) ELSE 0)
      /\ bought(J) \in Int /\ sold(J) \in Int
  BY <1>1, TurnoverAppend DEF FillTypes
<1>4. sold(J) = bought(J) - CostOf(s) + s.realized
  BY DEF Balanced
<1>5. s.realized \in Int
  BY <1>1 DEF Portfolios
<1> HIDE DEF K, s, t, bought, sold
<1>6. CASE e.type = "PAPER_BUY_FILLED"
  <2> DEFINE fill == e.fill
  <2>1. IsFill(fill) /\ fill.mint \in Mints /\ Notional(fill) \in Nat
    BY <1>1, <1>6, NotionalType DEF IsEvent, IsFill
  <2>2. t = ApplyBuyFill(s, fill)
    BY <1>2, <1>6 DEF ApplyEvent
  <2> HIDE DEF fill
  <2>3. /\ t \in Portfolios /\ t.realized = s.realized
        /\ t.positions[fill.mint].costBasis
              = s.positions[fill.mint].costBasis + Notional(fill)
        /\ \A m \in Mints \ {fill.mint} : t.positions[m] = s.positions[m]
    BY <1>1, <2>1, <2>2, BuyEffect
  <2>4. s.positions[fill.mint].costBasis \in Nat
    BY <1>1, <2>1 DEF Portfolios, Positions
  <2>5. /\ CostOf(t) - CostOf(s) = Notional(fill)
        /\ CostOf(s) \in Int /\ CostOf(t) \in Int
    BY <1>1, <2>1, <2>3, <2>4, CostChange
  <2>6. bought(K) = bought(J) + Notional(fill) /\ sold(K) = sold(J)
    BY <1>3, <1>6 DEF fill
  <2>7. sold(K) = bought(K) - CostOf(t) + t.realized
    BY <1>3, <1>4, <1>5, <2>1, <2>3, <2>5, <2>6
  <2> QED
    BY <2>7 DEF Balanced, K, t, bought, sold
<1>7. CASE e.type = "PAPER_SELL_FILLED"
  <2> DEFINE fill == e.fill
             old == s.positions[fill.mint]
             new == t.positions[fill.mint]
  <2>1. IsFill(fill) /\ fill.mint \in Mints /\ Notional(fill) \in Nat
    BY <1>1, <1>7, NotionalType DEF IsEvent, IsFill
  <2>2. t = ApplySellFill(s, fill)
    BY <1>2, <1>7 DEF ApplyEvent
  <2>3. fill.quantity <= old.quantity
    BY <1>7 DEF MayFollow, MaySell, s
  <2> HIDE DEF fill
  <2>4. /\ t \in Portfolios
        /\ \A m \in Mints \ {fill.mint} : t.positions[m] = s.positions[m]
        /\ t.realized - s.realized
              = Notional(fill) - (old.costBasis - new.costBasis)
    BY <1>1, <2>1, <2>2, <2>3, SaleEffect
  <2>5. old.costBasis \in Nat /\ new.costBasis \in Nat /\ t.realized \in Int
    BY <1>1, <2>1, <2>4 DEF Portfolios, Positions
  <2>6. /\ CostOf(t) - CostOf(s) = new.costBasis - old.costBasis
        /\ CostOf(s) \in Int /\ CostOf(t) \in Int
    BY <1>1, <2>1, <2>4, CostChange
  <2>7. sold(K) = sold(J) + Notional(fill) /\ bought(K) = bought(J)
    BY <1>3, <1>7 DEF fill
  <2> HIDE DEF old, new
  <2>8. sold(K) = bought(K) - CostOf(t) + t.realized
    BY <1>3, <1>4, <1>5, <2>1, <2>4, <2>5, <2>6, <2>7
  <2> QED
    BY <2>8 DEF Balanced, K, t, bought, sold
<1>8. CASE e.type \notin {"PAPER_BUY_FILLED", "PAPER_SELL_FILLED"}
  <2>1. t = s
    BY <1>2, <1>8 DEF ApplyEvent
  <2>2. bought(K) = bought(J) /\ sold(K) = sold(J)
    BY <1>3, <1>8
  <2>3. sold(K) = bought(K) - CostOf(t) + t.realized
    BY <1>4, <2>1, <2>2
  <2> QED
    BY <2>3 DEF Balanced, K, t, bought, sold
<1> QED
  BY <1>6, <1>7, <1>8

LEMMA OrderlyBalances == ASSUME NEW J, Orderly(J) PROVE Balanced(J)
<1> DEFINE N == {n \in Nat : n <= Len(J) => Balanced(SubSeq(J, 1, n))}
<1>1. IsSequence(J)
  BY DEF Orderly
<1>2. PICK S : J \in Seq(S)
  BY <1>1 DEF IsSequence
<1>3. Len(J) \in Nat /\ DOMAIN J = 1..Len(J)
  BY <1>2
<1>4. 0 \in N
  <2>1. SubSeq(J, 1, 0) = <<>>
    <3>1. SubSeq(J, 1, 0) \in Seq(S) /\ Len(SubSeq(J, 1, 0)) = 0
      BY <1>2, <1>3
    <3> QED
      BY <3>1
  <2> QED
    BY <2>1, BalancedEmpty
<1>5. ASSUME NEW n \in Nat, n \in N PROVE n + 1 \in N
  <2> SUFFICES ASSUME n + 1 <= Len(J)
               PROVE  Balanced(SubSeq(J, 1, n + 1))
    OBVIOUS
  <2> DEFINE i == n + 1
             H == SubSeq(J, 1, n)
  <2>1. i \in DOMAIN J /\ i - 1 = n /\ n \in 0..Len(J) /\ n <= Len(J)
    BY <1>3
  <2>2. Balanced(H)
    BY <1>5, <2>1
  <2> HIDE DEF i
  <2>3. SubSeq(J, 1, i) = Append(H, J[i])
    BY <1>1, <2>1, PrefixAndNext
  <2>4. Orderly(H)
    BY <2>1, OrderlyPrefix
  <2>5. MayFollow(H, J[i])
    BY <2>1 DEF Orderly
  <2> HIDE DEF H
  <2>6. Balanced(SubSeq(J, 1, i))
    BY <2>2, <2>3, <2>4, <2>5, BalancedAppend
  <2> QED
    BY <2>6 DEF i
<1> HIDE DEF N
<1>6. Len(J) \in N
  <2>1. Nat \subseteq N
    BY <1>4, <1>5, Replay!SetInduction
  <2> QED
    BY <1>3, <2>1
<1>7. Balanced(SubSeq(J, 1, Len(J)))
  BY <1>3, <1>6 DEF N
<1>8. SubSeq(J, 1, Len(J)) = J
  <2> DEFINE H == SubSeq(J, 1, Len(J))
  <2>1. H \in Seq(S) /\ Len(H) = Len(J) /\ \A k \in 1..Len(J) : H[k] = J[k]
    BY <1>2, <1>3
  <2> HIDE DEF H
  <2>2. H = J
    BY <1>2, <1>3, <2>1, SeqEqual
  <2> QED
    BY <2>2 DEF H
<1> QED
  BY <1>7, <1>8

-----------------------------------------------------------------------------
(* The theorems. *)

(* One run at a time, nothing is appended to a journal with a line that    *)
(* does not parse.                                                         *)
THEOREM DamageStaysAlone ==
    ASSUME OneTerminal PROVE Spec => NothingAppendedToDamage
<1>1. PaperInv /\ [Next]_vars => [~Readable => UNCHANGED journal]_vars
  <2> SUFFICES ASSUME PaperInv, Next, ~Readable PROVE UNCHANGED journal
    OBVIOUS
  <2>1. \A p \in Terminals : pc[p] = "idle"
    BY DEF PaperInv, RunInv, NoDamage, Readable
  <2> QED
    BY <2>1 DEF Next, PlanStrategy, Launch, RefuseJournal, ProcessBuy,
       ProcessSell, StartSweep, EvaluateExits, EndSweep, AppendEvents,
       LoseRun, TearAppend, FileUnchanged, Become
<1> QED
  BY <1>1, PaperInvariant, PTL DEF Spec, NothingAppendedToDamage

(* One command at a time, a plan followed on the journal it was made from  *)
(* buys nothing that the journal holds.                                    *)
THEOREM PlansAddNothing ==
    ASSUME OneTerminal PROVE Spec => []PlanAddsToNothingHeld
<1>1. PaperInv => PlanAddsToNothingHeld
  <2> SUFFICES ASSUME PaperInv, NEW p \in Terminals, NEW f \in run[p].file,
                      f.onto = Len(journal), NEW i \in DOMAIN run[p].events,
                      run[p].events[i].type = "PAPER_BUY_FILLED"
               PROVE  run[p].events[i].fill.mint \notin HeldBy(journal)
    BY DEF PlanAddsToNothingHeld, HeldBy
  <2>1. /\ pc[p] # "idle" /\ NoDamage(journal) /\ f \in plan
        /\ BoughtFrom(f, run[p].events)
    BY DEF PaperInv, RunInv
  <2>2. BuysNothingHeld(f, journal)
    BY <2>1 DEF PaperInv, PlanInv
  <2> QED
    BY <2>1, <2>2 DEF BoughtFrom, BuysNothingHeld
<1> QED
  BY <1>1, PaperInvariant, PTL

(* The types: however many runs overlap, die or append in part, every run  *)
(* has a portfolio whose positions are numbers and cost something exactly  *)
(* when they hold something (ApplyBuyFill, ApplySellFill of engine.ts).    *)
THEOREM PaperTypes == Spec => []TypeOK
<1>1. TypeInv => TypeOK
  <2> SUFFICES ASSUME TypeInv, NEW p \in Terminals
               PROVE  LET s == run[p].state
                      IN  /\ s.positions \in [Mints -> Positions]
                          /\ \A m \in Mints : s.positions[m].quantity = 0
                                                 => s.positions[m] = Flat
                          /\ s.realized \in Int /\ s.closed \in Nat
                          /\ run[p].sweep \subseteq Mints
    BY DEF TypeInv, TypeOK
  <2>1. run[p].state \in Portfolios /\ run[p].sweep \subseteq Mints
    BY DEF TypeInv, RunTyped
  <2> QED
    BY <2>1, HeldOrFlat DEF Portfolios
<1> QED
  BY <1>1, TypeInvariant, PTL

(* When a run is about to append its events, no tick of its prices takes   *)
(* an open position across a threshold (the exit sweep of run.ts), also    *)
(* when runs overlap.                                                      *)
THEOREM SweepLeavesNothingCrossed == Spec => []NoCrossedPositionLeft
<1>1. ExitInv => NoCrossedPositionLeft
  BY DEF ExitInv, Swept, Uncrossed, NoCrossedPositionLeft
<1> QED
  BY <1>1, ExitInvariant, PTL

(* A run that follows an unsized plan closes what the plan exits in full,  *)
(* also when runs overlap and whatever the journal held by then.           *)
THEOREM PlannedExitsClose == Spec => []PlannedExitCloses
<1>1. TypeInv /\ ExitInv => PlannedExitCloses
  <2> SUFFICES ASSUME TypeInv, ExitInv, NEW p \in Terminals,
                      NEW f \in run[p].file,
                      pc[p] \in {"exits", "append"}, ~run[p].caps.killSwitch,
                      ~f.sized, NEW i \in DOMAIN f.candidates,
                      IsLastExit(f, run[p], i)
               PROVE  run[p].state.positions[f.candidates[i].mint] = Flat
    BY DEF PlannedExitCloses, IsLastExit
  <2>1. RunTyped(run[p]) /\ Followed(pc[p], run[p])
    BY DEF TypeInv, ExitInv
  <2>2. DOMAIN f.candidates = 1..Len(f.candidates) /\ Len(f.candidates) \in Nat
    BY <2>1 DEF RunTyped, PlanShape, IsSequence
  <2>3. i <= run[p].handled
    BY <2>1, <2>2 DEF Followed
  <2> QED
    BY <2>1, <2>3 DEF Followed, Closed
<1> QED
  BY <1>1, TypeInvariant, ExitInvariant, PTL

(* One run at a time, a replay of the journal and of the run's events is   *)
(* the portfolio the run has in memory (reduceJournal of journal.ts).      *)
THEOREM RunsAreReplayed ==
    ASSUME OneTerminal PROVE Spec => []ReplayIsTheRun
<1>1. HistoryInv => ReplayIsTheRun
  BY DEF HistoryInv, Tells, ReplayIsTheRun
<1> QED
  BY <1>1, HistoryInvariant, PTL

(* One run at a time, every buy in a readable journal was within the caps  *)
(* of its run over what the journal held before it (caps.ts).              *)
THEOREM BuysStayWithinCaps ==
    ASSUME OneTerminal PROVE Spec => []BuysWithinCaps
<1>1. HistoryInv => BuysWithinCaps
  BY OrderlyBuys DEF HistoryInv, BuysWithinCaps, Readable, NoDamage
<1> QED
  BY <1>1, HistoryInvariant, PTL

(* One run at a time, no sale in a readable journal is of more than the    *)
(* journal held before it.                                                 *)
THEOREM SalesAreHeld ==
    ASSUME OneTerminal PROVE Spec => []SellsWhatIsHeld
<1>1. HistoryInv => SellsWhatIsHeld
  BY OrderlySales DEF HistoryInv, SellsWhatIsHeld, Readable, NoDamage
<1> QED
  BY <1>1, HistoryInvariant, PTL

(* One run at a time, the line after a triggered exit is the sale of the   *)
(* whole position, or the start of a run after a torn append.              *)
THEOREM TriggersClose ==
    ASSUME OneTerminal PROVE Spec => []TriggeredExitCloses
<1>1. HistoryInv => TriggeredExitCloses
  BY OrderlyExits DEF HistoryInv, TriggeredExitCloses, Readable, NoDamage
<1> QED
  BY <1>1, HistoryInvariant, PTL

(* One run at a time, what all sales of a readable journal brought in is   *)
(* what its purchases cost, less the cost of what is still held, plus the  *)
(* realized profit: no rounding of a partial sale makes or loses money.    *)
THEOREM MoneyIsConserved ==
    ASSUME OneTerminal PROVE Spec => []MoneyConserved
<1>1. HistoryInv => MoneyConserved
  <2> SUFFICES ASSUME HistoryInv, Readable PROVE MoneyConserved
    BY DEF MoneyConserved
  <2>1. Balanced(journal)
    BY OrderlyBalances DEF HistoryInv, Readable, NoDamage
  <2> DEFINE s == ReduceJournal(journal)
             costs == [m \in Mints |-> s.positions[m].costBasis]
  <2>2. FoldFunction(+, 0, costs) = CostOf(s)
    <3>1. DOMAIN costs = Mints /\ costs = Costs(s)
      BY DEF Costs
    <3> HIDE DEF costs
    <3> QED
      BY <3>1, TotalIsFold DEF CostOf
  <2> QED
    BY <2>1, <2>2, TurnoverHere DEF MoneyConserved, Balanced
<1> QED
  BY <1>1, HistoryInvariant, PTL
=============================================================================
