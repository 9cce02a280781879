---------------------------- MODULE ReviewProofs ----------------------------
(* Nobody approves their own work, people decide what is theirs to decide,  *)
(* and an approval on record is a card that was completed.                  *)
EXTENDS Review, FiniteSetTheorems, TLAPS

-----------------------------------------------------------------------------
(* The inductive invariant *)

Assignee == Profiles \cup {Nobody}

WorkerState ==
  {Working, Ended}
    \cup [phase : {"cleared"}, tool : Tools, reviewer : Assignee]
    \cup [phase : {"called"}, tool : Tools]

RequestState ==
  {Idle} \cup [phase : {"checked", "completed"}, sub : Nat] \cup [phase : {"sending", "sent"}, run : BOOLEAN]

Shapes ==
  /\ worker \in Seq(WorkerState)
  /\ request \in [Persons -> RequestState]
  /\ approvals \in Nat
  /\ used \in [Kinds -> Nat]

\* What is in review, or was claimed from there, has been submitted.
Submitted ==
  /\ card.status = "review" => subs # <<>>
  /\ \A n \in DOMAIN runs : runs[n].fromReview => subs # <<>>

Cleared(n, tool) == worker[n].phase = "cleared" /\ worker[n].tool = tool

\* What the pre hook found when it let a completion through still holds: the
\* run is the active one, so nobody else can submit under it.
ClearedOK ==
  \A n \in DOMAIN runs : Cleared(n, "kanban_complete") =>
    /\ runs[n].fromReview
    /\ Last(subs).implementer # Profile(n)
    /\ used["edit"] = 0 => policy.mode = "agent"

\* The people and the workers that have completed the card and will record it.
Deciders == {p \in Persons : request[p].phase = "completed"}
Completers == {n \in DOMAIN worker : worker[n].phase = "called" /\ worker[n].tool = "kanban_complete"}

Completions == used["reopen"] + (IF card.status = "done" THEN 1 ELSE 0)

Counted ==
  /\ IsFiniteSet(Deciders) /\ IsFiniteSet(Completers)
  /\ approvals + Cardinality(Deciders) + Cardinality(Completers) <= Completions

ReviewInv == TypeOK /\ Shapes /\ Submitted /\ ClearedOK /\ Counted

LEMMA InitInv == Init => ReviewInv
<1> SUFFICES ASSUME Init PROVE ReviewInv
  OBVIOUS
<1> USE ReviewAssumption
<1>1. TypeOK
  BY DEF Init, TypeOK, Idle, Kinds
<1>2. Shapes
  BY DEF Init, Shapes, RequestState, Kinds
<1>3. Submitted /\ ClearedOK
  BY DEF Init, Submitted, ClearedOK
<1>4. Deciders = {} /\ Completers = {}
  BY DEF Init, Deciders, Completers, Idle
<1>5. Counted
  BY <1>4, FS_EmptySet DEF Init, Counted, Completions, Kinds
<1> QED
  BY <1>1, <1>2, <1>3, <1>5 DEF ReviewInv

-----------------------------------------------------------------------------
(* The state's shape *)

Submission(length) == [implementer : Profiles \cup {Nobody}, run : 0..length]

LEMMA SeqMonotone ==
  ASSUME NEW S, NEW T, S \subseteq T, NEW s \in Seq(S)
  PROVE  s \in Seq(T)
OBVIOUS

LEMMA LastIn ==
  ASSUME NEW S, NEW s \in Seq(S), s # <<>>
  PROVE  Last(s) \in S
BY DEF Last

LEMMA LastType ==
  ASSUME TypeOK, subs # <<>>
  PROVE  Last(subs).implementer \in Assignee
<1>1. subs \in Seq(Submission(Len(runs)))
  BY DEF TypeOK, Submission
<1>2. Last(subs) \in Submission(Len(runs))
  BY <1>1, LastIn
<1> QED
  BY <1>2 DEF Submission, Assignee

LEMMA ClaimType ==
  ASSUME TypeOK, Shapes, Claim
  PROVE  TypeOK' /\ Shapes'
<1> USE DEF Claim
<1>1. card.run = 0 /\ Len(runs) \in Nat /\ Len(worker) = Len(runs) /\ card.assignee \in Profiles
  BY DEF TypeOK
<1>2. runs' \in Seq([profile : Profiles, fromReview : BOOLEAN]) /\ Len(runs') = Len(runs) + 1
  BY <1>1 DEF TypeOK
<1>3. worker' \in Seq(WorkerState) /\ Len(worker') = Len(worker) + 1
  BY <1>1 DEF Shapes, WorkerState
<1>4. \A n \in DOMAIN runs' : card'.run = n <=> worker'[n].phase \in {"working", "cleared"}
  <2> TAKE n \in DOMAIN runs'
  <2>1. CASE n = Len(runs) + 1
    BY <2>1, <1>1 DEF Working, Shapes, TypeOK
  <2>2. CASE n # Len(runs) + 1
    <3>1. n \in 1..Len(runs) /\ worker'[n] = worker[n]
      BY <2>2, <1>1, <1>2 DEF Shapes
    <3>2. n \in DOMAIN runs /\ card.run # n
      BY <3>1, <1>1 DEF TypeOK
    <3> QED
      BY <3>1, <3>2, <2>2 DEF TypeOK
  <2> QED
    BY <2>1, <2>2
<1>5. card' \in [status : {"ready", "running", "review", "done"}, assignee : Profiles \cup {Nobody}, run : 0..Len(runs')]
  <2>1. card \in [status : {"ready", "running", "review", "done"}, assignee : Profiles \cup {Nobody}, run : 0..Len(runs)]
    BY DEF TypeOK
  <2>2. Len(runs) + 1 \in 0..Len(runs')
    BY <1>1, <1>2
  <2> QED
    BY <2>1, <2>2
<1>6. card'.run # 0 <=> card'.status = "running"
  BY <1>1 DEF TypeOK
<1>7. subs' \in Seq([implementer : Profiles \cup {Nobody}, run : 0..Len(runs')])
  <2>1. Submission(Len(runs)) \subseteq Submission(Len(runs'))
    BY <1>1, <1>2 DEF Submission
  <2>2. subs \in Seq(Submission(Len(runs)))
    BY DEF TypeOK, Submission
  <2>3. subs \in Seq(Submission(Len(runs')))
    BY <2>1, <2>2, SeqMonotone
  <2> QED
    BY <2>3 DEF Submission
<1>8. TypeOK'
  BY <1>1, <1>2, <1>3, <1>4, <1>5, <1>6, <1>7 DEF TypeOK
<1>9. Shapes'
  BY <1>3 DEF Shapes
<1> QED
  BY <1>8, <1>9

LEMMA WorkerUpdate ==
  ASSUME TypeOK, Shapes, NEW n \in DOMAIN runs, NEW w \in WorkerState,
         worker' = [worker EXCEPT ![n] = w], runs' = runs
  PROVE  /\ worker' \in Seq(WorkerState) /\ Len(worker') = Len(runs')
         /\ worker'[n] = w
         /\ \A m \in DOMAIN runs : m # n => worker'[m] = worker[m]
<1>1. n \in 1..Len(worker) /\ DOMAIN runs = 1..Len(worker)
  BY DEF TypeOK, Shapes
<1> QED
  BY <1>1 DEF TypeOK, Shapes

LEMMA TakenAway ==
  ASSUME TypeOK, Shapes, worker' = RunTakenAway, runs' = runs
  PROVE  /\ worker' \in Seq(WorkerState) /\ Len(worker') = Len(runs')
         /\ \A m \in DOMAIN runs : worker'[m] = IF card.run = m THEN Ended ELSE worker[m]
         /\ \A m \in DOMAIN runs : worker'[m].phase \notin {"working", "cleared"}
<1>1. CASE card.run = 0
  <2>1. worker' = worker
    BY <1>1 DEF RunTakenAway
  <2>2. \A m \in DOMAIN runs : card.run # m
    BY <1>1 DEF TypeOK
  <2> QED
    BY <2>1, <2>2 DEF TypeOK, Shapes
<1>2. CASE card.run # 0
  <2>1. card.run \in DOMAIN runs /\ worker' = [worker EXCEPT ![card.run] = Ended]
    BY <1>2 DEF TypeOK, RunTakenAway
  <2>2. Ended \in WorkerState
    BY DEF WorkerState
  <2>3. /\ worker' \in Seq(WorkerState) /\ Len(worker') = Len(runs')
        /\ worker'[card.run] = Ended
        /\ \A m \in DOMAIN runs : m # card.run => worker'[m] = worker[m]
    BY <2>1, <2>2, WorkerUpdate
  <2>4. \A m \in DOMAIN runs : card.run # m => worker[m].phase \notin {"working", "cleared"}
    BY DEF TypeOK
  <2> QED
    BY <2>3, <2>4 DEF Ended
<1> QED
  BY <1>1, <1>2

\* A step that leaves the card where it is and its workers at work keeps the
\* type; so does one that takes the run away.
RunsInStep == \A n \in DOMAIN runs : card.run = n <=> worker[n].phase \in {"working", "cleared"}
CardState == [status : {"ready", "running", "review", "done"}, assignee : Assignee, run : 0..Len(runs)]

LEMMA TypeParts ==
  ASSUME TypeOK, Shapes, runs' = runs,
         card' \in CardState, card'.run # 0 <=> card'.status = "running",
         worker' \in Seq(WorkerState), Len(worker') = Len(runs'), RunsInStep',
         subs' \in Seq(Submission(Len(runs))), Len(subs') >= Len(subs),
         policy' \in Policies,
         request' \in [Persons -> RequestState],
         \A p \in Persons : request'[p].phase = "checked" => request'[p] = request[p] \/ request'[p].sub \in 1..Len(subs'),
         used' \in [Kinds -> Nat], \A kind \in Kinds : used'[kind] \in 0..Budget[kind],
         approvals' \in Nat
  PROVE  TypeOK' /\ Shapes'
<1>1. Shapes'
  BY DEF Shapes
<1>2. \A p \in Persons : request'[p].phase \in {"idle", "checked", "completed", "sending", "sent"}
  BY DEF RequestState, Idle
<1>3. \A p \in Persons : request'[p].phase = "checked" => request'[p].sub \in 1..Len(subs')
  <2>1. Len(subs) \in Nat /\ Len(subs') \in Nat
    BY DEF TypeOK
  <2>2. 1..Len(subs) \subseteq 1..Len(subs')
    BY <2>1
  <2> QED
    BY <2>2 DEF TypeOK
<1>4. TypeOK'
  BY <1>2, <1>3 DEF TypeOK, RunsInStep, CardState, Assignee, Submission
<1> QED
  BY <1>1, <1>4

LEMMA TypeFacts ==
  ASSUME TypeOK, Shapes
  PROVE  /\ card \in CardState /\ (card.run # 0 <=> card.status = "running")
         /\ worker \in Seq(WorkerState) /\ Len(worker) = Len(runs) /\ RunsInStep
         /\ subs \in Seq(Submission(Len(runs))) /\ Len(subs) \in Nat
         /\ policy \in Policies
         /\ request \in [Persons -> RequestState]
         /\ used \in [Kinds -> Nat] /\ (\A kind \in Kinds : used[kind] \in 0..Budget[kind])
         /\ approvals \in Nat
         /\ Len(runs) \in Nat /\ DOMAIN runs = 1..Len(runs)
BY DEF TypeOK, Shapes, CardState, Assignee, RunsInStep, Submission

Statuses == {"ready", "running", "review", "done"}

LEMMA CardMoved ==
  ASSUME card \in CardState, Len(runs) \in Nat, NEW s \in Statuses
  PROVE  /\ [card EXCEPT !.status = s, !.run = 0] \in CardState
         /\ [card EXCEPT !.status = s, !.run = 0].status = s
         /\ [card EXCEPT !.status = s, !.run = 0].run = 0
         /\ \A a \in Assignee : [status |-> s, run |-> 0, assignee |-> a] \in CardState
<1>1. card.assignee \in Assignee /\ 0 \in 0..Len(runs)
  BY DEF CardState
<1>2. \A a \in Assignee, r \in 0..Len(runs) : [status |-> s, assignee |-> a, run |-> r] \in CardState
  BY DEF CardState, Statuses
<1>3. [card EXCEPT !.status = s, !.run = 0] = [status |-> s, assignee |-> card.assignee, run |-> 0]
  <2> DEFINE moved == [card EXCEPT !.status = s]
  <2>1. moved = [status |-> s, assignee |-> card.assignee, run |-> card.run]
    BY DEF CardState
  <2> HIDE DEF moved
  <2>2. [moved EXCEPT !.run = 0] = [status |-> s, assignee |-> card.assignee, run |-> 0]
    BY <2>1
  <2> QED
    BY <2>2 DEF moved
<1> QED
  BY <1>1, <1>2, <1>3

LEMMA CardGiven ==
  ASSUME card \in CardState, NEW a \in Assignee
  PROVE  /\ [card EXCEPT !.assignee = a] \in CardState
         /\ [card EXCEPT !.assignee = a].status = card.status
         /\ [card EXCEPT !.assignee = a].run = card.run
BY DEF CardState

LEMMA WorkerStepType ==
  ASSUME TypeOK, Shapes, Submitted, NEW n \in DOMAIN runs,
         \/ \E tool \in Tools : PreHook(n, tool)
         \/ CallComplete(n)
         \/ CallRequestReview(n)
         \/ CallRequestChanges(n)
         \/ CallRefused(n)
         \/ PostHook(n)
         \/ Die(n)
  PROVE  TypeOK' /\ Shapes'
<1> /\ card \in CardState /\ (card.run # 0 <=> card.status = "running")
    /\ worker \in Seq(WorkerState) /\ Len(worker) = Len(runs) /\ RunsInStep
    /\ subs \in Seq(Submission(Len(runs))) /\ Len(subs) \in Nat
    /\ policy \in Policies
    /\ request \in [Persons -> RequestState]
    /\ used \in [Kinds -> Nat] /\ (\A kind \in Kinds : used[kind] \in 0..Budget[kind])
    /\ approvals \in Nat
    /\ Len(runs) \in Nat /\ DOMAIN runs = 1..Len(runs)
  BY TypeFacts
<1> USE ReviewAssumption
<1>0. \A w \in WorkerState : worker' = [worker EXCEPT ![n] = w] /\ runs' = runs =>
         /\ worker' \in Seq(WorkerState) /\ Len(worker') = Len(runs')
         /\ worker'[n] = w
         /\ \A m \in DOMAIN runs : m # n => worker'[m] = worker[m]
  BY WorkerUpdate
<1>1. ASSUME NEW tool \in Tools, PreHook(n, tool) PROVE TypeOK' /\ Shapes'
  <2>1. PICK reviewer \in Assignee :
          worker' = [worker EXCEPT ![n] = [phase |-> "cleared", tool |-> tool, reviewer |-> reviewer]]
    BY <1>1 DEF PreHook, ReviewerFor, Assignee
  <2>2. [phase |-> "cleared", tool |-> tool, reviewer |-> reviewer] \in WorkerState
    BY DEF WorkerState
  <2>3. RunsInStep'
    BY <1>0, <1>1, <2>1, <2>2 DEF PreHook, RunsInStep, Working
  <2> QED
    BY <1>0, <1>1, <2>1, <2>2, <2>3, TypeParts DEF PreHook
<1>2. ASSUME CallDone(n), runs' = runs, Calls(n, worker[n].tool)
      PROVE  /\ worker' \in Seq(WorkerState) /\ Len(worker') = Len(runs')
             /\ worker'[n].phase = "called"
             /\ \A m \in DOMAIN runs : m # n => worker'[m] = worker[m]
             /\ card.run = n
             /\ card'.run = 0 => RunsInStep'
  <2>1. worker[n] \in WorkerState
    OBVIOUS
  <2>2. [phase |-> "called", tool |-> worker[n].tool] \in WorkerState
    BY <1>2, <2>1 DEF Calls, WorkerState, Working, Ended
  <2>3. card.run = n
    BY <1>2 DEF Calls, RunsInStep
  <2> QED
    BY <1>0, <1>2, <2>2, <2>3 DEF CallDone, RunsInStep
<1>3. CASE CallComplete(n)
  <2>1. card' \in CardState
    BY <1>3, CardMoved DEF CallComplete, Statuses
  <2> QED
    BY <1>2, <1>3, <2>1, TypeParts DEF CallComplete, Calls
<1>4. CASE CallRequestReview(n)
  <2>1. worker[n].reviewer \in Assignee
    <3>1. worker[n] \in WorkerState
      OBVIOUS
    <3> QED
      BY <3>1, <1>4 DEF CallRequestReview, Calls, WorkerState, Working, Ended
  <2>2. card' \in CardState
    <3>1. card.assignee \in Assignee
      BY DEF CardState
    <3>2. \A a \in Assignee : [status |-> "review", run |-> 0, assignee |-> a] \in CardState
      <4> "review" \in Statuses
        BY DEF Statuses
      <4> QED
        BY CardMoved
    <3> DEFINE to == IF worker[n].reviewer = Nobody THEN card.assignee ELSE worker[n].reviewer
    <3>3. to \in Assignee
      BY <3>1, <2>1
    <3>4. card' = [status |-> "review", run |-> 0, assignee |-> to]
      BY <1>4 DEF CallRequestReview
    <3> HIDE DEF to
    <3> QED
      BY <3>2, <3>3, <3>4
  <2>3. [implementer |-> card.assignee, run |-> n] \in Submission(Len(runs))
    BY DEF Submission, CardState, Assignee
  <2>4. subs' \in Seq(Submission(Len(runs))) /\ Len(subs') >= Len(subs)
    BY <1>4, <2>3 DEF CallRequestReview
  <2> QED
    BY <1>2, <1>4, <2>2, <2>4, TypeParts DEF CallRequestReview, Calls
<1>5. CASE CallRequestChanges(n)
  <2>1. Last(subs).implementer \in Assignee
    BY <1>5, LastType DEF CallRequestChanges, HandsBack, Submitted
  <2>2. card' \in CardState
    BY <1>5, <2>1 DEF CallRequestChanges, CardState
  <2> QED
    BY <1>2, <1>5, <2>2, TypeParts DEF CallRequestChanges, Calls
<1>6. CASE CallRefused(n)
  <2>1. Working \in WorkerState
    BY DEF WorkerState
  <2>2. RunsInStep'
    BY <1>0, <1>6, <2>1 DEF CallRefused, Calls, RunsInStep, Working
  <2> QED
    BY <1>0, <1>6, <2>1, <2>2, TypeParts DEF CallRefused
<1>7. CASE PostHook(n)
  <2>1. Ended \in WorkerState
    BY DEF WorkerState
  <2>2. card' \in CardState /\ card'.run = card.run /\ card'.status = card.status
    BY <1>7 DEF PostHook, CardState, Assignee
  <2>3. RunsInStep'
    BY <1>0, <1>7, <2>1, <2>2 DEF PostHook, RunsInStep, Ended
  <2> QED
    BY <1>0, <1>7, <2>1, <2>2, <2>3, TypeParts DEF PostHook
<1>8. CASE Die(n)
  <2>1. Ended \in WorkerState
    BY DEF WorkerState
  <2>2. card' \in CardState /\ (card'.run # 0 <=> card'.status = "running")
    <3>1. CASE card.run = n
      <4>1. SourceColumn(n) \in Statuses \ {"running"}
        BY DEF SourceColumn, Statuses
      <4>2. card' = [card EXCEPT !.status = SourceColumn(n), !.run = 0]
        BY <1>8, <3>1 DEF Die
      <4> QED
        BY <4>1, <4>2, CardMoved
    <3>2. CASE card.run # n
      BY <1>8, <3>2 DEF Die, CardState
    <3> QED
      BY <3>1, <3>2
  <2>3. RunsInStep'
    BY <1>0, <1>8, <2>1 DEF Die, RunsInStep, Ended, CardState
  <2> QED
    BY <1>0, <1>8, <2>1, <2>2, <2>3, TypeParts DEF Die
<1> QED
  BY <1>1, <1>3, <1>4, <1>5, <1>6, <1>7, <1>8

PersonStep(p) ==
  \/ ApproveCheck(p)
  \/ ApproveComplete(p)
  \/ ApproveRecord(p)
  \/ GiveUp(p)
  \/ SendBackCheck(p)
  \/ SendBackMove(p)
  \/ SendBackRecord(p)

\* A step after which no run is active keeps the type when it takes the run away.
LEMMA ClosedInStep ==
  ASSUME TypeOK, Shapes, worker' = RunTakenAway, runs' = runs, card'.run = 0
  PROVE  worker' \in Seq(WorkerState) /\ Len(worker') = Len(runs') /\ RunsInStep'
<1>1. /\ worker' \in Seq(WorkerState) /\ Len(worker') = Len(runs')
      /\ \A m \in DOMAIN runs : worker'[m].phase \notin {"working", "cleared"}
  BY TakenAway
<1>2. \A m \in DOMAIN runs : m # 0
  BY DEF TypeOK
<1> QED
  BY <1>1, <1>2 DEF RunsInStep

LEMMA RequestUpdate ==
  ASSUME Shapes, NEW p \in Persons, NEW r \in RequestState, request' = [request EXCEPT ![p] = r]
  PROVE  /\ request' \in [Persons -> RequestState] /\ request'[p] = r
         /\ \A q \in Persons : q # p => request'[q] = request[q]
BY DEF Shapes

LEMMA LastImplementerType ==
  ASSUME TypeOK, Shapes
  PROVE  LastImplementer \in Assignee
BY LastType, TypeFacts DEF LastImplementer, CardState

LEMMA PersonStepType ==
  ASSUME TypeOK, Shapes, Submitted, NEW p \in Persons, PersonStep(p)
  PROVE  TypeOK' /\ Shapes'
<1> /\ card \in CardState /\ (card.run # 0 <=> card.status = "running")
    /\ worker \in Seq(WorkerState) /\ Len(worker) = Len(runs) /\ RunsInStep
    /\ subs \in Seq(Submission(Len(runs))) /\ Len(subs) \in Nat
    /\ policy \in Policies
    /\ request \in [Persons -> RequestState]
    /\ used \in [Kinds -> Nat] /\ (\A kind \in Kinds : used[kind] \in 0..Budget[kind])
    /\ approvals \in Nat
    /\ Len(runs) \in Nat /\ DOMAIN runs = 1..Len(runs)
  BY TypeFacts
<1>0. \A r \in RequestState : request' = [request EXCEPT ![p] = r] =>
         /\ request' \in [Persons -> RequestState] /\ request'[p] = r
         /\ \A q \in Persons : q # p => request'[q] = request[q]
  BY RequestUpdate
<1>1. Idle \in RequestState /\ Idle.phase # "checked"
  BY DEF RequestState, Idle
<1>2. CASE ApproveCheck(p)
  <2>1. [phase |-> "checked", sub |-> Len(subs)] \in RequestState
    BY DEF RequestState
  <2>2. Len(subs) \in 1..Len(subs)
    BY <1>2 DEF ApproveCheck
  <2>3. RunsInStep'
    BY <1>2 DEF ApproveCheck, RunsInStep
  <2>4. request' = [request EXCEPT ![p] = [phase |-> "checked", sub |-> Len(subs)]]
    BY <1>2 DEF ApproveCheck
  <2>5. \A q \in Persons : request'[q] = request[q] \/ request'[q].sub \in 1..Len(subs)
    BY <1>0, <2>1, <2>2, <2>4
  <2> QED
    BY <1>0, <1>2, <2>1, <2>3, <2>4, <2>5, TypeParts DEF ApproveCheck
<1>3. CASE ApproveComplete(p)
  <2>1. PICK r \in RequestState : r.phase # "checked" /\ request' = [request EXCEPT ![p] = r]
    <3>1. CASE card.status = "done"
      BY <1>1, <1>3, <3>1 DEF ApproveComplete
    <3>2. CASE card.status # "done"
      <4>1. request[p] \in [phase : {"checked"}, sub : Nat]
        <5>1. request[p] \in RequestState /\ request[p].phase = "checked"
          BY <1>3 DEF ApproveComplete
        <5> QED
          BY <5>1 DEF RequestState, Idle
      <4>2. request' = [request EXCEPT ![p] = [@ EXCEPT !.phase = "completed"]]
        BY <1>3, <3>2 DEF ApproveComplete
      <4>3. [request[p] EXCEPT !.phase = "completed"] \in [phase : {"checked", "completed"}, sub : Nat]
        BY <4>1
      <4>4. [request[p] EXCEPT !.phase = "completed"].phase # "checked"
        BY <4>1
      <4> QED
        BY <4>2, <4>3, <4>4 DEF RequestState
    <3> QED
      BY <3>1, <3>2
  <2>2. card' \in CardState /\ card'.run = 0 /\ card'.status = "done"
    BY <1>3, CardMoved DEF ApproveComplete, Statuses
  <2>3. worker' \in Seq(WorkerState) /\ Len(worker') = Len(runs') /\ RunsInStep'
    BY <1>3, <2>2, ClosedInStep DEF ApproveComplete
  <2> QED
    BY <1>0, <1>3, <2>1, <2>2, <2>3, TypeParts DEF ApproveComplete
<1>4. CASE ApproveRecord(p)
  <2>1. RunsInStep'
    BY <1>4 DEF ApproveRecord, RunsInStep
  <2> QED
    BY <1>0, <1>1, <1>4, <2>1, TypeParts DEF ApproveRecord
<1>5. CASE GiveUp(p)
  <2>1. RunsInStep'
    BY <1>5 DEF GiveUp, RunsInStep
  <2> QED
    BY <1>0, <1>1, <1>5, <2>1, TypeParts DEF GiveUp
<1>6. CASE SendBackCheck(p)
  <2>1. RunsInStep'
    BY <1>6 DEF SendBackCheck, RunsInStep
  <2>2. [phase |-> "sending", run |-> card.run # 0] \in RequestState
    BY DEF RequestState
  <2> QED
    BY <1>0, <1>6, <2>1, <2>2, TypeParts DEF SendBackCheck
<1>7. CASE SendBackMove(p)
  <2>1. request[p] \in [phase : {"sending"}, run : BOOLEAN]
    BY <1>7, SMTT(20) DEF SendBackMove, RequestState, Idle
  <2>2. CASE /\ card' = [status |-> "ready", run |-> 0, assignee |-> LastImplementer]
             /\ worker' = RunTakenAway
             /\ request' = [request EXCEPT ![p].phase = "sent"]
    <3>1. [request[p] EXCEPT !.phase = "sent"] \in [phase : {"sending", "sent"}, run : BOOLEAN]
      BY <2>1
    <3>2. [request[p] EXCEPT !.phase = "sent"].phase # "checked"
      BY <2>1
    <3>3. [request[p] EXCEPT !.phase = "sent"] \in RequestState
      BY <3>1 DEF RequestState
    <3>4. request' = [request EXCEPT ![p] = [@ EXCEPT !.phase = "sent"]]
      BY <2>2
    <3>5. card' \in CardState /\ card'.run = 0 /\ card'.status = "ready"
      BY <2>2, CardMoved, LastImplementerType DEF Statuses
    <3>6. worker' \in Seq(WorkerState) /\ Len(worker') = Len(runs') /\ RunsInStep'
      BY <1>7, <2>2, <3>5, ClosedInStep DEF SendBackMove
    <3> QED
      BY <1>0, <1>7, <3>2, <3>3, <3>4, <3>5, <3>6, TypeParts DEF SendBackMove
  <2>3. CASE UNCHANGED <<card, worker>> /\ request' = [request EXCEPT ![p] = Idle]
    <3>1. RunsInStep'
      BY <1>7, <2>3 DEF SendBackMove, RunsInStep
    <3> QED
      BY <1>0, <1>1, <1>7, <2>3, <3>1, TypeParts DEF SendBackMove
  <2> QED
    BY <1>7, <2>2, <2>3 DEF SendBackMove
<1>8. CASE SendBackRecord(p)
  <2>1. Implementer \in Assignee
    BY ReviewAssumption DEF Assignee
  <2>2. card' \in CardState /\ card'.run = card.run /\ card'.status = card.status
    BY <1>8, <2>1, CardGiven DEF SendBackRecord
  <2>3. RunsInStep'
    BY <1>8, <2>2 DEF SendBackRecord, RunsInStep
  <2> QED
    BY <1>0, <1>1, <1>8, <2>2, <2>3, TypeParts DEF SendBackRecord
<1> QED
  BY <1>2, <1>3, <1>4, <1>5, <1>6, <1>7, <1>8 DEF PersonStep

Drag == DragToReview \/ DragToDone \/ DragToReady \/ ReopenDone

LEMMA SpendType ==
  ASSUME TypeOK, Shapes, NEW kind \in Kinds, Spend(kind)
  PROVE  /\ used' \in [Kinds -> Nat] /\ \A k \in Kinds : used'[k] \in 0..Budget[k]
         /\ used'[kind] = used[kind] + 1
         /\ \A k \in Kinds : k # kind => used'[k] = used[k]
<1>1. /\ used \in [Kinds -> Nat] /\ \A k \in Kinds : used[k] \in 0..Budget[k]
      /\ Budget \in [Kinds -> Nat]
      /\ used[kind] < Budget[kind] /\ used' = [used EXCEPT ![kind] = @ + 1]
  BY TypeFacts, ReviewAssumption DEF Spend
<1> QED
  BY <1>1

LEMMA DragType ==
  ASSUME TypeOK, Shapes,
         Drag \/ (\E profile \in Assignee : Reassign(profile)) \/ (\E new \in Edited : EditPolicy(new))
  PROVE  TypeOK' /\ Shapes'
<1> /\ card \in CardState /\ (card.run # 0 <=> card.status = "running")
    /\ worker \in Seq(WorkerState) /\ Len(worker) = Len(runs) /\ RunsInStep
    /\ subs \in Seq(Submission(Len(runs))) /\ Len(subs) \in Nat
    /\ policy \in Policies
    /\ request \in [Persons -> RequestState]
    /\ used \in [Kinds -> Nat] /\ (\A kind \in Kinds : used[kind] \in 0..Budget[kind])
    /\ approvals \in Nat
    /\ Len(runs) \in Nat /\ DOMAIN runs = 1..Len(runs)
  BY TypeFacts
<1>0. "submit" \in Kinds /\ "reopen" \in Kinds /\ "edit" \in Kinds
  BY DEF Kinds
<1>1. ASSUME NEW profile \in Assignee, Reassign(profile) PROVE TypeOK' /\ Shapes'
  <2>1. card' \in CardState /\ card'.run = card.run /\ card'.status = card.status
    BY <1>1, CardGiven DEF Reassign
  <2>2. RunsInStep'
    BY <1>1, <2>1 DEF Reassign, RunsInStep
  <2> QED
    BY <1>1, <2>1, <2>2, TypeParts DEF Reassign
<1>2. ASSUME NEW new \in Edited, EditPolicy(new) PROVE TypeOK' /\ Shapes'
  <2>1. RunsInStep'
    BY <1>2 DEF EditPolicy, RunsInStep
  <2>2. policy' \in Policies
    BY <1>2, ReviewAssumption DEF EditPolicy
  <2>3. Spend("edit") /\ UNCHANGED <<approvals, card, runs, worker, subs, request>>
    BY <1>2 DEF EditPolicy
  <2> QED
    BY <1>0, <2>1, <2>2, <2>3, SpendType, TypeParts
<1>3. CASE DragToReview
  <2>1. card' \in CardState /\ card'.run = 0 /\ card'.status = "review"
    BY <1>3, CardMoved DEF DragToReview, Statuses
  <2>2. [implementer |-> card.assignee, run |-> card.run] \in Submission(Len(runs))
    BY DEF Submission, CardState, Assignee
  <2>3. subs' \in Seq(Submission(Len(runs))) /\ Len(subs') >= Len(subs)
    BY <1>3, <2>2 DEF DragToReview
  <2>4. worker' \in Seq(WorkerState) /\ Len(worker') = Len(runs') /\ RunsInStep'
    BY <1>3, <2>1, ClosedInStep DEF DragToReview
  <2>5. Spend("submit") /\ UNCHANGED <<runs, policy, request, approvals>>
    BY <1>3 DEF DragToReview
  <2> QED
    BY <1>0, <2>1, <2>3, <2>4, <2>5, SpendType, TypeParts
<1>4. CASE DragToDone
  <2>1. card' \in CardState /\ card'.run = 0 /\ card'.status = "done"
    BY <1>4, CardMoved DEF DragToDone, Statuses
  <2>2. worker' \in Seq(WorkerState) /\ Len(worker') = Len(runs') /\ RunsInStep'
    BY <1>4, <2>1, ClosedInStep DEF DragToDone
  <2> QED
    BY <1>4, <2>1, <2>2, TypeParts DEF DragToDone
<1>5. CASE DragToReady
  <2>1. card' \in CardState /\ card'.run = 0 /\ card'.status = "ready"
    BY <1>5, CardMoved, LastImplementerType DEF DragToReady, Statuses
  <2>2. RunsInStep'
    BY <1>5, <2>1 DEF DragToReady, RunsInStep
  <2> QED
    BY <1>5, <2>1, <2>2, TypeParts DEF DragToReady
<1>6. CASE ReopenDone
  <2>1. card' \in CardState /\ card'.run = card.run /\ card'.status = "ready"
    BY <1>6 DEF ReopenDone, CardState
  <2>2. RunsInStep'
    BY <1>6, <2>1 DEF ReopenDone, RunsInStep
  <2>3. Spend("reopen") /\ UNCHANGED <<runs, worker, subs, policy, request, approvals>>
    BY <1>6 DEF ReopenDone
  <2>4. card.run = 0
    BY <1>6 DEF ReopenDone
  <2> QED
    BY <1>0, <2>1, <2>2, <2>3, <2>4, SpendType, TypeParts
<1> QED
  BY <1>1, <1>2, <1>3, <1>4, <1>5, <1>6 DEF Drag

WorkerStep(n) ==
  \/ \E tool \in Tools : PreHook(n, tool)
  \/ CallComplete(n)
  \/ CallRequestReview(n)
  \/ CallRequestChanges(n)
  \/ CallRefused(n)
  \/ PostHook(n)
  \/ Die(n)

LEMMA NextCases ==
  Next <=> \/ Claim
           \/ \E n \in DOMAIN runs : WorkerStep(n)
           \/ \E p \in Persons : PersonStep(p)
           \/ \E profile \in Assignee : Reassign(profile)
           \/ \E new \in Edited : EditPolicy(new)
           \/ Drag
BY Zenon DEF Next, WorkerStep, PersonStep, Drag, Assignee

LEMMA NextType ==
  ASSUME TypeOK, Shapes, Submitted, Next
  PROVE  TypeOK' /\ Shapes'
<1>1. \A n \in DOMAIN runs : WorkerStep(n) => TypeOK' /\ Shapes'
  BY WorkerStepType DEF WorkerStep
<1>2. \A p \in Persons : PersonStep(p) => TypeOK' /\ Shapes'
  BY PersonStepType
<1> QED
  BY <1>1, <1>2, NextCases, ClaimType, DragType

-----------------------------------------------------------------------------
(* What is in review has been submitted *)

LEMMA NextSubmitted ==
  ASSUME TypeOK, Shapes, Submitted, Next
  PROVE  Submitted'
<1>0. subs # <<>> => subs' # <<>>
  <2>1. \A e : Append(subs, e) # <<>>
    BY DEF TypeOK
  <2> QED
    BY <2>1, NextCases
       DEF Claim, WorkerStep, PreHook, CallComplete, CallRequestReview, CallRequestChanges, CallRefused, PostHook,
           Die, PersonStep, ApproveCheck, ApproveComplete, ApproveRecord, GiveUp, SendBackCheck, SendBackMove,
           SendBackRecord, Reassign, EditPolicy, Drag, DragToReview, DragToDone, DragToReady, ReopenDone
<1>1. (card'.status = "review" => subs' # <<>>) /\ runs' = runs => Submitted'
  BY <1>0 DEF Submitted
<1>2. card \in CardState /\ Len(runs) \in Nat /\ DOMAIN runs = 1..Len(runs)
  BY TypeFacts
<1>3. CASE Claim
  <2>1. \A n \in DOMAIN runs' : runs'[n].fromReview => subs # <<>>
    <3> TAKE n \in DOMAIN runs'
    <3>1. CASE n = Len(runs) + 1
      <4>1. runs \in Seq([profile : Profiles, fromReview : BOOLEAN])
        BY DEF TypeOK
      <4>2. runs'[n] = [profile |-> card.assignee, fromReview |-> card.status = "review"]
        BY <1>3, <3>1, <4>1 DEF Claim
      <4>3. runs'[n].fromReview = (card.status = "review")
        BY <4>2
      <4> QED
        BY <4>3 DEF Submitted
    <3>2. CASE n # Len(runs) + 1
      <4>1. n \in DOMAIN runs /\ runs'[n] = runs[n]
        BY <1>3, <3>2, <1>2 DEF Claim
      <4> QED
        BY <4>1 DEF Submitted
    <3> QED
      BY <3>1, <3>2
  <2>2. card'.status = "running" /\ subs' = subs
    BY <1>2, <1>3 DEF Claim, CardState
  <2> QED
    BY <2>1, <2>2 DEF Submitted
<1>4. ASSUME NEW n \in DOMAIN runs, WorkerStep(n) PROVE Submitted'
  <2>1. CASE CallComplete(n)
    BY <1>1, <1>2, <2>1, CardMoved DEF CallComplete, Statuses
  <2>2. CASE CallRequestReview(n)
    <3>1. \A e : Append(subs, e) # <<>>
      BY DEF TypeOK
    <3> QED
      BY <1>1, <2>2, <3>1 DEF CallRequestReview
  <2>3. CASE CallRequestChanges(n)
    BY <1>1, <2>3 DEF CallRequestChanges
  <2>4. CASE PostHook(n)
    <3>1. card'.status = card.status
      BY <1>2, <2>4 DEF PostHook, CardState, Assignee
    <3> QED
      BY <1>0, <1>1, <2>4, <3>1 DEF PostHook, Submitted
  <2>5. CASE Die(n)
    <3>1. CASE card.run = n /\ ~runs[n].fromReview
      BY <1>1, <1>2, <2>5, <3>1, CardMoved DEF Die, SourceColumn, Statuses
    <3>2. CASE card.run = n /\ runs[n].fromReview
      BY <1>1, <2>5, <3>2 DEF Die, Submitted
    <3>3. CASE card.run # n
      BY <1>1, <2>5, <3>3 DEF Die, Submitted
    <3> QED
      BY <3>1, <3>2, <3>3
  <2>6. CASE (\E tool \in Tools : PreHook(n, tool)) \/ CallRefused(n)
    BY <1>1, <2>6 DEF PreHook, CallRefused, Submitted
  <2> QED
    BY <1>4, <2>1, <2>2, <2>3, <2>4, <2>5, <2>6 DEF WorkerStep
<1>5. ASSUME NEW p \in Persons, PersonStep(p) PROVE Submitted'
  <2>1. Implementer \in Assignee
    BY ReviewAssumption DEF Assignee
  <2>2. CASE ApproveComplete(p)
    BY <1>1, <1>2, <2>2, CardMoved DEF ApproveComplete, Statuses
  <2>3. CASE SendBackMove(p)
    BY <1>1, <2>3 DEF SendBackMove, Submitted
  <2>4. CASE SendBackRecord(p)
    BY <1>1, <1>2, <2>1, <2>4, CardGiven DEF SendBackRecord, Submitted
  <2>5. CASE ApproveCheck(p) \/ ApproveRecord(p) \/ GiveUp(p) \/ SendBackCheck(p)
    BY <1>1, <2>5 DEF ApproveCheck, ApproveRecord, GiveUp, SendBackCheck, Submitted
  <2> QED
    BY <1>5, <2>2, <2>3, <2>4, <2>5 DEF PersonStep
<1>6. ASSUME NEW profile \in Assignee, Reassign(profile) PROVE Submitted'
  BY <1>1, <1>2, <1>6, CardGiven DEF Reassign, Submitted
<1>7. ASSUME NEW new \in Edited, EditPolicy(new) PROVE Submitted'
  BY <1>1, <1>7 DEF EditPolicy, Submitted
<1>8. CASE Drag
  <2>1. CASE DragToReview
    <3>1. \A e : Append(subs, e) # <<>>
      BY DEF TypeOK
    <3> QED
      BY <1>1, <2>1, <3>1 DEF DragToReview
  <2>2. CASE DragToDone
    BY <1>1, <1>2, <2>2, CardMoved DEF DragToDone, Statuses
  <2>3. CASE DragToReady
    BY <1>1, <2>3 DEF DragToReady
  <2>4. CASE ReopenDone
    BY <1>1, <1>2, <2>4 DEF ReopenDone, CardState
  <2> QED
    BY <1>8, <2>1, <2>2, <2>3, <2>4 DEF Drag
<1> QED
  BY <1>3, <1>4, <1>5, <1>6, <1>7, <1>8, NextCases

-----------------------------------------------------------------------------
(* What the pre hook found still holds when the worker completes the card *)

\* A step that clears nobody and changes neither the runs nor the submissions
\* nor the policy leaves the others' clearance as it was.
LEMMA ClearedKept ==
  ASSUME ClearedOK, runs' = runs, subs' = subs, policy' = policy, used'["edit"] = used["edit"],
         \A n \in DOMAIN runs : worker'[n].phase = "cleared" /\ worker'[n].tool = "kanban_complete"
                                  => worker'[n] = worker[n]
  PROVE  ClearedOK'
BY DEF ClearedOK, Cleared, Profile

LEMMA NextCleared ==
  ASSUME TypeOK, Shapes, Submitted, ClearedOK, Next
  PROVE  ClearedOK'
<1>2. RunsInStep /\ Len(worker) = Len(runs) /\ Len(runs) \in Nat /\ DOMAIN runs = 1..Len(runs)
  BY TypeFacts
<1>3. CASE Claim
  <2> SUFFICES ASSUME NEW n \in DOMAIN runs', worker'[n].phase = "cleared", worker'[n].tool = "kanban_complete"
               PROVE  /\ runs'[n].fromReview
                      /\ Last(subs').implementer # runs'[n].profile
                      /\ used'["edit"] = 0 => policy'.mode = "agent"
    BY DEF ClearedOK, Cleared, Profile
  <2>1. n # Len(runs) + 1
    BY <1>2, <1>3 DEF Claim, Working
  <2>2. n \in DOMAIN runs /\ runs'[n] = runs[n] /\ worker'[n] = worker[n]
    BY <1>2, <1>3, <2>1 DEF Claim
  <2> QED
    BY <1>3, <2>2 DEF Claim, ClearedOK, Cleared, Profile
<1>4. ASSUME NEW n \in DOMAIN runs, WorkerStep(n) PROVE ClearedOK'
  <2>0. \A w \in WorkerState : worker' = [worker EXCEPT ![n] = w] /\ runs' = runs =>
           /\ worker'[n] = w
           /\ \A m \in DOMAIN runs : m # n => worker'[m] = worker[m]
    BY WorkerUpdate
  <2>1. worker[n] \in WorkerState
    BY <1>2 DEF Shapes
  <2>2. ASSUME CallDone(n), runs' = runs, worker[n].phase = "cleared"
        PROVE  worker'[n].phase = "called" /\ \A m \in DOMAIN runs : m # n => worker'[m] = worker[m]
    <3> DEFINE called == [phase |-> "called", tool |-> worker[n].tool]
    <3>1. called \in WorkerState
      BY <2>1, <2>2 DEF WorkerState, Working, Ended
    <3>2. worker' = [worker EXCEPT ![n] = called]
      BY <2>2 DEF CallDone
    <3>3. called.phase = "called"
      OBVIOUS
    <3> HIDE DEF called
    <3> QED
      BY <2>0, <2>2, <3>1, <3>2, <3>3
  <2>3. CASE \E tool \in Tools : PreHook(n, tool)
    <3>1. PICK tool \in Tools : PreHook(n, tool)
      BY <2>3
    <3>2. PICK reviewer \in Assignee :
            worker' = [worker EXCEPT ![n] = [phase |-> "cleared", tool |-> tool, reviewer |-> reviewer]]
      BY <3>1, ReviewAssumption DEF PreHook, ReviewerFor, Assignee, TypeOK
    <3>3. [phase |-> "cleared", tool |-> tool, reviewer |-> reviewer] \in WorkerState
      BY DEF WorkerState
    <3>4. /\ worker'[n] = [phase |-> "cleared", tool |-> tool, reviewer |-> reviewer]
          /\ \A m \in DOMAIN runs : m # n => worker'[m] = worker[m]
      BY <2>0, <3>1, <3>2, <3>3 DEF PreHook
    <3>5. ASSUME tool = "kanban_complete"
          PROVE  runs[n].fromReview /\ Last(subs).implementer # Profile(n) /\ policy.mode = "agent"
      <4>1. MayComplete(n)
        BY <3>1, <3>5 DEF PreHook
      <4>2. runs[n].fromReview /\ policy.mode = "agent" /\ ~SelfReview(n)
        BY <4>1 DEF MayComplete, ReviewerRun, Waiting
      <4>3. subs # <<>>
        BY <4>2 DEF Submitted
      <4> QED
        BY <4>2, <4>3 DEF SelfReview
    <3> QED
      BY <3>1, <3>4, <3>5 DEF PreHook, ClearedOK, Cleared, Profile
  <2>4. CASE CallRequestReview(n)
    <3>1. \A m \in DOMAIN runs : m # n => worker[m].phase # "cleared"
      BY <1>2, <2>4 DEF CallRequestReview, Calls, RunsInStep
    <3>2. worker'[n].phase = "called" /\ \A m \in DOMAIN runs : m # n => worker'[m] = worker[m]
      BY <2>2, <2>4 DEF CallRequestReview, Calls
    <3>3. \A m \in DOMAIN runs : worker'[m].phase # "cleared"
      BY <3>1, <3>2
    <3> QED
      BY <2>4, <3>3 DEF CallRequestReview, ClearedOK, Cleared
  <2>5. CASE CallComplete(n) \/ CallRequestChanges(n)
    <3>1. worker'[n].phase = "called" /\ \A m \in DOMAIN runs : m # n => worker'[m] = worker[m]
      BY <2>2, <2>5 DEF CallComplete, CallRequestChanges, Calls
    <3> QED
      BY <2>5, <3>1, ClearedKept DEF CallComplete, CallRequestChanges
  <2>6. CASE CallRefused(n) \/ PostHook(n) \/ Die(n)
    <3>1. Working \in WorkerState /\ Ended \in WorkerState
      BY DEF WorkerState
    <3>2. worker'[n].phase # "cleared" /\ \A m \in DOMAIN runs : m # n => worker'[m] = worker[m]
      BY <2>0, <2>6, <3>1 DEF CallRefused, PostHook, Die, Working, Ended
    <3> QED
      BY <2>6, <3>2, ClearedKept DEF CallRefused, PostHook, Die
  <2> QED
    BY <1>4, <2>3, <2>4, <2>5, <2>6 DEF WorkerStep
<1>5. ASSUME worker' = RunTakenAway, runs' = runs
      PROVE  /\ \A n \in DOMAIN runs : worker'[n].phase # "cleared"
             /\ \A n \in DOMAIN runs : worker'[n] = worker[n] \/ worker'[n] = Ended
  BY <1>5, TakenAway
<1>6. ASSUME NEW p \in Persons, PersonStep(p) PROVE ClearedOK'
  <2>1. runs' = runs /\ subs' = subs /\ policy' = policy /\ used' = used
    BY <1>6 DEF PersonStep, ApproveCheck, ApproveComplete, ApproveRecord, GiveUp, SendBackCheck, SendBackMove, SendBackRecord
  <2>2. worker' = worker \/ worker' = RunTakenAway
    BY <1>6 DEF PersonStep, ApproveCheck, ApproveComplete, ApproveRecord, GiveUp, SendBackCheck, SendBackMove, SendBackRecord
  <2> QED
    BY <1>5, <2>1, <2>2, ClearedKept
<1>7. ASSUME NEW profile \in Assignee, Reassign(profile) PROVE ClearedOK'
  BY <1>7, ClearedKept DEF Reassign
<1>8. ASSUME NEW new \in Edited, EditPolicy(new) PROVE ClearedOK'
  <2>1. used'["edit"] # 0
    BY <1>8, SpendType DEF EditPolicy, Kinds, Shapes
  <2> QED
    BY <1>8, <2>1 DEF EditPolicy, ClearedOK, Cleared, Profile
<1>9. CASE Drag
  <2>1. used'["edit"] = used["edit"]
    <3>1. Spend("submit") \/ Spend("reopen") \/ used' = used
      BY <1>9 DEF Drag, DragToReview, DragToDone, DragToReady, ReopenDone
    <3> QED
      BY <3>1, SpendType DEF Kinds
  <2>2. CASE DragToReview
    BY <1>5, <2>2 DEF DragToReview, ClearedOK, Cleared
  <2>3. CASE DragToDone \/ DragToReady \/ ReopenDone
    BY <1>5, <2>1, <2>3, ClearedKept DEF DragToDone, DragToReady, ReopenDone
  <2> QED
    BY <1>9, <2>2, <2>3 DEF Drag
<1> QED
  BY <1>3, <1>4, <1>6, <1>7, <1>8, <1>9, NextCases

-----------------------------------------------------------------------------
(* Approvals, and completions still to be recorded, are completions *)

LEMMA CardSubset ==
  ASSUME NEW S, IsFiniteSet(S), NEW T, T \subseteq S
  PROVE  IsFiniteSet(T) /\ Cardinality(T) \in Nat /\ Cardinality(S) \in Nat /\ Cardinality(T) <= Cardinality(S)
BY FS_Subset, FS_CardinalityType

LEMMA CardMore ==
  ASSUME NEW S, IsFiniteSet(S), NEW x, NEW T, T \subseteq S \cup {x}
  PROVE  IsFiniteSet(T) /\ Cardinality(T) \in Nat /\ Cardinality(S) \in Nat /\ Cardinality(T) <= Cardinality(S) + 1
<1>1. /\ IsFiniteSet(S \cup {x}) /\ Cardinality(S) \in Nat
      /\ Cardinality(S \cup {x}) = Cardinality(S) \/ Cardinality(S \cup {x}) = Cardinality(S) + 1
  BY FS_AddElement, FS_CardinalityType
<1> QED
  BY <1>1, CardSubset

LEMMA CardGone ==
  ASSUME NEW S, IsFiniteSet(S), NEW x \in S, NEW T, T \subseteq S \ {x}
  PROVE  IsFiniteSet(T) /\ Cardinality(T) \in Nat /\ Cardinality(S) \in Nat /\ Cardinality(T) <= Cardinality(S) - 1
<1>1. IsFiniteSet(S \ {x}) /\ Cardinality(S) \in Nat /\ Cardinality(S \ {x}) = Cardinality(S) - 1
  BY FS_RemoveElement, FS_CardinalityType
<1> QED
  BY <1>1, CardSubset

LEMMA CountKept ==
  ASSUME Counted, approvals \in Nat, Completions \in Nat, Completions' \in Nat, approvals' = approvals,
         Deciders' \subseteq Deciders, Completers' \subseteq Completers, Completions <= Completions'
  PROVE  Counted'
BY CardSubset DEF Counted

LEMMA CountCompleted ==
  ASSUME Counted, approvals \in Nat, Completions \in Nat, Completions' = Completions + 1, approvals' = approvals, NEW x,
         \/ Deciders' \subseteq Deciders \cup {x} /\ Completers' \subseteq Completers
         \/ Deciders' \subseteq Deciders /\ Completers' \subseteq Completers \cup {x}
  PROVE  Counted'
<1>1. CASE Deciders' \subseteq Deciders \cup {x} /\ Completers' \subseteq Completers
  <2>1. IsFiniteSet(Deciders') /\ Cardinality(Deciders') \in Nat /\ Cardinality(Deciders) \in Nat
        /\ Cardinality(Deciders') <= Cardinality(Deciders) + 1
    BY <1>1, CardMore DEF Counted
  <2>2. IsFiniteSet(Completers') /\ Cardinality(Completers') \in Nat /\ Cardinality(Completers) \in Nat
        /\ Cardinality(Completers') <= Cardinality(Completers)
    BY <1>1, CardSubset DEF Counted
  <2> QED
    BY <2>1, <2>2 DEF Counted
<1>2. CASE Deciders' \subseteq Deciders /\ Completers' \subseteq Completers \cup {x}
  <2>1. IsFiniteSet(Completers') /\ Cardinality(Completers') \in Nat /\ Cardinality(Completers) \in Nat
        /\ Cardinality(Completers') <= Cardinality(Completers) + 1
    BY <1>2, CardMore DEF Counted
  <2>2. IsFiniteSet(Deciders') /\ Cardinality(Deciders') \in Nat /\ Cardinality(Deciders) \in Nat
        /\ Cardinality(Deciders') <= Cardinality(Deciders)
    BY <1>2, CardSubset DEF Counted
  <2> QED
    BY <2>1, <2>2 DEF Counted
<1> QED
  BY <1>1, <1>2

LEMMA CountRecorded ==
  ASSUME Counted, approvals \in Nat, Completions \in Nat, Completions' = Completions, approvals' = approvals + 1, NEW x,
         \/ x \in Deciders /\ Deciders' \subseteq Deciders \ {x} /\ Completers' \subseteq Completers
         \/ x \in Completers /\ Deciders' \subseteq Deciders /\ Completers' \subseteq Completers \ {x}
  PROVE  Counted'
<1>1. CASE x \in Deciders /\ Deciders' \subseteq Deciders \ {x} /\ Completers' \subseteq Completers
  <2>1. IsFiniteSet(Deciders') /\ Cardinality(Deciders') \in Nat /\ Cardinality(Deciders) \in Nat
        /\ Cardinality(Deciders') <= Cardinality(Deciders) - 1
    BY <1>1, CardGone DEF Counted
  <2>2. IsFiniteSet(Completers') /\ Cardinality(Completers') \in Nat /\ Cardinality(Completers) \in Nat
        /\ Cardinality(Completers') <= Cardinality(Completers)
    BY <1>1, CardSubset DEF Counted
  <2> QED
    BY <2>1, <2>2 DEF Counted
<1>2. CASE x \in Completers /\ Deciders' \subseteq Deciders /\ Completers' \subseteq Completers \ {x}
  <2>1. IsFiniteSet(Completers') /\ Cardinality(Completers') \in Nat /\ Cardinality(Completers) \in Nat
        /\ Cardinality(Completers') <= Cardinality(Completers) - 1
    BY <1>2, CardGone DEF Counted
  <2>2. IsFiniteSet(Deciders') /\ Cardinality(Deciders') \in Nat /\ Cardinality(Deciders) \in Nat
        /\ Cardinality(Deciders') <= Cardinality(Deciders)
    BY <1>2, CardSubset DEF Counted
  <2> QED
    BY <2>1, <2>2 DEF Counted
<1> QED
  BY <1>1, <1>2

LEMMA WorkerStepCounted ==
  ASSUME TypeOK, Shapes, Submitted, Counted, NEW n \in DOMAIN runs, WorkerStep(n)
  PROVE  Counted'
<1>0. /\ card \in CardState /\ (card.run # 0 <=> card.status = "running")
      /\ RunsInStep /\ Len(worker) = Len(runs) /\ Len(runs) \in Nat /\ DOMAIN runs = 1..Len(runs)
      /\ approvals \in Nat /\ used \in [Kinds -> Nat] /\ used' = used /\ request' = request /\ runs' = runs
  BY TypeFacts DEF WorkerStep, PreHook, CallComplete, CallRequestReview, CallRequestChanges, CallRefused, PostHook, Die
<1>1. Completions \in Nat
  BY <1>0 DEF Completions, Kinds
<1>2. Deciders' = Deciders
  BY <1>0 DEF Deciders
<1>3. DOMAIN worker = DOMAIN runs /\ worker \in Seq(WorkerState)
  BY <1>0 DEF Shapes
<1>4. ASSUME NEW w \in WorkerState, worker' = [worker EXCEPT ![n] = w], w.phase # "called" \/ w.tool # "kanban_complete"
      PROVE  Completers' \subseteq Completers /\ n \notin Completers'
  BY <1>0, <1>3, <1>4 DEF Completers
<1>5. \A w \in WorkerState : worker' = [worker EXCEPT ![n] = w] => Completers' \subseteq Completers \cup {n}
  BY <1>0, <1>3 DEF Completers
<1>6. ASSUME worker[n].phase = "cleared"
      PROVE  [phase |-> "called", tool |-> worker[n].tool] \in WorkerState
  BY <1>3, <1>6 DEF WorkerState, Working, Ended
<1>7. Working \in WorkerState /\ Ended \in WorkerState /\ Working.phase # "called" /\ Ended.phase # "called"
  BY DEF WorkerState, Working, Ended
<1>8. CASE \E tool \in Tools : PreHook(n, tool)
  <2>1. PICK tool \in Tools, reviewer \in Assignee :
          worker' = [worker EXCEPT ![n] = [phase |-> "cleared", tool |-> tool, reviewer |-> reviewer]]
    BY <1>8, ReviewAssumption DEF PreHook, ReviewerFor, Assignee, TypeOK
  <2>2. [phase |-> "cleared", tool |-> tool, reviewer |-> reviewer] \in WorkerState
    BY DEF WorkerState
  <2>3. Completers' \subseteq Completers
    BY <1>4, <2>1, <2>2
  <2>4. Completions' = Completions /\ approvals' = approvals
    BY <1>8 DEF PreHook, Completions
  <2> QED
    BY <1>0, <1>1, <1>2, <2>3, <2>4, CountKept
<1>9. CASE CallComplete(n)
  <2>1. Completers' \subseteq Completers \cup {n}
    BY <1>5, <1>6, <1>9 DEF CallComplete, Calls, CallDone
  <2>2. card.status = "running"
    BY <1>0, <1>9 DEF CallComplete, Calls, RunsInStep
  <2>3. card'.status = "done"
    BY <1>0, <1>9, CardMoved DEF CallComplete, Statuses
  <2>4. Completions' = Completions + 1
    BY <1>0, <1>1, <2>2, <2>3 DEF Completions, Kinds
  <2> QED
    BY <1>0, <1>1, <1>2, <1>9, <2>1, <2>4, CountCompleted DEF CallComplete
<1>10. CASE CallRequestReview(n) \/ CallRequestChanges(n)
  <2>1. [phase |-> "called", tool |-> worker[n].tool] \in WorkerState
    BY <1>6, <1>10 DEF CallRequestReview, CallRequestChanges, Calls
  <2>2. worker' = [worker EXCEPT ![n] = [phase |-> "called", tool |-> worker[n].tool]] /\ worker[n].tool # "kanban_complete"
    BY <1>10 DEF CallRequestReview, CallRequestChanges, CallDone, Calls
  <2>3. Completers' \subseteq Completers
    BY <1>4, <2>1, <2>2
  <2>4. card.status = "running"
    BY <1>0, <1>10 DEF CallRequestReview, CallRequestChanges, Calls, RunsInStep
  <2>5. card'.status # "done" /\ approvals' = approvals
    BY <1>10 DEF CallRequestReview, CallRequestChanges
  <2>6. Completions' = Completions
    BY <1>0, <2>4, <2>5 DEF Completions
  <2> QED
    BY <1>0, <1>1, <1>2, <2>3, <2>5, <2>6, CountKept
<1>11. CASE CallRefused(n)
  <2>1. Completers' \subseteq Completers
    BY <1>4, <1>7, <1>11 DEF CallRefused
  <2>2. Completions' = Completions /\ approvals' = approvals
    BY <1>11 DEF CallRefused, Completions
  <2> QED
    BY <1>0, <1>1, <1>2, <2>1, <2>2, CountKept
<1>12. CASE PostHook(n)
  <2>1. Completers' \subseteq Completers /\ n \notin Completers'
    BY <1>4, <1>7, <1>12 DEF PostHook
  <2>2. card'.status = card.status
    BY <1>0, <1>12 DEF PostHook, CardState, Assignee
  <2>3. Completions' = Completions
    BY <1>0, <2>2 DEF Completions
  <2>4. CASE approvals' = approvals
    BY <1>0, <1>1, <1>2, <2>1, <2>3, <2>4, CountKept
  <2>5. CASE approvals' # approvals
    <3>1. worker[n].phase = "called" /\ worker[n].tool = "kanban_complete" /\ approvals' = approvals + 1
      BY <1>12, <2>5 DEF PostHook
    <3>2. n \in Completers
      BY <1>3, <3>1 DEF Completers
    <3> QED
      BY <1>0, <1>1, <1>2, <2>1, <2>3, <3>1, <3>2, CountRecorded
  <2> QED
    BY <2>4, <2>5
<1>13. CASE Die(n)
  <2>1. Completers' \subseteq Completers
    BY <1>4, <1>7, <1>13 DEF Die
  <2>2. CASE card.run = n
    <3>1. card.status = "running" /\ card'.status # "done"
      <4>1. SourceColumn(n) \in Statuses /\ SourceColumn(n) # "done"
        BY DEF SourceColumn, Statuses
      <4>2. card' = [card EXCEPT !.status = SourceColumn(n), !.run = 0]
        BY <1>13, <2>2 DEF Die
      <4>3. card.status = "running"
        BY <1>0, <2>2
      <4> QED
        BY <1>0, <4>1, <4>2, <4>3, CardMoved
    <3>2. Completions' = Completions
      BY <1>0, <3>1 DEF Completions
    <3> QED
      BY <1>0, <1>1, <1>2, <1>13, <2>1, <3>2, CountKept DEF Die
  <2>3. CASE card.run # n
    <3>1. Completions' = Completions
      BY <1>13, <2>3 DEF Die, Completions
    <3> QED
      BY <1>0, <1>1, <1>2, <1>13, <2>1, <3>1, CountKept DEF Die
  <2> QED
    BY <2>2, <2>3
<1> QED
  BY <1>8, <1>9, <1>10, <1>11, <1>12, <1>13 DEF WorkerStep

\* Whoever takes a run away leaves those alone that have completed the card.
LEMMA CompletersLeft ==
  ASSUME TypeOK, Shapes, runs' = runs, worker' = RunTakenAway \/ worker' = worker
  PROVE  Completers' \subseteq Completers
<1>1. DOMAIN worker = DOMAIN runs
  BY DEF TypeOK, Shapes
<1>2. CASE worker' = RunTakenAway
  <2>1. Len(worker') = Len(runs') /\ worker' \in Seq(WorkerState)
        /\ \A m \in DOMAIN runs : worker'[m] = IF card.run = m THEN Ended ELSE worker[m]
    BY <1>2, TakenAway
  <2>2. DOMAIN worker' = DOMAIN runs
    BY <2>1 DEF TypeOK
  <2> QED
    BY <1>1, <2>1, <2>2 DEF Completers, Ended
<1>3. CASE worker' = worker
  BY <1>3 DEF Completers
<1> QED
  BY <1>2, <1>3

LEMMA PersonStepCounted ==
  ASSUME TypeOK, Shapes, Submitted, Counted, NEW p \in Persons, PersonStep(p)
  PROVE  Counted'
<1>0. /\ card \in CardState /\ (card.run # 0 <=> card.status = "running") /\ Len(runs) \in Nat
      /\ request \in [Persons -> RequestState]
      /\ approvals \in Nat /\ used \in [Kinds -> Nat] /\ used' = used /\ runs' = runs
  BY TypeFacts
     DEF PersonStep, ApproveCheck, ApproveComplete, ApproveRecord, GiveUp, SendBackCheck, SendBackMove, SendBackRecord
<1>1. Completions \in Nat /\ (card'.status = card.status => Completions' = Completions)
  BY <1>0 DEF Completions, Kinds
<1>2. Completers' \subseteq Completers
  <2>1. worker' = RunTakenAway \/ worker' = worker
    BY DEF PersonStep, ApproveCheck, ApproveComplete, ApproveRecord, GiveUp, SendBackCheck, SendBackMove, SendBackRecord
  <2> QED
    BY <1>0, <2>1, CompletersLeft
<1>3. ASSUME NEW r, request' = [request EXCEPT ![p] = r]
      PROVE  /\ Deciders' \subseteq Deciders \cup {p}
             /\ r.phase # "completed" => Deciders' \subseteq Deciders \ {p}
  BY <1>0, <1>3 DEF Deciders
<1>4. Idle.phase # "completed"
  BY DEF Idle
<1>5. CASE ApproveCheck(p) \/ GiveUp(p) \/ SendBackCheck(p)
  <2>1. PICK r : r.phase # "completed" /\ request' = [request EXCEPT ![p] = r]
    BY <1>4, <1>5 DEF ApproveCheck, GiveUp, SendBackCheck
  <2>2. Deciders' \subseteq Deciders
    BY <1>3, <2>1
  <2>3. approvals' = approvals /\ card' = card
    BY <1>5 DEF ApproveCheck, GiveUp, SendBackCheck
  <2> QED
    BY <1>0, <1>1, <1>2, <2>2, <2>3, CountKept
<1>6. CASE ApproveComplete(p)
  <2>1. CASE card.status = "done"
    <3>1. request' = [request EXCEPT ![p] = Idle] /\ card' = card /\ approvals' = approvals
      BY <1>6, <2>1 DEF ApproveComplete
    <3>2. Deciders' \subseteq Deciders
      BY <1>3, <1>4, <3>1
    <3> QED
      BY <1>0, <1>1, <1>2, <3>1, <3>2, CountKept
  <2>2. CASE card.status # "done"
    <3>1. request' = [request EXCEPT ![p] = [@ EXCEPT !.phase = "completed"]] /\ approvals' = approvals
      BY <1>6, <2>2 DEF ApproveComplete
    <3>2. Deciders' \subseteq Deciders \cup {p}
      BY <1>3, <3>1
    <3>3. card'.status = "done"
      BY <1>0, <1>6, <2>2, CardMoved DEF ApproveComplete, Statuses
    <3>4. Completions' = Completions + 1
      BY <1>0, <2>2, <3>3 DEF Completions, Kinds
    <3> QED
      BY <1>0, <1>1, <1>2, <3>1, <3>2, <3>4, CountCompleted
  <2> QED
    BY <2>1, <2>2
<1>7. CASE ApproveRecord(p)
  <2>1. p \in Deciders /\ Deciders' \subseteq Deciders \ {p}
    BY <1>3, <1>4, <1>7 DEF ApproveRecord, Deciders
  <2> QED
    BY <1>0, <1>1, <1>2, <1>7, <2>1, CountRecorded DEF ApproveRecord
<1>8. CASE SendBackMove(p)
  <2>1. request[p] \in [phase : {"sending"}, run : BOOLEAN]
    <3>1. request[p] \in RequestState /\ request[p].phase = "sending"
      BY <1>0, <1>8 DEF SendBackMove
    <3> QED
      BY <3>1 DEF RequestState, Idle
  <2>2. PICK r : r.phase # "completed" /\ request' = [request EXCEPT ![p] = r]
    <3>1. [request[p] EXCEPT !.phase = "sent"].phase # "completed"
      BY <2>1
    <3>2. \/ request' = [request EXCEPT ![p] = Idle]
          \/ request' = [request EXCEPT ![p] = [@ EXCEPT !.phase = "sent"]]
      BY <1>8 DEF SendBackMove
    <3> QED
      BY <1>4, <3>1, <3>2
  <2>3. Deciders' \subseteq Deciders
    BY <1>3, <2>2
  <2>4. approvals' = approvals
    BY <1>8 DEF SendBackMove
  <2>5. Completions' = Completions
    <3>1. CASE card' = card
      BY <1>1, <3>1
    <3>2. CASE card' # card
      <4>1. card.status # "done" /\ card'.status # "done"
        BY <1>0, <1>8, <3>2 DEF SendBackMove
      <4> QED
        BY <1>0, <4>1 DEF Completions
    <3> QED
      BY <3>1, <3>2
  <2> QED
    BY <1>0, <1>1, <1>2, <2>3, <2>4, <2>5, CountKept
<1>9. CASE SendBackRecord(p)
  <2>1. Deciders' \subseteq Deciders
    BY <1>3, <1>4, <1>9 DEF SendBackRecord
  <2>2. card'.status = card.status
    <3>1. Implementer \in Assignee
      BY ReviewAssumption DEF Assignee
    <3> QED
      BY <1>0, <1>9, <3>1, CardGiven DEF SendBackRecord
  <2> QED
    BY <1>0, <1>1, <1>2, <1>9, <2>1, <2>2, CountKept DEF SendBackRecord
<1> QED
  BY <1>5, <1>6, <1>7, <1>8, <1>9 DEF PersonStep

LEMMA NextCounted ==
  ASSUME TypeOK, Shapes, Submitted, Counted, Next
  PROVE  Counted'
<1>0. /\ card \in CardState /\ (card.run # 0 <=> card.status = "running") /\ Len(runs) \in Nat
      /\ approvals \in Nat /\ used \in [Kinds -> Nat]
  BY TypeFacts
<1>1. Completions \in Nat
  BY <1>0 DEF Completions, Kinds
<1>2. CASE Claim
  <2>1. DOMAIN worker = 1..Len(worker) /\ Len(worker) \in Nat
    BY DEF Shapes
  <2>2. Completers' \subseteq Completers
    BY <1>2, <2>1 DEF Claim, Completers, Working
  <2>3. Deciders' = Deciders
    BY <1>2 DEF Claim, Deciders
  <2>4. card.status # "done" /\ card'.status # "done" /\ approvals' = approvals /\ used' = used
    BY <1>0, <1>2 DEF Claim, CardState
  <2>5. Completions' = Completions
    BY <2>4 DEF Completions
  <2> QED
    BY <1>0, <1>1, <2>2, <2>3, <2>4, <2>5, CountKept
<1>3. ASSUME NEW profile \in Assignee, Reassign(profile) PROVE Counted'
  <2>1. Completers' = Completers /\ Deciders' = Deciders /\ approvals' = approvals
    BY <1>3 DEF Reassign, Completers, Deciders
  <2>2. card'.status = card.status
    BY <1>0, <1>3, CardGiven DEF Reassign
  <2>3. Completions' = Completions
    BY <1>3, <2>2 DEF Completions, Reassign
  <2> QED
    BY <1>0, <1>1, <2>1, <2>3, CountKept
<1>4. ASSUME NEW new \in Edited, EditPolicy(new) PROVE Counted'
  <2>1. Completers' = Completers /\ Deciders' = Deciders /\ approvals' = approvals /\ card' = card
    BY <1>4 DEF EditPolicy, Completers, Deciders
  <2>2. used'["reopen"] = used["reopen"]
    BY <1>4, SpendType DEF EditPolicy, Kinds
  <2>3. Completions' = Completions
    BY <2>1, <2>2 DEF Completions
  <2> QED
    BY <1>0, <1>1, <2>1, <2>3, CountKept
<1>5. CASE Drag
  <2>1. approvals' = approvals /\ request' = request /\ runs' = runs /\ (worker' = RunTakenAway \/ worker' = worker)
    BY <1>5 DEF Drag, DragToReview, DragToDone, DragToReady, ReopenDone
  <2>2. Completers' \subseteq Completers /\ Deciders' = Deciders
    BY <2>1, CompletersLeft DEF Deciders
  <2>3. Completions' \in Nat /\ Completions' >= Completions
    <3>1. CASE DragToReview
      <4>1. card.status # "done" /\ card'.status # "done"
        BY <1>0, <3>1, CardMoved DEF DragToReview, Statuses
      <4>2. used'["reopen"] = used["reopen"]
        BY <3>1, SpendType DEF DragToReview, Kinds
      <4> QED
        BY <1>1, <4>1, <4>2 DEF Completions
    <3>2. CASE DragToDone
      <4>1. card.status # "done" /\ card'.status = "done" /\ used' = used
        BY <1>0, <3>2, CardMoved DEF DragToDone, Statuses
      <4> QED
        BY <1>0, <4>1 DEF Completions, Kinds
    <3>3. CASE DragToReady
      <4>1. card.status # "done" /\ card'.status # "done" /\ used' = used
        BY <3>3 DEF DragToReady
      <4> QED
        BY <1>1, <4>1 DEF Completions
    <3>4. CASE ReopenDone
      <4>1. card.status = "done" /\ card'.status = "ready"
        BY <1>0, <3>4 DEF ReopenDone, CardState
      <4>2. used'["reopen"] = used["reopen"] + 1
        BY <3>4, SpendType DEF ReopenDone, Kinds
      <4> QED
        BY <1>0, <4>1, <4>2 DEF Completions, Kinds
    <3> QED
      BY <1>5, <3>1, <3>2, <3>3, <3>4 DEF Drag
  <2> QED
    BY <1>0, <1>1, <2>1, <2>2, <2>3, CountKept
<1> QED
  BY <1>2, <1>3, <1>4, <1>5, NextCases, WorkerStepCounted, PersonStepCounted

-----------------------------------------------------------------------------
(* The theorems *)

LEMMA NextInv ==
  ASSUME ReviewInv, [Next]_vars
  PROVE  ReviewInv'
<1>1. CASE Next
  BY <1>1, NextType, NextSubmitted, NextCleared, NextCounted DEF ReviewInv
<1>2. CASE UNCHANGED vars
  <2> /\ card' = card /\ runs' = runs /\ worker' = worker /\ subs' = subs
      /\ policy' = policy /\ request' = request /\ approvals' = approvals /\ used' = used
    BY <1>2 DEF vars
  <2>1. TypeOK' /\ Shapes' /\ Submitted'
    BY DEF ReviewInv, TypeOK, Shapes, Submitted
  <2>2. ClearedOK'
    BY DEF ReviewInv, ClearedOK, Cleared, Profile
  <2>3. Completers' = Completers /\ Deciders' = Deciders /\ Completions' = Completions
    BY DEF Completers, Deciders, Completions
  <2>4. Counted'
    BY <2>3 DEF ReviewInv, Counted
  <2> QED
    BY <2>1, <2>2, <2>4 DEF ReviewInv
<1> QED
  BY <1>1, <1>2

LEMMA ReviewInvariant == Spec => []ReviewInv
<1>1. ReviewInv /\ [Next]_vars => ReviewInv'
  BY NextInv
<1> QED
  BY InitInv, <1>1, PTL DEF Spec

\* The card, its runs and its workers agree at every moment: exactly the active
\* run's worker is at work.
THEOREM ReviewTypes == Spec => []TypeOK
BY ReviewInvariant, PTL DEF ReviewInv

\* However many people and runs decide about a card, and whichever of them dies
\* half way, no more approvals are recorded than the card was completed.
THEOREM ApprovalsCompleted == Spec => []ApprovalsAreCompletions
<1>1. ReviewInv => ApprovalsAreCompletions
  <2> SUFFICES ASSUME ReviewInv PROVE ApprovalsAreCompletions
    OBVIOUS
  <2>1. approvals \in Nat /\ Completions \in Nat
    BY TypeFacts DEF ReviewInv, Completions, Kinds
  <2>2. Cardinality(Deciders) \in Nat /\ Cardinality(Completers) \in Nat
    BY FS_CardinalityType DEF ReviewInv, Counted
  <2> QED
    BY <2>1, <2>2 DEF ReviewInv, Counted, Completions, ApprovalsAreCompletions
<1> QED
  BY <1>1, ReviewInvariant, PTL

\* A worker completes the card only by its call, with the clearance it still has.
LEMMA CompletesCleared ==
  ASSUME ReviewInv, Next, NEW n \in DOMAIN runs, WorkerCompletes(n)
  PROVE  Cleared(n, "kanban_complete")
<1>0. /\ Len(worker) = Len(runs) /\ Len(runs) \in Nat /\ DOMAIN runs = 1..Len(runs)
      /\ DOMAIN worker = DOMAIN runs /\ worker \in Seq(WorkerState)
      /\ card \in CardState /\ RunsInStep
  BY TypeFacts DEF ReviewInv, Shapes
<1>1. worker'[n] # worker[n] /\ worker'[n] # Ended
  BY DEF WorkerCompletes, Ended
<1>2. ~(worker' = worker) /\ ~(worker' = RunTakenAway /\ runs' = runs)
  BY <1>1, TakenAway DEF ReviewInv
<1>3. ~Claim
  BY <1>0, <1>1 DEF Claim
<1>4. PICK m \in DOMAIN runs : WorkerStep(m)
  BY <1>2, <1>3, NextCases
     DEF PersonStep, ApproveCheck, ApproveComplete, ApproveRecord, GiveUp, SendBackCheck, SendBackMove, SendBackRecord,
         Reassign, EditPolicy, Drag, DragToReview, DragToDone, DragToReady, ReopenDone
<1>5. m = n
  <2>1. \A w : worker' = [worker EXCEPT ![m] = w] => (m # n => worker'[n] = worker[n])
    BY <1>0
  <2>2. \E w : worker' = [worker EXCEPT ![m] = w]
    BY <1>4 DEF WorkerStep, PreHook, CallComplete, CallRequestReview, CallRequestChanges, CallRefused, PostHook, Die, CallDone
  <2> QED
    BY <1>1, <2>1, <2>2
<1>6. ASSUME NEW w, worker' = [worker EXCEPT ![n] = w] PROVE worker'[n] = w
  BY <1>0, <1>6
<1>7. worker'[n].phase = "called" /\ card.status # "done" /\ card'.status = "done"
  BY DEF WorkerCompletes
<1>8. ~PostHook(n) /\ ~Die(n) /\ ~CallRefused(n)
  BY <1>6, <1>7 DEF PostHook, Die, CallRefused, Working, Ended
<1>9. ~CallRequestReview(n) /\ ~CallRequestChanges(n)
  BY <1>7 DEF CallRequestReview, CallRequestChanges
<1>10. ~ \E tool \in Tools : PreHook(n, tool)
  BY <1>7 DEF PreHook
<1>11. CallComplete(n)
  BY <1>4, <1>5, <1>8, <1>9, <1>10 DEF WorkerStep
<1> QED
  BY <1>11 DEF CallComplete, Calls, Cleared

\* The run that completes a card came from review, and what its profile
\* reviewed was another profile's submission, whatever people did meanwhile.
THEOREM OwnWorkNeverApproved == Spec => NoSelfApproval
<1>1. ReviewInv /\ [Next]_vars
        => [\A n \in DOMAIN runs :
              WorkerCompletes(n) => runs[n].fromReview /\ Last(subs).implementer # Profile(n)]_vars
  BY CompletesCleared DEF ReviewInv, ClearedOK
<1> QED
  BY <1>1, ReviewInvariant, PTL DEF Spec, NoSelfApproval

\* Unless somebody edits the policy, a worker completes only an agent's card.
THEOREM PeopleDecideTheirs == Spec => PeopleDecide
<1>1. ReviewInv /\ [Next]_vars
        => [\A n \in DOMAIN runs : WorkerCompletes(n) /\ used["edit"] = 0 => policy.mode = "agent"]_vars
  BY CompletesCleared DEF ReviewInv, ClearedOK
<1> QED
  BY <1>1, ReviewInvariant, PTL DEF Spec, PeopleDecide

=============================================================================
