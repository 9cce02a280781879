------------------------------- MODULE Review -------------------------------
(***************************************************************************)
(* Approval of one card with a review policy, enforced by the plugin's     *)
(* hooks on a Hermes without the policy core patch.                        *)
(*                                                                         *)
(* Nobody holds a lock over an approval.  The card is a row that Hermes    *)
(* changes in transactions of its own; the policy and the decisions are in *)
(* the plugin's store.  A worker's tool call is three steps, the pre hook, *)
(* the call and the post hook; a person's request is a read of the card, a *)
(* transition and a record.  Between them the dispatcher claims cards,     *)
(* workers die, and other people move, reassign and re-policy the card.    *)
(*                                                                         *)
(* Hermes' own transitions (claim, complete_task, request_review,          *)
(* request_changes, reopen_review_task, assign_task, reclaim_task) are     *)
(* external: they are modelled as the plugin uses them.                    *)
(***************************************************************************)
EXTENDS Integers, Sequences

CONSTANTS Profiles,    \* profiles a card can be assigned to
          Nobody,      \* "no assignee", "no reviewer"
          Persons,     \* people's requests that may be in flight together
          Policies,    \* the policies the card may have: [mode, reviewer]
          Edited,      \* the policies a person may change it to
          Implementer, \* the profile the card is created for
          HookFails,   \* whether a hook may fail to read the approval state
          MaxRuns,     \* bound on the runs of the card
          Budget       \* Budget[kind]: bound on what people do of each kind

Kinds == {"submit", "reopen", "edit"}

ASSUME ReviewAssumption ==
  /\ Nobody \notin Profiles /\ Implementer \in Profiles
  /\ Policies \subseteq [mode : {"human", "agent", "mixed"}, reviewer : Profiles \cup {Nobody}]
  \* _validate and parse_policy
  /\ \A p \in Policies : p.reviewer # Implementer /\ (p.reviewer = Nobody <=> p.mode = "human")
  /\ Edited \subseteq Policies
  /\ HookFails \in BOOLEAN /\ MaxRuns \in Nat /\ Budget \in [Kinds -> Nat]

VARIABLES
  card,      \* [status, assignee, run]; run is 0 when none is active
  runs,      \* runs[n]: the profile of run n and whether it was claimed from review
  worker,    \* worker[n]: what the worker of run n is doing
  subs,      \* the review_requested events: [implementer, run]
  policy,    \* the card's policy
  request,   \* request[p]: the request of person p
  approvals, \* how many rows of review_decisions are approvals; nothing reads a
             \* rejection back
  used       \* used[kind]: how often people have dragged the card to review,
             \* reopened it when done and edited its policy

vars == <<card, runs, worker, subs, policy, request, approvals, used>>

Tools == {"kanban_complete", "kanban_request_review", "kanban_request_changes"}
Last(s) == s[Len(s)]

-----------------------------------------------------------------------------
(* review_hooks.situation and review_rules *)

Profile(n) == runs[n].profile

\* (slip) a review run is never a run on the profile's own submission
NeverSelfReview(n) == FALSE

\* The run reviews what its own profile has submitted last.
SelfReview(n) == subs # <<>> /\ Last(subs).implementer = Profile(n)

\* A run claimed from review of a card that is for a person to decide.
Waiting(n) ==
  /\ runs[n].fromReview
  /\ \/ policy.mode = "human"
     \/ SelfReview(n)
     \/ policy.mode = "mixed" /\ Profile(n) # policy.reviewer

ReviewerRun(n) == runs[n].fromReview /\ ~Waiting(n)

\* _goes_to_a_person
GoesToPerson(n) ==
  \/ policy.mode = "human" \/ Waiting(n)
  \/ policy.mode = "mixed" /\ ReviewerRun(n)
  \/ ~ReviewerRun(n) /\ Profile(n) = policy.reviewer

\* (slip) a mixed card's reviewer completes it like an agent card's
ReviewerMayComplete(n) == ReviewerRun(n)

\* decide_pre for kanban_complete
MayComplete(n) == ReviewerRun(n) /\ policy.mode = "agent"

\* decide_pre: the reviewer a kanban_request_review is made with
ReviewerFor(n, tool) ==
  IF tool # "kanban_request_review" \/ GoesToPerson(n) THEN Nobody ELSE policy.reviewer

-----------------------------------------------------------------------------
(* The dispatcher and the workers *)

Working == [phase |-> "working"]
Ended == [phase |-> "ended"]

\* The column a run that is given up puts the card back in.
SourceColumn(n) == IF runs[n].fromReview THEN "review" ELSE "ready"

Claim ==
  /\ card.status \in {"ready", "review"}
  /\ card.assignee # Nobody
  /\ Len(runs) < MaxRuns
  /\ runs' = Append(runs, [profile |-> card.assignee, fromReview |-> card.status = "review"])
  /\ worker' = Append(worker, Working)
  /\ card' = [card EXCEPT !.status = "running", !.run = Len(runs) + 1]
  /\ UNCHANGED <<subs, policy, request, approvals, used>>

\* The pre hook lets a tool call through, with the reviewer it put in.  When it
\* cannot read the approval state it refuses completions and lets the rest
\* through as the model made them.
PreHook(n, tool) ==
  /\ worker[n] = Working
  /\ \/ /\ tool = "kanban_complete" => MayComplete(n)
        /\ tool = "kanban_request_changes" => ~Waiting(n)
        /\ worker' = [worker EXCEPT ![n] = [phase |-> "cleared", tool |-> tool, reviewer |-> ReviewerFor(n, tool)]]
     \/ /\ HookFails
        /\ tool # "kanban_complete"
        /\ \E reviewer \in IF tool = "kanban_request_review" THEN Profiles \cup {Nobody} ELSE {Nobody} :
             worker' = [worker EXCEPT ![n] = [phase |-> "cleared", tool |-> tool, reviewer |-> reviewer]]
  /\ UNCHANGED <<card, runs, subs, policy, request, approvals, used>>

Calls(n, tool) == worker[n].phase = "cleared" /\ worker[n].tool = tool

CallDone(n) == worker' = [worker EXCEPT ![n] = [phase |-> "called", tool |-> worker[n].tool]]

CallComplete(n) ==
  /\ Calls(n, "kanban_complete")
  /\ card' = [card EXCEPT !.status = "done", !.run = 0]
  /\ CallDone(n)
  /\ UNCHANGED <<runs, subs, policy, request, approvals, used>>

CallRequestReview(n) ==
  /\ Calls(n, "kanban_request_review")
  /\ subs' = Append(subs, [implementer |-> card.assignee, run |-> n])
  /\ card' = [status |-> "review", run |-> 0,
              assignee |-> IF worker[n].reviewer = Nobody THEN card.assignee ELSE worker[n].reviewer]
  /\ CallDone(n)
  /\ UNCHANGED <<runs, policy, request, approvals, used>>

\* request_changes succeeds: a reviewer run, and an implementer to return to.
HandsBack(n) == runs[n].fromReview /\ Last(subs).implementer # Nobody

CallRequestChanges(n) ==
  /\ Calls(n, "kanban_request_changes")
  /\ HandsBack(n)
  /\ card' = [status |-> "ready", run |-> 0, assignee |-> Last(subs).implementer]
  /\ CallDone(n)
  /\ UNCHANGED <<runs, subs, policy, request, approvals, used>>

CallRefused(n) ==
  /\ Calls(n, "kanban_request_changes")
  /\ ~HandsBack(n)
  /\ worker' = [worker EXCEPT ![n] = Working]
  /\ UNCHANGED <<card, runs, subs, policy, request, approvals, used>>

\* agent_decision and the release to a person, on a situation read anew.  A
\* rejection is recorded too.  assign_task refuses a card that is running.
PostHook(n) ==
  /\ worker[n].phase = "called"
  /\ approvals' = IF worker[n].tool = "kanban_complete" /\ ReviewerRun(n) /\ policy.mode = "agent"
                    THEN approvals + 1 ELSE approvals
  /\ card' = IF /\ worker[n].tool = "kanban_request_review"
                /\ GoesToPerson(n)
                /\ card.status # "running"
               THEN [card EXCEPT !.assignee = Nobody] ELSE card
  /\ worker' = [worker EXCEPT ![n] = Ended]
  /\ UNCHANGED <<runs, subs, policy, request, used>>

\* (slip) closing the card leaves the worker of its run going
WorkerKept == worker

\* Hermes refuses every call of a worker whose run is no longer the active one:
\* the worker is at its end.
RunTakenAway == IF card.run = 0 THEN worker ELSE [worker EXCEPT ![card.run] = Ended]

\* The worker dies, is terminated or is reclaimed, at whatever point it is; a
\* post hook that fails changes nothing either.
Die(n) ==
  /\ worker[n] # Ended
  /\ worker' = [worker EXCEPT ![n] = Ended]
  /\ card' = IF card.run = n THEN [card EXCEPT !.status = SourceColumn(n), !.run = 0] ELSE card
  /\ UNCHANGED <<runs, subs, policy, request, approvals, used>>

-----------------------------------------------------------------------------
(* People *)

Idle == [phase |-> "idle"]

\* A person is being waited on.
HumanRequired == card.status = "review" /\ card.assignee = Nobody

\* _approve_waiting_card: the state is read and found to be human_required and
\* the submission to be the latest,
ApproveCheck(p) ==
  /\ request[p] = Idle
  /\ HumanRequired
  /\ subs # <<>>
  /\ Last(subs).run # 0
  /\ request' = [request EXCEPT ![p] = [phase |-> "checked", sub |-> Len(subs)]]
  /\ UNCHANGED <<card, runs, worker, subs, policy, approvals, used>>

\* then complete_task, which takes any card that is not done,
ApproveComplete(p) ==
  /\ request[p].phase = "checked"
  /\ IF card.status = "done"
       THEN request' = [request EXCEPT ![p] = Idle] /\ UNCHANGED card
       ELSE /\ request' = [request EXCEPT ![p].phase = "completed"]
            /\ card' = [card EXCEPT !.status = "done", !.run = 0]
  /\ worker' = RunTakenAway  \* none when the card is done
  /\ UNCHANGED <<runs, subs, policy, approvals, used>>

\* (slip) the record does not depend on what complete_task answered
RecordAnyway(p) ==
  /\ request[p].phase \in {"checked", "completed"}
  /\ approvals' = approvals + 1
  /\ request' = [request EXCEPT ![p] = Idle]
  /\ UNCHANGED <<card, runs, worker, subs, policy, used>>

\* then the decision is recorded,
ApproveRecord(p) ==
  /\ request[p].phase = "completed"
  /\ approvals' = approvals + 1
  /\ request' = [request EXCEPT ![p] = Idle]
  /\ UNCHANGED <<card, runs, worker, subs, policy, used>>

\* or the gateway stops, or the store fails, in between.
GiveUp(p) ==
  /\ request[p] # Idle
  /\ request' = [request EXCEPT ![p] = Idle]
  /\ UNCHANGED <<card, runs, worker, subs, policy, approvals, used>>

\* _do_request_changes: a reviewer run is closed, a card without a run is
\* reopened; a run of the implementer is left alone.
SendBackCheck(p) ==
  /\ request[p] = Idle
  /\ \/ card.run # 0 /\ runs[card.run].fromReview
     \/ card.run = 0 /\ card.status = "review"
  /\ request' = [request EXCEPT ![p] = [phase |-> "sending", run |-> card.run # 0]]
  /\ UNCHANGED <<card, runs, worker, subs, policy, approvals, used>>

\* request_changes closes whatever reviewer run is active, reopen_review_task
\* opens a card in review; either hands it to the last implementer.
LastImplementer ==
  IF subs = <<>> \/ Last(subs).implementer = Nobody THEN card.assignee ELSE Last(subs).implementer

SendBackMove(p) ==
  /\ request[p].phase = "sending"
  /\ IF IF request[p].run THEN card.run # 0 /\ HandsBack(card.run) ELSE card.status = "review"
       THEN /\ card' = [status |-> "ready", run |-> 0, assignee |-> LastImplementer]
            /\ worker' = RunTakenAway
            /\ request' = [request EXCEPT ![p].phase = "sent"]
       ELSE UNCHANGED <<card, worker>> /\ request' = [request EXCEPT ![p] = Idle]
  /\ UNCHANGED <<runs, subs, policy, approvals, used>>

\* _record_rejection: a mixed card that was reopened goes to its implementer,
\* not to the reviewer whose verdict came last, unless it is running again,
\* in which case the request fails; then the rejection is recorded.
SendBackRecord(p) ==
  /\ request[p].phase = "sent"
  /\ card' = IF policy.mode = "mixed" /\ ~request[p].run /\ card.status # "running"
               THEN [card EXCEPT !.assignee = Implementer]
               ELSE card
  /\ request' = [request EXCEPT ![p] = Idle]
  /\ UNCHANGED <<runs, worker, subs, policy, approvals, used>>

\* _do_reassign without reclaim_first, and PATCH with an assignee.
Reassign(profile) ==
  /\ card.status # "running"
  /\ card' = [card EXCEPT !.assignee = profile]
  /\ UNCHANGED <<runs, worker, subs, policy, request, approvals, used>>

\* What people may do only so often in the model.
Spend(kind) ==
  /\ used[kind] < Budget[kind]
  /\ used' = [used EXCEPT ![kind] = @ + 1]

\* _patch_hooks_policy
EditPolicy(new) ==
  /\ Spend("edit")
  /\ new # policy
  /\ policy' = new
  /\ UNCHANGED <<card, runs, worker, subs, request, approvals>>

\* PATCH with status review: request_review with force, over a running worker.
DragToReview ==
  /\ card.status \in {"running", "ready"}
  /\ Spend("submit")
  /\ subs' = Append(subs, [implementer |-> card.assignee, run |-> card.run])
  /\ card' = [card EXCEPT !.status = "review", !.run = 0]
  /\ worker' = RunTakenAway
  /\ UNCHANGED <<runs, policy, request, approvals>>

\* PATCH with status done: a person closes the card without an approval.
DragToDone ==
  /\ card.status # "done"
  /\ card' = [card EXCEPT !.status = "done", !.run = 0]
  /\ worker' = RunTakenAway
  /\ UNCHANGED <<runs, subs, policy, request, approvals, used>>

\* PATCH with status ready: reopen_review_task for a card in review,
DragToReady ==
  /\ card.status = "review"
  /\ card' = [status |-> "ready", run |-> 0, assignee |-> LastImplementer]
  /\ UNCHANGED <<runs, worker, subs, policy, request, approvals, used>>

\* a direct write for one that is done.
ReopenDone ==
  /\ card.status = "done"
  /\ Spend("reopen")
  /\ card' = [card EXCEPT !.status = "ready"]
  /\ UNCHANGED <<runs, worker, subs, policy, request, approvals>>

-----------------------------------------------------------------------------

Init ==
  /\ card = [status |-> "ready", assignee |-> Implementer, run |-> 0]
  /\ runs = <<>> /\ worker = <<>> /\ subs = <<>>
  /\ approvals = 0
  /\ policy \in Policies
  /\ request = [p \in Persons |-> Idle]
  /\ used = [kind \in Kinds |-> 0]

Next ==
  \/ Claim
  \/ \E n \in DOMAIN runs :
       \/ \E tool \in Tools : PreHook(n, tool)
       \/ CallComplete(n)
       \/ CallRequestReview(n)
       \/ CallRequestChanges(n)
       \/ CallRefused(n)
       \/ PostHook(n)
       \/ Die(n)
  \/ \E p \in Persons :
       \/ ApproveCheck(p)
       \/ ApproveComplete(p)
       \/ ApproveRecord(p)
       \/ GiveUp(p)
       \/ SendBackCheck(p)
       \/ SendBackMove(p)
       \/ SendBackRecord(p)
  \/ \E profile \in Profiles \cup {Nobody} : Reassign(profile)
  \/ \E new \in Edited : EditPolicy(new)
  \/ DragToReview
  \/ DragToDone
  \/ DragToReady
  \/ ReopenDone

Spec == Init /\ [][Next]_vars

-----------------------------------------------------------------------------
(* Correctness *)

\* Variables have their types, the active run is the card's and has a worker.
TypeOK ==
  /\ card \in [status : {"ready", "running", "review", "done"},
               assignee : Profiles \cup {Nobody}, run : 0..Len(runs)]
  /\ card.run # 0 <=> card.status = "running"
  /\ \A n \in DOMAIN runs : card.run = n <=> worker[n].phase \in {"working", "cleared"}
  /\ runs \in Seq([profile : Profiles, fromReview : BOOLEAN])
  /\ Len(worker) = Len(runs)
  /\ subs \in Seq([implementer : Profiles \cup {Nobody}, run : 0..Len(runs)])
  /\ policy \in Policies
  /\ \A p \in Persons : request[p].phase \in {"idle", "checked", "completed", "sending", "sent"}
  /\ \A p \in Persons : request[p].phase = "checked" => request[p].sub \in 1..Len(subs)
  /\ \A kind \in Kinds : used[kind] \in 0..Budget[kind]

\* Run n's worker completes the card in this step.
WorkerCompletes(n) ==
  /\ n \in DOMAIN worker /\ worker[n].phase = "cleared" /\ worker'[n].phase = "called"
  /\ card.status # "done" /\ card'.status = "done"

\* No profile approves its own work: a worker that completes the card took it
\* from review, and when it does the latest submission is another profile's,
\* however people move, reassign and re-policy the card after the pre hook has
\* answered.
NoSelfApproval ==
  [][\A n \in DOMAIN runs :
       WorkerCompletes(n) => runs[n].fromReview /\ Last(subs).implementer # Profile(n)]_vars

\* As long as nobody edits the policy, a card for a person to decide, of a human
\* policy or a mixed one, is never completed by a worker, and neither is an
\* agent's card by anyone but a reviewer.
PeopleDecide ==
  [][\A n \in DOMAIN runs :
       WorkerCompletes(n) /\ used["edit"] = 0 => policy.mode = "agent"]_vars

\* Two people and a reviewer who decide about a card together do not leave more
\* approvals than there were completions: whoever is late is refused and leaves
\* no record.
ApprovalsAreCompletions ==
  approvals <= used["reopen"] + (IF card.status = "done" THEN 1 ELSE 0)

\* "Only a card in human_required can be approved, and only for its latest
\* submission: a late approval is refused and changes nothing": a person's
\* approval closes a card that is waiting, for the submission that was approved.
LateApproval ==
  [][\A p \in Persons :
       request[p].phase = "checked" /\ request'[p].phase = "completed"
         => HumanRequired /\ request[p].sub = Len(subs)]_vars

=============================================================================
