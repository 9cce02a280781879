------------------------------- MODULE Cards --------------------------------
(***************************************************************************)
(* The cards of one board that depend on one another: creation with a      *)
(* policy, links, the moves of people, the dispatcher, and the archiving   *)
(* of the board.                                                           *)
(*                                                                         *)
(* Hermes' verbs are transactions of their own.  A request strings them    *)
(* together: it looks at a card, picks a verb by what it saw, and may look *)
(* and write again.  The dispatcher claims cards and workers end their     *)
(* runs in between.                                                        *)
(***************************************************************************)
EXTENDS Naturals, FiniteSets

CONSTANTS Cards,
          Movers,   \* requests that may be in flight together
          MaxAsked  \* bound on requests

ASSUME CardsAssumption == MaxAsked \in Nat

VARIABLES
  status,    \* status[c], "none" for a card that is not there
  source,    \* source[c]: the column from which the last run was claimed
  parents,   \* parents[c]
  late,      \* cards that got an unfinished parent while they were not waiting
  policies,  \* the cards with a row in the approval store
  archived,  \* whether the board is archived
  moves,     \* moves[r]: what request r does next
  requested  \* requests so far

cardVars == <<status, source, parents, late, policies, archived, moves, requested>>

NoMove == [does |-> "nothing"]
Statuses == {"none", "triage", "todo", "ready", "running", "review",
             "blocked", "scheduled", "done", "archived"}
Finished == {"done", "archived"}
There(c) == status[c] # "none"

Move(r, job) == moves' = [moves EXCEPT ![r] = job]
ThenDoes(r, what) == Move(r, [moves[r] EXCEPT !.does = what])
Over(r) == Move(r, NoMove)
Asked(r) == moves[r] = NoMove /\ requested < MaxAsked /\ requested' = requested + 1

\* unsatisfied_parents
SatisfiedIn(st, c) == \A p \in parents[c] : st[p] \in Finished

\* recompute_ready
Recomputed(st) == [c \in Cards |-> IF st[c] = "todo" /\ SatisfiedIn(st, c) THEN "ready" ELSE st[c]]

PutIn(c, to) == status' = [status EXCEPT ![c] = to]
PutAndRecompute(c, to) == status' = Recomputed([status EXCEPT ![c] = to])

Children(cs) == {k \in Cards : parents[k] \cap cs # {}}

\* The cards below c: the least set that has its children and theirs.
Below(c, cs) == Children({c}) \cup Children(cs) \subseteq cs
Descendants(c) == {k \in Cards : \A cs \in SUBSET Cards : Below(c, cs) => k \in cs}

-----------------------------------------------------------------------------
(* The dispatcher and its workers *)

Claim(c) ==
  /\ status[c] \in {"ready", "review"} /\ ~archived
  /\ source' = [source EXCEPT ![c] = status[c]]
  /\ PutIn(c, "running")
  /\ UNCHANGED <<parents, late, policies, archived, moves, requested>>

WorkerEnds(c) ==
  /\ status[c] = "running"
  /\ \E to \in {"done", "blocked", "review"} : PutAndRecompute(c, to)
  /\ UNCHANGED <<source, parents, late, policies, archived, moves, requested>>

-----------------------------------------------------------------------------
(* Creation, links, deletion *)

\* create_task, then the row of the policy when the request asks for one
CreateCard(r, c) ==
  /\ Asked(r) /\ ~There(c) /\ c \notin policies
  /\ \E ps \in SUBSET {p \in Cards : There(p)}, asks \in {"triage", "blocked", "work"}, own \in BOOLEAN :
       /\ parents' = [parents EXCEPT ![c] = ps]
       /\ PutIn(c, IF asks # "work" THEN asks
                 ELSE IF \A p \in ps : status[p] = "done" THEN "ready" ELSE "todo")
       /\ Move(r, IF own THEN [does |-> "store policy", card |-> c] ELSE NoMove)
  /\ source' = [source EXCEPT ![c] = "ready"]
  /\ UNCHANGED <<late, policies, archived>>

StorePolicy(r) ==
  /\ moves[r].does = "store policy"
  /\ policies' = policies \cup {moves[r].card}
  /\ Over(r)
  /\ UNCHANGED <<status, source, parents, late, archived, requested>>

Deleted(c) ==
  /\ parents' = [k \in Cards |-> IF k = c THEN {} ELSE parents[k] \ {c}]
  /\ status' = [k \in Cards |->
                  IF k = c THEN "none"
                  ELSE IF status[k] = "todo" /\ \A p \in parents[k] \ {c} : status[p] \in Finished
                  THEN "ready" ELSE status[k]]
  /\ late' = late \ {c}

\* The row cannot be stored: the card goes again, and the answer is 503.
PolicyFails(r) ==
  /\ moves[r].does = "store policy"
  /\ Deleted(moves[r].card)
  /\ Over(r)
  /\ UNCHANGED <<source, policies, archived, requested>>

DeleteCard(r, c) ==
  /\ Asked(r) /\ There(c)
  /\ Deleted(c)
  /\ UNCHANGED <<source, policies, archived, moves>>

\* Links never make a cycle; a card that is ready waits again.
Link(r, p, c) ==
  /\ Asked(r) /\ There(p) /\ There(c)
  /\ p # c /\ p \notin Descendants(c) /\ p \notin parents[c]
  /\ parents' = [parents EXCEPT ![c] = @ \cup {p}]
  /\ IF status[c] = "ready" /\ status[p] # "done" THEN PutIn(c, "todo") ELSE UNCHANGED status
  /\ late' = IF status[c] \in {"running", "review"} /\ status[p] \notin Finished THEN late \cup {c} ELSE late
  /\ UNCHANGED <<source, policies, archived, moves>>

Unlink(r, p, c) ==
  /\ Asked(r) /\ p \in parents[c]
  /\ parents' = [parents EXCEPT ![c] = @ \ {p}]
  /\ status' = [k \in Cards |->
                  IF status[k] = "todo" /\ \A q \in parents'[k] : status[q] \in Finished
                  THEN "ready" ELSE status[k]]
  /\ UNCHANGED <<source, late, policies, archived, moves>>

-----------------------------------------------------------------------------
(* Moves of people *)

\* _apply_status, the columns with a verb of their own
MoveByVerb(r, c) ==
  /\ Asked(r)
  /\ \/ status[c] \in {"running", "ready", "blocked", "review"} /\ PutAndRecompute(c, "done")
     \/ status[c] \in {"running", "ready"} /\ \E to \in {"blocked", "review"} : PutIn(c, to)
     \/ status[c] \in {"todo", "ready", "running", "blocked"} /\ PutIn(c, "scheduled")
     \/ There(c) /\ status[c] # "archived" /\ PutAndRecompute(c, "archived")
  /\ UNCHANGED <<source, parents, late, policies, archived, moves>>

\* _drag_to reads the card and picks the verb.
Drag(r, c, to) ==
  /\ Asked(r) /\ There(c) /\ to \in {"ready", "todo", "triage"}
  /\ Move(r, [card |-> c, to |-> to,
              does |-> CASE status[c] \in {"blocked", "scheduled"} -> "unblock"
                         [] status[c] = "review" -> "reopen"
                         [] OTHER -> "direct"])
  /\ UNCHANGED <<status, source, parents, late, policies, archived>>

\* The column to which a run goes back, and the one that its parents allow
Gated(c) == IF SatisfiedIn(status, c) THEN "ready" ELSE "todo"

Unblock(r) ==
  /\ moves[r].does = "unblock"
  /\ LET c == moves[r].card IN
     IF status[c] \in {"blocked", "scheduled"}
     THEN PutIn(c, IF source[c] = "review" THEN "review" ELSE Gated(c)) ELSE UNCHANGED status
  /\ Over(r)
  /\ UNCHANGED <<source, parents, late, policies, archived, requested>>

Reopen(r) ==
  /\ moves[r].does = "reopen"
  /\ LET c == moves[r].card IN
     IF status[c] = "review" THEN PutIn(c, Gated(c)) ELSE UNCHANGED status
  /\ Over(r)
  /\ UNCHANGED <<source, parents, late, policies, archived, requested>>

\* _set_status_direct looks again: a running card is taken from its worker,
\* one that waits is promoted, the rest is written.
Direct(r) ==
  /\ moves[r].does = "direct"
  /\ LET c == moves[r].card  to == moves[r].to IN
     CASE status[c] = "running" -> ThenDoes(r, "reclaim")
       [] status[c] = "todo" /\ to = "ready" -> ThenDoes(r, "promote")
       [] status[c] = "none" -> Over(r)
       [] OTHER -> ThenDoes(r, "write")
  /\ UNCHANGED <<status, source, parents, late, policies, archived, requested>>

Reclaim(r) ==
  /\ moves[r].does = "reclaim"
  /\ LET c == moves[r].card IN
     IF status[c] = "running" THEN PutIn(c, source[c]) /\ ThenDoes(r, "reclaimed")
     ELSE Over(r) /\ UNCHANGED status
  /\ UNCHANGED <<source, parents, late, policies, archived, requested>>

\* A reviewer run goes back to review even when the drag asked for ready.
Reclaimed(r) ==
  /\ moves[r].does = "reclaimed"
  /\ LET c == moves[r].card  to == moves[r].to IN
     CASE status[c] \in {"none", to} \/ (status[c] = "review" /\ to = "ready") -> Over(r)
       [] status[c] = "todo" /\ to = "ready" -> ThenDoes(r, "promote")
       [] OTHER -> ThenDoes(r, "write")
  /\ UNCHANGED <<status, source, parents, late, policies, archived, requested>>

Promote(r) ==
  /\ moves[r].does = "promote"
  /\ LET c == moves[r].card IN
     IF status[c] \in {"todo", "blocked"} /\ SatisfiedIn(status, c) THEN PutIn(c, "ready") ELSE UNCHANGED status
  /\ Over(r)
  /\ UNCHANGED <<source, parents, late, policies, archived, requested>>

\* (slip) the parents of a card are not looked at
MayWriteAny(c, to) == status[c] \notin {"none", "running"}

\* _write_status refuses a claimed card and one whose parents are unfinished.
MayWrite(c, to) ==
  /\ status[c] \notin {"none", "running"}
  /\ to = "ready" => SatisfiedIn(status, c)

\* (slip) the cards below a reopened one stay where they are
InvalidatedNone(c) == {}

\* invalidate_descendants_for_parent_reopen: their runs are closed with it.
Invalidated(c) ==
  {k \in Descendants(c) : status[c] \in Finished /\ status[k] \in {"ready", "review", "running", "done"}}

Write(r) ==
  /\ moves[r].does = "write"
  /\ LET c == moves[r].card  to == moves[r].to IN
     IF ~MayWrite(c, to) THEN Over(r) /\ UNCHANGED status
     ELSE /\ status' = [k \in Cards |-> IF k = c THEN to ELSE IF k \in Invalidated(c) THEN "todo" ELSE status[k]]
          /\ IF to = "ready" THEN ThenDoes(r, "recompute") ELSE Over(r)
  /\ UNCHANGED <<source, parents, late, policies, archived, requested>>

Recompute(r) ==
  /\ moves[r].does = "recompute"
  /\ status' = Recomputed(status)
  /\ Over(r)
  /\ UNCHANGED <<source, parents, late, policies, archived, requested>>

-----------------------------------------------------------------------------
(* The board *)

\* patch_board_handler counts the running cards, then writes the metadata.
ArchiveCheck(r) ==
  /\ Asked(r) /\ \A c \in Cards : status[c] # "running"
  /\ Move(r, [does |-> "archive"])
  /\ UNCHANGED <<status, source, parents, late, policies, archived>>

Archive(r) ==
  /\ moves[r].does = "archive"
  /\ archived' = TRUE
  /\ Over(r)
  /\ UNCHANGED <<status, source, parents, late, policies, requested>>

Unarchive(r) ==
  /\ Asked(r) /\ archived
  /\ archived' = FALSE
  /\ UNCHANGED <<status, source, parents, late, policies, moves>>

-----------------------------------------------------------------------------

CardsInit ==
  /\ status = [c \in Cards |-> "none"] /\ source = [c \in Cards |-> "ready"]
  /\ parents = [c \in Cards |-> {}] /\ late = {} /\ policies = {} /\ archived = FALSE
  /\ moves = [r \in Movers |-> NoMove] /\ requested = 0

CardsNext ==
  \/ \E c \in Cards : Claim(c) \/ WorkerEnds(c)
  \/ \E r \in Movers :
       \/ \E c \in Cards :
            \/ CreateCard(r, c)
            \/ DeleteCard(r, c)
            \/ MoveByVerb(r, c)
            \/ \E p \in Cards : Link(r, p, c)
            \/ \E p \in Cards : Unlink(r, p, c)
            \/ \E to \in {"ready", "todo", "triage"} : Drag(r, c, to)
       \/ StorePolicy(r)
       \/ PolicyFails(r)
       \/ Unblock(r)
       \/ Reopen(r)
       \/ Direct(r)
       \/ Reclaim(r)
       \/ Reclaimed(r)
       \/ Promote(r)
       \/ Write(r)
       \/ Recompute(r)
       \/ ArchiveCheck(r)
       \/ Archive(r)
       \/ Unarchive(r)

-----------------------------------------------------------------------------

CardsTypeOK ==
  /\ status \in [Cards -> Statuses] /\ source \in [Cards -> {"ready", "review"}]
  /\ parents \in [Cards -> SUBSET Cards] /\ late \subseteq Cards /\ policies \subseteq Cards
  /\ archived \in BOOLEAN /\ requested \in 0..MaxAsked
  /\ \A c \in Cards : c \notin Descendants(c)

\* No card is ready or claimed for work while a parent of it is unfinished,
\* whatever people move, reopen, link and delete at the same time, but for cards
\* that got the parent while they were running or in review.  ("the dispatcher
\* would start a child whose upstream is not done", kanban_board.py:552)
ReadyParents ==
  \A c \in Cards \ late :
    status[c] = "ready" \/ (status[c] = "running" /\ source[c] = "ready") => SatisfiedIn(status, c)

\* A board is archived only with no card running on it.  ("so that the reports
\* of running cards are not cut off", kanban_board.py:282)
NoRunOnArchived == archived => \A c \in Cards : status[c] # "running"

=============================================================================
