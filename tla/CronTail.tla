------------------------------ MODULE CronTail ------------------------------
(***************************************************************************)
(* The cron source of GET /deskrpg/events, for one profile with an         *)
(* execution ledger (executions.db).                                       *)
(*                                                                         *)
(* An execution is a row that changes as the run goes on, so a position in *)
(* a log does not tell what the client has heard.  The cursor holds a      *)
(* watermark t over claimed_at and, in o, the status in which the client   *)
(* knows every execution that t says nothing about: the unfinished ones    *)
(* and the finished ones that t has not passed.  A poll reads the          *)
(* executions of o again one by one, then the page behind t, and makes the *)
(* two events of a run, started and finished, from the difference.  The    *)
(* answer carries the earliest of them, as many as the merge with the      *)
(* other sources (module EventStream) leaves room for.                     *)
(*                                                                         *)
(* The ledger is Hermes'; its timestamps only matter by their order.       *)
(***************************************************************************)
EXTENDS Integers, FiniteSets

CONSTANTS Runs,      \* executions of the profile's jobs
          Limit,     \* the most cron events an answer has room for
          MaxClock,  \* bound on the clock
          MayFail    \* whether get_execution may raise, as a locked ledger does

ASSUME CronAssumption == /\ Limit \in Nat \ {0}
                         /\ MaxClock \in Nat
                         /\ MayFail \in BOOLEAN

VARIABLES
  now,   \* the clock
  run,   \* run[r]: the row of r in the ledger
  cur,   \* the client's position [t, o], or NoCursor
  req,   \* the poll in flight
  told,  \* events <<r, phase>> that were past when the client started
  got    \* events delivered so far

vars == <<now, run, cur, req, told, got>>

Missing == -1
Time == 0..MaxClock \cup {Missing}

\* "ended" stands for the terminal statuses: completed, failed and unknown.
Statuses == {"claimed", "running", "ended"}
Terminal == {"ended"}
Begun == {"running"} \cup Terminal

Row == [status : Statuses \cup {"none", "gone"}, claimed : Time, started : Time, finished : Time]
NoRow == [status |-> "none", claimed |-> Missing, started |-> Missing, finished |-> Missing]

NoCursor == [t |-> Missing - 1, o |-> [r \in {} |-> "running"]]
\* Where a cursor made before the profile existed stands in its ledger.
Blank == [t |-> Missing, o |-> [r \in {} |-> "running"]]

InLedger == {r \in Runs : run[r].status \in Statuses}
Event == Runs \X {"started", "finished"}

-----------------------------------------------------------------------------
(* Hermes' scheduler and its ledger *)

Tick ==
  /\ now < MaxClock
  /\ now' = now + 1
  /\ UNCHANGED <<run, cur, req, told, got>>

\* The scheduler claims the runs that are due, later than any run before.
Claim(rs) ==
  /\ rs # {}
  /\ \A r \in rs : run[r].status = "none"
  /\ \A r \in Runs : run[r].claimed < now
  /\ run' = [r \in Runs |-> IF r \in rs THEN [NoRow EXCEPT !.status = "claimed", !.claimed = now]
                                        ELSE run[r]]
  /\ UNCHANGED <<now, cur, req, told, got>>

StartRun(r) ==
  /\ run[r].status = "claimed"
  /\ run' = [run EXCEPT ![r].status = "running", ![r].started = now]
  /\ UNCHANGED <<now, cur, req, told, got>>

\* A run ends; one given up without having started, or closed by a recovery,
\* may have no start or no end time.
EndRun(r, at) ==
  /\ run[r].status \in {"claimed", "running"}
  /\ run' = [run EXCEPT ![r].status = "ended", ![r].finished = at]
  /\ UNCHANGED <<now, cur, req, told, got>>

\* The history of old runs is thinned out.
Prune(r) ==
  /\ run[r].status = "ended"
  /\ run' = [run EXCEPT ![r].status = "gone", ![r].started = Missing, ![r].finished = Missing]
  /\ UNCHANGED <<now, cur, req, told, got>>

-----------------------------------------------------------------------------
(* The events of a poll *)

\* The rows a poll has read: those of o as they were read again, and those of
\* the page behind the watermark that are not among them.
Paged(t, seen) == {r \in InLedger \ DOMAIN seen : run[r].claimed > t}

RowsRead(t, seen) ==
  [r \in DOMAIN seen \cup Paged(t, seen) |-> IF r \in DOMAIN seen THEN seen[r] ELSE run[r]]

\* The status in which the client knows r; a row found by the page is new to it.
Known(r, o, seen) == IF r \in DOMAIN seen THEN o[r] ELSE "none"

\* What a row tells beyond what the client knows.
EventsOf(r, status, known) ==
  IF known \in Terminal THEN {}
  ELSE (IF status \in Begun /\ known # "running" THEN {<<r, "started">>} ELSE {})
         \cup (IF status \in Terminal THEN {<<r, "finished">>} ELSE {})

EventsRead(rows, o, seen) ==
  UNION {EventsOf(r, rows[r].status, Known(r, o, seen)) : r \in DOMAIN rows}

StartTime(row) == IF row.started # Missing THEN row.started ELSE row.claimed
EndTime(row) == IF row.finished # Missing THEN row.finished ELSE StartTime(row)
TimeOf(e, rows) == IF e[2] = "started" THEN StartTime(rows[e[1]]) ELSE EndTime(rows[e[1]])

\* (slip) the two events of a run have no order of their own
BeforeByTime(e, f, rows, seen) == TimeOf(e, rows) < TimeOf(f, rows)

\* e sorts before f: by time, the runs of o before those of the page, those by
\* claimed_at, and started before finished.  Runs of o have no order that the
\* cursor keeps, nor have runs claimed together.
Before(e, f, rows, seen) ==
  \/ TimeOf(e, rows) < TimeOf(f, rows)
  \/ /\ TimeOf(e, rows) = TimeOf(f, rows)
     /\ \/ e[1] = f[1] /\ e[2] = "started" /\ f[2] = "finished"
        \/ e[1] \in DOMAIN seen /\ f[1] \notin DOMAIN seen
        \/ /\ {e[1], f[1]} \cap DOMAIN seen = {}
           /\ rows[e[1]].claimed < rows[f[1]].claimed

\* Cuts of the merged list, seen from this source: no event is carried while
\* an earlier one is left.
Cuts(events, rows, seen) ==
  {s \in SUBSET events :
     /\ Cardinality(s) <= Limit
     /\ \A e \in s, f \in events : Before(f, e, rows, seen) => f \in s}

-----------------------------------------------------------------------------
(* advance_cron *)

Complete(r, events, emitted) == \A e \in events : e[1] = r => e \in emitted
Shown(r, events, emitted) == \E e \in events : e[1] = r /\ e \in emitted

Ahead(t, rows) == {r \in DOMAIN rows : rows[r].claimed > t}

\* (slip) the watermark moves to the newest run that is told in full
MarkOverCut(new, old, rows, done) ==
  \/ \E r \in done \cap Ahead(old, rows) :
       new = rows[r].claimed /\ \A q \in done \cap Ahead(old, rows) : rows[q].claimed <= new
  \/ new = old /\ done \cap Ahead(old, rows) = {}

\* The watermark moves over runs told in full, and over none that is not:
\* runs claimed together are passed together.
Mark(new, old, rows, done) ==
  LET Passed(c) == {r \in Ahead(old, rows) : rows[r].claimed <= c}
      ends == {c \in {rows[r].claimed : r \in Ahead(old, rows)} : Passed(c) \subseteq done}
  IN  \/ new \in ends /\ \A c \in ends : c <= new
      \/ new = old /\ ends = {}

\* (slip) a run that ended ahead of the watermark is not remembered
StaysOpen(r, t, old, rows, o, events, emitted) ==
  IF Complete(r, events, emitted) THEN rows[r].status \notin Terminal
  ELSE Shown(r, events, emitted) \/ r \in DOMAIN o

\* (slip) what ended ahead of the old watermark stays for good
KeptForGood(r, t, old, rows, o, events, emitted) ==
  IF Complete(r, events, emitted) THEN rows[r].status \notin Terminal \/ rows[r].claimed > old
  ELSE Shown(r, events, emitted) \/ r \in DOMAIN o

\* Runs the next cursor holds: the unfinished ones, those told in part, those
\* told of before that got no room, and those that ended ahead of the mark.
Kept(r, t, old, rows, o, events, emitted) ==
  IF Complete(r, events, emitted)
    THEN \/ rows[r].status \notin Terminal
         \/ rows[r].claimed > old /\ rows[r].claimed > t
    ELSE Shown(r, events, emitted) \/ r \in DOMAIN o

\* (slip) every unfinished run is held as running
StatusOpen(r, rows, o, events, emitted) ==
  IF rows[r].status \in Terminal /\ Complete(r, events, emitted) THEN "ended" ELSE "running"

\* The status in which the client knows it now.
StatusTold(r, rows, o, events, emitted) ==
  CASE Complete(r, events, emitted) -> rows[r].status
    [] ~Complete(r, events, emitted) /\ Shown(r, events, emitted) -> "running"
    [] OTHER -> o[r]

-----------------------------------------------------------------------------
(* The client and the handler *)

Idle == [phase |-> "idle"]
Polling == req.phase = "reading"

\* cron_now_positions: the newest claimed_at and the unfinished executions.
Start ==
  /\ cur = NoCursor
  /\ ~Polling
  /\ \E t \in {run[r].claimed : r \in InLedger} \cup {Missing} :
       /\ \A r \in InLedger : run[r].claimed <= t
       /\ cur' = [t |-> t, o |-> [r \in {q \in InLedger : run[q].status \notin Terminal} |-> run[r].status]]
  /\ told' = {e \in Event : /\ run[e[1]].status \in Begun
                            /\ e[2] = "finished" => run[e[1]].status \in Terminal}
               \cup {e \in Event : run[e[1]].status = "gone"}
  /\ UNCHANGED <<now, run, req, got>>

BeginPoll ==
  /\ cur # NoCursor
  /\ ~Polling
  /\ req' = [phase |-> "reading", todo |-> DOMAIN cur.o, seen |-> [r \in {} |-> NoRow]]
  /\ UNCHANGED <<now, run, cur, told, got>>

\* get_execution of one execution of o.  A row that is gone, and one that
\* could not be read, is no candidate of this poll.
Reread(r) ==
  /\ Polling
  /\ r \in req.todo
  /\ \/ /\ r \in InLedger
        /\ req' = [req EXCEPT !.todo = @ \ {r},
                              !.seen = [q \in DOMAIN @ \cup {r} |-> IF q = r THEN run[r] ELSE @[q]]]
     \/ /\ r \notin InLedger \/ MayFail
        /\ req' = [req EXCEPT !.todo = @ \ {r}]
  /\ UNCHANGED <<now, run, cur, told, got>>

\* The page, the merge and the next cursor.
Respond ==
  /\ Polling
  /\ req.todo = {}
  /\ LET rows == RowsRead(cur.t, req.seen)
         events == EventsRead(rows, cur.o, req.seen)
     IN  \E emitted \in Cuts(events, rows, req.seen) :
           LET done == {r \in DOMAIN rows : Complete(r, events, emitted)}
           IN  /\ \E t \in {rows[r].claimed : r \in DOMAIN rows} \cup {cur.t} :
                    /\ Mark(t, cur.t, rows, done)
                    /\ cur' = [t |-> t,
                               o |-> [r \in {q \in DOMAIN rows :
                                               Kept(q, t, cur.t, rows, cur.o, events, emitted)}
                                        |-> StatusTold(r, rows, cur.o, events, emitted)]]
               /\ got' = got \cup emitted
               /\ req' = [phase |-> "answered", emitted |-> emitted,
                          starved |-> emitted = {} /\ events # {},
                          inOrder |-> {r \in done : /\ <<r, "started">> \in emitted
                                                    /\ Before(<<r, "started">>, <<r, "finished">>,
                                                              rows, req.seen)}]
  /\ UNCHANGED <<now, run, told>>

\* The answer is lost; the client asks again with the cursor it has.
LoseAnswer ==
  /\ Polling
  /\ req.todo = {}
  /\ req' = Idle
  /\ UNCHANGED <<now, run, cur, told, got>>

-----------------------------------------------------------------------------

Init ==
  /\ now = 0
  /\ run = [r \in Runs |-> NoRow]
  /\ cur \in {NoCursor, Blank}
  /\ req = Idle
  /\ told = {}
  /\ got = {}

Next ==
  \/ Tick
  \/ \E rs \in SUBSET Runs : Claim(rs)
  \/ \E r \in Runs :
       \/ StartRun(r)
       \/ \E at \in {now, Missing} : EndRun(r, at)
       \/ Prune(r)
       \/ Reread(r)
  \/ Start
  \/ BeginPoll
  \/ Respond
  \/ LoseAnswer

Spec == Init /\ [][Next]_vars

\* The client polls on every tick, a poll repeated often enough is answered,
\* and the other sources do not for ever fill the answer before a cron event.
MakesRoom == Respond /\ ~req'.starved

FairSpec ==
  /\ Spec
  /\ WF_vars(BeginPoll)
  /\ \A r \in Runs : WF_vars(Reread(r))
  /\ SF_vars(MakesRoom)

-----------------------------------------------------------------------------
(* Correctness *)

\* Rows, cursor and request have their types; an execution is held in o only
\* in a status it has reached.
CursorOK ==
  cur # NoCursor =>
    /\ cur.t \in Time
    /\ DOMAIN cur.o \subseteq Runs
    /\ \A r \in DOMAIN cur.o :
         /\ cur.o[r] \in Statuses
         /\ cur.o[r] \in {"running", "ended"} => run[r].status # "claimed"
         /\ cur.o[r] = "ended" => run[r].status \in {"ended", "gone"}

TypeOK ==
  /\ now \in 0..MaxClock
  /\ run \in [Runs -> Row]
  /\ told \subseteq Event /\ got \subseteq Event
  /\ CursorOK
  /\ Polling => req.todo \cup DOMAIN req.seen \subseteq DOMAIN cur.o

Heard(r, phase) == <<r, phase>> \in told \cup got

\* The cursor stands for what the client has heard: a run that is in o is
\* known in the status it was told in, and one behind the watermark that is
\* not in o was told of in full, or its row was thinned out.
NoGap ==
  cur # NoCursor =>
    \A r \in InLedger :
      IF r \in DOMAIN cur.o
        THEN /\ cur.o[r] = "claimed" => ~Heard(r, "started")
             /\ cur.o[r] \in Begun => Heard(r, "started")
             /\ Heard(r, "finished") <=> cur.o[r] \in Terminal
        ELSE IF run[r].claimed <= cur.t
          THEN Heard(r, "started") /\ Heard(r, "finished")
          ELSE ~Heard(r, "started") /\ ~Heard(r, "finished")

\* A finished run stays in o only until the watermark passes it: the cursor
\* the client carries does not grow with the history.
OnlyOpenHeld ==
  cur # NoCursor =>
    \A r \in DOMAIN cur.o : cur.o[r] \in Terminal => run[r].claimed > cur.t

\* No event is delivered twice, whether the run was found by the page or read
\* again, and none that was past when the client started.
NoEventTwice ==
  [][req'.phase = "answered" /\ Polling => req'.emitted \cap (told \cup got) = {}]_vars

\* The client never hears of the end of a run whose start it has not heard of,
\* in an earlier answer or before it in the same one.
StartBeforeFinish ==
  [][req'.phase = "answered" /\ Polling =>
       \A r \in Runs : <<r, "finished">> \in req'.emitted =>
         \/ Heard(r, "started")
         \/ <<r, "started">> \in req'.emitted /\ r \in req'.inOrder]_vars

\* The end of every run the ledger keeps is delivered as long as the client
\* polls, also when the answer in which it was cut or lost is never repeated.
EndsArrive ==
  \A r \in Runs :
    (cur # NoCursor /\ run[r].status = "ended") ~> (Heard(r, "finished") \/ run[r].status = "gone")

=============================================================================
