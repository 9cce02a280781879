--------------------------- MODULE CronTailProofs ---------------------------
(* What the cursor of the cron source says is what the client has heard,    *)
(* while the re-reading of an execution does not fail.                      *)
EXTENDS CronTail, TLAPS

-----------------------------------------------------------------------------
(* The inductive invariant *)

\* No end is earlier than its start.
InTime(row) == row.finished # Missing => row.claimed <= row.finished /\ row.started <= row.finished

LedgerOK ==
  /\ now \in 0..MaxClock
  /\ run \in [Runs -> Row]
  /\ \A r \in Runs :
       /\ InTime(run[r])
       /\ run[r].status = "none" => run[r].claimed = Missing
       /\ run[r].status # "none" => run[r].claimed # Missing
       /\ run[r].claimed <= now /\ run[r].started <= now
       /\ run[r].status \in {"claimed", "running"} => run[r].finished = Missing

\* What a status may have become.
Later(known) ==
  CASE known = "claimed" -> {"claimed", "running", "ended", "gone"}
    [] known = "running" -> {"running", "ended", "gone"}
    [] OTHER -> {"ended", "gone"}

\* The watermark is the claim of a run; runs that are held have come at least
\* as far as the client knows.
Held ==
  cur # NoCursor =>
    /\ cur.t \in Time
    /\ cur.t = Missing \/ \E r \in Runs : run[r].claimed = cur.t
    /\ DOMAIN cur.o \subseteq Runs
    /\ \A r \in DOMAIN cur.o : cur.o[r] \in Statuses /\ run[r].status \in Later(cur.o[r])

\* What a poll has read lies between what the client knows and what is; what
\* it has not found is gone.
ReadOK ==
  Polling =>
    /\ cur # NoCursor
    /\ DOMAIN req = {"phase", "todo", "seen"}
    /\ req.todo \cup DOMAIN req.seen \subseteq DOMAIN cur.o
    /\ \A r \in DOMAIN req.seen :
         /\ req.seen[r] \in Row /\ InTime(req.seen[r])
         /\ req.seen[r].status \in Statuses /\ req.seen[r].status \in Later(cur.o[r])
         /\ run[r].status \in Later(req.seen[r].status)
         /\ req.seen[r].claimed = run[r].claimed
    /\ \A r \in DOMAIN cur.o : r \in req.todo \/ r \in DOMAIN req.seen \/ run[r].status = "gone"

\* What the client has heard of a run that is held, and of one that is not.
KnownAs(r, status, heard) ==
  /\ <<r, "started">> \in heard <=> status \in Begun
  /\ <<r, "finished">> \in heard <=> status \in Terminal

HeardAs(r, status) == KnownAs(r, status, told \cup got)

HeardOf(r) ==
  IF run[r].claimed <= cur.t
  THEN Heard(r, "started") /\ Heard(r, "finished")
  ELSE ~Heard(r, "started") /\ ~Heard(r, "finished")

HeardOK ==
  /\ told \subseteq Event /\ got \subseteq Event
  /\ cur = NoCursor => told = {} /\ got = {}
  /\ \A r \in Runs : run[r].status = "none" => ~Heard(r, "started") /\ ~Heard(r, "finished")
  /\ cur # NoCursor =>
       /\ \A r \in DOMAIN cur.o : HeardAs(r, cur.o[r])
       /\ \A r \in InLedger \ DOMAIN cur.o : HeardOf(r)

CronInv == LedgerOK /\ Held /\ ReadOK /\ HeardOK /\ OnlyOpenHeld

-----------------------------------------------------------------------------
(* The scheduler *)

LEMMA InitInv == Init => CronInv
<1> SUFFICES ASSUME Init PROVE CronInv
  OBVIOUS
<1>1. run \in [Runs -> Row]
  BY DEF Init, NoRow, Row, Time
<1>2. \A r \in Runs : run[r] = NoRow
  BY DEF Init
<1>3. LedgerOK
  BY <1>1, <1>2, CronAssumption DEF Init, LedgerOK, InTime, NoRow, Missing
<1>4. cur = NoCursor \/ (cur.t = Missing /\ DOMAIN cur.o = {})
  BY DEF Init, Blank
<1>5. ~Polling /\ InLedger = {} /\ told = {} /\ got = {}
  BY <1>2 DEF Init, Polling, Idle, InLedger, NoRow, Statuses
<1> QED
  BY <1>3, <1>4, <1>5 DEF CronInv, Held, ReadOK, HeardOK, OnlyOpenHeld, Heard, Event, Time

\* How far a row may go in one step.
Goes(r) ==
  \/ run'[r] = run[r]
  \/ /\ run[r].status = "none" /\ run'[r].status = "claimed" /\ run'[r].claimed = now
     /\ \A q \in Runs : run[q].claimed < now
  \/ /\ run'[r].claimed = run[r].claimed
     /\ \/ run[r].status = "claimed" /\ run'[r].status = "running"
        \/ run[r].status \in {"claimed", "running"} /\ run'[r].status = "ended"
        \/ run[r].status = "ended" /\ run'[r].status = "gone"

\* Whatever the scheduler does between the steps of a poll, the cursor stays
\* true: it is behind every run that is claimed now.
LEMMA LedgerStepInv ==
  ASSUME CronInv, LedgerOK', \A r \in Runs : Goes(r), UNCHANGED <<cur, req, told, got>>
  PROVE  CronInv'
<1> USE DEF CronInv
<1>1. \A r \in Runs : run[r].status # "none" => run'[r].claimed = run[r].claimed /\ run'[r].status # "none"
  BY DEF Goes
<1>2. \A r \in Runs, known \in Statuses :
        run[r].status \in Later(known) => run'[r].status \in Later(known) /\ run[r].status # "none"
  BY DEF Goes, Later, Statuses
<1>3. Held'
  <2> SUFFICES ASSUME cur # NoCursor
               PROVE  /\ cur.t \in Time
                      /\ cur.t = Missing \/ \E r \in Runs : run'[r].claimed = cur.t
                      /\ DOMAIN cur.o \subseteq Runs
                      /\ \A r \in DOMAIN cur.o : cur.o[r] \in Statuses /\ run'[r].status \in Later(cur.o[r])
    BY DEF Held
  <2>1. cur.t = Missing \/ \E r \in Runs : run'[r].claimed = cur.t
    BY <1>1 DEF Held, LedgerOK
  <2> QED
    BY <2>1, <1>2 DEF Held
<1>4. ReadOK'
  <2> SUFFICES ASSUME Polling PROVE ReadOK'
    BY DEF ReadOK, Polling
  <2>1. \A r \in DOMAIN cur.o : r \in Runs /\ run[r].status # "none"
    BY <1>2 DEF ReadOK, Held
  <2>2. \A r \in DOMAIN cur.o : run[r].status = "gone" => run'[r].status = "gone"
    BY <2>1 DEF Goes
  <2>3. \A r \in DOMAIN req.seen : req.seen[r].claimed = run'[r].claimed
    BY <2>1, <1>1 DEF ReadOK
  <2>4. \A r \in DOMAIN req.seen : run'[r].status \in Later(req.seen[r].status)
    BY <2>1, <1>2 DEF ReadOK
  <2> QED
    BY <2>2, <2>3, <2>4 DEF ReadOK, Polling
<1>5. HeardOK'
  <2>1. \A r \in Runs : run'[r].status = "none" => run[r].status = "none"
    BY <1>1
  <2>2. ASSUME cur # NoCursor, NEW r \in InLedger' \ DOMAIN cur.o
        PROVE  HeardOf(r)'
    <3>1. r \in Runs /\ run'[r].status \in Statuses
      BY <2>2 DEF InLedger
    <3>2. CASE run[r].status \in Statuses
      BY <2>2, <3>1, <3>2, <1>1 DEF HeardOK, HeardOf, Heard, InLedger, Statuses
    <3>3. CASE run[r].status \notin Statuses
      <4>1. /\ run[r].status = "none" /\ run'[r].claimed = now
            /\ \A q \in Runs : run[q].claimed < now
        BY <3>1, <3>3 DEF Goes, Statuses
      <4>2. ~(now <= cur.t)
        BY <2>2, <4>1 DEF Held, LedgerOK, Row, Time, Missing
      <4> QED
        BY <3>1, <4>1, <4>2 DEF HeardOK, HeardOf, Heard
    <3> QED
      BY <3>2, <3>3
  <2> QED
    BY <2>1, <2>2 DEF HeardOK, HeardAs, Heard
<1>6. OnlyOpenHeld'
  <2> SUFFICES ASSUME cur # NoCursor, NEW r \in DOMAIN cur.o, cur.o[r] \in Terminal
               PROVE  run'[r].claimed > cur.t
    BY DEF OnlyOpenHeld
  <2>1. r \in Runs /\ run[r].status # "none"
    BY <1>2 DEF Held
  <2> QED
    BY <2>1, <1>1 DEF OnlyOpenHeld
<1> QED
  BY <1>3, <1>4, <1>5, <1>6

LEMMA TickInv == ASSUME CronInv, Tick PROVE CronInv'
<1>1. LedgerOK'
  BY CronAssumption DEF CronInv, LedgerOK, Tick, InTime, Row, Time, Missing
<1> QED
  BY <1>1, LedgerStepInv DEF Tick, Goes

LEMMA ClaimInv == ASSUME CronInv, NEW rs \in SUBSET Runs, Claim(rs) PROVE CronInv'
<1> DEFINE new == [NoRow EXCEPT !.status = "claimed", !.claimed = now]
<1> USE DEF CronInv
<1>1. /\ new \in Row /\ new.status = "claimed" /\ new.claimed = now
      /\ new.started = Missing /\ new.finished = Missing
  BY DEF LedgerOK, NoRow, Row, Time, Statuses
<1>2. /\ run' \in [Runs -> Row] /\ now' = now
      /\ \A r \in Runs : run'[r] = IF r \in rs THEN new ELSE run[r]
  BY <1>1 DEF Claim, LedgerOK
<1>3. LedgerOK'
  <2>1. now \in Nat /\ Missing <= now /\ Missing # now
    BY DEF LedgerOK, Missing
  <2> DEFINE RowOK(row) ==
               /\ InTime(row)
               /\ row.status = "none" => row.claimed = Missing
               /\ row.status # "none" => row.claimed # Missing
               /\ row.claimed <= now /\ row.started <= now
               /\ row.status \in {"claimed", "running"} => row.finished = Missing
  <2>2. RowOK(new)
    BY <1>1, <2>1 DEF InTime
  <2>3. \A r \in Runs : RowOK(run[r])
    BY DEF LedgerOK
  <2>4. \A r \in Runs : RowOK(run'[r])
    <3> HIDE DEF RowOK, new
    <3> QED
      BY <1>2, <2>2, <2>3
  <2> QED
    BY <1>2, <2>4 DEF LedgerOK, InTime
<1>4. \A r \in Runs : Goes(r)
  BY <1>1, <1>2 DEF Claim, Goes
<1> QED
  BY <1>3, <1>4, LedgerStepInv DEF Claim

LEMMA StartRunInv == ASSUME CronInv, NEW r \in Runs, StartRun(r) PROVE CronInv'
<1> DEFINE new == [run[r] EXCEPT !.status = "running", !.started = now]
<1> USE DEF CronInv
<1>1. /\ new \in Row /\ new.status = "running" /\ new.claimed = run[r].claimed
      /\ new.started = now /\ new.finished = Missing
  BY DEF StartRun, LedgerOK, Row, Time, Statuses
<1>2. /\ run' \in [Runs -> Row] /\ now' = now
      /\ \A q \in Runs : run'[q] = IF q = r THEN new ELSE run[q]
  BY <1>1 DEF StartRun, LedgerOK
<1>3. LedgerOK'
  BY <1>1, <1>2 DEF LedgerOK, InTime, StartRun, Missing
<1>4. \A q \in Runs : Goes(q)
  BY <1>1, <1>2 DEF StartRun, Goes
<1> QED
  BY <1>3, <1>4, LedgerStepInv DEF StartRun

LEMMA EndRunInv ==
  ASSUME CronInv, NEW r \in Runs, NEW at \in {now, Missing}, EndRun(r, at)
  PROVE  CronInv'
<1> DEFINE new == [run[r] EXCEPT !.status = "ended", !.finished = at]
<1> USE DEF CronInv
<1>1. /\ new \in Row /\ new.status = "ended" /\ new.claimed = run[r].claimed
      /\ new.started = run[r].started /\ new.finished = at
  BY DEF EndRun, LedgerOK, Row, Time, Statuses
<1>2. /\ run' \in [Runs -> Row] /\ now' = now
      /\ \A q \in Runs : run'[q] = IF q = r THEN new ELSE run[q]
  BY <1>1 DEF EndRun, LedgerOK
<1>3. LedgerOK'
  BY <1>1, <1>2 DEF LedgerOK, InTime, EndRun
<1>4. \A q \in Runs : Goes(q)
  BY <1>1, <1>2 DEF EndRun, Goes
<1> QED
  BY <1>3, <1>4, LedgerStepInv DEF EndRun

LEMMA PruneInv == ASSUME CronInv, NEW r \in Runs, Prune(r) PROVE CronInv'
<1> DEFINE new == [run[r] EXCEPT !.status = "gone", !.started = Missing, !.finished = Missing]
<1> USE DEF CronInv
<1>1. /\ new \in Row /\ new.status = "gone" /\ new.claimed = run[r].claimed
      /\ new.started = Missing /\ new.finished = Missing
  BY DEF Prune, LedgerOK, Row, Time, Statuses
<1>2. /\ run' \in [Runs -> Row] /\ now' = now
      /\ \A q \in Runs : run'[q] = IF q = r THEN new ELSE run[q]
  BY <1>1 DEF Prune, LedgerOK
<1>3. LedgerOK'
  BY <1>1, <1>2 DEF LedgerOK, InTime, Prune, Missing
<1>4. \A q \in Runs : Goes(q)
  BY <1>1, <1>2 DEF Prune, Goes
<1> QED
  BY <1>3, <1>4, LedgerStepInv DEF Prune

-----------------------------------------------------------------------------
(* The client, and the reads of a poll *)

LEMMA StartInv == ASSUME CronInv, Start PROVE CronInv'
<1> USE DEF CronInv
<1>1. PICK t \in {run[r].claimed : r \in InLedger} \cup {Missing} :
        /\ \A r \in InLedger : run[r].claimed <= t
        /\ cur' = [t |-> t, o |-> [r \in {q \in InLedger : run[q].status \notin Terminal} |-> run[r].status]]
  BY DEF Start
<1>2. /\ cur'.t = t
      /\ DOMAIN cur'.o = {q \in InLedger : run[q].status \notin Terminal}
      /\ \A r \in DOMAIN cur'.o : cur'.o[r] = run[r].status
  BY <1>1
<1>3. cur = NoCursor /\ ~Polling /\ told = {} /\ got = {} /\ UNCHANGED <<now, run, req, got>>
  BY DEF Start, HeardOK
<1>4. t \in Time /\ (t = Missing \/ \E r \in Runs : run[r].claimed = t)
  BY DEF InLedger, LedgerOK, Row, Time
<1>5. cur' # NoCursor
  BY <1>2, <1>4 DEF NoCursor, Time, Missing
<1>6. LedgerOK' /\ ReadOK'
  BY <1>3 DEF LedgerOK, ReadOK, Polling
<1>7. Held'
  <2>1. \A r \in DOMAIN cur'.o : /\ r \in Runs /\ cur'.o[r] \in Statuses
                                /\ run[r].status \in Later(cur'.o[r])
    BY <1>2 DEF InLedger, Later, Statuses, Terminal
  <2> QED
    BY <2>1, <1>2, <1>3, <1>4, <1>5 DEF Held
<1>8. \A r \in Runs :
        /\ <<r, "started">> \in told' <=> run[r].status \in Begun \cup {"gone"}
        /\ <<r, "finished">> \in told' <=> run[r].status \in Terminal \cup {"gone"}
  BY DEF Start, Event, Begun, Terminal
<1>9. HeardOK'
  <2>1. told' \subseteq Event /\ got' = {}
    BY <1>3 DEF Start
  <2>2. \A r \in Runs : run[r].status = "none" => ~Heard(r, "started")' /\ ~Heard(r, "finished")'
    BY <1>8, <2>1 DEF Heard, Begun, Terminal
  <2>3. \A r \in DOMAIN cur'.o : KnownAs(r, cur'.o[r], told' \cup got')
    BY <1>2, <1>8, <2>1 DEF KnownAs, InLedger, Begun, Terminal, Statuses
  <2>4. \A r \in InLedger \ DOMAIN cur'.o : HeardOf(r)'
    BY <1>1, <1>2, <1>3, <1>8, <2>1 DEF HeardOf, Heard, InLedger, Begun, Terminal
  <2> QED
    BY <2>1, <2>2, <2>3, <2>4, <1>3, <1>5 DEF HeardOK, HeardAs, InLedger
<1>10. OnlyOpenHeld'
  BY <1>2 DEF OnlyOpenHeld
<1> QED
  BY <1>6, <1>7, <1>9, <1>10

\* Steps that concern the request only.
LEMMA RequestStepInv ==
  ASSUME CronInv, UNCHANGED <<now, run, cur, told, got>>, ReadOK'
  PROVE  CronInv'
  BY DEF CronInv, LedgerOK, Held, HeardOK, HeardAs, HeardOf, Heard, InLedger, OnlyOpenHeld

LEMMA BeginPollInv == ASSUME CronInv, BeginPoll PROVE CronInv'
<1>1. ReadOK'
  BY DEF BeginPoll, ReadOK, Polling
<1> QED
  BY <1>1, RequestStepInv DEF BeginPoll

\* What is read again is in the ledger now, or gone.
LEMMA RereadInv ==
  ASSUME CronInv, ~MayFail, NEW r \in Runs, Reread(r)
  PROVE  CronInv'
<1> USE DEF CronInv
<1>1. Polling /\ r \in req.todo /\ r \in DOMAIN cur.o /\ UNCHANGED <<now, run, cur, told, got>>
  BY DEF Reread, ReadOK
<1>2. CASE /\ r \in InLedger
           /\ req' = [req EXCEPT !.todo = @ \ {r},
                                 !.seen = [q \in DOMAIN @ \cup {r} |-> IF q = r THEN run[r] ELSE @[q]]]
  <2>1. /\ DOMAIN req' = DOMAIN req
        /\ req'.todo = req.todo \ {r}
        /\ req'.seen = [q \in DOMAIN req.seen \cup {r} |-> IF q = r THEN run[r] ELSE req.seen[q]]
    BY <1>1, <1>2 DEF ReadOK
  <2>2. run[r] \in Row /\ InTime(run[r]) /\ run[r].status \in Statuses /\ run[r].status \in Later(cur.o[r])
    BY <1>1, <1>2 DEF LedgerOK, InLedger, Held, ReadOK
  <2>3. run[r].status \in Later(run[r].status)
    BY <2>2 DEF Later, Statuses
  <2> QED
    BY <1>1, <2>1, <2>2, <2>3, RequestStepInv DEF ReadOK
<1>3. CASE r \notin InLedger /\ req' = [req EXCEPT !.todo = @ \ {r}]
  <2>1. DOMAIN req' = DOMAIN req /\ req'.todo = req.todo \ {r} /\ req'.seen = req.seen
    BY <1>1, <1>3 DEF ReadOK
  <2>2. run[r].status = "gone"
    BY <1>1, <1>3 DEF InLedger, Held, ReadOK, Later, Statuses
  <2> QED
    BY <1>1, <2>1, <2>2, RequestStepInv DEF ReadOK
<1> QED
  BY <1>2, <1>3 DEF Reread

LEMMA LoseAnswerInv == ASSUME CronInv, LoseAnswer PROVE CronInv'
<1>1. ReadOK'
  BY DEF LoseAnswer, ReadOK, Polling, Idle
<1> QED
  BY <1>1, RequestStepInv DEF LoseAnswer

-----------------------------------------------------------------------------
(* The answer of a poll *)

RowsNow == RowsRead(cur.t, req.seen)
EventsNow == EventsRead(RowsNow, cur.o, req.seen)
KnownNow(r) == Known(r, cur.o, req.seen)

\* The rows are those of the ledger as they were read; those read again are
\* those of the cursor; and the client has heard of each what it knows.
LEMMA RowsFacts ==
  ASSUME CronInv, Polling, req.todo = {}
  PROVE  \A r \in DOMAIN RowsNow :
           /\ r \in Runs /\ RowsNow[r] \in Row /\ InTime(RowsNow[r])
           /\ RowsNow[r].status \in Statuses
           /\ RowsNow[r].claimed = run[r].claimed /\ run[r].claimed # Missing
           /\ run[r].status \in Later(RowsNow[r].status)
           /\ r \in DOMAIN cur.o => KnownNow(r) = cur.o[r]
           /\ r \notin DOMAIN cur.o => KnownNow(r) = "none" /\ run[r].claimed > cur.t
           /\ KnownNow(r) # "none" => KnownNow(r) \in Statuses /\ RowsNow[r].status \in Later(KnownNow(r))
           /\ KnownAs(r, KnownNow(r), told \cup got)
<1> USE DEF CronInv
<1> SUFFICES ASSUME NEW r \in DOMAIN RowsNow
             PROVE  /\ r \in Runs /\ RowsNow[r] \in Row /\ InTime(RowsNow[r])
                    /\ RowsNow[r].status \in Statuses
                    /\ RowsNow[r].claimed = run[r].claimed /\ run[r].claimed # Missing
                    /\ run[r].status \in Later(RowsNow[r].status)
                    /\ r \in DOMAIN cur.o => KnownNow(r) = cur.o[r]
                    /\ r \notin DOMAIN cur.o => KnownNow(r) = "none" /\ run[r].claimed > cur.t
                    /\ KnownNow(r) # "none" => KnownNow(r) \in Statuses /\ RowsNow[r].status \in Later(KnownNow(r))
                    /\ KnownAs(r, KnownNow(r), told \cup got)
  OBVIOUS
<1>1. CASE r \in DOMAIN req.seen
  <2>1. RowsNow[r] = req.seen[r] /\ KnownNow(r) = cur.o[r] /\ r \in DOMAIN cur.o
    BY <1>1 DEF RowsNow, RowsRead, KnownNow, Known, ReadOK
  <2>2. r \in Runs /\ cur.o[r] \in Statuses /\ run[r].status # "none" /\ cur # NoCursor
    BY <2>1 DEF ReadOK, Held, Later, Statuses
  <2>3. run[r].claimed # Missing
    BY <2>2 DEF LedgerOK
  <2>4. KnownAs(r, cur.o[r], told \cup got)
    BY <2>1, <2>2 DEF HeardOK, HeardAs
  <2>5. /\ req.seen[r] \in Row /\ InTime(req.seen[r])
        /\ req.seen[r].status \in Statuses /\ req.seen[r].status \in Later(cur.o[r])
        /\ req.seen[r].claimed = run[r].claimed
        /\ run[r].status \in Later(req.seen[r].status)
    BY <1>1 DEF ReadOK
  <2> HIDE DEF CronInv
  <2> QED
    BY <2>1, <2>2, <2>3, <2>4, <2>5
<1>2. CASE r \notin DOMAIN req.seen
  <2>1. r \in InLedger /\ run[r].claimed > cur.t /\ RowsNow[r] = run[r] /\ KnownNow(r) = "none"
    BY <1>2 DEF RowsNow, RowsRead, Paged, KnownNow, Known
  <2>2. r \in Runs /\ run[r].status \in Statuses
    BY <2>1 DEF InLedger
  <2>3. r \notin DOMAIN cur.o /\ cur # NoCursor
    BY <1>2, <2>2 DEF ReadOK, Statuses
  <2>4. ~(run[r].claimed <= cur.t)
    BY <2>1, <2>2, <2>3 DEF Held, LedgerOK, Row, Time, Missing
  <2>5. KnownAs(r, "none", told \cup got)
    BY <2>1, <2>3, <2>4 DEF HeardOK, HeardOf, Heard, KnownAs, Begun, Terminal
  <2>6. run[r] \in Row /\ InTime(run[r]) /\ run[r].claimed # Missing /\ run[r].status \in Later(run[r].status)
    BY <2>2 DEF LedgerOK, Later, Statuses
  <2>7. /\ r \in Runs /\ RowsNow[r] \in Row /\ InTime(RowsNow[r])
        /\ RowsNow[r].status \in Statuses /\ RowsNow[r].claimed = run[r].claimed
        /\ run[r].status \in Later(RowsNow[r].status)
    BY <2>1, <2>2, <2>6
  <2>8. /\ r \in DOMAIN cur.o => KnownNow(r) = cur.o[r]
        /\ r \notin DOMAIN cur.o => KnownNow(r) = "none" /\ run[r].claimed > cur.t
    BY <2>1, <2>3
  <2>9. KnownAs(r, KnownNow(r), told \cup got)
    BY <2>1, <2>5
  <2> HIDE DEF CronInv
  <2> QED
    BY <2>1, <2>6, <2>7, <2>8, <2>9
<1> QED
  BY <1>1, <1>2

\* The events of the poll, run by run.
LEMMA EventsFacts ==
  ASSUME CronInv, Polling, req.todo = {}
  PROVE  /\ EventsNow \subseteq Event
         /\ \A e \in EventsNow : e[1] \in DOMAIN RowsNow
         /\ \A r \in DOMAIN RowsNow :
              /\ <<r, "started">> \in EventsNow <=>
                   KnownNow(r) \notin Begun /\ RowsNow[r].status \in Begun
              /\ <<r, "finished">> \in EventsNow <=>
                   KnownNow(r) \notin Terminal /\ RowsNow[r].status \in Terminal
<1> DEFINE Of(r) == EventsOf(r, RowsNow[r].status, KnownNow(r))
<1>1. EventsNow = UNION {Of(r) : r \in DOMAIN RowsNow}
  BY DEF EventsNow, EventsRead, KnownNow
<1>2. \A r : Of(r) \subseteq {<<r, "started">>, <<r, "finished">>}
  BY DEF EventsOf
<1>3. \A r : /\ <<r, "started">> \in Of(r) <=> KnownNow(r) \notin Begun /\ RowsNow[r].status \in Begun
             /\ <<r, "finished">> \in Of(r) <=> KnownNow(r) \notin Terminal /\ RowsNow[r].status \in Terminal
  BY DEF EventsOf, Begun, Terminal
<1>4. DOMAIN RowsNow \subseteq Runs
  BY RowsFacts
<1> HIDE DEF Of
<1>5. \A r \in DOMAIN RowsNow : \A phase : <<r, phase>> \in EventsNow <=> <<r, phase>> \in Of(r)
  BY <1>1, <1>2
<1>6. \A e \in EventsNow : e[1] \in DOMAIN RowsNow /\ e \in Event
  BY <1>1, <1>2, <1>4 DEF Event
<1> QED
  BY <1>3, <1>5, <1>6

\* Of the events of one run an answer never carries the end without the start.
LEMMA CutFacts ==
  ASSUME CronInv, Polling, req.todo = {},
         NEW emitted \in Cuts(EventsNow, RowsNow, req.seen), NEW r \in DOMAIN RowsNow
  PROVE  /\ emitted \subseteq EventsNow
         /\ <<r, "started">> \in EventsNow /\ <<r, "finished">> \in EventsNow =>
              Before(<<r, "started">>, <<r, "finished">>, RowsNow, req.seen)
         /\ <<r, "started">> \in EventsNow /\ <<r, "finished">> \in emitted => <<r, "started">> \in emitted
         /\ Complete(r, EventsNow, emitted) <=>
              /\ <<r, "started">> \in EventsNow => <<r, "started">> \in emitted
              /\ <<r, "finished">> \in EventsNow => <<r, "finished">> \in emitted
         /\ Shown(r, EventsNow, emitted) <=> <<r, "started">> \in emitted \/ <<r, "finished">> \in emitted
<1>1. emitted \subseteq EventsNow
  BY DEF Cuts
<1>2. StartTime(RowsNow[r]) <= EndTime(RowsNow[r])
  BY RowsFacts DEF StartTime, EndTime, InTime, Row, Time, Missing
<1>3. StartTime(RowsNow[r]) \in Int /\ EndTime(RowsNow[r]) \in Int
  BY RowsFacts, CronAssumption DEF StartTime, EndTime, Row, Time, Missing
<1>4. Before(<<r, "started">>, <<r, "finished">>, RowsNow, req.seen)
  BY <1>2, <1>3 DEF Before, TimeOf
<1>5. <<r, "started">> \in EventsNow /\ <<r, "finished">> \in emitted => <<r, "started">> \in emitted
  BY <1>4 DEF Cuts
<1>6. \A e \in EventsNow : e[1] = r => e = <<r, "started">> \/ e = <<r, "finished">>
  BY EventsFacts DEF Event
<1> QED
  BY <1>1, <1>4, <1>5, <1>6 DEF Complete, Shown

\* What the watermark may become.
LEMMA MarkFacts ==
  ASSUME CronInv, Polling, req.todo = {}, NEW done \in SUBSET DOMAIN RowsNow,
         NEW t, Mark(t, cur.t, RowsNow, done)
  PROVE  /\ t \in Time /\ cur.t \in Time /\ cur.t <= t
         /\ t = Missing \/ \E r \in Runs : run[r].claimed = t
         /\ \A r \in DOMAIN RowsNow : cur.t < RowsNow[r].claimed /\ RowsNow[r].claimed <= t => r \in done
<1>1. /\ cur.t \in Time
      /\ cur.t = Missing \/ \E r \in Runs : run[r].claimed = cur.t
  BY DEF CronInv, ReadOK, Held
<1>2. \A r \in DOMAIN RowsNow : r \in Runs /\ RowsNow[r].claimed = run[r].claimed /\ run[r].claimed \in Time
  BY RowsFacts DEF CronInv, LedgerOK, Row
<1>3. \A x \in Time : x \in Int
  BY CronAssumption DEF Time, Missing
<1>4. CASE t = cur.t /\ {c \in {RowsNow[r].claimed : r \in Ahead(cur.t, RowsNow)} :
                           {r \in Ahead(cur.t, RowsNow) : RowsNow[r].claimed <= c} \subseteq done} = {}
  <2>1. \A r \in DOMAIN RowsNow : ~(cur.t < RowsNow[r].claimed /\ RowsNow[r].claimed <= cur.t)
    BY <1>1, <1>2, <1>3
  <2>2. t = cur.t /\ cur.t <= cur.t
    BY <1>1, <1>3, <1>4
  <2> QED
    BY <1>1, <2>1, <2>2
<1>5. CASE t \in {c \in {RowsNow[r].claimed : r \in Ahead(cur.t, RowsNow)} :
                    {r \in Ahead(cur.t, RowsNow) : RowsNow[r].claimed <= c} \subseteq done}
  <2>1. PICK q \in Ahead(cur.t, RowsNow) : t = RowsNow[q].claimed
    BY <1>5
  <2>2. q \in DOMAIN RowsNow /\ RowsNow[q].claimed > cur.t
    BY <2>1 DEF Ahead
  <2>3. t = run[q].claimed /\ q \in Runs /\ t \in Time /\ cur.t <= t
    BY <1>1, <1>2, <1>3, <2>1, <2>2
  <2>4. \A r \in DOMAIN RowsNow : cur.t < RowsNow[r].claimed /\ RowsNow[r].claimed <= t => r \in done
    BY <1>5 DEF Ahead
  <2> QED
    BY <1>1, <2>3, <2>4
<1> QED
  BY <1>4, <1>5 DEF Mark

\* The next cursor, run by run: what it holds is what the client then knows,
\* and what it leaves out was told in full or is still to be found by the page.
LEMMA KeptFacts ==
  ASSUME CronInv, Polling, req.todo = {},
         NEW emitted \in Cuts(EventsNow, RowsNow, req.seen), NEW r \in DOMAIN RowsNow, NEW t
  PROVE  /\ Kept(r, t, cur.t, RowsNow, cur.o, EventsNow, emitted) =>
              LET status == StatusTold(r, RowsNow, cur.o, EventsNow, emitted)
              IN  /\ status \in Statuses /\ run[r].status \in Later(status)
                  /\ KnownAs(r, status, told \cup got \cup emitted)
                  /\ status \in Terminal => Complete(r, EventsNow, emitted)
         /\ Complete(r, EventsNow, emitted) =>
              /\ KnownAs(r, RowsNow[r].status, told \cup got \cup emitted)
              /\ StatusTold(r, RowsNow, cur.o, EventsNow, emitted) = RowsNow[r].status
<1> DEFINE known == KnownNow(r)
           status == StatusTold(r, RowsNow, cur.o, EventsNow, emitted)
           complete == Complete(r, EventsNow, emitted)
           shown == Shown(r, EventsNow, emitted)
           heard == told \cup got \cup emitted
<1>1. /\ RowsNow[r].status \in Statuses /\ run[r].status \in Later(RowsNow[r].status)
      /\ r \in DOMAIN cur.o => known = cur.o[r]
      /\ r \notin DOMAIN cur.o => known = "none"
      /\ known # "none" => known \in Statuses /\ RowsNow[r].status \in Later(known)
      /\ KnownAs(r, known, told \cup got)
  BY RowsFacts
<1>2. /\ <<r, "started">> \in EventsNow <=> known \notin Begun /\ RowsNow[r].status \in Begun
      /\ <<r, "finished">> \in EventsNow <=> known \notin Terminal /\ RowsNow[r].status \in Terminal
  BY EventsFacts
<1>3. /\ emitted \subseteq EventsNow
      /\ <<r, "started">> \in EventsNow /\ <<r, "finished">> \in emitted => <<r, "started">> \in emitted
      /\ complete <=>
           /\ <<r, "started">> \in EventsNow => <<r, "started">> \in emitted
           /\ <<r, "finished">> \in EventsNow => <<r, "finished">> \in emitted
      /\ shown <=> <<r, "started">> \in emitted \/ <<r, "finished">> \in emitted
  BY CutFacts
<1>4. /\ complete => status = RowsNow[r].status
      /\ ~complete /\ shown => status = "running"
      /\ ~complete /\ ~shown => status = cur.o[r]
  BY DEF StatusTold
<1>5. Kept(r, t, cur.t, RowsNow, cur.o, EventsNow, emitted) => complete \/ shown \/ r \in DOMAIN cur.o
  BY DEF Kept
<1> HIDE DEF known, status, complete, shown
<1>6. CASE complete
  <2>1. KnownAs(r, RowsNow[r].status, heard)
    BY <1>1, <1>2, <1>3, <1>6 DEF KnownAs, Begun, Terminal, Later, Statuses
  <2> QED
    BY <1>1, <1>4, <1>6, <2>1 DEF complete, status
<1>7. CASE ~complete /\ shown
  <2>1. /\ <<r, "started">> \in heard /\ <<r, "finished">> \notin heard
        /\ RowsNow[r].status = "ended" /\ status = "running"
    BY <1>1, <1>2, <1>3, <1>4, <1>7 DEF KnownAs, Begun, Terminal, Later, Statuses
  <2>2. /\ status \in Statuses /\ run[r].status \in Later(status)
        /\ KnownAs(r, status, heard) /\ status \notin Terminal
    BY <1>1, <2>1 DEF KnownAs, Begun, Terminal, Later, Statuses
  <2> QED
    BY <1>7, <2>2 DEF complete, status
<1>8. CASE ~complete /\ ~shown
  <2>1. /\ <<r, "started">> \notin emitted /\ <<r, "finished">> \notin emitted
        /\ known \notin Terminal
    BY <1>1, <1>2, <1>3, <1>8 DEF Begun, Terminal, Later, Statuses
  <2>2. ASSUME r \in DOMAIN cur.o
        PROVE  /\ status \in Statuses /\ run[r].status \in Later(status)
               /\ KnownAs(r, status, heard) /\ status \notin Terminal
    <3>1. status = known /\ known \in Statuses
      BY <1>1, <1>4, <1>8, <2>2 DEF CronInv, ReadOK, Held
    <3>2. run[r].status \in Later(known)
      BY <1>1, <3>1 DEF Later, Statuses
    <3>3. KnownAs(r, known, heard)
      BY <1>1, <2>1 DEF KnownAs
    <3> QED
      BY <2>1, <3>1, <3>2, <3>3
  <2> QED
    BY <1>5, <1>8, <2>2 DEF complete, status
<1> QED
  BY <1>6, <1>7, <1>8

\* What a poll answers, and where it leaves the cursor.
LEMMA RespondInv == ASSUME CronInv, Respond PROVE CronInv'
<1>1. Polling /\ req.todo = {} /\ UNCHANGED <<now, run, told>> /\ req'.phase = "answered"
  BY DEF Respond
<1>2. PICK emitted \in Cuts(EventsNow, RowsNow, req.seen) :
        /\ \E t \in {RowsNow[r].claimed : r \in DOMAIN RowsNow} \cup {cur.t} :
             /\ Mark(t, cur.t, RowsNow, {r \in DOMAIN RowsNow : Complete(r, EventsNow, emitted)})
             /\ cur' = [t |-> t,
                        o |-> [r \in {q \in DOMAIN RowsNow :
                                        Kept(q, t, cur.t, RowsNow, cur.o, EventsNow, emitted)}
                                 |-> StatusTold(r, RowsNow, cur.o, EventsNow, emitted)]]
        /\ got' = got \cup emitted
  BY Zenon DEF Respond, RowsNow, EventsNow
<1> DEFINE done == {r \in DOMAIN RowsNow : Complete(r, EventsNow, emitted)}
           StatusNow(r) == StatusTold(r, RowsNow, cur.o, EventsNow, emitted)
<1>3. PICK t : /\ Mark(t, cur.t, RowsNow, done)
               /\ cur' = [t |-> t,
                          o |-> [r \in {q \in DOMAIN RowsNow :
                                          Kept(q, t, cur.t, RowsNow, cur.o, EventsNow, emitted)}
                                   |-> StatusNow(r)]]
  BY <1>2
<1> DEFINE KeptNow(r) == Kept(r, t, cur.t, RowsNow, cur.o, EventsNow, emitted)
<1>4. /\ cur'.t = t
      /\ DOMAIN cur'.o = {r \in DOMAIN RowsNow : KeptNow(r)}
      /\ \A r \in DOMAIN cur'.o : cur'.o[r] = StatusNow(r)
  BY <1>3
<1>5. /\ t \in Time /\ cur.t \in Time /\ cur.t <= t
      /\ t = Missing \/ \E r \in Runs : run[r].claimed = t
      /\ \A r \in DOMAIN RowsNow : cur.t < RowsNow[r].claimed /\ RowsNow[r].claimed <= t => r \in done
  BY <1>1, <1>3, MarkFacts
<1>6. \A r \in DOMAIN RowsNow :
        /\ KeptNow(r) => /\ StatusNow(r) \in Statuses /\ run[r].status \in Later(StatusNow(r))
                         /\ KnownAs(r, StatusNow(r), told \cup got \cup emitted)
                         /\ StatusNow(r) \in Terminal => r \in done
        /\ r \in done => /\ KnownAs(r, RowsNow[r].status, told \cup got \cup emitted)
                         /\ StatusNow(r) = RowsNow[r].status
  BY <1>1, KeptFacts
<1>7. \A r \in DOMAIN RowsNow :
        KeptNow(r) <=> IF r \in done
                         THEN \/ RowsNow[r].status \notin Terminal
                              \/ RowsNow[r].claimed > cur.t /\ RowsNow[r].claimed > t
                         ELSE Shown(r, EventsNow, emitted) \/ r \in DOMAIN cur.o
  BY DEF Kept
<1>8. cur' # NoCursor /\ cur # NoCursor
  BY <1>1, <1>4, <1>5, CronAssumption DEF NoCursor, Time, Missing, CronInv, ReadOK
<1> HIDE DEF StatusNow, KeptNow
<1>9. Held'
  <2>1. \A r \in DOMAIN cur'.o : r \in Runs /\ cur'.o[r] \in Statuses /\ run[r].status \in Later(cur'.o[r])
    BY <1>1, <1>4, <1>6, RowsFacts
  <2> QED
    BY <1>1, <1>4, <1>5, <2>1 DEF Held
<1>10. LedgerOK' /\ ReadOK'
  BY <1>1, <1>2 DEF CronInv, LedgerOK, ReadOK, Polling
<1>11. OnlyOpenHeld'
  <2> SUFFICES ASSUME NEW r \in DOMAIN cur'.o, cur'.o[r] \in Terminal
               PROVE  run[r].claimed > t
    BY <1>1, <1>4 DEF OnlyOpenHeld
  <2>1. r \in DOMAIN RowsNow /\ KeptNow(r) /\ r \in done /\ RowsNow[r].status \in Terminal
    BY <1>4, <1>6
  <2> QED
    BY <1>1, <1>7, <2>1, RowsFacts
<1>12. emitted \subseteq Event /\ \A e \in emitted : e[1] \in DOMAIN RowsNow
  BY <1>1, EventsFacts DEF Cuts
<1>13. ASSUME NEW r \in InLedger, r \notin DOMAIN cur'.o
       PROVE  IF run[r].claimed <= t
              THEN <<r, "started">> \in told \cup got \cup emitted /\ <<r, "finished">> \in told \cup got \cup emitted
              ELSE <<r, "started">> \notin told \cup got \cup emitted /\ <<r, "finished">> \notin told \cup got \cup emitted
  <2>0. r \in Runs /\ run[r].status \in Statuses /\ run[r].claimed \in Time /\ \A x \in Time : x \in Int
    BY <1>13, CronAssumption DEF InLedger, CronInv, LedgerOK, Row, Time, Missing
  <2>1. CASE r \notin DOMAIN RowsNow
    <3>1. r \notin DOMAIN req.seen /\ ~(run[r].claimed > cur.t)
      BY <1>13, <2>1 DEF RowsNow, RowsRead, Paged
    <3>2. r \notin DOMAIN cur.o
      BY <1>1, <2>0, <3>1 DEF CronInv, ReadOK, Statuses
    <3>3. run[r].claimed <= cur.t /\ run[r].claimed <= t
      BY <1>5, <2>0, <3>1
    <3>4. HeardOf(r)
      BY <1>8, <1>13, <3>2 DEF CronInv, HeardOK
    <3> QED
      BY <3>3, <3>4 DEF HeardOf, Heard
  <2>2. CASE r \in done
    <3>1. RowsNow[r].status \in Terminal /\ run[r].claimed <= t
      BY <1>1, <1>4, <1>5, <1>7, <1>13, <2>0, <2>2, RowsFacts
    <3> QED
      BY <1>6, <2>2, <3>1 DEF KnownAs, Terminal, Begun
  <2>3. CASE r \in DOMAIN RowsNow /\ r \notin done
    <3>1. ~KeptNow(r) /\ r \notin DOMAIN cur.o /\ ~Shown(r, EventsNow, emitted)
      BY <1>4, <1>7, <1>13, <2>3
    <3>2. KnownNow(r) = "none" /\ RowsNow[r].claimed = run[r].claimed /\ run[r].claimed > cur.t
          /\ KnownAs(r, KnownNow(r), told \cup got)
      BY <1>1, <2>3, <3>1, RowsFacts
    <3>3. ~(run[r].claimed <= t)
      BY <1>5, <2>0, <2>3, <3>2
    <3>4. <<r, "started">> \notin emitted /\ <<r, "finished">> \notin emitted
      BY <1>1, <2>3, <3>1, CutFacts
    <3> QED
      BY <3>2, <3>3, <3>4 DEF KnownAs, Begun, Terminal
  <2> QED
    BY <2>1, <2>2, <2>3
<1>14. HeardOK'
  <2>1. told' \cup got' = told \cup got \cup emitted /\ told' \subseteq Event /\ got' \subseteq Event
    BY <1>1, <1>2, <1>12 DEF CronInv, HeardOK
  <2>2. ASSUME NEW r \in Runs, run[r].status = "none"
        PROVE  <<r, "started">> \notin told' \cup got' /\ <<r, "finished">> \notin told' \cup got'
    <3>1. r \notin DOMAIN RowsNow
      BY <1>1, <2>2, RowsFacts DEF CronInv, LedgerOK
    <3>2. <<r, "started">> \notin emitted /\ <<r, "finished">> \notin emitted
      BY <1>12, <3>1
    <3> QED
      BY <2>1, <2>2, <3>2 DEF CronInv, HeardOK, Heard
  <2>3. \A r \in DOMAIN cur'.o : KnownAs(r, cur'.o[r], told' \cup got')
    BY <1>4, <1>6, <2>1
  <2>4. \A r \in InLedger \ DOMAIN cur'.o : HeardOf(r)'
    BY <1>1, <1>4, <1>13, <2>1 DEF HeardOf, Heard
  <2> QED
    BY <1>1, <1>8, <2>1, <2>2, <2>3, <2>4 DEF HeardOK, HeardAs, Heard, InLedger
<1> QED
  BY <1>9, <1>10, <1>11, <1>14 DEF CronInv

\* An answer carries nothing the client has heard, and no end without its start.
LEMMA AnswerFacts ==
  ASSUME CronInv, Respond
  PROVE  /\ req'.emitted \cap (told \cup got) = {}
         /\ \A r \in Runs : <<r, "finished">> \in req'.emitted =>
              \/ Heard(r, "started")
              \/ <<r, "started">> \in req'.emitted /\ r \in req'.inOrder
<1>1. Polling /\ req.todo = {}
  BY DEF Respond
<1>2. PICK emitted \in Cuts(EventsNow, RowsNow, req.seen) :
        \E starved :
          req' = [phase |-> "answered", emitted |-> emitted, starved |-> starved,
                  inOrder |-> {r \in {q \in DOMAIN RowsNow : Complete(q, EventsNow, emitted)} :
                                 /\ <<r, "started">> \in emitted
                                 /\ Before(<<r, "started">>, <<r, "finished">>, RowsNow, req.seen)}]
  BY Zenon DEF Respond, RowsNow, EventsNow
<1>3. /\ req'.emitted = emitted
      /\ req'.inOrder = {r \in {q \in DOMAIN RowsNow : Complete(q, EventsNow, emitted)} :
                           /\ <<r, "started">> \in emitted
                           /\ Before(<<r, "started">>, <<r, "finished">>, RowsNow, req.seen)}
  BY <1>2
<1>4. emitted \subseteq EventsNow /\ emitted \subseteq Event /\ \A e \in emitted : e[1] \in DOMAIN RowsNow
  BY <1>1, EventsFacts DEF Cuts
<1>5. ASSUME NEW e \in emitted
      PROVE  e \notin told \cup got
  <2>1. PICK r \in DOMAIN RowsNow : e = <<r, "started">> \/ e = <<r, "finished">>
    BY <1>4, <1>5 DEF Event
  <2>2. e \in EventsNow
    BY <1>4, <1>5
  <2> QED
    BY <1>1, <2>1, <2>2, EventsFacts, RowsFacts DEF KnownAs
<1>6. ASSUME NEW r \in Runs, <<r, "finished">> \in emitted, ~Heard(r, "started")
      PROVE  <<r, "started">> \in emitted /\ r \in req'.inOrder
  <2>1. r \in DOMAIN RowsNow /\ <<r, "finished">> \in EventsNow
    BY <1>4, <1>6
  <2>2. KnownNow(r) \notin Begun
    BY <1>1, <1>6, <2>1, RowsFacts DEF KnownAs, Heard
  <2>3. RowsNow[r].status \in Begun
    BY <1>1, <2>1, EventsFacts DEF Begun
  <2>4. <<r, "started">> \in EventsNow
    BY <1>1, <2>1, <2>2, <2>3, EventsFacts
  <2> QED
    BY <1>1, <1>3, <1>6, <2>1, <2>4, CutFacts
<1> QED
  BY <1>3, <1>5, <1>6

LEMMA NextInv == ASSUME ~MayFail, CronInv, Next PROVE CronInv'
<1>1. CASE Tick
  BY <1>1, TickInv
<1>2. CASE \E rs \in SUBSET Runs : Claim(rs)
  BY <1>2, ClaimInv
<1>3. ASSUME NEW r \in Runs,
             \/ StartRun(r) \/ \E at \in {now, Missing} : EndRun(r, at)
             \/ Prune(r) \/ Reread(r)
      PROVE  CronInv'
  BY <1>3, StartRunInv, EndRunInv, PruneInv, RereadInv
<1>4. CASE Start \/ BeginPoll \/ Respond \/ LoseAnswer
  BY <1>4, StartInv, BeginPollInv, RespondInv, LoseAnswerInv
<1> QED
  BY <1>1, <1>2, <1>3, <1>4 DEF Next

LEMMA StutterInv == ASSUME CronInv, UNCHANGED vars PROVE CronInv'
<1>1. ReadOK'
  BY DEF vars, CronInv, ReadOK, Polling
<1> QED
  BY <1>1, RequestStepInv DEF vars

\* Only Respond answers.
LEMMA AnsweredByRespond ==
  ASSUME CronInv, [Next]_vars, Polling, req'.phase = "answered"
  PROVE  Respond
<1>1. CASE UNCHANGED req
  BY <1>1 DEF Polling
<1>2. CASE \E r \in Runs : Reread(r)
  BY <1>2 DEF Reread, Polling, CronInv, ReadOK
<1>3. CASE LoseAnswer
  BY <1>3 DEF LoseAnswer, Idle
<1>4. CASE BeginPoll
  BY <1>4 DEF BeginPoll
<1>5. CASE UNCHANGED vars \/ Tick \/ Start
  BY <1>1, <1>5 DEF vars, Tick, Start
<1>6. CASE \E rs \in SUBSET Runs : Claim(rs)
  BY <1>1, <1>6 DEF Claim
<1>7. CASE \E r \in Runs : StartRun(r) \/ (\E at \in {now, Missing} : EndRun(r, at)) \/ Prune(r)
  BY <1>1, <1>7 DEF StartRun, EndRun, Prune
<1> QED
  BY <1>2, <1>3, <1>4, <1>5, <1>6, <1>7 DEF Next

-----------------------------------------------------------------------------
(* The theorems: while the re-reading of an execution does not fail.         *)

\* The cursor stands for what the client has heard, whatever was cut, lost or
\* changed while the poll was reading.
THEOREM CursorInvariant == ASSUME ~MayFail PROVE Spec => []CronInv
<1>1. Init => CronInv
  BY InitInv
<1>2. CronInv /\ [Next]_vars => CronInv'
  BY NextInv, StutterInv
<1> QED
  BY <1>1, <1>2, PTL DEF Spec

\* The rows, the cursor and the request have their types, and a run is held in
\* a status it has reached.
THEOREM CronTypeCorrect == ASSUME ~MayFail PROVE Spec => []TypeOK
<1>1. CronInv => TypeOK
  <2> SUFFICES ASSUME CronInv PROVE TypeOK
    OBVIOUS
  <2>1. CursorOK
    BY DEF CronInv, Held, CursorOK, Later, Statuses
  <2> QED
    BY <2>1 DEF CronInv, LedgerOK, ReadOK, HeardOK, TypeOK
<1> QED
  BY <1>1, CursorInvariant, PTL

\* No run the ledger keeps falls between the cursor and what was told: what is
\* behind the watermark and not held was told of in full.
THEOREM NothingFallsThrough == ASSUME ~MayFail PROVE Spec => []NoGap
<1>1. CronInv => NoGap
  <2> SUFFICES ASSUME CronInv, cur # NoCursor, NEW r \in InLedger
               PROVE  IF r \in DOMAIN cur.o
                        THEN /\ cur.o[r] = "claimed" => ~Heard(r, "started")
                             /\ cur.o[r] \in Begun => Heard(r, "started")
                             /\ Heard(r, "finished") <=> cur.o[r] \in Terminal
                        ELSE IF run[r].claimed <= cur.t
                          THEN Heard(r, "started") /\ Heard(r, "finished")
                          ELSE ~Heard(r, "started") /\ ~Heard(r, "finished")
    BY DEF NoGap
  <2> QED
    BY DEF CronInv, HeardOK, HeardAs, HeardOf, KnownAs, Heard, Begun, Terminal
<1> QED
  BY <1>1, CursorInvariant, PTL

\* The cursor a client carries does not grow with the history: a finished run
\* is held only while it is ahead of the watermark.
THEOREM CursorStaysSmall == ASSUME ~MayFail PROVE Spec => []OnlyOpenHeld
<1>1. CronInv => OnlyOpenHeld
  BY DEF CronInv
<1> QED
  BY <1>1, CursorInvariant, PTL

\* However polls, cuts, lost answers and the scheduler interleave, no event of
\* a run reaches the client twice.
THEOREM ToldOnce == ASSUME ~MayFail PROVE Spec => NoEventTwice
<1>1. CronInv /\ [Next]_vars =>
        (req'.phase = "answered" /\ Polling => req'.emitted \cap (told \cup got) = {})
  BY AnsweredByRespond, AnswerFacts
<1> QED
  BY <1>1, CursorInvariant, PTL DEF NoEventTwice, Spec

\* The end of a run never reaches the client before its start.
THEOREM StartComesFirst == ASSUME ~MayFail PROVE Spec => StartBeforeFinish
<1>1. CronInv /\ [Next]_vars =>
        (req'.phase = "answered" /\ Polling =>
           \A r \in Runs : <<r, "finished">> \in req'.emitted =>
             \/ Heard(r, "started")
             \/ <<r, "started">> \in req'.emitted /\ r \in req'.inOrder)
  BY AnsweredByRespond, AnswerFacts
<1> QED
  BY <1>1, CursorInvariant, PTL DEF StartBeforeFinish, Spec

=============================================================================
