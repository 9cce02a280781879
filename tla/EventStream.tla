---------------------------- MODULE EventStream ----------------------------
(***************************************************************************)
(* GET /deskrpg/events and POST /deskrpg/events/handoff.                   *)
(*                                                                         *)
(* A board keeps two logs: the rows of Hermes' task_events table ("k") and *)
(* the lines of the plugin's deletion log ("d").  The host keeps one more, *)
(* the artifact_events table ("a").  A client holds one cursor per board,  *)
(* a position in each log; the board that also carries the host-wide log   *)
(* is the carrier.  A poll reads what lies behind the cursor, merges it by *)
(* time, cuts it at the limit and moves every position only as far as what *)
(* the answer carries.                                                     *)
(*                                                                         *)
(* The poll is two steps, since the task_events connection is closed       *)
(* before the other logs are read: cards are written and deleted between   *)
(* them.  The cron source is module CronTail.                              *)
(***************************************************************************)
EXTENDS Integers, Sequences, FiniteSets

CONSTANTS Boards,       \* board slugs
          Cards,        \* task ids
          Writers,      \* processes that record artifact events
          Kinds,        \* kinds of artifact_events rows
          Opted,        \* the kinds the client names in include=
          Limits,       \* the limits a poll may ask for, after clamp_limit
          NoBoard,      \* "no carrier yet"
          MaxClock,     \* bound on the clock, in seconds
          MaxRows,      \* bound on the task_events rows of a board
          MaxArtifacts  \* bound on the artifact_events rows

ASSUME StreamAssumption ==
  /\ Limits \subseteq Nat \ {0}
  /\ Opted \subseteq Kinds
  /\ NoBoard \notin Boards
  /\ MaxClock \in Nat /\ MaxRows \in Nat /\ MaxArtifacts \in Nat

VARIABLES
  now,      \* int(time.time())
  klog,     \* klog[b]: every task_events row ever written, by id
  kgone,    \* kgone[b]: ids deleted again together with their card
  card,     \* card[b][c]: "none", "live", "erased" (rows deleted) or "logged"
  dlog,     \* dlog[b]: the lines of deskrpg_deleted.jsonl
  alog,     \* the artifact_events rows, by id
  writer,   \* writer[w]: the clock value a store has read, or Missing
  cur,      \* cur[b]: the client's cursor, or NoCursor
  carrier,  \* the board whose polls opt in to the host-wide log
  archived, \* boards the client polls no more
  req,      \* the request in flight, or the last one answered
  base,     \* base[b]: the cursor the client started from
  got       \* got.k[b], got.d[b], got.a: positions delivered so far

server == <<now, klog, kgone, card, dlog, alog, writer>>
client == <<cur, carrier, archived, req, base, got>>
vars == <<now, klog, kgone, card, dlog, alog, writer,
          cur, carrier, archived, req, base, got>>

Missing == -1
NoCursor == [k |-> Missing, d |-> Missing, a |-> Missing]

RowKinds == {"quiet", "single", "finished"}
Row == [ts : 0..MaxClock, kind : RowKinds, card : Cards]
Line == [ts : 0..MaxClock, card : Cards]
Artifact == [ts : 0..MaxClock, kind : Kinds]
Position == Nat \cup {Missing}
Cursor == [k : Position, d : Position, a : Position]

-----------------------------------------------------------------------------
(* The logs *)

\* Ids still in the task_events table of board b.
Present(b) == DOMAIN klog[b] \ kgone[b]

\* Ids of the artifact_events rows of the kinds the client opted in to.
Chosen == {i \in DOMAIN alog : alog[i].kind \in Opted}

\* WHERE id > since ORDER BY id ASC LIMIT n
TailOf(ids, since, n) ==
  {i \in ids : i > since /\ Cardinality({j \in ids : since < j /\ j < i}) < n}

\* SELECT COALESCE(MAX(id), 0): the one m for which this holds
IsMaxId(m, ids) == /\ m \in ids \cup {0}
                   /\ \A i \in ids : i <= m

-----------------------------------------------------------------------------
(* Events, their order and the cut *)

\* The events of the row i of board b; a "finished" row tells a second one,
\* task.status, when the card's status had changed at the time it was read.
RowEvents(b, i, pairs) ==
  {[src |-> "k", pos |-> i, sub |-> s, ts |-> klog[b][i].ts, card |-> klog[b][i].card] :
     s \in IF klog[b][i].kind = "quiet" THEN {}
           ELSE IF i \in pairs THEN {0, 1} ELSE {0}}

LineEvents(b, ns) ==
  {[src |-> "d", pos |-> n, sub |-> 0, ts |-> dlog[b][n].ts, card |-> dlog[b][n].card] : n \in ns}

ArtifactEvents(is) ==
  {[src |-> "a", pos |-> i, sub |-> 0, ts |-> alog[i].ts, card |-> Missing] : i \in is}

\* (slip) a deletion sorts before what happened to the card in the same second
DeletionFirst == [k |-> 1, d |-> 0, a |-> 3]

SourceRank == [k |-> 0, d |-> 1, a |-> 3]

\* e sorts before f: by time, then by source, then by place in the source.
Before(e, f) ==
  \/ e.ts < f.ts
  \/ e.ts = f.ts /\ SourceRank[e.src] < SourceRank[f.src]
  \/ e.ts = f.ts /\ e.src = f.src /\ e.pos < f.pos
  \/ e.ts = f.ts /\ e.src = f.src /\ e.pos = f.pos /\ e.sub < f.sub

First(n, events) ==
  {e \in events : Cardinality({f \in events : Before(f, e)}) < n}

\* The limit falls between the two events of one row.
SplitsPair(events, n) ==
  \E e \in First(n, events), f \in events \ First(n, events) :
    e.src = "k" /\ f.src = "k" /\ e.pos = f.pos

\* (slip) the cut ignores pairs
EmittedAnyhow(events, limit) == First(limit, events)

\* (slip) a pair the limit would split always waits, also when it is first
EmittedLater(events, limit) ==
  IF ~SplitsPair(events, limit) THEN First(limit, events) ELSE First(limit - 1, events)

\* What an answer of at most `limit` events carries: a pair that the limit
\* would split is left for the next answer, or carried whole if it is first.
Emitted(events, limit) ==
  IF ~SplitsPair(events, limit) THEN First(limit, events)
  ELSE First(IF limit > 1 THEN limit - 1 ELSE limit + 1, events)

\* Positions of source s that the events come from.
PositionsIn(s, events) == {e.pos : e \in {x \in events : x.src = s}}

\* Positions of source s that some event not carried comes from.
Cut(s, events, emitted) == PositionsIn(s, events \ emitted)

\* (slip) the position moves to the last one carried, over what was cut
AdvancedOverCut(new, old, read, cut) ==
  \/ new \in read \ cut /\ \A i \in read \ cut : i <= new
  \/ new = old /\ read \subseteq cut

\* (slip) the position stops before the last one carried
AdvancedShort(new, old, read, cut) ==
  \/ new \in read \ cut /\ Cardinality({i \in read \ cut : i > new}) = 1
  \/ new = old /\ Cardinality(read \ cut) < 2

\* `new` is the last position read up to which everything is carried, and
\* `old` if there is none.
Advanced(new, old, read, cut) ==
  LET done == {i \in read : \A j \in read : j <= i => j \notin cut}
  IN  \/ new \in done /\ \A i \in done : i <= new
      \/ new = old /\ done = {}

\* (slip) rows that tell no event hide the rows behind them
HasMoreEvents(events, emitted, ids, as, limit) == events # emitted

HasMore(events, emitted, ids, as, limit) ==
  \/ events # emitted
  \/ Cardinality(ids) > limit
  \/ Cardinality(as) > limit

-----------------------------------------------------------------------------
(* The writers: Hermes' kanban workers, the delete handler, artifact stores *)

Tick ==
  /\ now < MaxClock
  /\ now' = now + 1
  /\ UNCHANGED <<klog, kgone, card, dlog, alog, writer, client>>

\* Hermes writes a row about a card; the first row of a card creates it.
AppendRow(b, c, kind) ==
  /\ Len(klog[b]) < MaxRows
  /\ \/ card[b][c] = "none" /\ kind = "single"
     \/ card[b][c] = "live"
  /\ klog' = [klog EXCEPT ![b] = Append(@, [ts |-> now, kind |-> kind, card |-> c])]
  /\ card' = [card EXCEPT ![b][c] = "live"]
  /\ UNCHANGED <<now, kgone, dlog, alog, writer, client>>

\* (slip) delete_task leaves the card's rows in the table
EraseCardOnly(b, c) ==
  /\ card[b][c] = "live"
  /\ card' = [card EXCEPT ![b][c] = "erased"]
  /\ UNCHANGED <<now, klog, kgone, dlog, alog, writer, client>>

\* delete_task commits: the card goes and its task_events rows with it.
EraseCard(b, c) ==
  /\ card[b][c] = "live"
  /\ card' = [card EXCEPT ![b][c] = "erased"]
  /\ kgone' = [kgone EXCEPT ![b] = @ \cup {i \in DOMAIN klog[b] : klog[b][i].card = c}]
  /\ UNCHANGED <<now, klog, dlog, alog, writer, client>>

\* Then append_deleted.  A gateway that stops in between never takes this
\* step: the card stays "erased" and nothing tells of its deletion.
LogDeletion(b, c) ==
  /\ card[b][c] = "erased"
  /\ card' = [card EXCEPT ![b][c] = "logged"]
  /\ dlog' = [dlog EXCEPT ![b] = Append(@, [ts |-> now, card |-> c])]
  /\ UNCHANGED <<now, klog, kgone, alog, writer, client>>

\* A store reads the clock before it waits for the write lock ...
ReadClock(w) ==
  /\ writer[w] = Missing
  /\ Len(alog) < MaxArtifacts
  /\ writer' = [writer EXCEPT ![w] = now]
  /\ UNCHANGED <<now, klog, kgone, card, dlog, alog, client>>

\* ... and commits its event with that time once it has the lock,
CommitArtifact(w, kind) ==
  /\ writer[w] # Missing
  /\ Len(alog) < MaxArtifacts
  /\ alog' = Append(alog, [ts |-> writer[w], kind |-> kind])
  /\ writer' = [writer EXCEPT ![w] = Missing]
  /\ UNCHANGED <<now, klog, kgone, card, dlog, client>>

\* or leaves without one: the content is the head version's, or it failed.
AbandonArtifact(w) ==
  /\ writer[w] # Missing
  /\ writer' = [writer EXCEPT ![w] = Missing]
  /\ UNCHANGED <<now, klog, kgone, card, dlog, alog, client>>

-----------------------------------------------------------------------------
(* The client and the two handlers *)

Idle == [phase |-> "idle"]
Polling == req.phase = "reading"

\* now_state: no cursor was sent, so the answer is where the logs end now.
Start(b) ==
  /\ ~Polling
  /\ b \notin archived
  /\ cur[b] = NoCursor
  /\ \E m \in Present(b) \cup {0} :
       /\ IsMaxId(m, Present(b))
       /\ cur' = [cur EXCEPT ![b] =
                   [k |-> m, d |-> Len(dlog[b]),
                    a |-> IF carrier = b THEN Len(alog) ELSE Missing]]
  /\ base' = [base EXCEPT ![b] = cur'[b]]
  /\ UNCHANGED <<carrier, archived, req, got, server>>

\* The client makes b the board whose polls name include=.
OptIn(b) ==
  /\ ~Polling
  /\ carrier = NoBoard
  /\ carrier' = b
  /\ UNCHANGED <<cur, archived, req, base, got, server>>

\* First half of collect: the task_events rows behind the cursor, one more
\* than the limit, and what each of them says about its card at this moment.
ReadBoard(b, limit) ==
  /\ ~Polling
  /\ b \notin archived
  /\ cur[b] # NoCursor
  /\ LET ids == TailOf(Present(b), cur[b].k, limit + 1)
     IN  \E pairs \in SUBSET {i \in ids : klog[b][i].kind = "finished"} :
           req' = [phase |-> "reading", board |-> b, limit |-> limit, end |-> Len(klog[b]),
                   ids |-> ids, pairs |-> pairs]
  /\ UNCHANGED <<cur, carrier, archived, base, got, server>>

\* The position from which the host-wide log is read: a cursor without one
\* starts at the end of the log, and a poll that has not opted in reads nothing.
ArtifactsSince(b) ==
  IF carrier = b /\ cur[b].a = Missing THEN Len(alog) ELSE cur[b].a

\* (slip) the line at the cursor is read again
LinesFrom(b) == {n \in DOMAIN dlog[b] : n >= cur[b].d}

\* The lines behind the cursor, all of them, and the artifact_events rows that
\* a poll on the carrier reads.
LinesRead(b) == {n \in DOMAIN dlog[b] : n > cur[b].d}

ArtifactsRead(b, limit) ==
  IF carrier = b THEN TailOf(Chosen, ArtifactsSince(b), limit + 1) ELSE {}

RowsEvents(b, ids, pairs) == UNION {RowEvents(b, i, pairs) : i \in ids}

EventsRead(b, ids, pairs, limit) ==
  RowsEvents(b, ids, pairs)
    \cup LineEvents(b, LinesRead(b))
    \cup ArtifactEvents(ArtifactsRead(b, limit))

\* Second half: the other logs, the merge, the new cursor and the answer.
Answer(b, limit, ids, pairs, events, emitted) ==
  /\ \E k \in ids \cup {cur[b].k},
        d \in LinesRead(b) \cup {cur[b].d},
        a \in ArtifactsRead(b, limit) \cup {ArtifactsSince(b)} :
       /\ Advanced(k, cur[b].k, ids, Cut("k", events, emitted))
       /\ Advanced(d, cur[b].d, LinesRead(b), Cut("d", events, emitted))
       /\ Advanced(a, ArtifactsSince(b), ArtifactsRead(b, limit), Cut("a", events, emitted))
       /\ cur' = [cur EXCEPT ![b] = [k |-> k, d |-> d, a |-> a]]
  /\ base' = [base EXCEPT ![b].a = IF cur[b].a = Missing THEN ArtifactsSince(b) ELSE @]
  /\ got' = [k |-> [got.k EXCEPT ![b] = @ \cup PositionsIn("k", emitted)],
             d |-> [got.d EXCEPT ![b] = @ \cup PositionsIn("d", emitted)],
             a |-> got.a \cup PositionsIn("a", emitted)]
  /\ req' = [phase |-> "answered", board |-> b, events |-> emitted,
             more |-> HasMore(events, emitted, ids, ArtifactsRead(b, limit), limit)]

Respond ==
  /\ Polling
  /\ LET events == EventsRead(req.board, req.ids, req.pairs, req.limit)
     IN  Answer(req.board, req.limit, req.ids, req.pairs, events, Emitted(events, req.limit))
  /\ UNCHANGED <<carrier, archived, server>>

\* The answer does not reach the client, which keeps its cursor.
LoseAnswer ==
  /\ Polling
  /\ req' = Idle
  /\ UNCHANGED <<cur, carrier, archived, base, got, server>>

\* (slip) the new carrier starts at the end of the host-wide log
MergedNow(target, source) == [k |-> target.k, d |-> target.d, a |-> Len(alog)]

\* The new carrier's cursor: its own positions in the board's logs, the old
\* carrier's in the host-wide one.
Merged(target, source) == [k |-> target.k, d |-> target.d, a |-> source.a]

\* POST /deskrpg/events/handoff, after which the client polls the old carrier
\* no more.  The carrier's cursor must have a position in the host-wide log.
HandOff(b) ==
  /\ ~Polling
  /\ carrier \notin {b, NoBoard}
  /\ b \notin archived
  /\ cur[carrier].a # Missing
  /\ \E m \in Present(b) \cup {0} :
       /\ IsMaxId(m, Present(b))
       /\ LET target == IF cur[b] # NoCursor THEN cur[b]
                        ELSE [k |-> m, d |-> Len(dlog[b]), a |-> Missing]
              merged == Merged(target, cur[carrier])
          IN  /\ cur' = [cur EXCEPT ![b] = merged]
              /\ base' = [base EXCEPT ![b] =
                            [k |-> IF cur[b] = NoCursor THEN merged.k ELSE @.k,
                             d |-> IF cur[b] = NoCursor THEN merged.d ELSE @.d,
                             a |-> base[carrier].a]]
  /\ carrier' = b
  /\ archived' = archived \cup {carrier}
  /\ UNCHANGED <<req, got, server>>

-----------------------------------------------------------------------------

Init ==
  /\ now = 0
  /\ klog = [b \in Boards |-> <<>>]
  /\ kgone = [b \in Boards |-> {}]
  /\ card = [b \in Boards |-> [c \in Cards |-> "none"]]
  /\ dlog = [b \in Boards |-> <<>>]
  /\ alog = <<>>
  /\ writer = [w \in Writers |-> Missing]
  /\ cur = [b \in Boards |-> NoCursor]
  /\ carrier = NoBoard
  /\ archived = {}
  /\ req = Idle
  /\ base = [b \in Boards |-> NoCursor]
  /\ got = [k |-> [b \in Boards |-> {}], d |-> [b \in Boards |-> {}], a |-> {}]

Next ==
  \/ Tick
  \/ \E b \in Boards, c \in Cards :
       \/ \E kind \in RowKinds : AppendRow(b, c, kind)
       \/ EraseCard(b, c)
       \/ LogDeletion(b, c)
  \/ \E w \in Writers :
       \/ ReadClock(w)
       \/ \E kind \in Kinds : CommitArtifact(w, kind)
       \/ AbandonArtifact(w)
  \/ \E b \in Boards :
       \/ Start(b)
       \/ OptIn(b)
       \/ \E limit \in Limits : ReadBoard(b, limit)
       \/ HandOff(b)
  \/ Respond
  \/ LoseAnswer

Spec == Init /\ [][Next]_vars

\* The client polls every board it has not archived on every tick, and a poll
\* of a board repeated often enough is answered; nothing is asked of the writers.
FairSpec ==
  /\ Spec
  /\ \A b \in Boards :
       /\ SF_vars(\E limit \in Limits : ReadBoard(b, limit))
       /\ SF_vars(Respond /\ req.board = b)

-----------------------------------------------------------------------------
(* Correctness *)

LogTypes ==
  /\ now \in 0..MaxClock
  /\ klog \in [Boards -> Seq(Row)]
  /\ kgone \in [Boards -> SUBSET Nat]
  /\ dlog \in [Boards -> Seq(Line)]
  /\ alog \in Seq(Artifact)
  /\ card \in [Boards -> [Cards -> {"none", "live", "erased", "logged"}]]
  /\ writer \in [Writers -> 0..MaxClock \cup {Missing}]

ClientTypes ==
  /\ cur \in [Boards -> Cursor]
  /\ base \in [Boards -> Cursor]
  /\ carrier \in Boards \cup {NoBoard}
  /\ archived \subseteq Boards
  /\ got \in [k : [Boards -> SUBSET Nat], d : [Boards -> SUBSET Nat], a : SUBSET Nat]

OnlyLiveCardsHaveRows ==
  \A b \in Boards : \A i \in Present(b) : card[b][klog[b][i].card] = "live"

WithinLogs ==
  /\ \A b \in Boards :
       /\ kgone[b] \subseteq DOMAIN klog[b]
       /\ got.k[b] \subseteq DOMAIN klog[b]
       /\ got.d[b] \subseteq DOMAIN dlog[b]
       /\ cur[b].k <= Len(klog[b]) /\ cur[b].d <= Len(dlog[b]) /\ cur[b].a <= Len(alog)
  /\ got.a \subseteq DOMAIN alog

\* Variables have their types, a deleted card has no rows left, and no
\* position lies beyond the end of its log.
TypeOK == LogTypes /\ ClientTypes /\ OnlyLiveCardsHaveRows /\ WithinLogs

\* The rows a poll has read are the first ones behind the cursor, and stay so
\* until it answers: what is written meanwhile comes behind them.
RequestOK ==
  /\ req.phase \in {"idle", "reading", "answered"}
  /\ Polling =>
       /\ req.board \in Boards
       /\ req.limit \in Limits
       /\ cur[req.board] # NoCursor
       /\ req.end \in 0..Len(klog[req.board])
       /\ req.ids \subseteq {i \in 1..req.end : cur[req.board].k < i}
       /\ \A i \in Present(req.board), j \in req.ids :
            (cur[req.board].k < i /\ i < j) => i \in req.ids

\* Whatever lies between the place where the client started and its cursor
\* has been delivered, unless the card is deleted and its rows are gone: a
\* position only moves over events an answer carried (advance_kanban,
\* advance_deleted, advance_artifacts), also when the carrier changes.
NoGapOnBoard(b) ==
  /\ \A i \in Present(b) :
       (base[b].k < i /\ i <= cur[b].k /\ klog[b][i].kind # "quiet") => i \in got.k[b]
  /\ \A n \in DOMAIN dlog[b] : (base[b].d < n /\ n <= cur[b].d) => n \in got.d[b]

NoGapInArtifacts(b) ==
  \A i \in Chosen : (base[b].a < i /\ i <= cur[b].a) => i \in got.a

NoGap == \A b \in Boards : NoGapOnBoard(b) /\ NoGapInArtifacts(b)

\* The invariant that is inductive.
StreamInv == TypeOK /\ RequestOK /\ NoGap

\* An answer has just arrived.
Answered == req.phase = "reading" /\ req'.phase = "answered"

\* No answer carries an event of a board that an earlier answer carried, and
\* none that lies before the place where the client started.
NoRepeatOnBoard ==
  [][Answered => LET b == req.board
                 IN  \A e \in req'.events :
                       /\ e.src = "k" => e.pos > base[b].k /\ e.pos \notin got.k[b]
                       /\ e.src = "d" => e.pos > base[b].d /\ e.pos \notin got.d[b]]_vars

\* The same of the host-wide log.
NoRepeatOfArtifacts ==
  [][Answered => \A e \in req'.events : e.src = "a" => e.pos \notin got.a]_vars

\* What the last answer brought from source s, if one of the boards bs was polled.
LastBrought(s, bs) ==
  IF req.phase = "answered" /\ req.board \in bs THEN PositionsIn(s, req.events) ELSE {}

\* The deletion logs of the boards, and the host-wide log, as their reader has
\* to do with them.
LineStart == [b \in Boards |-> base[b].d]
LineLatest == [b \in Boards |-> LastBrought("d", {b})]

DeletionLogs == INSTANCE Delivery WITH
  Logs <- Boards, Entries <- Line, Told <- Line, Nowhere <- Missing,
  log <- dlog, start <- LineStart, heard <- got.d, latest <- LineLatest

HostStart == [s \in {"a"} |-> IF carrier = NoBoard THEN Missing ELSE base[carrier].a]
HostLatest == [s \in {"a"} |-> LastBrought("a", Boards)]

HostLog == INSTANCE Delivery WITH
  Logs <- {"a"}, Entries <- Artifact, Told <- {e \in Artifact : e.kind \in Opted}, Nowhere <- Missing,
  log <- [s \in {"a"} |-> alog], start <- HostStart,
  heard <- [s \in {"a"} |-> got.a], latest <- HostLatest

\* The stream keeps the promise of Delivery for the deletion log of each board:
\* every deletion that is logged behind the client's start is delivered in its
\* turn, once (deleted_tail, advance_deleted).
DeletionsDelivered == DeletionLogs!DeliverySpec

\* So it does for the host-wide log, whichever board carries it, as long as
\* one store at a time writes it (read_artifact_events, advance_artifacts).
ArtifactsDelivered == HostLog!DeliverySpec

\* An answer carries at most `limit` events, and one more only when it is the
\* two events of one row; the two events of a row are never in two answers.
PairsWhole ==
  [][Answered =>
       /\ \/ Cardinality(req'.events) <= req.limit
          \/ /\ req.limit = 1 /\ Cardinality(req'.events) = 2
             /\ \A e, f \in req'.events : e.src = "k" /\ f.src = "k" /\ e.pos = f.pos
       /\ \A e \in {x \in req'.events : x.src = "k"} :
            Cardinality({f \in req'.events : f.src = "k" /\ f.pos = e.pos})
              = IF e.pos \in req.pairs THEN 2 ELSE 1]_vars

\* An answer that says there is no more leaves nothing behind: all that was
\* in the logs when they were read is delivered now.
NoMoreMeansAll ==
  [][(Answered /\ ~req'.more) =>
       LET b == req.board
       IN  /\ \A i \in Present(b) :
                (base[b].k < i /\ i <= req.end /\ klog[b][i].kind # "quiet") => i \in got'.k[b]
           /\ \A n \in DOMAIN dlog[b] : base[b].d < n => n \in got'.d[b]
           /\ carrier = b => \A i \in Chosen : base'[b].a < i => i \in got'.a]_vars

\* The deletion of a card is the last thing the client hears of it: no answer
\* carries a row of the card later, nor behind the deletion in the same answer.
Rank(e, events) == Cardinality({f \in events : Before(f, e)})

DeletionIsLast ==
  [][Answered =>
       \A e \in {x \in req'.events : x.src = "k"} :
         /\ \A n \in got.d[req.board] : dlog[req.board][n].card # e.card
         /\ \A f \in req'.events : (f.src = "d" /\ f.card = e.card) =>
              Rank(e, req'.events) < Rank(f, req'.events)]_vars

\* Every row recorded behind a cursor is passed by it in the end, so by NoGap
\* delivered, as long as the client polls: not even a limit of one stops it at a
\* pair (merge), nor do pages of rows that tell no event (_fully_emitted_prefix).
Reached(b, i) == cur[b].k >= i \/ i \in kgone[b] \/ b \in archived

RowsArrive ==
  \A b \in Boards, i \in 1..MaxRows :
    (i \in Present(b) /\ cur[b] # NoCursor) ~> Reached(b, i)

\* So is every logged deletion,
DeletionsArrive ==
  \A b \in Boards, n \in 1..Cardinality(Cards) :
    (n \in DOMAIN dlog[b] /\ cur[b] # NoCursor) ~> (cur[b].d >= n \/ b \in archived)

CarrierPosition == IF carrier = NoBoard THEN Missing ELSE cur[carrier].a

\* and every artifact event of a kind the client opted in to,
ArtifactsArrive ==
  \A i \in 1..MaxArtifacts :
    (i \in Chosen /\ CarrierPosition # Missing) ~> CarrierPosition >= i

\* however many events of the other logs compete for the same answers.
LogsArrive == DeletionsArrive /\ ArtifactsArrive

=============================================================================
