-------------------------- MODULE McpOAuthProofs ---------------------------
(* Attempts do not overlap, and no rollback takes a later approval back,    *)
(* but for the attempts the plugin was made to let go of.                   *)
EXTENDS McpOAuth, TLAPS

-----------------------------------------------------------------------------
(* The inductive invariant *)

WorkerState == [phase : {"running", "committed", "undoing", "done"}, code : BOOLEAN,
           cancelled : BOOLEAN, before : Nat]
Call == {NoCall}
          \cup [does : {"cancel", "wait"}, for : {"start", "cancel"}, of : Attempts]
          \cup [does : {"start"}, for : {"start"}]
          \cup [does : {"remember"}, for : {"start"}, of : Attempts]

Begun(a) == attempt[a] # NoAttempt

\* A worker that runs and that the plugin has not let go of.
Held(a) == Works(a) /\ a \notin lost
Starts(c) == request[c].does # "nothing" /\ request[c].for = "start"

Shape ==
  /\ attempt \in [Attempts -> {NoAttempt} \cup WorkerState]
  /\ request \in [Clients -> Call]
  /\ session \in SUBSET Attempts
  /\ lost \in SUBSET Attempts
  /\ token \in 0..MaxAttempt
  /\ starting \in BOOLEAN

\* Hermes gives the attempts their numbers in order; what is remembered or
\* stored, and what a request is about, was started.
InOrder ==
  /\ \A a, b \in Attempts : Begun(a) /\ b < a => Begun(b)
  /\ \A a \in session \cup lost : Begun(a)
  /\ token = 0 \/ Begun(token)
  /\ \A c \in Clients : request[c].does \in {"cancel", "wait", "remember"} => Begun(request[c].of)

\* The key in _STARTING stands for one request.
OneStarter ==
  /\ starting = (\E c \in Clients : Starts(c))
  /\ \A c, d \in Clients : Starts(c) /\ Starts(d) => c = d

\* A worker that runs is remembered, or about to be.
Known ==
  \A a \in Attempts : Held(a) =>
    \/ a \in session
    \/ \E c \in Clients : request[c].does = "remember" /\ request[c].of = a

\* A request that starts has no worker before it but the one it waits for.
AloneAtStart ==
  \A c \in Clients : Starts(c) =>
    \A a \in Attempts : Held(a) => request[c].does # "start" /\ request[c].of = a

\* No attempt begins after one whose worker is held.
Last == \A a, b \in Attempts : Held(a) /\ Begun(b) => b <= a

\* The snapshot of an attempt is older than it.
Snapshots == \A a \in Attempts : Begun(a) => attempt[a].before < a

\* What is remembered, or about to be, was not let go of.
HeldApart ==
  /\ session \cap lost = {}
  /\ \A c \in Clients : request[c].does = "remember" => request[c].of \notin session \cup lost

OAuthInv ==
  Shape /\ InOrder /\ OneStarter /\ Known /\ AloneAtStart /\ Last /\ HeldApart /\ Snapshots

-----------------------------------------------------------------------------
(* Each action keeps it *)

\* What a call says of itself decides what record it is.
LEMMA CallForms ==
  ASSUME NEW call \in Call
  PROVE  /\ call.does = "nothing" <=> call = NoCall
         /\ call.does \in {"cancel", "wait"} =>
              call \in [does : {"cancel", "wait"}, for : {"start", "cancel"}, of : Attempts]
         /\ call.does = "start" => call \in [does : {"start"}, for : {"start"}]
         /\ call.does = "remember" =>
              call \in [does : {"remember"}, for : {"start"}, of : Attempts]
  BY DEF Call, NoCall

IsStart(call) == call.does # "nothing" /\ call.for = "start"

\* The other requests are as they were.
LEMMA OneChanges ==
  ASSUME Shape, NEW c \in Clients, NEW call, request' = [request EXCEPT ![c] = call]
  PROVE  /\ request'[c] = call
         /\ \A d \in Clients : d # c => request'[d] = request[d]
         /\ call \in Call => request' \in [Clients -> Call]
  BY DEF Shape

\* _STARTING changes with the one request that it stands for.
LEMMA StarterChanges ==
  ASSUME Shape, OneStarter, NEW c \in Clients, NEW call, request' = [request EXCEPT ![c] = call],
         starting' \in BOOLEAN,
         IsStart(call) => starting' /\ (~starting \/ Starts(c)),
         ~IsStart(call) => IF Starts(c) THEN ~starting' ELSE starting' = starting
  PROVE  OneStarter'
<1>1. \A d \in Clients : d # c => Starts(d)' = Starts(d)
  BY OneChanges DEF Starts
<1>2. Starts(c)' = IsStart(call)
  BY OneChanges DEF Starts, IsStart
<1>3. \A d, e \in Clients : Starts(d) /\ Starts(e) => d = e
  BY DEF OneStarter
<1>4. starting = (\E d \in Clients : Starts(d))
  BY DEF OneStarter
<1>5. \A d, e \in Clients : Starts(d)' /\ Starts(e)' => d = e
  BY <1>1, <1>2, <1>3, <1>4
<1>6. starting' = (\E d \in Clients : Starts(d)')
  <2>1. CASE IsStart(call)
    BY <2>1, <1>2
  <2>2. CASE ~IsStart(call) /\ Starts(c)
    BY <2>2, <1>1, <1>2, <1>3
  <2>3. CASE ~IsStart(call) /\ ~Starts(c)
    BY <2>3, <1>1, <1>2, <1>4
  <2> QED
    BY <2>1, <2>2, <2>3
<1> QED
  BY <1>5, <1>6 DEF OneStarter

LEMMA OAuthInitInv == OAuthInit => OAuthInv
<1> SUFFICES ASSUME OAuthInit PROVE OAuthInv
  OBVIOUS
<1>1. Shape
  <2>1. token \in 0..MaxAttempt
    BY OAuthAssumption DEF OAuthInit
  <2>2. request \in [Clients -> Call]
    BY DEF OAuthInit, Call
  <2> QED
    BY <2>1, <2>2 DEF OAuthInit, Shape
<1>2. \A a \in Attempts : ~Begun(a) /\ ~Held(a)
  BY DEF OAuthInit, Begun, Held, Works, NoAttempt
<1>3. \A c \in Clients : ~Starts(c)
  BY DEF OAuthInit, Starts, NoCall
<1> QED
  BY <1>1, <1>2, <1>3
     DEF OAuthInit, NoCall, OAuthInv, InOrder, OneStarter, Known, AloneAtStart, Last, HeldApart, Snapshots

\* Two workers that are held are one.
LEMMA HeldIsLast ==
  ASSUME Shape, Last, NEW a \in Attempts, NEW b \in Attempts, Held(a), Held(b)
  PROVE  a = b
<1>1. Begun(a) /\ Begun(b)
  BY DEF Held, Works, Begun, NoAttempt
<1> QED
  BY <1>1, OAuthAssumption DEF Last, Attempts

LEMMA BeginStartInv ==
  ASSUME OAuthInv, NEW c \in Clients, NEW restart \in BOOLEAN, BeginStart(c, restart)
  PROVE  OAuthInv'
<1> DEFINE Begins(call) == ~starting /\ starting' = TRUE /\ request' = [request EXCEPT ![c] = call]
           Fresh == [does |-> "start", for |-> "start"]
           Again(a) == [does |-> "cancel", for |-> "start", of |-> a]
<1> USE DEF OAuthInv
<1>1. /\ request[c] = NoCall /\ ~Starts(c)
      /\ session' = {a \in session : ~WorkerDone(a)}
      /\ attempt' = attempt /\ token' = token /\ lost' = lost
  BY DEF BeginStart, Starts, NoCall
<1>2. \/ starting' = starting /\ request' = request
      \/ Begins(Fresh) /\ session' = {}
      \/ \E a \in session' : Begins(Again(a))
  BY DEF BeginStart, Refused
<1>3. Fresh \in Call /\ IsStart(Fresh) /\ Fresh.does = "start"
  BY DEF Call, IsStart
<1>4. \A a \in session' : /\ Again(a) \in Call /\ IsStart(Again(a))
                          /\ Again(a).does = "cancel" /\ Again(a).of = a
  BY <1>1 DEF Call, IsStart, Shape
<1>5. Shape'
  <2>1. request' \in [Clients -> Call]
    BY <1>2, <1>3, <1>4, OneChanges DEF Shape
  <2> QED
    BY <2>1, <1>1, <1>2 DEF Shape
<1>6. InOrder'
  <2>1. \A a \in session' : Begun(a)
    BY <1>1 DEF InOrder
  <2>2. \A d \in Clients : request'[d].does \in {"cancel", "wait", "remember"} => Begun(request'[d].of)
    <3>1. \A d \in Clients : d # c => request'[d] = request[d]
      BY <1>2, OneChanges
    <3>2. request'[c].does \in {"cancel", "wait", "remember"} => Begun(request'[c].of)
      BY <1>1, <1>2, <1>3, <1>4, <2>1, OneChanges DEF NoCall
    <3> QED
      BY <3>1, <3>2 DEF InOrder
  <2> QED
    BY <2>1, <2>2, <1>1 DEF InOrder, Begun
<1>7. OneStarter'
  <2>1. CASE starting' = starting /\ request' = request
    BY <2>1 DEF OneStarter, Starts
  <2>2. CASE Begins(Fresh)
    BY <2>2, <1>3, StarterChanges
  <2>3. CASE \E a \in session' : Begins(Again(a))
    BY <2>3, <1>4, StarterChanges
  <2> QED
    BY <1>2, <2>1, <2>2, <2>3
<1>8. \A a \in Attempts : Held(a) => \/ a \in session'
                                     \/ \E d \in Clients : d # c /\ request[d].does = "remember"
                                                         /\ request[d].of = a
  BY <1>1 DEF Known, Held, Works, WorkerDone, NoCall
<1>9. \A d \in Clients : d # c => request'[d] = request[d]
  BY <1>2, OneChanges
<1>10. Known'
  BY <1>1, <1>8, <1>9 DEF Known, Held, Works
<1>11. AloneAtStart'
  <2>1. CASE starting' = starting /\ request' = request
    BY <2>1, <1>1 DEF AloneAtStart, Starts, Held, Works
  <2> DEFINE Nobody == \A d \in Clients : ~Starts(d)
  <2>2. ~starting => Nobody /\ \A a \in Attempts : Held(a) => a \in session'
    <3>1. \A d \in Clients : request[d].does = "remember" => Starts(d)
      BY CallForms DEF Shape, Starts
    <3> QED
      BY <1>8, <3>1 DEF OneStarter
  <2>3. CASE Begins(Fresh) /\ session' = {}
    BY <2>2, <2>3, <1>1, <1>9 DEF AloneAtStart, Starts, Held, Works
  <2>4. CASE \E a \in session' : Begins(Again(a))
    <3>1. PICK a \in session' : Begins(Again(a))
      BY <2>4
    <3>2. \A b \in Attempts : Held(b) => b = a
      <4>1. a \in session /\ ~WorkerDone(a) /\ a \notin lost
        BY <1>1, <3>1 DEF HeldApart
      <4>2. a \in Attempts /\ Held(a)
        BY <4>1 DEF Shape, InOrder, Held, Works, WorkerDone, Begun, WorkerState
      <4> QED
        BY <4>2, HeldIsLast
    <3>4. request'[c] = Again(a)
      BY <3>1, OneChanges
    <3>5. \A d \in Clients : Starts(d)' => d = c
      BY <3>1, <2>2, <1>9 DEF Starts
    <3> QED
      BY <3>1, <3>2, <3>4, <3>5, <1>1, <1>4 DEF AloneAtStart, Held, Works
  <2> QED
    BY <1>2, <2>1, <2>3, <2>4
<1>12. Snapshots' /\ Last'
  BY <1>1 DEF Snapshots, Last, Begun, Held, Works
<1>13. HeldApart'
  <2>1. request'[c].does # "remember"
    BY <1>1, <1>2, <1>3, <1>4, OneChanges DEF NoCall
  <2> QED
    BY <2>1, <1>1, <1>9 DEF HeldApart
<1> QED
  BY <1>5, <1>6, <1>7, <1>10, <1>11, <1>12, <1>13

\* Nothing of a worker changes but its code and whether it is cancelled.
SameWorkers ==
  /\ attempt' \in [Attempts -> {NoAttempt} \cup WorkerState]
  /\ \A a \in Attempts : /\ Begun(a)' = Begun(a) /\ attempt'[a].phase = attempt[a].phase
                        /\ attempt'[a].before = attempt[a].before

\* Steps of a request that start no worker: they may forget those that are
\* done, and end the call or let it go on; a call that is to remember its
\* attempt does, or lets go of it.
LEMMA CallStepInv ==
  ASSUME OAuthInv, NEW c \in Clients, NEW call \in Call,
         request' = [request EXCEPT ![c] = call],
         SameWorkers, token' = token,
         session' \in SUBSET Attempts, lost' \in SUBSET Attempts,
         \A a \in session' \cup lost' : Begun(a),
         \A a \in session : ~WorkerDone(a) => a \in session',
         session' \cap lost' = {}, lost \subseteq lost',
         IF request[c].does = "remember" THEN request[c].of \in session' \cup lost'
                                         ELSE session' \subseteq session /\ lost' = lost,
         call.does # "remember", call.does \in {"cancel", "wait"} => Begun(call.of),
         starting' \in BOOLEAN,
         IsStart(call) => starting' /\ Starts(c) /\ request[c].does # "start",
         ~IsStart(call) => IF Starts(c) THEN ~starting' ELSE starting' = starting,
         IsStart(call) /\ call.does # "start" => call.of = request[c].of,
         IsStart(call) /\ call.does = "start" => WorkerDone(request[c].of)
  PROVE  OAuthInv'
<1> USE DEF OAuthInv, SameWorkers
<1>1. /\ request'[c] = call
      /\ \A d \in Clients : d # c => request'[d] = request[d]
      /\ request' \in [Clients -> Call]
  BY OneChanges
<1>2. Shape'
  BY <1>1 DEF Shape
<1>3. InOrder'
  <2>1. \A a \in Attempts : attempt'[a] # NoAttempt <=> Begun(a)
    BY DEF Begun
  <2>2. \A d \in Clients : request'[d].does \in {"cancel", "wait", "remember"} =>
                           request'[d].of \in Attempts /\ Begun(request'[d].of)
    <3> SUFFICES ASSUME NEW d \in Clients, request'[d].does \in {"cancel", "wait", "remember"}
                 PROVE  request'[d].of \in Attempts /\ Begun(request'[d].of)
      OBVIOUS
    <3>1. CASE d # c
      BY <3>1, <1>1, CallForms DEF InOrder, Shape
    <3>2. CASE d = c
      BY <3>2, <1>1, CallForms
    <3> QED
      BY <3>1, <3>2
  <2>3. token = 0 \/ (token \in Attempts /\ Begun(token))
    BY OAuthAssumption DEF InOrder, Shape, Attempts
  <2>4. \A a, b \in Attempts : Begun(a) /\ b < a => Begun(b)
    BY DEF InOrder
  <2> QED
    BY <2>1, <2>2, <2>3, <2>4 DEF InOrder, Begun
<1>4. OneStarter'
  BY StarterChanges
<1>5. Known'
  <2>1. ASSUME NEW a \in Attempts, Works(a), a \notin lost'
        PROVE  a \in session' \/ \E d \in Clients : request'[d].does = "remember" /\ request'[d].of = a
    <3>1. CASE a \in session
      BY <3>1, <2>1 DEF Works, WorkerDone
    <3>2. CASE \E d \in Clients : request[d].does = "remember" /\ request[d].of = a
      BY <3>2, <2>1, <1>1, CallForms DEF IsStart, Shape
    <3> QED
      BY <2>1, <3>1, <3>2 DEF Known, Held
  <2> QED
    BY <2>1 DEF Known, Held, Works
<1>6. AloneAtStart'
  <2> SUFFICES ASSUME NEW d \in Clients, Starts(d)', NEW a \in Attempts, Held(a)
               PROVE  request'[d].does # "start" /\ request'[d].of = a
    BY DEF AloneAtStart, Held, Works
  <2>1. CASE d # c
    BY <2>1, <1>1 DEF AloneAtStart, Starts
  <2>2. CASE d = c
    BY <2>2, <1>1 DEF AloneAtStart, Starts, IsStart, Held, Works, WorkerDone
  <2> QED
    BY <2>1, <2>2
<1>7. Snapshots' /\ Last'
  BY DEF Snapshots, Last, Held, Works
<1>8. HeldApart'
  <2>1. \A d \in Clients : d # c => (request[d].does = "remember" => request[c].does # "remember")
    BY CallForms DEF OneStarter, Starts, Shape
  <2> QED
    BY <2>1, <1>1 DEF HeldApart
<1> QED
  BY <1>2, <1>3, <1>4, <1>5, <1>6, <1>7, <1>8

LEMMA BeginCancelInv ==
  ASSUME OAuthInv, NEW c \in Clients, NEW a \in Attempts, BeginCancel(c, a)
  PROVE  OAuthInv'
<1> DEFINE call == [does |-> "cancel", for |-> "cancel", of |-> a]
<1>1. call \in Call /\ ~IsStart(call)
  BY DEF Call, IsStart
<1>2. ~Starts(c) /\ request[c].does # "remember"
  BY DEF BeginCancel, Starts, NoCall
<1> QED
  BY <1>1, <1>2, CallStepInv DEF BeginCancel, OAuthInv, Shape, InOrder, HeldApart, SameWorkers, Begun

LEMMA CancelInv ==
  ASSUME OAuthInv, NEW c \in Clients, Cancel(c)
  PROVE  OAuthInv'
<1> DEFINE of == request[c].of
           call == [request[c] EXCEPT !.does = "wait"]
<1> USE DEF OAuthInv
<1>1. request[c] \in [does : {"cancel", "wait"}, for : {"start", "cancel"}, of : Attempts]
  BY CallForms DEF Cancel, Shape
<1>2. /\ request' = [request EXCEPT ![c] = call]
      /\ call \in Call /\ call.does = "wait" /\ call.for = request[c].for /\ call.of = of
  BY <1>1 DEF Cancel, CallDoes, Call
<1>3. IsStart(call) = Starts(c)
  BY <1>2 DEF Cancel, IsStart, Starts
<1>4. SameWorkers
  <2>1. attempt[of] \in WorkerState
    BY <1>1 DEF Cancel, Shape, InOrder, Begun
  <2>2. attempt' = [attempt EXCEPT ![of] = [attempt[of] EXCEPT !.cancelled = TRUE]]
    BY DEF Cancel
  <2>3. [attempt[of] EXCEPT !.cancelled = TRUE] \in WorkerState \ {NoAttempt}
    BY <2>1 DEF WorkerState, NoAttempt
  <2> QED
    BY <2>1, <2>2, <2>3 DEF Shape, SameWorkers, Begun, WorkerState, NoAttempt
<1> QED
  BY <1>2, <1>3, <1>4, CallStepInv DEF Cancel, Shape, InOrder, HeldApart, OneStarter

LEMMA WorkerExitedInv ==
  ASSUME OAuthInv, NEW c \in Clients, WorkerExited(c)
  PROVE  OAuthInv'
<1> DEFINE of == request[c].of
           call == IF request[c].for = "start" THEN [does |-> "start", for |-> "start"] ELSE NoCall
<1> USE DEF OAuthInv
<1>1. request' = [request EXCEPT ![c] = call]
  BY DEF WorkerExited, AfterWait, CallEnds
<1>2. call \in Call /\ call.does \in {"start", "nothing"} /\ (IsStart(call) <=> Starts(c)) /\ (IsStart(call) => call.does = "start")
  BY DEF Call, IsStart, Starts, NoCall, WorkerExited
<1>3. SameWorkers
  BY DEF WorkerExited, SameWorkers, Shape, Begun
<1> QED
  BY <1>1, <1>2, <1>3, CallStepInv DEF WorkerExited, Shape, InOrder, HeldApart, OneStarter

LEMMA WorkerBusyInv ==
  ASSUME OAuthInv, NEW c \in Clients, WorkerBusy(c)
  PROVE  OAuthInv'
<1> USE DEF OAuthInv
<1>1. NoCall \in Call /\ NoCall.does = "nothing" /\ ~IsStart(NoCall)
  BY DEF Call, IsStart, NoCall
<1>2. Starts(c) = (request[c].for = "start")
  BY DEF WorkerBusy, Starts
<1>3. SameWorkers
  BY DEF WorkerBusy, SameWorkers, Shape, Begun
<1> QED
  BY <1>1, <1>2, <1>3, CallStepInv DEF WorkerBusy, CallEnds, Shape, InOrder, HeldApart, OneStarter

LEMMA RememberInv ==
  ASSUME OAuthInv, NEW c \in Clients, Remember(c)
  PROVE  OAuthInv'
<1> DEFINE of == request[c].of
<1> USE DEF OAuthInv
<1>1. NoCall \in Call /\ NoCall.does = "nothing" /\ ~IsStart(NoCall)
  BY DEF Call, IsStart, NoCall
<1>2. of \in Attempts /\ Begun(of) /\ Starts(c) /\ of \notin session \cup lost
  BY CallForms DEF Remember, Shape, InOrder, Starts, HeldApart
<1>3. SameWorkers
  BY DEF Remember, SameWorkers, Shape, Begun
<1>4. /\ of \in session' \cup lost' /\ session' \cap lost' = {}
      /\ lost \subseteq lost' /\ lost' \subseteq lost \cup {of}
      /\ session' \subseteq session \cup {of}
      /\ \A a \in session : ~WorkerDone(a) => a \in session'
  <2>1. CASE lost' = lost /\ \E lapsed \in SUBSET {a \in session : WorkerDone(a)} :
               session' = (session \ lapsed) \cup {of}
    BY <1>2, <2>1 DEF HeldApart
  <2>2. CASE session' = session /\ lost' = lost \cup {of}
    BY <1>2, <2>2 DEF HeldApart
  <2> QED
    BY <2>1, <2>2 DEF Remember
<1> QED
  BY <1>1, <1>2, <1>3, <1>4, CallStepInv DEF Remember, CallEnds, Shape, InOrder, OneStarter

\* What Hermes' start of a worker leaves as it was.
LEMMA NewAttemptStep ==
  ASSUME Shape, InOrder, Snapshots, NEW a \in Attempts, NewAttempt(a)
  PROVE  /\ attempt' \in [Attempts -> {NoAttempt} \cup WorkerState]
         /\ ~Begun(a) /\ Begun(a)'
         /\ \A b \in Attempts : b < a <=> Begun(b)
         /\ \A b \in Attempts : b # a =>
              Begun(b)' = Begun(b) /\ attempt'[b].phase = attempt[b].phase
         /\ Snapshots'
<1> DEFINE new == [phase |-> "running", code |-> FALSE, cancelled |-> FALSE, before |-> token]
           off(b) == [attempt[b] EXCEPT !.cancelled = TRUE]
<1>1. new \in WorkerState /\ new # NoAttempt /\ new.before = token
  BY OAuthAssumption DEF WorkerState, NoAttempt, Shape
<1>2. \A b \in Attempts : attempt[b].phase = "running" =>
        /\ attempt[b] \in WorkerState /\ off(b) \in WorkerState /\ off(b) # NoAttempt
        /\ off(b).phase = attempt[b].phase /\ off(b).before = attempt[b].before
  <2> SUFFICES ASSUME NEW b \in Attempts, attempt[b].phase = "running"
               PROVE  /\ attempt[b] \in WorkerState /\ off(b) \in WorkerState /\ off(b) # NoAttempt
                      /\ off(b).phase = attempt[b].phase /\ off(b).before = attempt[b].before
    OBVIOUS
  <2>1. attempt[b] \in WorkerState
    BY DEF Shape, NoAttempt
  <2>2. \A w \in WorkerState : w.phase = "running" =>
          LET o == [w EXCEPT !.cancelled = TRUE]
          IN  o \in WorkerState /\ o # NoAttempt /\ o.phase = w.phase /\ o.before = w.before
    BY DEF WorkerState, NoAttempt
  <2> QED
    BY <2>1, <2>2
<1>3. /\ attempt' \in [Attempts -> {NoAttempt} \cup WorkerState]
      /\ attempt'[a] = new
      /\ \A b \in Attempts : b # a => attempt'[b] = IF attempt[b].phase = "running" THEN off(b) ELSE attempt[b]
  BY <1>1, <1>2 DEF NewAttempt, Shape
<1>4. ~Begun(a) /\ \A b \in Attempts : b < a => Begun(b)
  BY DEF NewAttempt, Begun
<1>5. \A b \in Attempts : Begun(b) => b < a
  BY <1>4, OAuthAssumption DEF InOrder, Attempts
<1>6. Begun(a)'
  BY <1>1, <1>3 DEF Begun
<1>7. \A b \in Attempts : b # a => /\ Begun(b)' = Begun(b) /\ attempt'[b].phase = attempt[b].phase
                                   /\ Begun(b) => attempt'[b].before = attempt[b].before
  BY <1>2, <1>3 DEF Begun, NoAttempt, WorkerState
<1>8. token < a
  BY <1>5, OAuthAssumption DEF InOrder, Shape, Attempts
<1>9. Snapshots'
  <2> SUFFICES ASSUME NEW b \in Attempts, Begun(b)' PROVE attempt'[b].before < b
    BY DEF Snapshots
  <2>1. CASE b = a
    BY <2>1, <1>1, <1>3, <1>8
  <2>2. CASE b # a
    BY <2>2, <1>7 DEF Snapshots
  <2> QED
    BY <2>1, <2>2
<1> QED
  BY <1>3, <1>4, <1>5, <1>6, <1>7, <1>9

\* The attempts keep their order when one is added.
LEMMA NewAttemptInOrder ==
  ASSUME Shape, InOrder, Snapshots, NEW a \in Attempts, NewAttempt(a), NEW c \in Clients, NEW call \in Call,
         request' = [request EXCEPT ![c] = call],
         call.does \in {"cancel", "wait", "remember"} => call.of = a,
         session' = session, lost' \subseteq lost \cup {a}, token' = token
  PROVE  InOrder'
<1>1. \A b \in Attempts : Begun(b)' <=> b = a \/ Begun(b)
  BY NewAttemptStep
<1>2. \A b, d \in Attempts : Begun(b)' /\ d < b => Begun(d)'
  BY <1>1, NewAttemptStep, OAuthAssumption DEF InOrder, Attempts
<1>3. /\ request'[c] = call
      /\ \A d \in Clients : d # c => request'[d] = request[d]
  BY OneChanges
<1>4. \A d \in Clients : request'[d].does \in {"cancel", "wait", "remember"} =>
        attempt'[request'[d].of] # NoAttempt
  <2> SUFFICES ASSUME NEW d \in Clients, request'[d].does \in {"cancel", "wait", "remember"}
               PROVE  attempt'[request'[d].of] # NoAttempt
    OBVIOUS
  <2>1. CASE d # c
    <3>1. request[d].of \in Attempts /\ Begun(request[d].of)
      BY <2>1, <1>3, CallForms DEF InOrder, Shape
    <3> QED
      BY <3>1, <2>1, <1>1, <1>3 DEF Begun
  <2>2. CASE d = c
    BY <2>2, <1>1, <1>3 DEF Begun
  <2> QED
    BY <2>1, <2>2
<1>5. \A b \in session' \cup lost' : attempt'[b] # NoAttempt
  BY <1>1 DEF InOrder, Shape, Begun
<1>6. token' = 0 \/ attempt'[token'] # NoAttempt
  <2>1. token = 0 \/ (token \in Attempts /\ Begun(token))
    BY OAuthAssumption DEF InOrder, Shape, Attempts
  <2> QED
    BY <2>1, <1>1 DEF Begun
<1> QED
  BY <1>2, <1>4, <1>5, <1>6 DEF InOrder, Begun

\* A start that raises leaves a worker behind that nobody holds.
LEMMA StartEndsWithoutInv ==
  ASSUME OAuthInv, NEW c \in Clients, StartEndsWithout(c)
  PROVE  OAuthInv'
<1> USE DEF OAuthInv
<1>1. NoCall \in Call /\ NoCall.does = "nothing" /\ ~IsStart(NoCall)
  BY DEF Call, IsStart, NoCall
<1>2. Starts(c) /\ request[c].does = "start" /\ request' = [request EXCEPT ![c] = NoCall]
      /\ starting' = FALSE /\ UNCHANGED <<token, session>>
  BY CallForms DEF StartEndsWithout, Shape, Starts, CallEnds
<1>3. CASE UNCHANGED <<attempt, lost>>
  <2>1. SameWorkers
    BY <1>3 DEF SameWorkers, Shape, Begun
  <2> QED
    BY <1>1, <1>2, <1>3, <2>1, CallStepInv DEF Shape, InOrder, HeldApart, OneStarter
<1>4. CASE \E a \in Attempts : NewAttempt(a) /\ lost' = lost \cup {a}
  <2>1. PICK a \in Attempts : NewAttempt(a) /\ lost' = lost \cup {a}
    BY <1>4
  <2>2. \A b \in Attempts : ~Held(b)
    BY <1>2 DEF AloneAtStart
  <2>3. \A b \in Attempts : ~(Works(b)' /\ b \notin lost')
    BY <2>1, <2>2, NewAttemptStep DEF Held, Works
  <2>4. /\ request'[c] = NoCall
        /\ \A d \in Clients : d # c => request'[d] = request[d]
        /\ request' \in [Clients -> Call]
    BY <1>1, <1>2, OneChanges
  <2>5. Shape'
    BY <1>2, <2>1, <2>4, NewAttemptStep DEF Shape
  <2>6. InOrder'
    BY <1>1, <1>2, <2>1, NewAttemptInOrder
  <2>7. OneStarter'
    BY <1>1, <1>2, StarterChanges
  <2>8. Known' /\ AloneAtStart' /\ Last'
    BY <2>3 DEF Known, AloneAtStart, Last, Held
  <2>9. HeldApart'
    <3>1. a \notin session
      BY <2>1, NewAttemptStep DEF InOrder
    <3>2. \A d \in Clients : request'[d].does # "remember"
      <4>1. \A d \in Clients : request[d].does = "remember" => Starts(d)
        BY CallForms DEF Shape, Starts
      <4> QED
        BY <4>1, <1>1, <1>2, <2>4 DEF OneStarter
    <3> QED
      BY <1>2, <2>1, <3>1, <3>2 DEF HeldApart
  <2> QED
    BY <2>1, <2>5, <2>6, <2>7, <2>8, <2>9, NewAttemptStep
<1> QED
  BY <1>3, <1>4 DEF StartEndsWithout

\* A worker that is started is the only one that is held.
LEMMA StartAttemptInv ==
  ASSUME OAuthInv, NEW c \in Clients, StartAttempt(c)
  PROVE  OAuthInv'
<1> USE DEF OAuthInv
<1>1. PICK a \in Attempts :
        /\ NewAttempt(a)
        /\ request' = [request EXCEPT ![c] = [does |-> "remember", for |-> "start", of |-> a]]
  BY DEF StartAttempt
<1> DEFINE call == [does |-> "remember", for |-> "start", of |-> a]
<1>2. call \in Call /\ IsStart(call) /\ call.does = "remember" /\ call.of = a
  BY DEF Call, IsStart
<1>3. /\ request'[c] = call
      /\ \A d \in Clients : d # c => request'[d] = request[d]
      /\ request' \in [Clients -> Call]
  BY <1>1, <1>2, OneChanges
<1>4. /\ Starts(c) /\ request[c].does = "start" /\ starting
      /\ UNCHANGED <<token, session, starting, lost>>
  BY CallForms DEF StartAttempt, Shape, Starts, OneStarter
<1>5. \A b \in Attempts : Held(b)' => b = a
  <2>1. \A b \in Attempts : ~Held(b)
    BY <1>4 DEF AloneAtStart
  <2> QED
    BY <1>1, <1>4, <2>1, NewAttemptStep DEF Held, Works
<1>6. Shape'
  BY <1>1, <1>3, <1>4, NewAttemptStep DEF Shape
<1>7. InOrder'
  BY <1>1, <1>2, <1>4, NewAttemptInOrder
<1>8. OneStarter'
  BY <1>1, <1>2, <1>4, StarterChanges DEF Shape
<1>9. Known'
  BY <1>2, <1>3, <1>5 DEF Known
<1>10. AloneAtStart'
  <2>1. \A d \in Clients : Starts(d)' => d = c
    BY <1>3, <1>4 DEF OneStarter, Starts
  <2> QED
    BY <2>1, <1>2, <1>3, <1>5 DEF AloneAtStart
<1>11. Last'
  <2>1. \A b \in Attempts : Begun(b)' => b <= a
    BY <1>1, NewAttemptStep, OAuthAssumption DEF Attempts
  <2> QED
    BY <1>5, <2>1 DEF Last
<1>12. HeldApart'
  <2>1. a \notin session \cup lost
    BY <1>1, NewAttemptStep DEF InOrder
  <2>2. \A d \in Clients : d # c => request'[d].does # "remember"
    <3>1. \A d \in Clients : request[d].does = "remember" => Starts(d)
      BY CallForms DEF Shape, Starts
    <3> QED
      BY <3>1, <1>3, <1>4 DEF OneStarter
  <2> QED
    BY <1>2, <1>3, <1>4, <2>1, <2>2 DEF HeldApart
<1> QED
  BY <1>1, <1>6, <1>7, <1>8, <1>9, <1>10, <1>11, <1>12, NewAttemptStep

\* Steps of a worker: it goes on, or ends.
LEMMA WorkerStepInv ==
  ASSUME OAuthInv, NEW a \in Attempts, NEW new \in WorkerState,
         attempt' = [attempt EXCEPT ![a] = new],
         Works(a), new.before = attempt[a].before,
         token' \in {token, a, attempt[a].before},
         UNCHANGED <<session, starting, request, lost>>
  PROVE  OAuthInv'
<1> USE DEF OAuthInv
<1>1. attempt'[a] = new /\ \A b \in Attempts : b # a => attempt'[b] = attempt[b]
  BY DEF Shape
<1>2. Begun(a) /\ new # NoAttempt
  BY DEF Works, Begun, NoAttempt, WorkerState
<1>3. \A b \in Attempts : attempt'[b] # NoAttempt <=> Begun(b)
  BY <1>1, <1>2 DEF Begun
<1>4. \A b \in Attempts : Works(b)' => Works(b)
  BY <1>1 DEF Works
<1>5. attempt[a].before \in 0..MaxAttempt /\ (attempt[a].before = 0 \/ Begun(attempt[a].before))
  <2>1. attempt[a].before \in Nat /\ attempt[a].before < a
    BY <1>2 DEF Snapshots, WorkerState
  <2> QED
    BY <1>2, <2>1, OAuthAssumption DEF InOrder, Attempts
<1>6. token' \in 0..MaxAttempt /\ (token' = 0 \/ Begun(token'))
  BY <1>2, <1>5, OAuthAssumption DEF Shape, InOrder, Attempts
<1>7. Shape'
  BY <1>6 DEF Shape
<1>8. InOrder'
  <2>1. \A d \in Clients : request[d].does \in {"cancel", "wait", "remember"} => request[d].of \in Attempts
    BY CallForms DEF Shape
  <2>2. token' = 0 \/ token' \in Attempts
    BY <1>6, OAuthAssumption DEF Attempts
  <2>3. (token = 0 \/ Begun(token))'
    BY <1>3, <1>6, <2>2 DEF Begun
  <2>4. (\A d \in Clients : request[d].does \in {"cancel", "wait", "remember"} => Begun(request[d].of))'
    BY <1>3, <2>1 DEF InOrder, Begun
  <2>5. (\A b, d \in Attempts : Begun(b) /\ d < b => Begun(d))' /\ (\A b \in session \cup lost : Begun(b))'
    BY <1>3 DEF InOrder, Begun, Shape
  <2> QED
    BY <2>3, <2>4, <2>5 DEF InOrder
<1>9. OneStarter' /\ Known' /\ AloneAtStart' /\ HeldApart'
  BY <1>4 DEF OneStarter, Known, AloneAtStart, HeldApart, Starts, Held
<1>10. Last'
  BY <1>3, <1>4 DEF Last, Held, Begun
<1>11. Snapshots'
  <2> SUFFICES ASSUME NEW b \in Attempts, Begun(b)'
               PROVE  attempt'[b].before < b
    BY DEF Snapshots
  <2>1. CASE b = a
    BY <2>1, <1>1, <1>2 DEF Snapshots
  <2>2. CASE b # a
    BY <2>2, <1>1 DEF Snapshots, Begun
  <2> QED
    BY <2>1, <2>2
<1> QED
  BY <1>7, <1>8, <1>9, <1>10, <1>11

LEMMA PollInv ==
  ASSUME OAuthInv, NEW a \in Attempts, Poll(a)
  PROVE  OAuthInv'
<1> USE DEF OAuthInv
<1>1. /\ a \in session /\ session' = session \ {a} /\ UNCHANGED <<attempt, token, starting, request>>
      /\ lost' = lost \/ lost' = lost \cup {a}
      /\ Works(a) => a \in lost'
  BY DEF Poll, Works, WorkerDone
<1>2. \A b \in Attempts : Held(b)' => Held(b) /\ b # a
  BY <1>1 DEF Held, Works
<1>3. Shape' /\ InOrder' /\ Snapshots'
  BY <1>1 DEF Shape, InOrder, Snapshots, Begun
<1>4. Known'
  BY <1>1, <1>2 DEF Known
<1>5. OneStarter' /\ AloneAtStart' /\ Last'
  BY <1>1, <1>2 DEF OneStarter, AloneAtStart, Last, Starts, Begun
<1>6. HeldApart'
  BY <1>1 DEF HeldApart
<1> QED
  BY <1>3, <1>4, <1>5, <1>6

\* What a worker that runs, or may roll back, is.
LEMMA WorkerAt ==
  ASSUME OAuthInv, NEW a \in Attempts, Works(a)
  PROVE  attempt[a] \in WorkerState
  BY DEF OAuthInv, Shape, Works, NoAttempt

LEMMA CallbackInv ==
  ASSUME OAuthInv, NEW a \in Attempts, Callback(a)
  PROVE  OAuthInv'
<1>1. Works(a)
  BY DEF Callback, Works
<1>2. [attempt[a] EXCEPT !.code = TRUE] \in WorkerState
  BY <1>1, WorkerAt DEF WorkerState
<1> QED
  BY <1>1, <1>2, WorkerAt, WorkerStepInv DEF Callback, WorkerState

LEMMA CommitTokensInv ==
  ASSUME OAuthInv, NEW a \in Attempts, CommitTokens(a)
  PROVE  OAuthInv'
<1>1. Works(a)
  BY DEF CommitTokens, Works
<1>2. [attempt[a] EXCEPT !.phase = "committed"] \in WorkerState
  BY <1>1, WorkerAt DEF WorkerState
<1> QED
  BY <1>1, <1>2, WorkerAt, WorkerStepInv DEF CommitTokens, WorkerState

LEMMA FailsInv ==
  ASSUME OAuthInv, NEW a \in Attempts, Fails(a)
  PROVE  OAuthInv'
<1>1. Works(a)
  BY DEF Fails, Works
<1>2. [attempt[a] EXCEPT !.phase = "undoing"] \in WorkerState
  BY <1>1, WorkerAt DEF WorkerState
<1> QED
  BY <1>1, <1>2, WorkerAt, WorkerStepInv DEF Fails, WorkerState

LEMMA WorkerStopsInv ==
  ASSUME OAuthInv, NEW a \in Attempts, WorkerStops(a)
  PROVE  OAuthInv'
<1>1. Works(a)
  BY DEF WorkerStops, Works
<1>2. [attempt[a] EXCEPT !.phase = "done"] \in WorkerState
  BY <1>1, WorkerAt DEF WorkerState
<1> QED
  BY <1>1, <1>2, WorkerAt, WorkerStepInv DEF WorkerStops, WorkerState

LEMMA OAuthNextInv == OAuthInv /\ [OAuthNext]_oauthVars => OAuthInv'
<1> SUFFICES ASSUME OAuthInv, [OAuthNext]_oauthVars
             PROVE  OAuthInv'
  OBVIOUS
<1>1. ASSUME NEW c \in Clients, NEW restart \in BOOLEAN, BeginStart(c, restart)
      PROVE  OAuthInv'
  BY <1>1, BeginStartInv
<1>2. ASSUME NEW c \in Clients, NEW a \in Attempts, BeginCancel(c, a)
      PROVE  OAuthInv'
  BY <1>2, BeginCancelInv
<1>3. ASSUME NEW c \in Clients, CallGoes(c)
      PROVE  OAuthInv'
  BY <1>3, CancelInv, WorkerExitedInv, WorkerBusyInv, StartAttemptInv, StartEndsWithoutInv, RememberInv
     DEF CallGoes
<1>4. ASSUME NEW a \in Attempts,
             Poll(a) \/ Callback(a) \/ CommitTokens(a) \/ Fails(a) \/ WorkerStops(a)
      PROVE  OAuthInv'
  BY <1>4, PollInv, CallbackInv, CommitTokensInv, FailsInv, WorkerStopsInv
<1>5. CASE UNCHANGED oauthVars
  BY <1>5 DEF oauthVars, OAuthInv, Shape, InOrder, OneStarter, Known, AloneAtStart, Last,
              HeldApart, Snapshots, Begun, Starts, Held, Works
<1> QED
  BY <1>1, <1>2, <1>3, <1>4, <1>5 DEF OAuthNext

-----------------------------------------------------------------------------
(* Theorems *)

\* The invariant holds whichever of the three ways to let go of a worker
\* there are.
THEOREM OAuthInvariant == OAuthSpec => []OAuthInv
<1>1. OAuthInit => OAuthInv
  BY OAuthInitInv
<1>2. OAuthInv /\ [OAuthNext]_oauthVars => OAuthInv'
  BY OAuthNextInv
<1> QED
  BY <1>1, <1>2, PTL DEF OAuthSpec

\* Attempts for one server do not overlap, but for those whose worker the
\* plugin was made to let go of, however many people start, restart and cancel
\* at once, and however long an old worker needs.
THEOREM AttemptsDoNotOverlap == OAuthSpec => []NoOverlap
<1>1. OAuthInv => NoOverlap
  <2> SUFFICES ASSUME OAuthInv, NEW a \in Attempts, a \notin lost, NEW b \in Attempts, b \notin lost,
                      Works(a), Works(b)
               PROVE  a = b
    BY DEF NoOverlap
  <2> QED
    BY HeldIsLast DEF OAuthInv, Held
<1> QED
  BY <1>1, OAuthInvariant, PTL

\* Types; _STARTING holds the key as long as a request starts or restarts, and
\* no longer.
THEOREM OAuthTypeCorrect == OAuthSpec => []OAuthTypeOK
<1>1. OAuthInv => OAuthTypeOK
  <2> SUFFICES ASSUME OAuthInv PROVE OAuthTypeOK
    OBVIOUS
  <2>1. ASSUME NEW a \in Attempts, attempt[a] # NoAttempt
        PROVE  /\ attempt[a].phase \in {"running", "committed", "undoing", "done"}
               /\ attempt[a].before \in 0..(a - 1)
    BY <2>1, OAuthAssumption DEF OAuthInv, Shape, Snapshots, Begun, WorkerState, Attempts
  <2> QED
    BY <2>1 DEF OAuthInv, Shape, InOrder, OneStarter, Begun, Starts, OAuthTypeOK
<1> QED
  BY <1>1, OAuthInvariant, PTL

\* No rollback takes the tokens of a later approval away, but that of an
\* attempt whose worker the plugin was made to let go of.
THEOREM ApprovalsStay == OAuthSpec => TokensStay
<1> DEFINE Stays(a) == attempt[a].phase = "undoing" /\ attempt'[a].phase = "done" /\ token > a
                          /\ token' < token => a \in lost
<1>1. OAuthInv => \A a \in Attempts : Stays(a)
  <2> SUFFICES ASSUME OAuthInv, NEW a \in Attempts, attempt[a].phase = "undoing", token > a, a \notin lost
               PROVE  FALSE
    OBVIOUS
  <2>1. Held(a)
    BY DEF Held, Works
  <2>2. token \in Attempts /\ Begun(token)
    BY OAuthAssumption DEF OAuthInv, Shape, InOrder, Attempts
  <2> QED
    BY <2>1, <2>2, OAuthAssumption DEF OAuthInv, Last, Attempts
<1>2. OAuthInv => [\A a \in Attempts : Stays(a)]_oauthVars
  BY <1>1
<1> QED
  BY <1>2, OAuthInvariant, PTL DEF OAuthSpec, TokensStay

=============================================================================
