------------------------------ MODULE McpOAuth ------------------------------
(***************************************************************************)
(* Authorizing an MCP server by OAuth: attempts for one server of one      *)
(* profile, which must not overlap.                                        *)
(*                                                                         *)
(* An attempt is a worker of Hermes.  It takes a snapshot of the tokens,   *)
(* commits new ones or rolls back to the snapshot, and is done; a rollback *)
(* after the commit of a later attempt erases what that one obtained.  The *)
(* plugin therefore remembers the attempts it started, refuses a start     *)
(* while one is open, and restarts only after the old worker is done.      *)
(*                                                                         *)
(* Hermes' side is external.  There are three places at which the plugin   *)
(* lets go of a worker that still runs: a poll that is told the outcome    *)
(* before the worker is done (the handler does not look at the worker), a  *)
(* start that raises and leaves a worker, an audit line that cannot be     *)
(* written between the start and _remember.  `lost` collects the attempts  *)
(* that went this way; Unfinished says which of the three an instance has. *)
(***************************************************************************)
EXTENDS Naturals

CONSTANTS Clients,    \* requests of people that may be in flight together
          MaxAttempt, \* bound on attempts
          Unfinished  \* where workers are let go of: of "poll", "start", "audit"

ASSUME OAuthAssumption == MaxAttempt \in Nat /\ Unfinished \subseteq {"poll", "start", "audit"}

VARIABLES
  attempt,  \* attempt[a]: the worker: phase, code given, cancelled, snapshot
  token,    \* the attempt whose tokens are stored, 0 for those before all
  session,  \* attempts remembered in _SESSIONS
  starting, \* whether the server's key is in _STARTING
  request,  \* request[c]: what the request of c does next
  lost      \* attempts the plugin let go of while their worker ran

oauthVars == <<attempt, token, session, starting, request, lost>>

Attempts == 1..MaxAttempt
NoAttempt == [phase |-> "unused"]
NoCall == [does |-> "nothing"]

WorkerDone(a) == attempt[a].phase = "done"
Works(a) == attempt[a].phase \in {"running", "committed", "undoing"}
CallDoes(c, what) == request' = [request EXCEPT ![c].does = what]
CallEnds(c) == request' = [request EXCEPT ![c] = NoCall]

-----------------------------------------------------------------------------
(* Starting and restarting *)

\* (slip) whether an attempt is open is looked at, and nothing else
RefusedOpen(restart) == (\E a \in session : ~WorkerDone(a)) /\ ~restart

\* Under the lock: a start by somebody else, or an open attempt without restart.
Refused(restart) == starting \/ ((\E a \in session : ~WorkerDone(a)) /\ ~restart)

BeginStart(c, restart) ==
  /\ request[c] = NoCall
  /\ session' = {a \in session : ~WorkerDone(a)}
  /\ IF Refused(restart)
     THEN UNCHANGED <<starting, request>>
     ELSE /\ starting' = TRUE
          /\ \/ session' = {} /\ request' = [request EXCEPT ![c] = [does |-> "start", for |-> "start"]]
             \/ \E a \in session' :
                  request' = [request EXCEPT ![c] = [does |-> "cancel", for |-> "start", of |-> a]]
  /\ UNCHANGED <<attempt, token, lost>>

BeginCancel(c, a) ==
  /\ request[c] = NoCall /\ a \in session
  /\ request' = [request EXCEPT ![c] = [does |-> "cancel", for |-> "cancel", of |-> a]]
  /\ UNCHANGED <<attempt, token, session, starting, lost>>

\* cancel_attempt takes the lock of the commit: what is committed stays.
Cancel(c) ==
  /\ request[c].does = "cancel"
  /\ attempt' = [attempt EXCEPT ![request[c].of].cancelled = TRUE]
  /\ CallDoes(c, "wait")
  /\ UNCHANGED <<token, session, starting, lost>>

AfterWait(c) ==
  IF request[c].for = "start"
  THEN request' = [request EXCEPT ![c] = [does |-> "start", for |-> "start"]]
  ELSE CallEnds(c)

\* (slip) the attempt is forgotten when it is cancelled
WorkerExitedAnyway(c) ==
  /\ request[c].does = "wait"
  /\ session' = session \ {request[c].of}
  /\ AfterWait(c)
  /\ UNCHANGED <<attempt, token, starting, lost>>

WorkerExited(c) ==
  /\ request[c].does = "wait" /\ WorkerDone(request[c].of)
  /\ session' = session \ {request[c].of}
  /\ AfterWait(c)
  /\ UNCHANGED <<attempt, token, starting, lost>>

\* Ten seconds have passed: oauth_busy, or workerDone: false.
WorkerBusy(c) ==
  /\ request[c].does = "wait" /\ ~WorkerDone(request[c].of)
  /\ starting' = (starting /\ request[c].for # "start")
  /\ CallEnds(c)
  /\ UNCHANGED <<attempt, token, session, lost>>

\* Hermes starts a worker, which cancels the one that is active.
NewAttempt(a) ==
  /\ attempt[a] = NoAttempt /\ \A b \in Attempts : b < a => attempt[b] # NoAttempt
  /\ attempt' = [b \in Attempts |->
       IF b = a THEN [phase |-> "running", code |-> FALSE, cancelled |-> FALSE, before |-> token]
       ELSE IF attempt[b].phase = "running" THEN [attempt[b] EXCEPT !.cancelled = TRUE] ELSE attempt[b]]

StartAttempt(c) ==
  /\ request[c].does = "start"
  /\ \E a \in Attempts :
       /\ NewAttempt(a)
       /\ request' = [request EXCEPT ![c] = [does |-> "remember", for |-> "start", of |-> a]]
  /\ UNCHANGED <<token, session, starting, lost>>

\* The stored tokens are still good, or the provider's error ends the start.
StartEndsWithout(c) ==
  /\ request[c].does = "start"
  /\ \/ UNCHANGED <<attempt, lost>>
     \/ /\ "start" \in Unfinished
        /\ \E a \in Attempts : NewAttempt(a) /\ lost' = lost \cup {a}
  /\ starting' = FALSE
  /\ CallEnds(c)
  /\ UNCHANGED <<token, session>>

\* After the audit line; records older than half an hour go, if their worker is done.
Remember(c) ==
  /\ request[c].does = "remember"
  /\ \/ \E lapsed \in SUBSET {a \in session : WorkerDone(a)} :
          session' = (session \ lapsed) \cup {request[c].of} /\ UNCHANGED lost
     \/ "audit" \in Unfinished /\ UNCHANGED session /\ lost' = lost \cup {request[c].of}
  /\ starting' = FALSE
  /\ CallEnds(c)
  /\ UNCHANGED <<attempt, token>>

-----------------------------------------------------------------------------
(* Polls, and the worker *)

Outcome(a) == WorkerDone(a) \/ ("poll" \in Unfinished /\ attempt[a].phase \in {"committed", "undoing"})

\* A poll that finds the outcome forgets the attempt.
Poll(a) ==
  /\ a \in session /\ Outcome(a)
  /\ session' = session \ {a}
  /\ lost' = IF WorkerDone(a) THEN lost ELSE lost \cup {a}
  /\ UNCHANGED <<attempt, token, starting, request>>

Callback(a) ==
  /\ a \in session /\ attempt[a].phase = "running" /\ ~attempt[a].code
  /\ attempt' = [attempt EXCEPT ![a].code = TRUE]
  /\ UNCHANGED <<token, session, starting, request, lost>>

CommitTokens(a) ==
  /\ attempt[a].phase = "running" /\ attempt[a].code /\ ~attempt[a].cancelled
  /\ attempt' = [attempt EXCEPT ![a].phase = "committed"]
  /\ token' = a
  /\ UNCHANGED <<session, starting, request, lost>>

\* Cancelled, refused by the provider, or not answered in time.
Fails(a) ==
  /\ attempt[a].phase = "running"
  /\ attempt' = [attempt EXCEPT ![a].phase = "undoing"]
  /\ UNCHANGED <<token, session, starting, request, lost>>

\* The rollback leaves the tokens alone while a later attempt is active.
WorkerStops(a) ==
  /\ attempt[a].phase \in {"committed", "undoing"}
  /\ attempt' = [attempt EXCEPT ![a].phase = "done"]
  /\ token' = IF attempt[a].phase = "committed" \/ \E b \in Attempts : attempt[b].phase = "running"
              THEN token ELSE attempt[a].before
  /\ UNCHANGED <<session, starting, request, lost>>

-----------------------------------------------------------------------------

OAuthInit ==
  /\ attempt = [a \in Attempts |-> NoAttempt]
  /\ token = 0 /\ session = {} /\ lost = {} /\ starting = FALSE
  /\ request = [c \in Clients |-> NoCall]

CallGoes(c) == Cancel(c) \/ WorkerExited(c) \/ WorkerBusy(c) \/ StartAttempt(c) \/ StartEndsWithout(c) \/ Remember(c)

OAuthNext ==
  \/ \E c \in Clients, restart \in BOOLEAN : BeginStart(c, restart)
  \/ \E c \in Clients, a \in Attempts : BeginCancel(c, a)
  \/ \E c \in Clients : CallGoes(c)
  \/ \E a \in Attempts : Poll(a) \/ Callback(a) \/ CommitTokens(a) \/ Fails(a) \/ WorkerStops(a)

OAuthSpec == OAuthInit /\ [][OAuthNext]_oauthVars

-----------------------------------------------------------------------------

OAuthTypeOK ==
  /\ \A a \in Attempts : \/ attempt[a] = NoAttempt
                         \/ /\ attempt[a].phase \in {"running", "committed", "undoing", "done"}
                            /\ attempt[a].before \in 0..(a - 1)
  /\ token \in 0..MaxAttempt /\ session \subseteq Attempts /\ lost \subseteq Attempts
  /\ \A a \in session \cup lost : attempt[a] # NoAttempt
  /\ starting = (\E c \in Clients : request[c].does # "nothing" /\ request[c].for = "start")

\* Attempts for one server do not overlap, whoever starts, restarts, cancels
\* and polls at once and however long an old worker needs: of the workers that
\* run, all but one are workers the plugin was made to let go of (_STARTING,
\* _open_session, _cancel).
NoOverlap == \A a, b \in Attempts \ lost : Works(a) /\ Works(b) => a = b

\* As the changelog has it: "0.17.1 prevents overlapping MCP OAuth attempts for
\* the same server" (README.md:232).
OneWorker == \A a, b \in Attempts : Works(a) /\ Works(b) => a = b

\* An approval is not taken back by the rollback of an attempt that began
\* before it ("its rollback restores the pre-attempt token snapshot and erases
\* the fresh authorization", README.md:232), unless the plugin was made to let
\* go of that attempt.
TokensStay ==
  [][\A a \in Attempts :
       attempt[a].phase = "undoing" /\ attempt'[a].phase = "done" /\ token > a /\ token' < token
         => a \in lost]_oauthVars

=============================================================================
