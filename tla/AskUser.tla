------------------------------ MODULE AskUser ------------------------------
(***************************************************************************)
(* deskrpg_ask_user: a run asks a person a question and waits, without a   *)
(* limit, for the answer.                                                  *)
(*                                                                         *)
(* The tool runs in a thread of the agent, the routes on the event loop;   *)
(* they share the registrations and the questions under one lock, and an   *)
(* event per question that is set after the lock is given back.  A call    *)
(* waits only in a chat session that a client registered, after a grace of *)
(* five seconds; its run may be interrupted at any time.                   *)
(***************************************************************************)
EXTENDS Naturals, FiniteSets

CONSTANTS Calls,        \* calls of the tool, each with a question of its own
          SessionOfCall,\* SessionOfCall[c]: the session of the run that calls
          KindOf,       \* KindOf[s]: the kind of source of session s
          Profiles,     \* profiles whose keys register and answer
          Closed        \* calls whose question takes only one of its choices

AskSessions == {SessionOfCall[c] : c \in Calls}
Responses == {"choice", "other", "blank"}

VARIABLES
  registered, \* registered[s]: the profile that registered s, and whether it is older than a day
  call,       \* call[c]: how far the call is
  asked_of,   \* asked_of[c]: the profile the question is put to
  questions,  \* calls whose question is in the table
  reply,      \* reply[c]: the answer put into the entry of the question
  event,      \* calls whose event is set
  interrupted,\* calls whose run is to stop
  heard        \* heard[c]: the responses somebody was told are the answer of c

askVars == <<registered, call, asked_of, questions, reply, event, interrupted, heard>>

Nobody == [by |-> "nobody"]

-----------------------------------------------------------------------------
(* Registration *)

\* A new registration of a session replaces the old one, and takes those that
\* are older than a day away.
RegisterSession(p, s) ==
  /\ registered' = [t \in AskSessions |->
       IF t = s THEN [by |-> p, old |-> FALSE]
       ELSE IF registered[t] # Nobody /\ registered[t].old THEN Nobody ELSE registered[t]]
  /\ UNCHANGED <<call, asked_of, questions, reply, event, interrupted, heard>>

RegistrationAges(s) ==
  /\ registered[s] # Nobody /\ ~registered[s].old
  /\ registered' = [registered EXCEPT ![s].old = TRUE]
  /\ UNCHANGED <<call, asked_of, questions, reply, event, interrupted, heard>>

Registration(s) == registered[s] # Nobody /\ ~registered[s].old

-----------------------------------------------------------------------------
(* The tool *)

\* Of a session that is no chat nobody is asked.
CallTool(c) ==
  /\ call[c] = "new"
  /\ call' = [call EXCEPT ![c] = IF KindOf[SessionOfCall[c]] = "chat" THEN "grace" ELSE "unattended"]
  /\ UNCHANGED <<registered, asked_of, questions, reply, event, interrupted, heard>>

PutQuestion(c) ==
  /\ call[c] = "grace" /\ Registration(SessionOfCall[c])
  /\ call' = [call EXCEPT ![c] = "waiting"]
  /\ asked_of' = [asked_of EXCEPT ![c] = registered[SessionOfCall[c]].by]
  /\ questions' = questions \cup {c}
  /\ UNCHANGED <<registered, reply, event, interrupted, heard>>

\* The grace is over, or the run is interrupted during it.
GiveUpGrace(c) ==
  /\ call[c] = "grace" /\ ~Registration(SessionOfCall[c])
  /\ call' = [call EXCEPT ![c] = "unattended"]
  /\ UNCHANGED <<registered, asked_of, questions, reply, event, interrupted, heard>>

\* (slip) the wait has no end of its own
WaitsForGood(c) ==
  /\ call[c] = "waiting" /\ c \in event
  /\ call' = [call EXCEPT ![c] = "answered"]
  /\ UNCHANGED <<registered, asked_of, questions, reply, event, interrupted, heard>>

\* event.wait returns: set, or after a second.
WaitSlice(c) ==
  /\ call[c] = "waiting"
  /\ call' = [call EXCEPT ![c] = IF c \in event THEN "answered" ELSE "looks"]
  /\ UNCHANGED <<registered, asked_of, questions, reply, event, interrupted, heard>>

\* (slip) an interrupted run goes without taking its question back
LeavesQuestion(c) ==
  /\ call[c] = "looks"
  /\ call' = [call EXCEPT ![c] = IF c \in interrupted THEN "cancelled" ELSE "waiting"]
  /\ UNCHANGED <<registered, asked_of, questions, reply, event, interrupted, heard>>

LookForInterrupt(c) ==
  /\ call[c] = "looks"
  /\ IF c \in interrupted
     THEN /\ questions' = questions \ {c}
          /\ call' = [call EXCEPT ![c] = "cancelled"]
     ELSE /\ call' = [call EXCEPT ![c] = "waiting"]
          /\ UNCHANGED questions
  /\ UNCHANGED <<registered, asked_of, reply, event, interrupted, heard>>

Interrupt(c) ==
  /\ c \notin interrupted
  /\ interrupted' = interrupted \cup {c}
  /\ UNCHANGED <<registered, call, asked_of, questions, reply, event, heard>>

-----------------------------------------------------------------------------
(* The answer *)

Valid(c, response) == response # "blank" /\ (c \in Closed => response = "choice")

\* (slip) the question stays until its run has read the answer
AnswerKeepsQuestion(p, c, response) ==
  /\ c \in questions /\ asked_of[c] = p /\ Valid(c, response)
  /\ reply' = [reply EXCEPT ![c] = response]
  /\ heard' = [heard EXCEPT ![c] = @ \cup {<<p, response>>}]
  /\ UNCHANGED <<registered, call, asked_of, questions, event, interrupted>>

\* The part of answer under the lock; a question that is gone, of another
\* profile, or badly answered changes nothing.
Answer(p, c, response) ==
  /\ c \in questions /\ asked_of[c] = p /\ Valid(c, response)
  /\ questions' = questions \ {c}
  /\ reply' = [reply EXCEPT ![c] = response]
  /\ heard' = [heard EXCEPT ![c] = @ \cup {<<p, response>>}]
  /\ UNCHANGED <<registered, call, asked_of, event, interrupted>>

SetEvent(c) ==
  /\ heard[c] # {} /\ c \notin event
  /\ event' = event \cup {c}
  /\ UNCHANGED <<registered, call, asked_of, questions, reply, interrupted, heard>>

-----------------------------------------------------------------------------

AskInit ==
  /\ registered = [s \in AskSessions |-> Nobody]
  /\ call = [c \in Calls |-> "new"]
  /\ asked_of = [c \in Calls |-> "nobody"]
  /\ questions = {} /\ reply = [c \in Calls |-> "none"]
  /\ event = {} /\ interrupted = {}
  /\ heard = [c \in Calls |-> {}]

AskRun(c) == CallTool(c) \/ PutQuestion(c) \/ GiveUpGrace(c) \/ WaitSlice(c) \/ LookForInterrupt(c)

AskNext ==
  \/ \E p \in Profiles, s \in AskSessions : RegisterSession(p, s)
  \/ \E s \in AskSessions : RegistrationAges(s)
  \/ \E c \in Calls : CallTool(c) \/ PutQuestion(c) \/ GiveUpGrace(c) \/ WaitSlice(c) \/ LookForInterrupt(c)
  \/ \E c \in Calls : Interrupt(c) \/ SetEvent(c)
  \/ \E p \in Profiles, c \in Calls, response \in Responses : Answer(p, c, response)

\* The thread of a run goes on; a handler that has taken an answer finishes.
-----------------------------------------------------------------------------

Returned == {"unattended", "cancelled", "answered"}

\* Types; a question in the table is one its run still waits on, so that what
\* a client lists as open can be answered ("a person sees a question nobody
\* waits for" would be a leak of the table).
AskTypeOK ==
  /\ \A s \in AskSessions : registered[s] = Nobody \/ registered[s] \in [by : Profiles, old : BOOLEAN]
  /\ call \in [Calls -> {"new", "grace", "waiting", "looks"} \cup Returned]
  /\ \A c \in questions : call[c] \in {"waiting", "looks"} /\ asked_of[c] \in Profiles
  /\ reply \in [Calls -> Responses \cup {"none"}]
  /\ event \subseteq Calls /\ interrupted \subseteq Calls

\* Whoever was told "answered" was the only one, and was of the profile that
\* had registered the session when the question was put; the run returns that
\* answer, or was interrupted.  ("the second answer is not_found",
\* ask_user.py:158)
OneAnswer ==
  \A c \in Calls :
    /\ Cardinality(heard[c]) <= 1
    /\ \A t \in heard[c] : t = <<asked_of[c], reply[c]>> /\ Valid(c, reply[c])
    /\ call[c] = "answered" => heard[c] # {}
    /\ call[c] = "cancelled" => c \in interrupted

\* A call that was answered, or whose run was interrupted, or of a session
\* that nobody can answer in, returns.
CallReturns ==
  \A c \in Calls :
    /\ heard[c] # {} \/ (call[c] # "new" /\ c \in interrupted) ~> call[c] \in Returned
    /\ call[c] = "grace" ~> call[c] # "grace"

=============================================================================
