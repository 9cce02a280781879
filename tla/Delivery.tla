------------------------------ MODULE Delivery ------------------------------
(***************************************************************************)
(* What the event stream promises to the reader of a log.  Entries are     *)
(* only ever added to a log.  The client starts at the end of one, and     *)
(* each answer brings it the next of the entries that it is told of: in    *)
(* the order of the log, none left out and none twice.  Answers that get   *)
(* lost, a limit, other logs in the same answer, and which board's poll    *)
(* reads a log are nothing that it sees.                                   *)
(***************************************************************************)
EXTENDS Integers, Sequences

CONSTANTS Logs, Entries,
          Told,     \* the entries that a client is told of
          Nowhere   \* the start of a client that has not started

VARIABLES
  log,     \* log[s]: the entries of s
  start,   \* start[s]: how many entries there were when the client started
  heard,   \* heard[s]: the places of the entries it has been told of
  latest   \* latest[s]: those that the last answer brought

deliveryVars == <<log, start, heard, latest>>

\* The places of the entries that the client has yet to be told of.
Owed(s) ==
  {i \in DOMAIN log[s] : start[s] < i /\ log[s][i] \in Told /\ i \notin heard[s]}

Write(s, e) ==
  /\ log' = [log EXCEPT ![s] = Append(@, e)]
  /\ UNCHANGED <<start, heard, latest>>

Join(s) ==
  /\ start[s] = Nowhere
  /\ start' = [start EXCEPT ![s] = Len(log[s])]
  /\ UNCHANGED <<log, heard, latest>>

Ask(s) ==
  /\ latest' = [latest EXCEPT ![s] = {}]
  /\ UNCHANGED <<log, start, heard>>

\* An answer: what is owed, up to some place.
Deliver(s) ==
  /\ start[s] # Nowhere
  /\ \E p \in DOMAIN log[s] : latest' = [latest EXCEPT ![s] = {i \in Owed(s) : i <= p}]
  /\ heard' = [heard EXCEPT ![s] = @ \cup latest'[s]]
  /\ UNCHANGED <<log, start>>

DeliveryInit ==
  /\ log = [s \in Logs |-> <<>>]
  /\ start = [s \in Logs |-> Nowhere]
  /\ heard = [s \in Logs |-> {}]
  /\ latest = [s \in Logs |-> {}]

DeliveryNext == \E s \in Logs :
  \/ \E e \in Entries : Write(s, e)
  \/ Join(s)
  \/ Ask(s)
  \/ Deliver(s)

DeliverySpec == DeliveryInit /\ [][DeliveryNext]_deliveryVars

=============================================================================
