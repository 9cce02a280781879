---------------------------- MODULE CardProposal ----------------------------
(***************************************************************************)
(* A proposal that a profile leaves, and the card that people make of it.  *)
(*                                                                         *)
(* The plugin keeps a row per proposal and changes it with updates that    *)
(* are judged by their row count.  The client resolves, creates the card   *)
(* and records it, or takes the resolution back when the creation fails:   *)
(* three requests, among those of other people, each of which may be       *)
(* carried out without its answer arriving, or be sent again.              *)
(***************************************************************************)
EXTENDS Naturals, FiniteSets

CONSTANTS Proposals, \* proposals of profiles
          People,    \* people who click at the same time
          MaxCards,  \* bound on the cards made of all proposals
          MaxLost    \* bound on the requests of a proposal whose answer is lost

VARIABLES
  proposal, \* proposal[q]: the row
  person,   \* person[h]: the request a person's client has to send next
  made,     \* cards made so far: <<card, proposal>>
  lost      \* lost[q]: creations that looked like a failure, and undoings that were sent again

proposalVars == <<proposal, person, made, lost>>

NoPerson == [doing |-> "nothing"]
NoRow == [state |-> "none"]
Open == [state |-> "open"]
NoCard == 0

CardsOf(q) == {m[1] : m \in {n \in made : n[2] = q}}
Loses(q) == lost[q] < MaxLost /\ lost' = [lost EXCEPT ![q] = @ + 1]

\* The tool: the row and its event are one transaction.
Propose(q) ==
  /\ proposal[q] = NoRow
  /\ proposal' = [proposal EXCEPT ![q] = Open]
  /\ UNCHANGED <<person, made, lost>>

\* The row and the client after a choice: with the card that came with it, which
\* "inline" drops, or else with one that the client will create.
Chooses(h, q, choice, task) ==
  /\ proposal' = [proposal EXCEPT ![q] =
       [state |-> "resolved", choice |-> choice, card |-> IF choice = "card" THEN task ELSE NoCard]]
  /\ person' = [person EXCEPT ![h] =
       IF choice = "card" /\ task = NoCard THEN [doing |-> "create", of |-> q] ELSE NoPerson]
  /\ UNCHANGED <<made, lost>>

\* (slip) the state is read, and the resolution written whatever it has become
ResolveAgain(h, q, choice, task) ==
  /\ person[h] = NoPerson /\ proposal[q] # NoRow
  /\ Chooses(h, q, choice, task)

\* A card that comes with the choice is one that was made of the proposal before.
Resolve(h, q, choice, task) ==
  /\ person[h] = NoPerson /\ proposal[q] = Open
  /\ Chooses(h, q, choice, task)

\* A client that has no answer to its resolution, or stops, does nothing more.
Forget(h) ==
  /\ person[h] # NoPerson
  /\ person' = [person EXCEPT ![h] = NoPerson]
  /\ UNCHANGED <<proposal, made, lost>>

\* The client creates a card: it is made and the client knows, it is not made,
\* or it is made and the client takes it for a failure.
MakeCard(h) == LET card == Cardinality(made) + 1 IN
  /\ person[h].doing = "create" /\ card <= MaxCards
  /\ made' = made \cup {<<card, person[h].of>>}
  /\ \/ /\ person' = [person EXCEPT ![h] = [doing |-> "record", of |-> person[h].of, card |-> card]]
        /\ UNCHANGED lost
     \/ /\ Loses(person[h].of)
        /\ person' = [person EXCEPT ![h] = [doing |-> "undo", of |-> person[h].of]]
  /\ UNCHANGED proposal

CreationFails(h) ==
  /\ person[h].doing = "create"
  /\ person' = [person EXCEPT ![h] = [doing |-> "undo", of |-> person[h].of]]
  /\ UNCHANGED <<proposal, made, lost>>

MayUnresolve(q) == proposal[q].state = "resolved" /\ proposal[q].card = NoCard

\* unresolve: judged by its row count; refused or not, the client is done, or
\* has no answer and sends it again.
Unresolve(h) ==
  /\ person[h].doing = "undo"
  /\ proposal' = IF MayUnresolve(person[h].of) THEN [proposal EXCEPT ![person[h].of] = Open] ELSE proposal
  /\ \/ person' = [person EXCEPT ![h] = NoPerson] /\ UNCHANGED lost
     \/ Loses(person[h].of) /\ UNCHANGED person
  /\ UNCHANGED made

MayRecord(q) == /\ proposal[q].state = "resolved" /\ proposal[q].choice = "card"
                /\ proposal[q].card = NoCard

\* record_task, which the client sends again when it has no answer.
RecordTask(h) ==
  /\ person[h].doing = "record"
  /\ proposal' = IF MayRecord(person[h].of)
                 THEN [proposal EXCEPT ![person[h].of].card = person[h].card] ELSE proposal
  /\ person' \in {[person EXCEPT ![h] = NoPerson], person}
  /\ UNCHANGED <<made, lost>>

ProposalInit ==
  /\ proposal = [q \in Proposals |-> NoRow]
  /\ person = [h \in People |-> NoPerson]
  /\ made = {} /\ lost = [q \in Proposals |-> 0]

ProposalNext ==
  \/ \E q \in Proposals : Propose(q)
  \/ \E h \in People, q \in Proposals, choice \in {"card", "inline"} :
       \E task \in {NoCard} \cup CardsOf(q) : Resolve(h, q, choice, task)
  \/ \E h \in People : MakeCard(h) \/ CreationFails(h) \/ Unresolve(h) \/ RecordTask(h) \/ Forget(h)

-----------------------------------------------------------------------------

\* A proposal has one card, and one more for each request whose answer was lost
\* at the most; what is recorded is a card of it.
OneCard ==
  \A q \in Proposals :
    /\ Cardinality(CardsOf(q)) <= 1 + lost[q]
    /\ proposal[q].state = "resolved" =>
         /\ proposal[q].card # NoCard => proposal[q].card \in CardsOf(q) /\ proposal[q].choice = "card"
         /\ proposal[q].choice = "inline" => Cardinality(CardsOf(q)) <= lost[q]

\* However often answers are lost, a proposal has one card.
\* ("there is no way to make a second card by taking back",
\* card_proposal_store.py:108)
NoSecondCard == \A q \in Proposals : Cardinality(CardsOf(q)) <= 1

=============================================================================
