--------------------- MODULE ConversationServicesProofs ---------------------
(* The services of a conversation keep what they promise: questions, card   *)
(* proposals, uploads and jobs, each by an invariant of its own.            *)
EXTENDS ConversationServices, ConversationFilesProofs, FiniteSetTheorems, SequenceTheorems, TLAPS

-----------------------------------------------------------------------------
(* Questions to people *)

AskShapes ==
  /\ registered = [s \in AskSessions |-> registered[s]]
  /\ \A s \in AskSessions : registered[s] = Nobody \/ registered[s] \in [by : Profiles, old : BOOLEAN]
  /\ call \in [Calls -> {"new", "grace", "waiting", "looks"} \cup Returned]
  /\ asked_of \in [Calls -> Profiles \cup {"nobody"}]
  /\ reply \in [Calls -> Responses \cup {"none"}]
  /\ heard = [c \in Calls |-> heard[c]]
  /\ questions \subseteq Calls /\ event \subseteq Calls /\ interrupted \subseteq Calls

\* A question in the table waits, for a profile, and nobody has answered it.
OpenQuestions ==
  \A c \in questions : heard[c] = {} /\ call[c] \in {"waiting", "looks"} /\ asked_of[c] \in Profiles

\* What somebody was told is the answer in the entry.
Heard ==
  \A c \in Calls : heard[c] # {} =>
    /\ heard[c] = {<<asked_of[c], reply[c]>>} /\ Valid(c, reply[c])
    /\ call[c] \notin {"new", "grace", "unattended"}

\* An event is set for an answer, and a call ends by its event or its interrupt.
Ends ==
  /\ \A c \in event : heard[c] # {}
  /\ \A c \in Calls : call[c] = "answered" => c \in event
  /\ \A c \in Calls : call[c] = "cancelled" => c \in interrupted

AskInv == AskShapes /\ OpenQuestions /\ Heard /\ Ends

LEMMA AskInitInv == AskInit => AskInv
BY DEF AskInit, AskInv, AskShapes, OpenQuestions, Heard, Ends, Returned

LEMMA RegistrationInv ==
  ASSUME AskInv,
         \/ \E p \in Profiles, s \in AskSessions : RegisterSession(p, s)
         \/ \E s \in AskSessions : RegistrationAges(s)
  PROVE  AskInv'
<1>1. UNCHANGED <<call, asked_of, questions, reply, event, interrupted, heard>>
  BY DEF RegisterSession, RegistrationAges
<1>2. /\ registered' = [s \in AskSessions |-> registered'[s]]
      /\ \A s \in AskSessions : registered'[s] = Nobody \/ registered'[s] \in [by : Profiles, old : BOOLEAN]
  <2>1. ASSUME NEW p \in Profiles, NEW s \in AskSessions, RegisterSession(p, s) PROVE <1>2
    BY <2>1 DEF RegisterSession, AskInv, AskShapes
  <2>2. ASSUME NEW s \in AskSessions, RegistrationAges(s) PROVE <1>2
    BY <2>2 DEF RegistrationAges, AskInv, AskShapes
  <2> QED
    BY <2>1, <2>2
<1> QED
  BY <1>1, <1>2 DEF AskInv, AskShapes, OpenQuestions, Heard, Ends, Valid

\* The tool: the call goes on, and its question is put or taken back.
LEMMA AskRunInv ==
  ASSUME AskInv, NEW c \in Calls, AskRun(c)
  PROVE  AskInv'
<1>1. CASE CallTool(c)
  <2>1. AskShapes'
    BY <1>1 DEF CallTool, AskInv, AskShapes, Returned
  <2>2. OpenQuestions'
    BY <1>1 DEF CallTool, AskInv, AskShapes, OpenQuestions
  <2>3. Heard'
    BY <1>1 DEF CallTool, AskInv, AskShapes, Heard, Valid
  <2>4. Ends'
    BY <1>1 DEF CallTool, AskInv, AskShapes, Heard, Ends
  <2> QED
    BY <2>1, <2>2, <2>3, <2>4 DEF AskInv
<1>2. CASE PutQuestion(c)
  <2>1. SessionOfCall[c] \in AskSessions
    BY DEF AskSessions
  <2>2. registered[SessionOfCall[c]].by \in Profiles
    BY <1>2, <2>1 DEF PutQuestion, Registration, AskInv, AskShapes
  <2>3. heard[c] = {} /\ call[c] = "grace"
    BY <1>2 DEF PutQuestion, AskInv, Heard
  <2>4. AskShapes'
    BY <1>2, <2>2 DEF PutQuestion, AskInv, AskShapes
  <2>5. OpenQuestions'
    BY <1>2, <2>2, <2>3 DEF PutQuestion, AskInv, AskShapes, OpenQuestions
  <2>6. Heard' /\ Ends'
    BY <1>2, <2>3 DEF PutQuestion, AskInv, AskShapes, Heard, Ends, Valid
  <2> QED
    BY <2>4, <2>5, <2>6 DEF AskInv
<1>3. CASE GiveUpGrace(c)
  <2>1. AskShapes'
    BY <1>3 DEF GiveUpGrace, AskInv, AskShapes, Returned
  <2>2. OpenQuestions'
    BY <1>3 DEF GiveUpGrace, AskInv, AskShapes, OpenQuestions
  <2>3. Heard'
    BY <1>3 DEF GiveUpGrace, AskInv, AskShapes, Heard, Valid
  <2>4. Ends'
    BY <1>3 DEF GiveUpGrace, AskInv, AskShapes, Heard, Ends
  <2> QED
    BY <2>1, <2>2, <2>3, <2>4 DEF AskInv
<1>4. CASE WaitSlice(c)
  <2>1. AskShapes'
    BY <1>4 DEF WaitSlice, AskInv, AskShapes, Returned
  <2>2. OpenQuestions'
    <3>1. PICK x \in {"answered", "looks"} : call' = [call EXCEPT ![c] = x] /\ (x = "answered" => c \in event)
      BY <1>4 DEF WaitSlice
    <3>2. UNCHANGED <<questions, heard, asked_of>> /\ (c \in event => heard[c] # {})
      BY <1>4 DEF WaitSlice, AskInv, Ends
    <3> QED
      BY <3>1, <3>2 DEF AskInv, AskShapes, OpenQuestions
  <2>3. Heard'
    BY <1>4 DEF WaitSlice, AskInv, AskShapes, Heard, Valid
  <2>4. Ends'
    BY <1>4 DEF WaitSlice, AskInv, AskShapes, Heard, Ends
  <2> QED
    BY <2>1, <2>2, <2>3, <2>4 DEF AskInv
<1>5. CASE LookForInterrupt(c)
  <2>1. PICK x \in {"cancelled", "waiting"} :
          /\ call' = [call EXCEPT ![c] = x] /\ questions' \subseteq questions
          /\ x = "cancelled" => c \in interrupted /\ c \notin questions'
    BY <1>5 DEF LookForInterrupt
  <2>2. call[c] = "looks" /\ UNCHANGED <<registered, asked_of, reply, event, interrupted, heard>>
    BY <1>5 DEF LookForInterrupt
  <2>3. AskShapes'
    BY <2>1, <2>2 DEF AskInv, AskShapes, Returned
  <2>4. OpenQuestions'
    BY <2>1, <2>2 DEF AskInv, AskShapes, OpenQuestions
  <2>5. Heard' /\ Ends'
    BY <2>1, <2>2 DEF AskInv, AskShapes, Heard, Ends, Valid
  <2> QED
    BY <2>3, <2>4, <2>5 DEF AskInv
<1> QED
  BY <1>1, <1>2, <1>3, <1>4, <1>5 DEF AskRun

\* Interrupts, and the two halves of an answer.
LEMMA AnswerInv ==
  ASSUME AskInv, NEW c \in Calls,
         \/ Interrupt(c) \/ SetEvent(c)
         \/ \E p \in Profiles, response \in Responses : Answer(p, c, response)
  PROVE  AskInv'
<1>1. CASE Interrupt(c)
  BY <1>1 DEF Interrupt, AskInv, AskShapes, OpenQuestions, Heard, Ends, Valid
<1>2. CASE SetEvent(c)
  BY <1>2 DEF SetEvent, AskInv, AskShapes, OpenQuestions, Heard, Ends, Valid
<1>3. ASSUME NEW p \in Profiles, NEW response \in Responses, Answer(p, c, response)
      PROVE  AskInv'
  <2>1. heard[c] = {} /\ call[c] \in {"waiting", "looks"} /\ asked_of[c] = p /\ Valid(c, response)
    BY <1>3 DEF Answer, AskInv, OpenQuestions
  <2>2. reply' = [reply EXCEPT ![c] = response] /\ heard' = [heard EXCEPT ![c] = {<<p, response>>}]
    BY <1>3, <2>1 DEF Answer, AskInv, AskShapes
  <2>3. AskShapes'
    <3>1. heard' = [k \in Calls |-> heard'[k]]
      BY <2>2 DEF AskInv, AskShapes
    <3>2. reply' \in [Calls -> Responses \cup {"none"}]
      BY <2>2 DEF AskInv, AskShapes
    <3> QED
      BY <1>3, <3>1, <3>2 DEF Answer, AskInv, AskShapes
  <2>5. OpenQuestions'
    <3>1. questions' = questions \ {c}
      BY <1>3 DEF Answer
    <3>2. \A k \in questions' : heard'[k] = heard[k]
      BY <2>2, <3>1
    <3> QED
      BY <1>3, <3>1, <3>2 DEF Answer, AskInv, OpenQuestions
  <2>4. Heard' /\ Ends'
    BY <1>3, <2>1, <2>2 DEF Answer, AskInv, AskShapes, Heard, Ends, Valid
  <2> QED
    BY <2>3, <2>4, <2>5 DEF AskInv
<1> QED
  BY <1>1, <1>2, <1>3

LEMMA AskNextInv == AskInv /\ [AskNext]_askVars => AskInv'
<1> SUFFICES ASSUME AskInv, [AskNext]_askVars PROVE AskInv'
  OBVIOUS
<1>1. CASE AskNext
  BY <1>1, RegistrationInv, AskRunInv, AnswerInv DEF AskNext, AskRun
<1>2. CASE UNCHANGED askVars
  BY <1>2 DEF askVars, AskInv, AskShapes, OpenQuestions, Heard, Ends, Valid
<1> QED
  BY <1>1, <1>2

LEMMA AskAlone == ServicesInit => AskInit
BY DEF ServicesInit

LEMMA AskSteps == [ServicesNext]_servicesVars => [AskNext]_askVars
BY DEF ServicesNext, servicesVars, askVars

\* The invariant of the questions holds in every reachable state: who waits, who
\* was told, and that the two agree (ask_user.py).
THEOREM AskInvariant == ServicesSpec => []AskInv
<1> QED
  BY AskAlone, AskSteps, AskInitInv, AskNextInv, PTL DEF ServicesSpec

\* Types, and that a question in the table is one its run still waits on.
THEOREM QuestionsWaitedOn == ServicesSpec => []AskTypeOK
<1>1. AskInv => AskTypeOK
  BY DEF AskInv, AskShapes, OpenQuestions, AskTypeOK
<1> QED
  BY <1>1, AskInvariant, PTL

\* One person is told that the answer was taken, and it is the answer the run
\* returns (answer, ask_user.py).
THEOREM OnePersonAnswers == ServicesSpec => []OneAnswer
<1>1. AskInv => OneAnswer
  <2> SUFFICES ASSUME AskInv, NEW c \in Calls
               PROVE  /\ Cardinality(heard[c]) <= 1
                      /\ \A t \in heard[c] : t = <<asked_of[c], reply[c]>> /\ Valid(c, reply[c])
                      /\ call[c] = "answered" => heard[c] # {}
                      /\ call[c] = "cancelled" => c \in interrupted
    BY DEF OneAnswer
  <2>1. heard[c] = {} \/ heard[c] = {<<asked_of[c], reply[c]>>}
    BY DEF AskInv, Heard
  <2>2. Cardinality(heard[c]) \in {0, 1}
    BY <2>1, FS_EmptySet, FS_Singleton
  <2>3. \A t \in heard[c] : t = <<asked_of[c], reply[c]>> /\ Valid(c, reply[c])
    BY <2>1 DEF AskInv, Heard
  <2> QED
    BY <2>2, <2>3 DEF AskInv, Ends
<1> QED
  BY <1>1, AskInvariant, PTL

-----------------------------------------------------------------------------
(* Card proposals *)

RowsOfProposal == {NoRow, Open} \cup [state : {"resolved"}, choice : {"card", "inline"}, card : Nat]
PersonState ==
  {NoPerson} \cup [doing : {"create", "undo"}, of : Proposals]
             \cup [doing : {"record"}, of : Proposals, card : Nat]

ProposalShapes ==
  /\ proposal \in [Proposals -> RowsOfProposal]
  /\ person \in [People -> PersonState]
  /\ lost \in [Proposals -> Nat]
  /\ IsFiniteSet(made) /\ \A n \in made : n[1] \in Nat

CardsIn(cards, q) == {m[1] : m \in {n \in cards : n[2] = q}}

\* The clients that may still make a card of q, or have q opened for another.
OnTheirWay(q) == {h \in People : person[h].doing \in {"create", "undo"} /\ person[h].of = q}

Chosen(q) == proposal[q].state = "resolved" /\ proposal[q].choice = "card"

\* A card that is there, or that a client may still cause, is paid for by the
\* resolution that stands or by a lost answer.
Weighed ==
  \A q \in Proposals :
    /\ IsFiniteSet(OnTheirWay(q)) /\ IsFiniteSet(CardsOf(q))
    /\ Cardinality(CardsOf(q)) + Cardinality(OnTheirWay(q)) <= lost[q] + (IF Chosen(q) THEN 1 ELSE 0)

OwnCards ==
  /\ \A h \in People : person[h].doing = "record" => person[h].card \in CardsOf(person[h].of)
  /\ \A q \in Proposals : proposal[q].state = "resolved" /\ proposal[q].card # NoCard =>
       proposal[q].card \in CardsOf(q) /\ proposal[q].choice = "card"

ProposalInv == ProposalShapes /\ Weighed /\ OwnCards

LEMMA ProposalInitInv == ProposalInit => ProposalInv
<1> SUFFICES ASSUME ProposalInit PROVE ProposalInv
  OBVIOUS
<1>1. ProposalShapes
  BY FS_EmptySet DEF ProposalInit, ProposalShapes, RowsOfProposal, PersonState
<1>2. \A q \in Proposals : OnTheirWay(q) = {} /\ CardsOf(q) = {} /\ ~Chosen(q) /\ proposal[q].state = "none"
  BY DEF ProposalInit, OnTheirWay, CardsOf, Chosen, NoPerson, NoRow
<1>3. Weighed
  <2> SUFFICES ASSUME NEW q \in Proposals
               PROVE  /\ IsFiniteSet(OnTheirWay(q)) /\ IsFiniteSet(CardsOf(q))
                      /\ Cardinality(CardsOf(q)) + Cardinality(OnTheirWay(q)) <= lost[q] + (IF Chosen(q) THEN 1 ELSE 0)
    BY DEF Weighed
  <2>1. OnTheirWay(q) = {} /\ CardsOf(q) = {} /\ ~Chosen(q) /\ lost[q] \in Nat
    BY <1>1, <1>2 DEF ProposalShapes
  <2>2. /\ IsFiniteSet(OnTheirWay(q)) /\ IsFiniteSet(CardsOf(q))
        /\ Cardinality(OnTheirWay(q)) = 0 /\ Cardinality(CardsOf(q)) = 0
    BY <2>1, FS_EmptySet, Zenon
  <2> QED
    BY <2>1, <2>2
<1>4. OwnCards
  BY <1>2 DEF ProposalInit, OwnCards, NoPerson
<1> QED
  BY <1>1, <1>3, <1>4 DEF ProposalInv

LEMMA OneMore ==
  ASSUME NEW S, NEW x, IsFiniteSet(S)
  PROVE  /\ IsFiniteSet(S \cup {x}) /\ IsFiniteSet(S \ {x})
         /\ Cardinality(S) \in Nat /\ Cardinality(S \cup {x}) \in Nat /\ Cardinality(S \ {x}) \in Nat
         /\ Cardinality(S \cup {x}) <= Cardinality(S) + 1
         /\ Cardinality(S \ {x}) <= Cardinality(S)
         /\ x \in S => Cardinality(S \ {x}) + 1 = Cardinality(S)
<1>1. IsFiniteSet(S \cup {x}) /\ Cardinality(S \cup {x}) = IF x \in S THEN Cardinality(S) ELSE Cardinality(S) + 1
  BY FS_AddElement
<1>2. IsFiniteSet(S \ {x}) /\ Cardinality(S \ {x}) = IF x \in S THEN Cardinality(S) - 1 ELSE Cardinality(S)
  BY FS_RemoveElement
<1>3. Cardinality(S) \in Nat /\ Cardinality(S \ {x}) \in Nat
  BY <1>2, FS_CardinalityType
<1> QED
  BY <1>1, <1>2, <1>3

LEMMA OneLess ==
  ASSUME NEW S, NEW T, NEW x, IsFiniteSet(S), x \in S, T = S \ {x}
  PROVE  IsFiniteSet(T) /\ Cardinality(T) \in Nat /\ Cardinality(T) + 1 = Cardinality(S)
<1>1. IsFiniteSet(S \ {x}) /\ Cardinality(S \ {x}) \in Nat /\ Cardinality(S \ {x}) + 1 = Cardinality(S)
  BY OneMore
<1> QED
  BY <1>1

LEMMA CardAdded ==
  ASSUME NEW S, NEW card, NEW q
  PROVE  CardsIn(S \cup {<<card, q>>}, q) = CardsIn(S, q) \cup {card}
<1>1. ASSUME NEW c \in CardsIn(S \cup {<<card, q>>}, q) PROVE c \in CardsIn(S, q) \cup {card}
  <2>1. PICK m \in S \cup {<<card, q>>} : m[2] = q /\ c = m[1]
    BY DEF CardsIn
  <2>2. CASE m \in S
    BY <2>1, <2>2 DEF CardsIn
  <2>3. CASE m = <<card, q>>
    BY <2>1, <2>3
  <2> QED
    BY <2>2, <2>3
<1>2. ASSUME NEW c \in CardsIn(S, q) \cup {card} PROVE c \in CardsIn(S \cup {<<card, q>>}, q)
  <2>1. <<card, q>>[1] = card /\ <<card, q>>[2] = q
    OBVIOUS
  <2> QED
    BY <2>1 DEF CardsIn
<1> QED
  BY <1>1, <1>2

\* A client is on its way for the proposal of its request, if at all.
LEMMA WayOf ==
  ASSUME ProposalShapes, NEW h \in People, NEW x, person' = [person EXCEPT ![h] = x], NEW q \in Proposals
  PROVE  /\ x.doing \in {"create", "undo"} /\ x.of = q => OnTheirWay(q)' = OnTheirWay(q) \cup {h}
         /\ ~(x.doing \in {"create", "undo"} /\ x.of = q) => OnTheirWay(q)' = OnTheirWay(q) \ {h}
BY DEF ProposalShapes, OnTheirWay

LEMMA PersonOf ==
  ASSUME ProposalShapes, NEW h \in People
  PROVE  /\ person[h].doing \in {"create", "undo", "record"} => person[h].of \in Proposals
         /\ person[h].doing \in {"nothing", "create", "undo", "record"}
         /\ person[h].doing = "nothing" => person[h] = NoPerson
         /\ person[h].doing = "record" => person[h].card \in Nat
BY DEF ProposalShapes, PersonState, NoPerson

\* What is weighed for q stays when its row, its cards and its lost answers do,
\* and nobody joins.
LEMMA WeighedStays ==
  ASSUME ProposalInv, NEW h \in People, NEW q \in Proposals,
         OnTheirWay(q)' = OnTheirWay(q) \/ OnTheirWay(q)' = OnTheirWay(q) \ {h},
         CardsOf(q)' = CardsOf(q), Chosen(q)' <=> Chosen(q), lost'[q] = lost[q]
  PROVE  /\ IsFiniteSet(OnTheirWay(q)') /\ IsFiniteSet(CardsOf(q)')
         /\ Cardinality(CardsOf(q)') + Cardinality(OnTheirWay(q)') <= lost'[q] + (IF Chosen(q)' THEN 1 ELSE 0)
<1>1. /\ IsFiniteSet(OnTheirWay(q)) /\ IsFiniteSet(CardsOf(q))
      /\ Cardinality(CardsOf(q)) + Cardinality(OnTheirWay(q)) <= lost[q] + (IF Chosen(q) THEN 1 ELSE 0)
      /\ lost[q] \in Nat
  BY DEF ProposalInv, Weighed, ProposalShapes
<1>2. /\ Cardinality(OnTheirWay(q)) \in Nat /\ Cardinality(CardsOf(q)) \in Nat
      /\ IsFiniteSet(OnTheirWay(q)') /\ Cardinality(OnTheirWay(q)') <= Cardinality(OnTheirWay(q))
      /\ Cardinality(OnTheirWay(q)') \in Nat
  <2> DEFINE S == OnTheirWay(q)
             T == OnTheirWay(q)'
  <2>1. IsFiniteSet(S) /\ (T = S \/ T = S \ {h})
    BY <1>1
  <2>2. Cardinality(CardsOf(q)) \in Nat
    BY <1>1, FS_CardinalityType
  <2> HIDE DEF S, T
  <2>3. Cardinality(S) \in Nat /\ IsFiniteSet(T) /\ Cardinality(T) <= Cardinality(S) /\ Cardinality(T) \in Nat
    <3>1. /\ IsFiniteSet(S \ {h}) /\ Cardinality(S \ {h}) <= Cardinality(S)
          /\ Cardinality(S \ {h}) \in Nat /\ Cardinality(S) \in Nat
      BY <2>1, OneMore
    <3>2. CASE T = S
      BY <2>1, <3>1, <3>2
    <3>3. CASE T = S \ {h}
      BY <3>1, <3>3
    <3> QED
      BY <2>1, <3>2, <3>3
  <2> QED
    BY <2>2, <2>3 DEF S, T
<1> QED
  BY <1>1, <1>2

LEMMA ResolveInv ==
  ASSUME ProposalInv, NEW h \in People, NEW q \in Proposals, NEW choice \in {"card", "inline"},
         NEW task \in {NoCard} \cup CardsOf(q), Resolve(h, q, choice, task)
  PROVE  ProposalInv'
<1> DEFINE x == IF choice = "card" /\ task = NoCard THEN [doing |-> "create", of |-> q] ELSE NoPerson
           card == IF choice = "card" THEN task ELSE NoCard
           rowOf == [state |-> "resolved", choice |-> choice, card |-> card]
<1>1. /\ person[h] = NoPerson /\ proposal[q] = Open
      /\ proposal' = [proposal EXCEPT ![q] = rowOf]
      /\ person' = [person EXCEPT ![h] = x] /\ made' = made /\ lost' = lost
  BY DEF Resolve, Chooses
<1>2. ProposalShapes
  BY DEF ProposalInv
<1>3. ProposalShapes'
  <2>1. card \in Nat
    <3>1. NoCard \in Nat
      BY DEF NoCard
    <3>2. \A c \in CardsOf(q) : c \in Nat
      BY <1>2 DEF ProposalShapes, CardsOf
    <3> QED
      BY <3>1, <3>2
  <2>2. x \in PersonState /\ rowOf \in RowsOfProposal
    BY <2>1 DEF PersonState, RowsOfProposal
  <2> QED
    BY <1>1, <1>2, <2>2 DEF ProposalShapes
<1>4. \A p \in Proposals : CardsOf(p)' = CardsOf(p) /\ lost'[p] = lost[p]
  BY <1>1 DEF CardsOf
<1>5. /\ (choice = "card" /\ task = NoCard) => x.doing = "create" /\ x.of = q
      /\ ~(choice = "card" /\ task = NoCard) => x.doing = "nothing"
  BY DEF NoPerson
<1>6. /\ rowOf.state = "resolved" /\ rowOf.choice = choice /\ rowOf.card = card
      /\ card # NoCard => choice = "card" /\ card \in CardsOf(q)
  OBVIOUS
<1> HIDE DEF x, rowOf
<1>7. /\ proposal'[q] = rowOf /\ \A p \in Proposals : p # q => proposal'[p] = proposal[p]
      /\ person'[h] = x /\ \A k \in People : k # h => person'[k] = person[k]
  BY <1>1, <1>2 DEF ProposalShapes
<1>8. Weighed'
  <2> SUFFICES ASSUME NEW p \in Proposals
               PROVE  /\ IsFiniteSet(OnTheirWay(p)') /\ IsFiniteSet(CardsOf(p)')
                      /\ Cardinality(CardsOf(p)') + Cardinality(OnTheirWay(p)') <= lost'[p] + (IF Chosen(p)' THEN 1 ELSE 0)
    BY DEF Weighed
  <2>1. CASE ~(p = q /\ choice = "card")
    <3>1. OnTheirWay(p)' = OnTheirWay(p) \ {h}
      BY <1>1, <1>2, <1>5, <2>1, WayOf
    <3>2. Chosen(p)' <=> Chosen(p)
      <4>1. CASE p = q
        BY <1>1, <1>6, <1>7, <2>1, <4>1 DEF Chosen, Open
      <4>2. CASE p # q
        BY <1>7, <4>2 DEF Chosen
      <4> QED
        BY <4>1, <4>2
    <3> QED
      BY <1>4, <3>1, <3>2, WeighedStays
  <2>2. CASE p = q /\ choice = "card"
    <3>1. OnTheirWay(p)' = OnTheirWay(p) \cup {h} \/ OnTheirWay(p)' = OnTheirWay(p) \ {h}
      BY <1>1, <1>2, <1>5, <2>2, WayOf
    <3>2. ~Chosen(p) /\ Chosen(p)'
      BY <1>1, <1>6, <1>7, <2>2 DEF Chosen, Open
    <3>3. /\ IsFiniteSet(OnTheirWay(p)) /\ IsFiniteSet(CardsOf(p)) /\ lost[p] \in Nat
          /\ Cardinality(CardsOf(p)) + Cardinality(OnTheirWay(p)) <= lost[p]
      BY <1>2, <3>2 DEF ProposalInv, Weighed, ProposalShapes
    <3>4. /\ IsFiniteSet(OnTheirWay(p) \cup {h}) /\ Cardinality(OnTheirWay(p)) \in Nat
          /\ Cardinality(OnTheirWay(p) \cup {h}) <= Cardinality(OnTheirWay(p)) + 1
          /\ Cardinality(OnTheirWay(p) \cup {h}) \in Nat /\ Cardinality(CardsOf(p)) \in Nat
          /\ IsFiniteSet(OnTheirWay(p) \ {h}) /\ Cardinality(OnTheirWay(p) \ {h}) \in Nat
          /\ Cardinality(OnTheirWay(p) \ {h}) <= Cardinality(OnTheirWay(p))
      BY <3>3, OneMore, FS_CardinalityType
    <3>5. CASE OnTheirWay(p)' = OnTheirWay(p) \cup {h}
      BY <1>4, <3>2, <3>3, <3>4, <3>5
    <3>6. CASE OnTheirWay(p)' = OnTheirWay(p) \ {h}
      BY <1>4, <3>2, <3>3, <3>4, <3>6
    <3> QED
      BY <3>1, <3>5, <3>6
  <2> QED
    BY <2>1, <2>2
<1>9. OwnCards'
  <2>1. ASSUME NEW k \in People, person'[k].doing = "record" PROVE person'[k].card \in CardsIn(made', person'[k].of)
    <3>1. k # h /\ person'[k] = person[k]
      BY <1>5, <1>7, <2>1
    <3>2. person[k].card \in CardsIn(made, person[k].of)
      BY <2>1, <3>1 DEF ProposalInv, OwnCards, CardsOf, CardsIn
    <3> QED
      BY <1>1, <3>1, <3>2
  <2>2. ASSUME NEW p \in Proposals, proposal'[p].state = "resolved", proposal'[p].card # NoCard
        PROVE  proposal'[p].card \in CardsOf(p)' /\ proposal'[p].choice = "card"
    <3>1. CASE p = q
      BY <1>4, <1>6, <1>7, <2>2, <3>1
    <3>2. CASE p # q
      BY <1>4, <1>7, <2>2, <3>2 DEF ProposalInv, OwnCards
    <3> QED
      BY <3>1, <3>2
  <2> QED
    BY <2>1, <2>2 DEF OwnCards, CardsOf, CardsIn
<1> QED
  BY <1>3, <1>8, <1>9 DEF ProposalInv

\* What touches no row and makes no card: a proposal is left, a client forgets
\* or takes its creation for a failure.
LEMMA QuietInv ==
  ASSUME ProposalInv,
         \/ \E q \in Proposals : Propose(q)
         \/ \E h \in People : Forget(h) \/ CreationFails(h)
  PROVE  ProposalInv'
<1>1. ASSUME NEW q \in Proposals, Propose(q) PROVE ProposalInv'
  <2>1. /\ proposal[q] = NoRow /\ proposal' = [proposal EXCEPT ![q] = Open]
        /\ person' = person /\ made' = made /\ lost' = lost
    BY <1>1 DEF Propose
  <2>2. ProposalShapes'
    BY <2>1 DEF ProposalInv, ProposalShapes, RowsOfProposal
  <2>3. \A p \in Proposals : OnTheirWay(p)' = OnTheirWay(p) /\ CardsOf(p)' = CardsOf(p)
    BY <2>1 DEF OnTheirWay, CardsOf
  <2>4. \A p \in Proposals : Chosen(p)' <=> Chosen(p)
    BY <2>1 DEF Chosen, NoRow, Open, ProposalInv, ProposalShapes
  <2>5. Weighed'
    BY <2>1, <2>3, <2>4 DEF ProposalInv, Weighed
  <2>6. OwnCards'
    BY <2>1 DEF ProposalInv, OwnCards, ProposalShapes, Open, CardsOf
  <2> QED
    BY <2>2, <2>5, <2>6 DEF ProposalInv
<1>2. ASSUME NEW h \in People, NEW x, person' = [person EXCEPT ![h] = x],
             x = NoPerson \/ (person[h].doing = "create" /\ x = [doing |-> "undo", of |-> person[h].of]),
             proposal' = proposal, made' = made, lost' = lost
      PROVE  ProposalInv'
  <2>1. ProposalShapes /\ x \in PersonState
    BY <1>2, PersonOf DEF ProposalInv, PersonState
  <2>2. ProposalShapes'
    BY <1>2, <2>1 DEF ProposalShapes
  <2>3. ASSUME NEW p \in Proposals
        PROVE  OnTheirWay(p)' = OnTheirWay(p) \/ OnTheirWay(p)' = OnTheirWay(p) \ {h}
    <3>1. CASE x.doing \in {"create", "undo"} /\ x.of = p
      <4>1. person[h].doing = "create" /\ person[h].of = p
        BY <1>2, <3>1 DEF NoPerson
      <4>2. h \in OnTheirWay(p)
        BY <4>1 DEF OnTheirWay
      <4>3. OnTheirWay(p)' = OnTheirWay(p) \cup {h}
        BY <1>2, <2>1, <3>1, WayOf
      <4> QED
        BY <4>2, <4>3
    <3>2. CASE ~(x.doing \in {"create", "undo"} /\ x.of = p)
      BY <1>2, <2>1, <3>2, WayOf
    <3> QED
      BY <3>1, <3>2
  <2>4. \A p \in Proposals : CardsOf(p)' = CardsOf(p) /\ (Chosen(p)' <=> Chosen(p)) /\ lost'[p] = lost[p]
    BY <1>2 DEF CardsOf, Chosen
  <2>5. Weighed'
    BY <1>2, <2>3, <2>4, WeighedStays DEF Weighed
  <2>6. x.doing # "record"
    BY <1>2 DEF NoPerson
  <2>7. OwnCards'
    BY <1>2, <2>1, <2>6 DEF ProposalInv, OwnCards, CardsOf, ProposalShapes
  <2> QED
    BY <2>2, <2>5, <2>7 DEF ProposalInv
<1> QED
  BY <1>1, <1>2 DEF Forget, CreationFails

LEMMA MakeCardInv ==
  ASSUME ProposalInv, NEW h \in People, MakeCard(h)
  PROVE  ProposalInv'
<1> DEFINE card == Cardinality(made) + 1
<1>0. PICK q \in Proposals : q = person[h].of
  BY PersonOf DEF MakeCard, ProposalInv
<1>1. PICK x \in {[doing |-> "record", of |-> q, card |-> card], [doing |-> "undo", of |-> q]} :
        /\ person[h].doing = "create"
        /\ made' = made \cup {<<card, q>>} /\ proposal' = proposal
        /\ person' = [person EXCEPT ![h] = x]
        /\ x.doing = "record" => lost' = lost
        /\ x.doing = "undo" => lost' = [lost EXCEPT ![q] = @ + 1]
  BY <1>0 DEF MakeCard, Loses
<1>2. ProposalShapes /\ card \in Nat
  BY <1>1, FS_CardinalityType DEF ProposalInv, ProposalShapes
<1>3. /\ x.of = q /\ x.doing \in {"record", "undo"} /\ x \in PersonState
      /\ x.doing = "record" => x.card = card
  BY <1>2 DEF PersonState
<1>4. h \in OnTheirWay(q) /\ (\A p \in Proposals : p # q => h \notin OnTheirWay(p))
  BY <1>0, <1>1 DEF OnTheirWay
<1> HIDE DEF card
<1>5. CardsOf(q)' = CardsOf(q) \cup {card} /\ \A p \in Proposals : p # q => CardsOf(p)' = CardsOf(p)
  <2>1. CardsIn(made \cup {<<card, q>>}, q) = CardsIn(made, q) \cup {card}
    BY CardAdded
  <2>2. \A p : p # q => CardsIn(made \cup {<<card, q>>}, p) = CardsIn(made, p)
    BY DEF CardsIn
  <2> QED
    BY <1>1, <2>1, <2>2 DEF CardsOf, CardsIn
<1>6. \A p \in Proposals : Chosen(p)' <=> Chosen(p)
  BY <1>1 DEF Chosen
<1>7. ProposalShapes'
  <2>1. IsFiniteSet(made')
    BY <1>1, <1>2, OneMore DEF ProposalShapes
  <2>2. lost' \in [Proposals -> Nat] /\ person' \in [People -> PersonState]
    BY <1>1, <1>2, <1>3 DEF ProposalShapes
  <2> QED
    BY <1>1, <1>2, <2>1, <2>2 DEF ProposalShapes
<1>8. Weighed'
  <2> SUFFICES ASSUME NEW p \in Proposals
               PROVE  /\ IsFiniteSet(OnTheirWay(p)') /\ IsFiniteSet(CardsOf(p)')
                      /\ Cardinality(CardsOf(p)') + Cardinality(OnTheirWay(p)') <= lost'[p] + (IF Chosen(p)' THEN 1 ELSE 0)
    BY DEF Weighed
  <2>1. CASE p # q
    <3>1. OnTheirWay(p)' = OnTheirWay(p) \ {h}
      <4>1. x.of # p
        BY <1>3, <2>1
      <4>2. person' = [person EXCEPT ![h] = x] /\ ProposalShapes
        BY <1>1, <1>2
      <4> QED
        BY <4>1, <4>2, WayOf
    <3>2. lost'[p] = lost[p]
      BY <1>1, <1>2, <1>3, <2>1 DEF ProposalShapes
    <3> QED
      BY <1>5, <1>6, <2>1, <3>1, <3>2, WeighedStays
  <2>2. CASE p = q
    <3>1. /\ IsFiniteSet(OnTheirWay(p)) /\ IsFiniteSet(CardsOf(p)) /\ lost[p] \in Nat
          /\ Cardinality(CardsOf(p)) + Cardinality(OnTheirWay(p)) <= lost[p] + (IF Chosen(p) THEN 1 ELSE 0)
      BY <1>2 DEF ProposalInv, Weighed, ProposalShapes
    <3>2. /\ IsFiniteSet(CardsOf(p)') /\ Cardinality(CardsOf(p)) \in Nat /\ Cardinality(CardsOf(p)') \in Nat
          /\ Cardinality(CardsOf(p)') <= Cardinality(CardsOf(p)) + 1
      BY <1>5, <2>2, <3>1, OneMore, ZenonT(60)
    <3>3. CASE x.doing = "record"
      <4>1. OnTheirWay(p)' = OnTheirWay(p) \ {h}
        BY <1>1, <1>2, <3>3, WayOf
      <4>2. /\ IsFiniteSet(OnTheirWay(p)') /\ Cardinality(OnTheirWay(p)') \in Nat
            /\ Cardinality(OnTheirWay(p)') + 1 = Cardinality(OnTheirWay(p))
        BY <1>4, <2>2, <3>1, <4>1, OneLess
      <4> QED
        BY <1>1, <1>6, <3>1, <3>2, <3>3, <4>2
    <3>4. CASE x.doing = "undo"
      <4>1. OnTheirWay(p)' = OnTheirWay(p) \cup {h}
        BY <1>1, <1>2, <1>3, <2>2, <3>4, WayOf
      <4>2. OnTheirWay(p)' = OnTheirWay(p)
        BY <1>4, <2>2, <4>1
      <4>3. lost'[p] = lost[p] + 1
        BY <1>1, <1>2, <2>2, <3>4 DEF ProposalShapes
      <4>4. Cardinality(OnTheirWay(p)) \in Nat
        BY <3>1, FS_CardinalityType
      <4> QED
        BY <1>6, <3>1, <3>2, <4>2, <4>3, <4>4
    <3> QED
      BY <1>3, <3>3, <3>4
  <2> QED
    BY <2>1, <2>2
<1>9. OwnCards'
  <2>1. \A p \in Proposals : CardsIn(made, p) \subseteq CardsIn(made', p)
    BY <1>1 DEF CardsIn
  <2>2. \A g \in People : person'[g].doing = "record" => person'[g].card \in CardsIn(made', person'[g].of)
    <3> TAKE g \in People
    <3>1. CASE g = h
      <4>1. person'[g] = x
        BY <1>1, <1>2, <3>1 DEF ProposalShapes
      <4>2. card \in CardsIn(made', q)
        BY <1>5 DEF CardsOf, CardsIn
      <4> QED
        BY <1>3, <4>1, <4>2
    <3>2. CASE g # h
      <4>1. person'[g] = person[g]
        BY <1>1, <1>2, <3>2 DEF ProposalShapes
      <4>2. person[g].doing = "record" => person[g].of \in Proposals /\ person[g].card \in CardsIn(made, person[g].of)
        BY <1>2, PersonOf DEF ProposalInv, OwnCards, CardsOf, CardsIn
      <4> QED
        BY <2>1, <4>1, <4>2
    <3> QED
      BY <3>1, <3>2
  <2>3. \A p \in Proposals : proposal'[p].state = "resolved" /\ proposal'[p].card # NoCard =>
          proposal'[p].card \in CardsIn(made', p) /\ proposal'[p].choice = "card"
    BY <1>1, <2>1 DEF ProposalInv, OwnCards, CardsOf, CardsIn
  <2> QED
    BY <2>2, <2>3 DEF OwnCards, CardsOf, CardsIn
<1> QED
  BY <1>7, <1>8, <1>9 DEF ProposalInv

LEMMA UnresolveInv ==
  ASSUME ProposalInv, NEW h \in People, Unresolve(h)
  PROVE  ProposalInv'
<1>0. PICK q \in Proposals : q = person[h].of
  BY PersonOf DEF Unresolve, ProposalInv
<1>1. /\ person[h].doing = "undo" /\ made' = made
      /\ proposal' = IF MayUnresolve(q) THEN [proposal EXCEPT ![q] = Open] ELSE proposal
      /\ \/ person' = [person EXCEPT ![h] = NoPerson] /\ lost' = lost
         \/ person' = person /\ lost' = [lost EXCEPT ![q] = @ + 1]
  BY <1>0 DEF Unresolve, Loses
<1>2. ProposalShapes
  BY DEF ProposalInv
<1>3. h \in OnTheirWay(q) /\ (\A p \in Proposals : p # q => h \notin OnTheirWay(p))
  BY <1>0, <1>1 DEF OnTheirWay
<1>4. ProposalShapes'
  <2>1. proposal' \in [Proposals -> RowsOfProposal]
    BY <1>1, <1>2 DEF ProposalShapes, RowsOfProposal
  <2>2. lost' \in [Proposals -> Nat] /\ person' \in [People -> PersonState]
    BY <1>1, <1>2 DEF ProposalShapes, PersonState
  <2> QED
    BY <1>1, <1>2, <2>1, <2>2 DEF ProposalShapes
<1>5. \A p \in Proposals : CardsOf(p)' = CardsOf(p)
  BY <1>1 DEF CardsOf
<1>6. /\ \A p \in Proposals : p # q => (Chosen(p)' <=> Chosen(p))
      /\ Chosen(q)' => Chosen(q)
  BY <1>1, <1>2 DEF Chosen, Open, ProposalShapes
<1>7. Weighed'
  <2> SUFFICES ASSUME NEW p \in Proposals
               PROVE  /\ IsFiniteSet(OnTheirWay(p)') /\ IsFiniteSet(CardsOf(p)')
                      /\ Cardinality(CardsOf(p)') + Cardinality(OnTheirWay(p)') <= lost'[p] + (IF Chosen(p)' THEN 1 ELSE 0)
    BY DEF Weighed
  <2>1. /\ IsFiniteSet(OnTheirWay(p)) /\ IsFiniteSet(CardsOf(p)) /\ lost[p] \in Nat
        /\ Cardinality(CardsOf(p)) + Cardinality(OnTheirWay(p)) <= lost[p] + (IF Chosen(p) THEN 1 ELSE 0)
    BY <1>2 DEF ProposalInv, Weighed, ProposalShapes
  <2>2. Cardinality(CardsOf(p)) \in Nat /\ Cardinality(OnTheirWay(p)) \in Nat
    BY <2>1, FS_CardinalityType
  <2>3. CASE person' = [person EXCEPT ![h] = NoPerson] /\ lost' = lost
    <3>1. OnTheirWay(p)' = OnTheirWay(p) \ {h}
      <4>1. NoPerson.doing = "nothing"
        BY DEF NoPerson
      <4> QED
        BY <1>2, <2>3, <4>1, WayOf
    <3>2. CASE p # q
      BY <1>5, <1>6, <2>3, <3>1, <3>2, WeighedStays
    <3>3. CASE p = q
      <4>1. /\ IsFiniteSet(OnTheirWay(p)') /\ Cardinality(OnTheirWay(p)') \in Nat
            /\ Cardinality(OnTheirWay(p)') + 1 = Cardinality(OnTheirWay(p))
        BY <1>3, <2>1, <3>1, <3>3, OneLess
      <4> QED
        BY <1>5, <2>1, <2>2, <2>3, <4>1
    <3> QED
      BY <3>2, <3>3
  <2>4. CASE person' = person /\ lost' = [lost EXCEPT ![q] = @ + 1]
    <3>1. OnTheirWay(p)' = OnTheirWay(p)
      BY <2>4 DEF OnTheirWay
    <3>2. CASE p # q
      <4>1. lost'[p] = lost[p]
        BY <1>2, <2>4, <3>2 DEF ProposalShapes
      <4> QED
        BY <1>5, <1>6, <3>1, <3>2, <4>1, WeighedStays
    <3>3. CASE p = q
      <4>1. lost'[p] = lost[p] + 1
        BY <1>2, <2>4, <3>3 DEF ProposalShapes
      <4> QED
        BY <1>5, <2>1, <2>2, <3>1, <4>1
    <3> QED
      BY <3>2, <3>3
  <2> QED
    BY <1>1, <2>3, <2>4
<1>8. OwnCards'
  <2>1. \A p \in Proposals : proposal'[p] = Open \/ proposal'[p] = proposal[p]
    BY <1>1, <1>2 DEF ProposalShapes
  <2>2. \A g \in People : person'[g] = NoPerson \/ person'[g] = person[g]
    BY <1>1, <1>2 DEF ProposalShapes
  <2> QED
    BY <1>1, <2>1, <2>2 DEF ProposalInv, OwnCards, CardsOf, Open, NoPerson
<1> QED
  BY <1>4, <1>7, <1>8 DEF ProposalInv

LEMMA RecordInv ==
  ASSUME ProposalInv, NEW h \in People, RecordTask(h)
  PROVE  ProposalInv'
<1>0. PICK q \in Proposals : q = person[h].of
  BY PersonOf DEF RecordTask, ProposalInv
<1>1. /\ person[h].doing = "record" /\ made' = made /\ lost' = lost
      /\ proposal' = IF MayRecord(q) THEN [proposal EXCEPT ![q].card = person[h].card] ELSE proposal
      /\ person' = [person EXCEPT ![h] = NoPerson] \/ person' = person
  BY <1>0 DEF RecordTask
<1>2. ProposalShapes /\ person[h].card \in Nat /\ person[h].card \in CardsOf(q)
  BY <1>0, <1>1, PersonOf DEF ProposalInv, OwnCards
<1>3. \A p \in Proposals :
        \/ proposal'[p] = proposal[p]
        \/ p = q /\ MayRecord(q) /\ proposal'[p] = [state |-> "resolved", choice |-> "card", card |-> person[h].card]
  BY <1>1, <1>2 DEF ProposalShapes, MayRecord, RowsOfProposal, NoRow, Open
<1>4. ProposalShapes'
  <2>1. proposal' = [p \in Proposals |-> proposal'[p]]
    BY <1>1, <1>2 DEF ProposalShapes
  <2>2. proposal' \in [Proposals -> RowsOfProposal]
    BY <1>2, <1>3, <2>1 DEF ProposalShapes, RowsOfProposal
  <2>3. person' \in [People -> PersonState]
    BY <1>1, <1>2 DEF ProposalShapes, PersonState
  <2> QED
    BY <1>1, <1>2, <2>2, <2>3 DEF ProposalShapes
<1>5. \A p \in Proposals : CardsOf(p)' = CardsOf(p) /\ (Chosen(p)' <=> Chosen(p)) /\ lost'[p] = lost[p]
  BY <1>1, <1>3 DEF CardsOf, Chosen, MayRecord
<1>6. ASSUME NEW p \in Proposals
      PROVE  OnTheirWay(p)' = OnTheirWay(p) \/ OnTheirWay(p)' = OnTheirWay(p) \ {h}
  <2>1. NoPerson.doing = "nothing"
    BY DEF NoPerson
  <2>2. CASE person' = [person EXCEPT ![h] = NoPerson]
    BY <1>2, <2>1, <2>2, WayOf
  <2>3. CASE person' = person
    BY <2>3 DEF OnTheirWay
  <2> QED
    BY <1>1, <2>2, <2>3
<1>7. Weighed'
  BY <1>5, <1>6, WeighedStays DEF Weighed
<1>8. OwnCards'
  <2>1. \A g \in People : person'[g] = NoPerson \/ person'[g] = person[g]
    BY <1>1, <1>2 DEF ProposalShapes
  <2>2. \A g \in People : person'[g].doing = "record" => person'[g].card \in CardsIn(made', person'[g].of)
    BY <1>1, <2>1 DEF ProposalInv, OwnCards, CardsOf, CardsIn, NoPerson
  <2>3. \A p \in Proposals : proposal'[p].state = "resolved" /\ proposal'[p].card # NoCard =>
          proposal'[p].card \in CardsIn(made', p) /\ proposal'[p].choice = "card"
    <3> TAKE p \in Proposals
    <3>1. CASE proposal'[p] = proposal[p]
      BY <1>1, <3>1 DEF ProposalInv, OwnCards, CardsOf, CardsIn
    <3>2. CASE p = q /\ proposal'[p] = [state |-> "resolved", choice |-> "card", card |-> person[h].card]
      <4>1. person[h].card \in CardsIn(made', q)
        BY <1>1, <1>2 DEF CardsOf, CardsIn
      <4> QED
        BY <3>2, <4>1
    <3> QED
      BY <1>3, <3>1, <3>2
  <2> QED
    BY <2>2, <2>3 DEF OwnCards, CardsOf, CardsIn
<1> QED
  BY <1>4, <1>7, <1>8 DEF ProposalInv

LEMMA ProposalNextInv == ProposalInv /\ [ProposalNext]_proposalVars => ProposalInv'
<1> SUFFICES ASSUME ProposalInv, [ProposalNext]_proposalVars PROVE ProposalInv'
  OBVIOUS
<1>1. CASE ProposalNext
  BY <1>1, ResolveInv, QuietInv, MakeCardInv, UnresolveInv, RecordInv DEF ProposalNext
<1>2. CASE UNCHANGED proposalVars
  BY <1>2 DEF proposalVars, ProposalInv, ProposalShapes, Weighed, OwnCards, OnTheirWay, CardsOf, Chosen
<1> QED
  BY <1>1, <1>2

LEMMA ProposalSteps == [ServicesNext]_servicesVars => [ProposalNext]_proposalVars
BY DEF ServicesNext, servicesVars, proposalVars

\* The invariant of the proposals holds in every reachable state: cards made and
\* cards on their way, counted against the answers that were lost.
THEOREM ProposalInvariant == ServicesSpec => []ProposalInv
<1>1. ServicesInit => ProposalInit
  BY DEF ServicesInit
<1> QED
  BY <1>1, ProposalSteps, ProposalInitInv, ProposalNextInv, PTL DEF ServicesSpec

\* However many people resolve, create, record and take back at the same time, a
\* proposal has one card and one more for each lost answer at the most
\* (unresolve, card_proposal_store.py).
THEOREM OneCardEach == ServicesSpec => []OneCard
<1>1. ProposalInv => OneCard
  <2> SUFFICES ASSUME ProposalInv, NEW q \in Proposals
               PROVE  /\ Cardinality(CardsOf(q)) <= 1 + lost[q]
                      /\ proposal[q].state = "resolved" =>
                           /\ proposal[q].card # NoCard => proposal[q].card \in CardsOf(q) /\ proposal[q].choice = "card"
                           /\ proposal[q].choice = "inline" => Cardinality(CardsOf(q)) <= lost[q]
    BY DEF OneCard
  <2>1. /\ IsFiniteSet(OnTheirWay(q)) /\ IsFiniteSet(CardsOf(q)) /\ lost[q] \in Nat
        /\ Cardinality(CardsOf(q)) + Cardinality(OnTheirWay(q)) <= lost[q] + (IF Chosen(q) THEN 1 ELSE 0)
    BY DEF ProposalInv, Weighed, ProposalShapes
  <2>2. Cardinality(CardsOf(q)) \in Nat /\ Cardinality(OnTheirWay(q)) \in Nat
    BY <2>1, FS_CardinalityType
  <2> QED
    BY <2>1, <2>2 DEF ProposalInv, OwnCards, Chosen
<1> QED
  BY <1>1, ProposalInvariant, PTL

-----------------------------------------------------------------------------
(* Uploads *)

LEMMA FilesSteps == [ServicesNext]_servicesVars => [FilesNext]_filesVars
BY DEF ServicesNext, servicesVars, filesVars

\* The invariant of the uploads holds in every reachable state, over requests,
\* copies, sweeps and stops of the gateway.
THEOREM FilesInvariant == ServicesSpec => []FilesInv
<1>1. ServicesInit => FilesInit
  BY DEF ServicesInit
<1> QED
  BY <1>1, FilesSteps, FilesInitInv, FilesNextInv, PTL DEF ServicesSpec

\* Types; a prepare in flight has a request, and what is listed for the sweep
\* was uploaded.
THEOREM UploadTypes == ServicesSpec => []FilesTypeOK
BY FilesInvariant, FilesTypes, PTL

\* A blob that has a row is counted until it is gone, and what no row counts, a
\* blob of an upload or a copy, is left by stops of the gateway, by each at most
\* one (_delete_ready and place_copy, conversation_files_store.py).
THEOREM RowsForBytes == ServicesSpec => []BytesHaveRows
BY FilesInvariant, FilesBytes, PTL

\* The copy of an execution that holds a receipt and a live lease is taken away
\* by no deletion, no release of others and no sweep (_delete_ready,
\* conversation_files_store.py).
THEOREM CopiesHeld == ServicesSpec => ReceiptHolds
<1>1. FilesInv /\ [FilesNext]_filesVars =>
        [\A p \in Preparers :
           /\ prep[p].phase = "ready" /\ prep'[p] = prep[p]
           /\ asked[prep[p].request].lease = "live" /\ asked'[prep[p].request].lease = "live"
           /\ FileOf(p) \in cached
           => FileOf(p) \in cached']_filesVars
  <2> SUFFICES ASSUME FilesInv, FilesNext, NEW p \in Preparers,
                      prep[p].phase = "ready", prep'[p] = prep[p],
                      asked[prep[p].request].lease = "live", asked'[prep[p].request].lease = "live",
                      FileOf(p) \in cached
               PROVE  FileOf(p) \in cached'
    OBVIOUS
  <2>1. PICK f \in Files, r \in Requests :
          f = FileOf(p) /\ r = prep[p].request /\ f = asked[r].file /\ asked[r] \in Lease
    BY LeaseOf DEF FilesInv, FileOf
  <2>2. asked[r].lease = "live" /\ asked'[r].lease = "live" /\ f \in cached
    BY <2>1
  <2>3. \A g, unread : DeleteReady(g, unread) /\ r \notin unread => f \in cached'
    BY <2>1, <2>2 DEF DeleteReady, Unprotected
  <2>4. ASSUME NEW q \in Preparers, ReleaseLease(q) PROVE f \in cached'
    <3>1. PICK k \in Requests : k = prep[q].request /\ asked[k] \in Lease
      BY <2>4, LeaseOf DEF ReleaseLease, FilesInv
    <3>2. /\ asked' = [asked EXCEPT ![k].lease = "released"]
          /\ IF file[FileOf(q)].state = "deleted" THEN DeleteReady(FileOf(q), {k}) ELSE cached' = cached
      BY <2>4, <3>1 DEF ReleaseLease
    <3>3. asked'[k].lease = "released"
      BY <3>1, <3>2 DEF FilesInv, Preparing, Lease
    <3> QED
      BY <2>2, <2>3, <3>2, <3>3
  <2>5. ASSUME NEW g \in Files, PersonDeletes(g) \/ SweepDelete(g) PROVE f \in cached'
    BY <2>3, <2>5 DEF PersonDeletes, SweepDelete, DeleteFile
  <2>6. CASE SweepCopies
    BY <2>1, <2>2, <2>6 DEF SweepCopies, IdleCopies, Leased
  <2>7. ASSUME NEW g \in Files, StopInDelete(g) PROVE f \in cached'
    BY <2>1, <2>2, <2>7 DEF StopInDelete, Unprotected
  <2>8. \/ cached' = cached
        \/ \E q \in Preparers : ReleaseLease(q) \/ cached' = cached \cup {FileOf(q)}
        \/ \E g \in Files : PersonDeletes(g) \/ SweepDelete(g) \/ StopInDelete(g)
        \/ SweepCopies
    BY DEF FilesNext, Sweeping, Upload, AgeFile, AgeStray, LinkFile, IssueGrant, SessionBegins, Compress,
           BeginRevoke, RevokeNext, AcquireLease,
           ReadOriginal, PlaceCopy, GiveReceipt, Fail, Expire, EndGrace, SweepList, SweepStrays,
           StopAnywhere, StopInUpload, StopInPlaceCopy
  <2> QED
    BY <2>1, <2>2, <2>4, <2>5, <2>6, <2>7, <2>8
<1> QED
  BY <1>1, FilesSteps, FilesInvariant, PTL DEF ServicesSpec, ReceiptHolds

-----------------------------------------------------------------------------
(* Skills, memory and jobs *)

SkillState == [place : {"none", "active", "archived"}, text : 0..MaxText, pinned : BOOLEAN]
EditState(t) ==
  {NoEdit} \cup [does : {"edit", "archive"}, of : Skill]
           \cup [does : {"rewrite", "log", "delete"}, of : Nat \ {0}, seen : 1..t]
           \cup [does : {"disable"}, list : SUBSET Skill]
Distinct(m) == \A i, j \in 1..Len(m) : m[i] = m[j] => i = j

SkillsInv ==
  /\ skill \in [Skill -> SkillState] /\ disabled \subseteq Skill /\ text \in 0..MaxText
  /\ memory \in Seq(1..text) /\ Distinct(memory)
  /\ logged \subseteq 1..text /\ dropped \subseteq 1..text
  /\ edit \in [Editors -> EditState(text)]

LEMMA SkillsInitInv == SkillsInit => SkillsInv
<1> SUFFICES ASSUME SkillsInit PROVE SkillsInv
  OBVIOUS
<1>1. memory \in Seq(1..text) /\ Distinct(memory)
  BY DEF SkillsInit, Distinct
<1>2. skill \in [Skill -> SkillState] /\ text \in 0..MaxText
  BY SkillsAssumption DEF SkillsInit, SkillState
<1> QED
  BY <1>1, <1>2 DEF SkillsInit, SkillsInv, EditState

\* A chunk goes: those behind it move up.
LEMMA ChunkRemoved ==
  ASSUME NEW S, NEW m \in Seq(S), NEW i \in 1..Len(m)
  PROVE  /\ RemoveAt(m, i) \in Seq(S) /\ Len(RemoveAt(m, i)) = Len(m) - 1 /\ Len(m) \in Nat
         /\ \A k \in 1..(Len(m) - 1) : RemoveAt(m, i)[k] = IF k < i THEN m[k] ELSE m[k + 1]
<1> DEFINE a == SubSeq(m, 1, i - 1)
           b == SubSeq(m, i + 1, Len(m))
           n == Len(m)
<1>1. n \in Nat /\ i \in 1..n /\ \A k \in 1..n : m[k] \in S
  BY ElementOfSeq, LenProperties
<1> HIDE DEF n
<1>2. a \in Seq(S) /\ Len(a) = i - 1 /\ \A k \in 1..(i - 1) : a[k] = m[k]
  <2>1. \A k \in 1..(i - 1) : m[k] \in S
    BY <1>1
  <2>2. 1 \in Int /\ i - 1 \in Int
    BY <1>1
  <2>3. /\ a \in Seq(S) /\ Len(a) = IF 1 <= i - 1 THEN i - 1 - 1 + 1 ELSE 0
        /\ \A k \in 1..(i - 1 - 1 + 1) : a[k] = m[1 + k - 1]
    BY <2>1, <2>2, SubSeqProperties
  <2> QED
    BY <1>1, <2>3
<1>3. b \in Seq(S) /\ Len(b) = n - i /\ \A k \in 1..(n - i) : b[k] = m[i + k]
  <2>1. \A k \in (i + 1)..n : m[k] \in S
    BY <1>1
  <2>2. i + 1 \in Int /\ n \in Int
    BY <1>1
  <2>3. /\ b \in Seq(S) /\ Len(b) = IF i + 1 <= n THEN n - (i + 1) + 1 ELSE 0
        /\ \A k \in 1..(n - (i + 1) + 1) : b[k] = m[i + 1 + k - 1]
    BY <2>1, <2>2, SubSeqProperties DEF n
  <2> QED
    BY <1>1, <2>3
<1> HIDE DEF a, b
<1>4. /\ a \o b \in Seq(S) /\ Len(a \o b) = Len(a) + Len(b)
      /\ \A k \in 1..(Len(a) + Len(b)) : (a \o b)[k] = IF k <= Len(a) THEN a[k] ELSE b[k - Len(a)]
  BY <1>2, <1>3, ConcatProperties
<1>5. \A k \in 1..(n - 1) : (a \o b)[k] = IF k < i THEN m[k] ELSE m[k + 1]
  BY <1>1, <1>2, <1>3, <1>4
<1>6. RemoveAt(m, i) = a \o b
  BY DEF RemoveAt, a, b
<1> QED
  BY <1>1, <1>2, <1>3, <1>4, <1>5, <1>6 DEF n

\* Texts that were written stay what they are when a new one comes.
LEMMA NewerText ==
  ASSUME SkillsInv, text < MaxText
  PROVE  /\ text + 1 \in 0..MaxText /\ text + 1 \in 1..(text + 1) /\ 1..text \subseteq 1..(text + 1)
         /\ memory \in Seq(1..(text + 1)) /\ \A r \in Editors : edit[r] \in EditState(text + 1)
         /\ \A i \in 1..Len(memory) : memory[i] # text + 1
<1>1. text \in Nat /\ text + 1 \in 0..MaxText /\ 1..text \subseteq 1..(text + 1)
  BY SkillsAssumption DEF SkillsInv
<1>2. memory \in Seq(1..(text + 1))
  BY <1>1, SeqMonotonic DEF SkillsInv
<1>3. EditState(text) \subseteq EditState(text + 1)
  BY <1>1 DEF EditState
<1>4. \A i \in 1..Len(memory) : memory[i] \in 1..text
  BY ElementOfSeq DEF SkillsInv
<1> QED
  BY <1>1, <1>2, <1>3, <1>4 DEF SkillsInv

\* Requests look; nothing but what they know changes.
LEMMA CheckInv ==
  ASSUME SkillsInv, NEW r \in Editors,
         \/ \E s \in Skill : CheckSkill(r, s)
         \/ \E i \in 1..MaxText : CheckChunk(r, i)
         \/ \E enable, disable \in SUBSET Skill : ReadDisabled(r, enable, disable)
  PROVE  SkillsInv'
<1>1. /\ UNCHANGED fileVars
      /\ \E x \in EditState(text) : edit' = [edit EXCEPT ![r] = x]
  <2>1. ASSUME NEW s \in Skill, CheckSkill(r, s) PROVE <1>1
    BY <2>1 DEF CheckSkill, EditDoes, EditState, fileVars
  <2>2. ASSUME NEW i \in 1..MaxText, CheckChunk(r, i) PROVE <1>1
    <3>1. i \in 1..Len(memory) /\ memory[i] \in 1..text /\ i \in Nat \ {0}
      BY <2>2, ElementOfSeq DEF CheckChunk, SkillsInv
    <3> QED
      BY <2>2, <3>1 DEF CheckChunk, EditDoes, EditState, fileVars
  <2>3. ASSUME NEW enable \in SUBSET Skill, NEW disable \in SUBSET Skill, ReadDisabled(r, enable, disable)
        PROVE  <1>1
    BY <2>3 DEF ReadDisabled, EditDoes, EditState, fileVars, SkillsInv
  <2> QED
    BY <2>1, <2>2, <2>3
<1> QED
  BY <1>1 DEF SkillsInv, fileVars

\* A skill changes, without a new text.
LEMMA SkillMoves ==
  ASSUME SkillsInv, skill' \in [Skill -> SkillState], edit' \in [Editors -> EditState(text)], disabled' \subseteq Skill,
         UNCHANGED <<memory, logged, dropped, text>>
  PROVE  SkillsInv'
BY DEF SkillsInv

\* A new text is in a skill or in memory.
LEMMA TextWritten ==
  ASSUME SkillsInv, NewText, edit' \in [Editors -> EditState(text + 1)],
         UNCHANGED <<disabled, logged, dropped>>,
         \/ \E s \in Skill : skill' = [skill EXCEPT ![s].text = text'] /\ memory' = memory
         \/ \E s \in Skill : /\ skill' = [skill EXCEPT ![s] = [place |-> "active", text |-> text', pinned |-> FALSE]]
                             /\ memory' = memory
         \/ memory' = Append(memory, text') /\ skill' = skill
         \/ \E i \in 1..Len(memory) : memory' = [memory EXCEPT ![i] = text'] /\ skill' = skill
  PROVE  SkillsInv'
<1>1. text < MaxText /\ text' = text + 1
  BY DEF NewText
<1>2. /\ text + 1 \in 0..MaxText /\ text + 1 \in 1..(text + 1) /\ 1..text \subseteq 1..(text + 1)
      /\ memory \in Seq(1..(text + 1))
      /\ \A i \in 1..Len(memory) : memory[i] # text + 1
  BY <1>1, NewerText
<1>3. logged' \subseteq 1..text' /\ dropped' \subseteq 1..text' /\ disabled' \subseteq Skill
  BY <1>1, <1>2 DEF SkillsInv
<1>4. skill' \in [Skill -> SkillState]
  <2>1. ASSUME NEW s \in Skill, NEW x \in SkillState, skill' = [skill EXCEPT ![s] = x] PROVE <1>4
    BY <2>1 DEF SkillsInv
  <2>2. ASSUME NEW s \in Skill, skill' = [skill EXCEPT ![s].text = text'] PROVE <1>4
    <3>1. skill[s] \in SkillState /\ text' \in 0..MaxText
      BY <1>1, <1>2 DEF SkillsInv
    <3>2. [skill[s] EXCEPT !.text = text'] \in SkillState
      BY <3>1 DEF SkillState
    <3> QED
      BY <2>1, <2>2, <3>2
  <2>3. [place |-> "active", text |-> text', pinned |-> FALSE] \in SkillState
    BY <1>1, <1>2 DEF SkillState
  <2>4. skill' = skill => skill' \in [Skill -> SkillState]
    BY DEF SkillsInv
  <2> QED
    BY <2>1, <2>2, <2>3, <2>4
<1>5. memory' \in Seq(1..text') /\ Distinct(memory')
  <2> DEFINE t == text + 1
             S == 1..t
             n == Len(memory)
  <2>1. memory \in Seq(S) /\ t \in S /\ n \in Nat /\ Distinct(memory) /\ \A i \in 1..n : memory[i] # t
    BY <1>2, LenProperties DEF SkillsInv
  <2> HIDE DEF S, t
  <2>2. CASE memory' = memory
    BY <1>1, <2>1, <2>2 DEF S, t
  <2>3. CASE memory' = Append(memory, t)
    <3>1. memory' \in Seq(S) /\ Len(memory') = n + 1
          /\ \A i \in 1..(n + 1) : memory'[i] = IF i = n + 1 THEN t ELSE memory[i]
      <4>1. /\ Append(memory, t) \in Seq(S) /\ Len(Append(memory, t)) = Len(memory) + 1
            /\ \A i \in 1..Len(memory) : Append(memory, t)[i] = memory[i]
            /\ Append(memory, t)[Len(memory) + 1] = t
        BY <2>1, AppendProperties
      <4> QED
        BY <2>1, <2>3, <4>1
    <3>2. Distinct(memory')
      <4> SUFFICES ASSUME NEW i \in 1..(n + 1), NEW j \in 1..(n + 1), memory'[i] = memory'[j] PROVE i = j
        BY <3>1 DEF Distinct
      <4> QED
        BY <2>1, <3>1 DEF Distinct
    <3> QED
      BY <1>1, <3>1, <3>2 DEF S, t
  <2>4. ASSUME NEW k \in 1..n, memory' = [memory EXCEPT ![k] = t] PROVE <1>5
    <3>1. memory' \in Seq(S) /\ Len(memory') = n /\ \A i \in 1..n : memory'[i] = IF i = k THEN t ELSE memory[i]
      BY <2>1, <2>4, ExceptSeq
    <3>2. Distinct(memory')
      <4> SUFFICES ASSUME NEW i \in 1..n, NEW j \in 1..n, memory'[i] = memory'[j] PROVE i = j
        BY <3>1 DEF Distinct
      <4> QED
        BY <2>1, <3>1 DEF Distinct
    <3> QED
      BY <1>1, <3>1, <3>2 DEF S, t
  <2> QED
    BY <1>1, <2>2, <2>3, <2>4 DEF t
<1> QED
  BY <1>1, <1>2, <1>3, <1>4, <1>5 DEF SkillsInv

\* A request is done: what it knew is forgotten.
LEMMA RequestDone ==
  ASSUME SkillsInv, NEW r \in Editors, EditEnds(r)
  PROVE  /\ edit' \in [Editors -> EditState(text)]
         /\ text < MaxText => edit' \in [Editors -> EditState(text + 1)]
<1>1. edit' = [edit EXCEPT ![r] = NoEdit]
  BY DEF EditEnds
<1>2. \A t : NoEdit \in EditState(t)
  BY DEF EditState
<1>3. edit \in [Editors -> EditState(text)]
  BY DEF SkillsInv
<1>4. text < MaxText => edit \in [Editors -> EditState(text + 1)]
  BY <1>3, NewerText
<1> QED
  BY <1>1, <1>2, <1>3, <1>4

LEMMA SkillChanges ==
  ASSUME SkillsInv, NEW s \in Skill
  PROVE  /\ \A place \in {"active", "archived"} : [skill EXCEPT ![s].place = place] \in [Skill -> SkillState]
         /\ \A pinned \in BOOLEAN : [skill EXCEPT ![s].pinned = pinned] \in [Skill -> SkillState]
<1>1. skill \in [Skill -> SkillState] /\ skill[s] \in SkillState
  BY DEF SkillsInv
<1>2. ASSUME NEW place \in {"active", "archived"}
      PROVE  [skill EXCEPT ![s].place = place] \in [Skill -> SkillState]
  <2>1. [skill[s] EXCEPT !.place = place] \in SkillState
    BY <1>1 DEF SkillState
  <2> QED
    BY <1>1, <2>1
<1>3. ASSUME NEW pinned \in BOOLEAN
      PROVE  [skill EXCEPT ![s].pinned = pinned] \in [Skill -> SkillState]
  <2>1. [skill[s] EXCEPT !.pinned = pinned] \in SkillState
    BY <1>1 DEF SkillState
  <2> QED
    BY <1>1, <2>1
<1> QED
  BY <1>2, <1>3

LEMMA KnownBy ==
  ASSUME SkillsInv, NEW r \in Editors
  PROVE  /\ edit[r].does \in {"edit", "archive"} => edit[r].of \in Skill
         /\ edit[r].does \in {"rewrite", "log", "delete"} =>
              /\ edit[r].of \in Nat \ {0} /\ edit[r].seen \in 1..text
              /\ edit[r] \in [does : {"rewrite", "log", "delete"}, of : Nat \ {0}, seen : 1..text]
         /\ edit[r].does = "disable" => edit[r].list \subseteq Skill
BY DEF SkillsInv, EditState, NoEdit

LEMMA EditingInv ==
  ASSUME SkillsInv, NEW r \in Editors,
         EditSkill(r) \/ ArchiveSkill(r) \/ RewriteChunk(r) \/ LogChunk(r) \/ DeleteChunk(r) \/ WriteDisabled(r)
  PROVE  SkillsInv'
<1>1. CASE EditSkill(r)
  <2>1. edit[r].of \in Skill /\ EditEnds(r) /\ UNCHANGED <<disabled, memory, logged, dropped>>
    BY <1>1, KnownBy DEF EditSkill
  <2>2. CASE NewText /\ skill' = [skill EXCEPT ![edit[r].of].text = text']
    BY <2>1, <2>2, RequestDone, TextWritten DEF NewText
  <2>3. CASE UNCHANGED <<skill, text>>
    BY <2>1, <2>3, RequestDone, SkillMoves DEF SkillsInv
  <2> QED
    BY <1>1, <2>2, <2>3 DEF EditSkill
<1>2. CASE ArchiveSkill(r)
  <2>1. skill' \in [Skill -> SkillState]
    <3>1. edit[r].of \in Skill
      BY <1>2, KnownBy DEF ArchiveSkill
    <3>2. skill' = skill \/ skill' = [skill EXCEPT ![edit[r].of].place = "archived"]
      BY <1>2 DEF ArchiveSkill
    <3>3. [skill EXCEPT ![edit[r].of].place = "archived"] \in [Skill -> SkillState]
      BY <3>1, SkillChanges
    <3>4. skill \in [Skill -> SkillState]
      BY DEF SkillsInv
    <3> QED
      BY <3>2, <3>3, <3>4, Zenon
  <2> QED
    BY <1>2, <2>1, RequestDone, SkillMoves DEF ArchiveSkill, SkillsInv
<1>3. CASE RewriteChunk(r)
  <2>1. edit[r].of \in Nat \ {0} /\ EditEnds(r) /\ UNCHANGED <<skill, disabled, logged, dropped>>
    BY <1>3, KnownBy DEF RewriteChunk
  <2>2. CASE edit[r].of <= Len(memory) /\ NewText /\ memory' = [memory EXCEPT ![edit[r].of] = text']
    <3>1. edit[r].of \in 1..Len(memory)
      BY <2>1, <2>2, LenProperties DEF SkillsInv
    <3> QED
      BY <2>1, <2>2, <3>1, RequestDone, TextWritten DEF NewText
  <2>3. CASE UNCHANGED <<memory, text>>
    BY <2>1, <2>3, RequestDone, SkillMoves DEF SkillsInv
  <2> QED
    BY <1>3, <2>2, <2>3 DEF RewriteChunk
<1>4. CASE LogChunk(r)
  <2>1. edit[r].seen \in 1..text /\ edit[r] \in [does : {"rewrite", "log", "delete"}, of : Nat \ {0}, seen : 1..text]
    BY <1>4, KnownBy DEF LogChunk
  <2>2. /\ logged' = logged \cup {edit[r].seen} /\ edit' = [edit EXCEPT ![r].does = "delete"]
        /\ UNCHANGED <<skill, disabled, memory, dropped, text>>
    BY <1>4 DEF LogChunk
  <2>3. edit' \in [Editors -> EditState(text)]
    BY <2>1, <2>2 DEF SkillsInv, EditState
  <2> QED
    BY <2>1, <2>2, <2>3 DEF SkillsInv
<1>5. CASE DeleteChunk(r)
  <2>1. edit[r].of \in Nat \ {0} /\ EditEnds(r) /\ UNCHANGED <<skill, disabled, logged, text>>
    BY <1>5, KnownBy DEF DeleteChunk
  <2>2. CASE edit[r].of <= Len(memory) /\ memory' = RemoveAt(memory, edit[r].of) /\ dropped' = dropped \cup {memory[edit[r].of]}
    <3> DEFINE k == edit[r].of
               n == Len(memory)
    <3>1. memory \in Seq(1..text) /\ k \in 1..n /\ n \in Nat /\ Distinct(memory)
      BY <2>1, <2>2, LenProperties DEF SkillsInv
    <3> HIDE DEF k
    <3>2. /\ memory' \in Seq(1..text) /\ Len(memory') = n - 1
          /\ \A i \in 1..(n - 1) : memory'[i] = IF i < k THEN memory[i] ELSE memory[i + 1]
      <4>1. memory' = RemoveAt(memory, k)
        BY <2>2 DEF k
      <4> QED
        BY <3>1, <4>1, ChunkRemoved
    <3>3. Distinct(memory')
      <4> SUFFICES ASSUME NEW i \in 1..(n - 1), NEW j \in 1..(n - 1), memory'[i] = memory'[j] PROVE i = j
        BY <3>2 DEF Distinct
      <4>1. PICK x \in 1..n, y \in 1..n : /\ memory[x] = memory'[i] /\ x = (IF i < k THEN i ELSE i + 1)
                                          /\ memory[y] = memory'[j] /\ y = (IF j < k THEN j ELSE j + 1)
        BY <3>1, <3>2
      <4>2. x = y
        BY <3>1, <4>1 DEF Distinct
      <4> QED
        BY <3>1, <4>1, <4>2
    <3>4. memory[k] \in 1..text
      BY <3>1, ElementOfSeq
    <3>5. dropped' \subseteq 1..text
      BY <2>2, <3>4 DEF SkillsInv, k
    <3> QED
      BY <2>1, <3>2, <3>3, <3>5, RequestDone DEF SkillsInv
  <2>3. CASE UNCHANGED <<memory, dropped>>
    BY <2>1, <2>3, RequestDone, SkillMoves DEF SkillsInv
  <2> QED
    BY <1>5, <2>2, <2>3 DEF DeleteChunk
<1>6. CASE WriteDisabled(r)
  <2>1. edit[r].list \subseteq Skill
    BY <1>6, KnownBy DEF WriteDisabled
  <2> QED
    BY <1>6, <2>1, RequestDone, SkillMoves DEF WriteDisabled, SkillsInv
<1> QED
  BY <1>1, <1>2, <1>3, <1>4, <1>5, <1>6

LEMMA OtherRequestsInv ==
  ASSUME SkillsInv,
         \/ \E s \in Skill : CreateSkill(s) \/ RestoreSkill(s) \/ \E pinned \in BOOLEAN : PinSkill(s, pinned)
         \/ AgentEdits \/ ChildWorks
  PROVE  SkillsInv'
<1>1. edit' = edit /\ UNCHANGED <<disabled, logged, dropped>>
  BY DEF CreateSkill, RestoreSkill, PinSkill, AgentEdits, ChildWorks
<1>2. edit' \in [Editors -> EditState(text)] /\ (text < MaxText => edit' \in [Editors -> EditState(text + 1)])
  BY <1>1, NewerText DEF SkillsInv
<1>3. CASE AgentEdits \/ \E s \in Skill : CreateSkill(s)
  BY <1>1, <1>2, <1>3, TextWritten DEF AgentEdits, CreateSkill, NewText
<1>4. CASE ChildWorks \/ \E s \in Skill : RestoreSkill(s) \/ \E pinned \in BOOLEAN : PinSkill(s, pinned)
  <2>1. UNCHANGED <<memory, text>>
    BY <1>4 DEF ChildWorks, RestoreSkill, PinSkill
  <2>2. \/ skill' = skill
        \/ \E s \in Skill, place \in {"active", "archived"} : skill' = [skill EXCEPT ![s].place = place]
        \/ \E s \in Skill, pinned \in BOOLEAN : skill' = [skill EXCEPT ![s].pinned = pinned]
    BY <1>4 DEF ChildWorks, RestoreSkill, PinSkill
  <2>3. skill' \in [Skill -> SkillState]
    <3>1. CASE skill' = skill
      BY <3>1 DEF SkillsInv
    <3>2. CASE \E s \in Skill, place \in {"active", "archived"} : skill' = [skill EXCEPT ![s].place = place]
      <4>1. PICK s \in Skill, place \in {"active", "archived"} : skill' = [skill EXCEPT ![s].place = place]
        BY <3>2
      <4>2. [skill EXCEPT ![s].place = place] \in [Skill -> SkillState]
        BY SkillChanges
      <4> QED
        BY <4>1, <4>2, Zenon
    <3>3. CASE \E s \in Skill, pinned \in BOOLEAN : skill' = [skill EXCEPT ![s].pinned = pinned]
      <4>1. PICK s \in Skill, pinned \in BOOLEAN : skill' = [skill EXCEPT ![s].pinned = pinned]
        BY <3>3
      <4>2. [skill EXCEPT ![s].pinned = pinned] \in [Skill -> SkillState]
        BY SkillChanges
      <4> QED
        BY <4>1, <4>2, Zenon
    <3> QED
      BY <2>2, <3>1, <3>2, <3>3
  <2> QED
    BY <1>1, <1>2, <2>1, <2>3, SkillMoves DEF SkillsInv
<1> QED
  BY <1>3, <1>4

LEMMA SkillsNextInv == SkillsInv /\ [SkillsNext]_skillVars => SkillsInv'
<1> SUFFICES ASSUME SkillsInv, [SkillsNext]_skillVars PROVE SkillsInv'
  OBVIOUS
<1> DEFINE Quiet == UNCHANGED fileVars /\ (edit' = edit \/ edit' = [r \in Editors |-> NoEdit])
<1>1. ASSUME Quiet PROVE SkillsInv'
  <2>1. edit' \in [Editors -> EditState(text)]
    BY <1>1 DEF SkillsInv, EditState
  <2> QED
    BY <1>1, <2>1, SkillMoves DEF SkillsInv, fileVars
<1>2. CASE JobSteps \/ StopGateway \/ \E kind \in Kinds : OrphanEnds(kind)
  BY <1>1, <1>2 DEF JobSteps, TimeOut, Kill, Verify, Finish, StopGateway, OrphanEnds
<1>3. CASE \E j \in JobIds : (\E kind \in Kinds : StartJob(j, kind)) \/ ChildExits(j) \/ ForgetJob(j)
  BY <1>1, <1>3 DEF StartJob, ChildExits, ForgetJob
<1>4. CASE UNCHANGED skillVars
  BY <1>1, <1>4 DEF skillVars, fileVars
<1> QED
  BY <1>2, <1>3, <1>4, CheckInv, EditingInv, OtherRequestsInv DEF SkillsNext

LEMMA SkillsSteps == [ServicesNext]_servicesVars => [SkillsNext]_skillVars
BY DEF ServicesNext, servicesVars, skillVars

\* The invariant of skills and of an agent's memory holds in every reachable
\* state: which texts there are, and what a request knows of them.
THEOREM SkillsInvariant == ServicesSpec => []SkillsInv
<1>1. ServicesInit => SkillsInit
  BY DEF ServicesInit
<1> QED
  BY <1>1, SkillsSteps, SkillsInitInv, SkillsNextInv, PTL DEF ServicesSpec

\* One job is running, whatever its child does; and until the gateway stops for
\* the first time, what a look has confirmed stays so.
JobShape ==
  {NoJob} \cup [state : {"succeeded", "failed"}]
          \cup [state : {"running"}, kind : Kinds, child : Working]
          \cup [state : {"running"}, kind : Verified, child : {"exited", "confirmed"}]
JobsInv ==
  /\ job \in [JobIds -> JobShape] /\ orphans \subseteq Kinds /\ stops \in Nat
  /\ \A i, j \in JobIds : job[i].state = "running" /\ job[j].state = "running" => i = j
  /\ stops = 0 =>
       /\ orphans = {}
       /\ \A j \in JobIds : job[j].state = "running" /\ job[j].child = "confirmed" => Done(job[j].kind)

LEMMA RunningJob ==
  ASSUME NEW x \in JobShape, x.state = "running"
  PROVE  /\ x \in [state : {"running"}, kind : Kinds, child : Working \cup {"exited", "confirmed"}]
         /\ x.child \notin Working => x.kind \in Verified
BY DEF JobShape, NoJob, Kinds, Verified, Working

LEMMA JobsInitInv == SkillsInit => JobsInv
BY DEF SkillsInit, JobsInv, JobShape, NoJob

\* A job ends, or its child comes further.
LEMMA JobGoesOn ==
  ASSUME JobsInv, NEW j \in JobIds, NEW x \in JobShape, job' = [job EXCEPT ![j] = x],
         x.state = "running" => job[j].state = "running" \/ Free,
         x.state = "running" /\ x.child = "confirmed" => Done(x.kind),
         UNCHANGED <<hub, orphans, stops>>
  PROVE  JobsInv'
<1>1. job' \in [JobIds -> JobShape] /\ job'[j] = x /\ \A i \in JobIds : i # j => job'[i] = job[i]
  BY DEF JobsInv
<1>2. \A i, k \in JobIds : job'[i].state = "running" /\ job'[k].state = "running" => i = k
  BY <1>1 DEF JobsInv, Free
<1>3. stops = 0 => (\A i \in JobIds : job[i].state = "running" /\ job[i].child = "confirmed" => Done(job[i].kind))'
  BY <1>1 DEF JobsInv, Done
<1> QED
  BY <1>1, <1>2, <1>3 DEF JobsInv

LEMMA JobStepInv ==
  ASSUME JobsInv, NEW j \in JobIds,
         \/ \E kind \in Kinds : StartJob(j, kind)
         \/ ChildExits(j) \/ TimeOut(j) \/ Kill(j) \/ Verify(j) \/ Finish(j) \/ ForgetJob(j)
  PROVE  JobsInv'
<1>0. UNCHANGED <<hub, orphans, stops>>
  BY DEF StartJob, ChildExits, TimeOut, Kill, Verify, Finish, ForgetJob
<1>1. ASSUME NEW state \in {"succeeded", "failed"}, JobIs(j, state) PROVE JobsInv'
  <2> DEFINE x == [state |-> state]
  <2>1. job' = [job EXCEPT ![j] = x] /\ x \in JobShape /\ x.state # "running"
    BY <1>1 DEF JobIs, JobShape
  <2> HIDE DEF x
  <2> QED
    BY <1>0, <2>1, JobGoesOn
<1>2. CASE ForgetJob(j)
  <2>1. job' = [job EXCEPT ![j] = NoJob] /\ NoJob \in JobShape /\ NoJob.state # "running"
    BY <1>2 DEF ForgetJob, JobShape, NoJob
  <2> QED
    BY <1>0, <2>1, JobGoesOn
<1>3. ASSUME NEW kind \in Kinds, StartJob(j, kind) PROVE JobsInv'
  <2> DEFINE x == [state |-> "running", kind |-> kind, child |-> "works"]
  <2>1. job' = [job EXCEPT ![j] = x] /\ x \in JobShape /\ x.child # "confirmed" /\ Free
    BY <1>3 DEF StartJob, JobShape, Working
  <2> HIDE DEF x
  <2> QED
    BY <1>0, <2>1, JobGoesOn
<1>4. ASSUME NEW is, job[j].state = "running", ChildIs(j, is),
             \/ is \in Working
             \/ job[j].kind \in Verified /\ is = "exited"
             \/ job[j].kind \in Verified /\ is = "confirmed" /\ Done(job[j].kind)
      PROVE  JobsInv'
  <2> DEFINE x == [job[j] EXCEPT !.child = is]
  <2>1. job[j] \in [state : {"running"}, kind : Kinds, child : Working \cup {"exited", "confirmed"}]
    BY <1>4, RunningJob DEF JobsInv
  <2>2. x = [state |-> "running", kind |-> job[j].kind, child |-> is]
    BY <2>1
  <2>3. job' = [job EXCEPT ![j] = x]
    BY <1>4 DEF ChildIs
  <2> HIDE DEF x
  <2>4. x \in JobShape
    BY <1>4, <2>1, <2>2 DEF JobShape
  <2>5. x.state = "running" /\ x.child = is /\ x.kind = job[j].kind
    BY <2>2
  <2>6. x.child = "confirmed" => Done(x.kind)
    BY <1>4, <2>5 DEF Working
  <2> QED
    BY <1>0, <1>4, <2>3, <2>4, <2>5, <2>6, JobGoesOn
<1>5. CASE ChildExits(j)
  <2>1. CASE JobIs(j, "failed") \/ JobIs(j, "succeeded")
    BY <1>1, <2>1
  <2>2. CASE job[j].kind \in Verified /\ ChildIs(j, "exited")
    BY <1>4, <1>5, <2>2 DEF ChildExits
  <2> QED
    BY <1>5, <2>1, <2>2 DEF ChildExits
<1>6. CASE TimeOut(j)
  BY <1>4, <1>6 DEF TimeOut, Working
<1>7. CASE Kill(j) \/ Finish(j)
  BY <1>1, <1>7 DEF Kill, Finish
<1>8. CASE Verify(j)
  <2>1. CASE JobIs(j, "failed")
    BY <1>1, <2>1
  <2>2. CASE Done(job[j].kind) /\ ChildIs(j, "confirmed")
    <3>1. job[j].kind \in Verified
      BY <1>8, RunningJob DEF Verify, JobsInv, Working
    <3> QED
      BY <1>4, <1>8, <2>2, <3>1 DEF Verify
  <2> QED
    BY <1>8, <2>1, <2>2 DEF Verify
<1> QED
  BY <1>2, <1>3, <1>5, <1>6, <1>7, <1>8

LEMMA JobsNextInv == JobsInv /\ [SkillsNext]_skillVars => JobsInv'
<1> SUFFICES ASSUME JobsInv, [SkillsNext]_skillVars PROVE JobsInv'
  OBVIOUS
<1>1. ASSUME UNCHANGED <<hub, job, orphans, stops>> PROVE JobsInv'
  BY <1>1 DEF JobsInv, Done
<1>2. CASE ChildWorks
  <2>1. UNCHANGED <<job, orphans, stops>> /\ AtWork # {}
    BY <1>2 DEF ChildWorks
  <2>2. stops = 0 => \E i \in JobIds : job[i].state = "running" /\ job[i].child \in Working
    BY <2>1 DEF AtWork, WorkingJobs, JobsInv
  <2>3. stops = 0 => \A j \in JobIds : ~(job[j].state = "running" /\ job[j].child = "confirmed")
    BY <2>2 DEF JobsInv, Working
  <2> QED
    BY <2>1, <2>3 DEF JobsInv
<1>3. CASE StopGateway
  <2>1. AtWork \subseteq Kinds
    <3>1. \A j \in WorkingJobs : job[j].kind \in Kinds
      BY RunningJob DEF WorkingJobs, JobsInv
    <3> QED
      BY <3>1 DEF AtWork, JobsInv
  <2>2. \A j \in JobIds : job'[j] = NoJob
    BY <1>3 DEF StopGateway
  <2> QED
    BY <1>3, <2>1, <2>2 DEF StopGateway, JobsInv, JobShape, NoJob
<1>4. ASSUME NEW kind \in Kinds, OrphanEnds(kind) PROVE JobsInv'
  BY <1>4 DEF OrphanEnds, JobsInv, Done
<1>5. CASE UNCHANGED skillVars
  BY <1>1, <1>5 DEF skillVars
<1>6. ASSUME NEW r \in Editors,
             \/ \E s \in Skill : CheckSkill(r, s)
             \/ \E i \in 1..MaxText : CheckChunk(r, i)
             \/ EditSkill(r) \/ ArchiveSkill(r) \/ RewriteChunk(r) \/ LogChunk(r) \/ DeleteChunk(r)
             \/ \E enable, disable \in SUBSET Skill : ReadDisabled(r, enable, disable)
             \/ WriteDisabled(r)
      PROVE  JobsInv'
  BY <1>1, <1>6 DEF CheckSkill, CheckChunk, EditSkill, ArchiveSkill, RewriteChunk, LogChunk, DeleteChunk,
                    ReadDisabled, WriteDisabled
<1>7. CASE \/ \E s \in Skill : CreateSkill(s) \/ RestoreSkill(s) \/ \E pinned \in BOOLEAN : PinSkill(s, pinned)
           \/ AgentEdits
  BY <1>1, <1>7 DEF CreateSkill, RestoreSkill, PinSkill, AgentEdits
<1> QED
  BY <1>2, <1>3, <1>4, <1>5, <1>6, <1>7, JobStepInv DEF SkillsNext, JobSteps

THEOREM JobsInvariant == ServicesSpec => []JobsInv
<1>1. ServicesInit => SkillsInit
  BY DEF ServicesInit
<1> QED
  BY <1>1, SkillsSteps, JobsInitInv, JobsNextInv, PTL DEF ServicesSpec

\* Until the gateway first stops, a job with a verify is recorded a success only
\* while the skill is there, or is gone, as the job says: no other job works
\* between the look and the record (_busy, _run, skill_jobs.py).
THEOREM SuccessIsReal == ServicesSpec => JobsTellTruth
<1>1. JobsInv /\ [SkillsNext]_skillVars =>
        [stops' = 0 =>
           \A j \in JobIds : job[j].state = "running" /\ job'[j].state = "succeeded" =>
             (job[j].kind = "install" => hub') /\ (job[j].kind = "uninstall" => ~hub')]_skillVars
  <2> SUFFICES ASSUME JobsInv, SkillsNext, stops' = 0, NEW j \in JobIds,
                      job[j].state = "running", job'[j].state = "succeeded"
               PROVE  (job[j].kind = "install" => hub') /\ (job[j].kind = "uninstall" => ~hub')
    OBVIOUS
  <2>1. PICK i \in JobIds : Finish(i) \/ ChildExits(i)
    <3>1. \/ job' = job
          \/ \E i \in JobIds :
               \/ Finish(i) \/ ChildExits(i) \/ JobIs(i, "failed") \/ ForgetJob(i)
               \/ \E kind \in Kinds : StartJob(i, kind)
               \/ job[i].state = "running" /\ \E is : ChildIs(i, is)
          \/ StopGateway
      BY DEF SkillsNext, JobSteps, fileVars, CheckSkill, CheckChunk, EditSkill, ArchiveSkill, RewriteChunk, LogChunk,
             DeleteChunk, ReadDisabled, WriteDisabled, CreateSkill, RestoreSkill, PinSkill, AgentEdits,
             ChildWorks, TimeOut, Kill, Verify, OrphanEnds
    <3>2. job' # job
      OBVIOUS
    <3>3. ~StopGateway
      BY DEF StopGateway, NoJob
    <3>4. \A i \in JobIds : ~(JobIs(i, "failed") \/ ForgetJob(i) \/ \E kind \in Kinds : StartJob(i, kind))
      BY DEF JobIs, ForgetJob, StartJob, NoJob, JobsInv
    <3>5. \A i \in JobIds : job[i].state = "running" => ~\E is : ChildIs(i, is)
      <4> SUFFICES ASSUME NEW i \in JobIds, job[i].state = "running", NEW is, ChildIs(i, is) PROVE FALSE
        OBVIOUS
      <4>1. job[i] \in [state : {"running"}, kind : Kinds, child : Working \cup {"exited", "confirmed"}]
        BY RunningJob DEF JobsInv
      <4>2. job' = [job EXCEPT ![i] = [job[i] EXCEPT !.child = is]] /\ [job[i] EXCEPT !.child = is].state = "running"
        BY <4>1 DEF ChildIs
      <4> QED
        BY <4>2 DEF JobsInv
    <3> QED
      BY <3>1, <3>2, <3>3, <3>4, <3>5
  <2>2. job[i].state = "running" /\ i = j /\ hub' = hub /\ stops = 0
    BY <2>1 DEF Finish, ChildExits, JobsInv
  <2>3. CASE Finish(j)
    BY <2>2, <2>3 DEF Finish, JobsInv, Done
  <2>4. CASE ChildExits(j)
    <3>1. job[j].kind \notin Verified
      <4> SUFFICES ASSUME job[j].kind \in Verified PROVE FALSE
        OBVIOUS
      <4>1. JobIs(j, "failed") \/ ChildIs(j, "exited")
        BY <2>4 DEF ChildExits
      <4>2. CASE JobIs(j, "failed")
        BY <4>2 DEF JobIs, JobsInv
      <4>3. CASE ChildIs(j, "exited")
        <5>1. job[j] \in [state : {"running"}, kind : Kinds, child : Working \cup {"exited", "confirmed"}]
          BY RunningJob DEF JobsInv
        <5>2. job' = [job EXCEPT ![j] = [job[j] EXCEPT !.child = "exited"]]
              /\ [job[j] EXCEPT !.child = "exited"].state = "running"
          BY <4>3, <5>1 DEF ChildIs
        <5> QED
          BY <5>2 DEF JobsInv
      <4> QED
        BY <4>1, <4>2, <4>3
    <3> QED
      BY <3>1 DEF Verified
  <2> QED
    BY <2>1, <2>2, <2>3, <2>4
<1> QED
  BY <1>1, SkillsSteps, JobsInvariant, PTL DEF ServicesSpec, JobsTellTruth

-----------------------------------------------------------------------------
(* All of them *)

\* Types of every service; a question in the table has a run that waits on it,
\* a prepare in flight its request, a chunk of memory a text that was written,
\* and no text is in memory twice.
THEOREM ServicesTyped == ServicesSpec => []ServicesTypeOK
<1>1. SkillsInv /\ JobsInv => SkillsTypeOK
  <2> SUFFICES ASSUME SkillsInv, JobsInv PROVE SkillsTypeOK
    OBVIOUS
  <2>1. IsInjective(memory)
    <3>1. DOMAIN memory = 1..Len(memory)
      BY LenProperties DEF SkillsInv
    <3> QED
      BY <3>1 DEF SkillsInv, Distinct, IsInjective
  <2>2. orphans \subseteq Kinds
        /\ \A j \in JobIds : \/ job[j] = NoJob
                           \/ job[j] \in [state : {"succeeded", "failed"}]
                           \/ job[j] \in [state : {"running"}, kind : Kinds, child : Working]
                           \/ job[j] \in [state : {"running"}, kind : Verified, child : {"exited", "confirmed"}]
    BY DEF JobsInv, JobShape
  <2> QED
    BY <2>1, <2>2 DEF SkillsInv, SkillsTypeOK, SkillState
<1> QED
  BY <1>1, SkillsInvariant, JobsInvariant, UploadTypes, QuestionsWaitedOn, PTL DEF ServicesTypeOK

=============================================================================
