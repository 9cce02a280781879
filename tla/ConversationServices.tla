------------------------ MODULE ConversationServices ------------------------
(***************************************************************************)
(* What the runs of a conversation use: the uploads of its messages, the   *)
(* questions its runs ask, the cards its agent proposes, and the skills    *)
(* and memory it works with.  No variable of one is read or written by     *)
(* another, so an interleaving of several projects onto behaviours of each *)
(* alone: a behaviour here is one service's, chosen at the start, and the  *)
(* others rest.                                                            *)
(***************************************************************************)
EXTENDS ConversationFiles, AskUser, CardProposal, Skills

CONSTANT Services \* the services of this instance

VARIABLE chosen \* the service this behaviour is about

servicesVars == <<chosen, filesVars, askVars, proposalVars, skillVars>>

ServicesInit ==
  /\ chosen \in Services
  /\ FilesInit /\ AskInit /\ ProposalInit /\ SkillsInit

ServicesNext ==
  \/ /\ chosen = "files" /\ FilesNext
     /\ UNCHANGED <<chosen, askVars, proposalVars, skillVars>>
  \/ /\ chosen = "ask" /\ AskNext
     /\ UNCHANGED <<chosen, filesVars, proposalVars, skillVars>>
  \/ /\ chosen = "proposals" /\ ProposalNext
     /\ UNCHANGED <<chosen, filesVars, askVars, skillVars>>
  \/ /\ chosen = "skills" /\ SkillsNext
     /\ UNCHANGED <<chosen, filesVars, askVars, proposalVars>>

\* The loop of the cleanup, the clock behind leases and strays, the thread of a
\* run that waits in a question and the answer that wakes it, the thread of a job:
\* each goes on.  Nothing is asked of people, agents or children.
ServicesFairness ==
  /\ WF_filesVars(chosen = "files" /\ Sweeping)
  /\ \A r \in Requests : WF_filesVars(chosen = "files" /\ Expire(r))
  /\ \A n \in Stops : WF_filesVars(chosen = "files" /\ AgeStray(n))
  /\ \A c \in Calls : WF_askVars(chosen = "ask" /\ AskRun(c)) /\ WF_askVars(chosen = "ask" /\ SetEvent(c))
  /\ WF_skillVars(chosen = "skills" /\ JobSteps)

ServicesSpec == ServicesInit /\ [][ServicesNext]_servicesVars /\ ServicesFairness

-----------------------------------------------------------------------------

\* The types of the services that keep more than rows.
ServicesTypeOK == FilesTypeOK /\ AskTypeOK /\ SkillsTypeOK

=============================================================================
