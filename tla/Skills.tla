------------------------------- MODULE Skills -------------------------------
(***************************************************************************)
(* The skills and the memory of a profile, as people manage them, and the  *)
(* jobs that install, update and curate skills.                            *)
(*                                                                         *)
(* An edit or a deletion names the hash of what the client has seen.  The  *)
(* worker thread of the request compares it with the file, and then lets   *)
(* Hermes write.  A chunk of memory is known by its index, which changes   *)
(* when a chunk before it goes; its text is appended to a log before it is *)
(* deleted.  Meanwhile the agent itself edits skills and memory.           *)
(*                                                                         *)
(* A job is a child process, one at a time for a profile; the table of     *)
(* jobs is in memory and kept by a single event loop.                      *)
(***************************************************************************)
EXTENDS Naturals, Sequences, FiniteSets, SequencesExt

CONSTANTS Skill,   \* local skills
          Editors,  \* requests that may be in flight together
          MaxText,  \* bound on texts ever written
          JobIds,   \* ids of jobs that may be in the table together
          MaxStops  \* bound on stops of the gateway

ASSUME SkillsAssumption == MaxText \in Nat

VARIABLES
  skill,    \* skill[s]: where it is, its text, whether it is pinned
  disabled, \* skills.disabled of config.yaml
  memory,   \* the chunks of memory, in order
  logged,   \* texts in memory_deleted.jsonl
  dropped,  \* texts of chunks that requests have deleted
  edit,     \* edit[r]: what the request of r has checked, and does next
  text,     \* the newest text
  hub,      \* whether the skill that jobs install and remove is installed
  job,      \* job[j]: the record of the table of jobs, and how far its child is
  orphans,  \* the kinds of jobs whose child has outlived the gateway
  stops

skillVars == <<skill, disabled, memory, logged, dropped, edit, text, hub, job, orphans, stops>>
fileVars == <<skill, disabled, memory, logged, dropped, text>>

NoEdit == [does |-> "nothing"]
NoJob == [state |-> "none"]
Active(s) == skill[s].place = "active"
EditDoes(r, what) == edit' = [edit EXCEPT ![r] = what]
EditEnds(r) == edit' = [edit EXCEPT ![r] = NoEdit]
NewText == text < MaxText /\ text' = text + 1

-----------------------------------------------------------------------------
(* Editing and deleting: the hash is compared ... *)

CheckSkill(r, s) ==
  /\ edit[r] = NoEdit /\ Active(s)
  /\ \E what \in {"edit"} \cup (IF skill[s].pinned THEN {} ELSE {"archive"}) :
       EditDoes(r, [does |-> what, of |-> s])
  /\ UNCHANGED <<fileVars, hub, job, orphans, stops>>

CheckChunk(r, i) ==
  /\ edit[r] = NoEdit /\ i \in 1..Len(memory)
  /\ \E what \in {"rewrite", "log"} : EditDoes(r, [does |-> what, of |-> i, seen |-> memory[i]])
  /\ UNCHANGED <<fileVars, hub, job, orphans, stops>>

(* ... and the change is made. *)

EditSkill(r) ==
  /\ edit[r].does = "edit"
  /\ IF Active(edit[r].of)
     THEN NewText /\ skill' = [skill EXCEPT ![edit[r].of].text = text']
     ELSE UNCHANGED <<skill, text>>
  /\ EditEnds(r)
  /\ UNCHANGED <<disabled, memory, logged, dropped, hub, job, orphans, stops>>

ArchiveSkill(r) ==
  /\ edit[r].does = "archive"
  /\ skill' = IF Active(edit[r].of) THEN [skill EXCEPT ![edit[r].of].place = "archived"] ELSE skill
  /\ EditEnds(r)
  /\ UNCHANGED <<disabled, memory, logged, dropped, text, hub, job, orphans, stops>>

RewriteChunk(r) ==
  /\ edit[r].does = "rewrite"
  /\ IF edit[r].of <= Len(memory)
     THEN NewText /\ memory' = [memory EXCEPT ![edit[r].of] = text']
     ELSE UNCHANGED <<memory, text>>
  /\ EditEnds(r)
  /\ UNCHANGED <<skill, disabled, logged, dropped, hub, job, orphans, stops>>

LogChunk(r) ==
  /\ edit[r].does = "log"
  /\ logged' = logged \cup {edit[r].seen}
  /\ edit' = [edit EXCEPT ![r].does = "delete"]
  /\ UNCHANGED <<skill, disabled, memory, dropped, text, hub, job, orphans, stops>>

\* Hermes deletes the chunk that has the index now.
DeleteChunk(r) ==
  /\ edit[r].does = "delete"
  /\ IF edit[r].of <= Len(memory)
     THEN /\ memory' = RemoveAt(memory, edit[r].of)
          /\ dropped' = dropped \cup {memory[edit[r].of]}
     ELSE UNCHANGED <<memory, dropped>>
  /\ EditEnds(r)
  /\ UNCHANGED <<skill, disabled, logged, text, hub, job, orphans, stops>>

-----------------------------------------------------------------------------
(* The other requests *)

CreateSkill(s) ==
  /\ skill[s].place = "none" /\ NewText
  /\ skill' = [skill EXCEPT ![s] = [place |-> "active", text |-> text', pinned |-> FALSE]]
  /\ UNCHANGED <<disabled, memory, logged, dropped, edit, hub, job, orphans, stops>>

PinSkill(s, pinned) ==
  /\ Active(s) /\ skill[s].pinned # pinned
  /\ skill' = [skill EXCEPT ![s].pinned = pinned]
  /\ UNCHANGED <<disabled, memory, logged, dropped, edit, text, hub, job, orphans, stops>>

RestoreSkill(s) ==
  /\ skill[s].place = "archived"
  /\ skill' = [skill EXCEPT ![s].place = "active"]
  /\ UNCHANGED <<disabled, memory, logged, dropped, edit, text, hub, job, orphans, stops>>

\* skills.disabled is read, and the new list written later
ReadDisabled(r, enable, disable) ==
  /\ edit[r] = NoEdit /\ enable \cap disable = {}
  /\ \A s \in enable \cup disable : Active(s)
  /\ EditDoes(r, [does |-> "disable", list |-> (disabled \ enable) \cup disable])
  /\ UNCHANGED <<fileVars, hub, job, orphans, stops>>

WriteDisabled(r) ==
  /\ edit[r].does = "disable"
  /\ disabled' = edit[r].list
  /\ EditEnds(r)
  /\ UNCHANGED <<skill, memory, logged, dropped, text, hub, job, orphans, stops>>

\* The agent edits a skill, or its memory, in a conversation.
AgentEdits ==
  /\ NewText
  /\ \/ \E s \in Skill : /\ Active(s) /\ skill' = [skill EXCEPT ![s].text = text']
                         /\ UNCHANGED memory
     \/ memory' = Append(memory, text') /\ UNCHANGED skill
     \/ \E i \in 1..Len(memory) : memory' = [memory EXCEPT ![i] = text'] /\ UNCHANGED skill
  /\ UNCHANGED <<disabled, logged, dropped, edit, hub, job, orphans, stops>>

-----------------------------------------------------------------------------
(* Jobs *)

Working == {"works", "stopping"}

\* (slip) the process of the job is looked at
FreeOnExit == \A j \in JobIds : job[j].state = "running" => job[j].child \notin Working

\* _busy: it is the record of the job that is looked at.
Free == \A j \in JobIds : job[j].state # "running"

\* Before the start a request looks whether the skill is there, or may be
\* installed; it waits for that, and the start does not look again.
StartJob(j, kind) ==
  /\ Free /\ job[j] = NoJob
  /\ job' = [job EXCEPT ![j] = [state |-> "running", kind |-> kind, child |-> "works"]]
  /\ UNCHANGED <<fileVars, edit, hub, orphans, stops>>

\* Where the task of job j is with its child, and the record at its end.
ChildIs(j, is) == job' = [job EXCEPT ![j].child = is]
JobIs(j, state) == job' = [job EXCEPT ![j] = [state |-> state]]

\* The commands that may be at work: of a job, and of those that were running
\* when the gateway stopped; a child is in a session of its own.
WorkingJobs == {j \in JobIds : job[j].state = "running" /\ job[j].child \in Working}
AtWork == orphans \cup {job[j].kind : j \in WorkingJobs}

\* What a command does, whether or not it says so by its exit code; a curator
\* archives skills that are not pinned.
ChildWorks ==
  /\ \/ "install" \in AtWork /\ hub' = TRUE /\ UNCHANGED skill
     \/ "uninstall" \in AtWork /\ hub' = FALSE /\ UNCHANGED skill
     \/ /\ "curator" \in AtWork
        /\ \E s \in Skill : /\ Active(s) /\ ~skill[s].pinned
                            /\ skill' = [skill EXCEPT ![s].place = "archived"]
        /\ UNCHANGED hub
  /\ UNCHANGED <<disabled, memory, logged, dropped, edit, text, job, orphans, stops>>

\* (slip) the exit code is believed
Believed == {}

\* The jobs that come with a verify.
Verified == {"install", "uninstall"}

\* The exit code decides, where there is no verify and the time was not over.
ChildExits(j) ==
  /\ job[j].state = "running" /\ job[j].child \in Working
  /\ \/ JobIs(j, "failed")
     \/ /\ job[j].child = "works"
        /\ IF job[j].kind \in Verified THEN ChildIs(j, "exited") ELSE JobIs(j, "succeeded")
  /\ UNCHANGED <<fileVars, edit, hub, orphans, stops>>

\* The job is past its time, and the group is told to stop.
TimeOut(j) ==
  /\ job[j].state = "running" /\ job[j].child = "works"
  /\ ChildIs(j, "stopping")
  /\ UNCHANGED <<fileVars, edit, hub, orphans, stops>>

\* (slip) a child that does not stop is waited for
KillNever(j) == FALSE /\ UNCHANGED skillVars

\* Five seconds later it is killed.
Kill(j) ==
  /\ job[j].state = "running" /\ job[j].child = "stopping"
  /\ JobIs(j, "failed")
  /\ UNCHANGED <<fileVars, edit, hub, orphans, stops>>

Done(kind) == (kind = "install" => hub) /\ (kind = "uninstall" => ~hub)

\* A worker thread looks, and the loop goes on meanwhile.  A look that raises
\* is one that does not find the change.
Verify(j) ==
  /\ job[j].state = "running" /\ job[j].child = "exited"
  /\ \/ Done(job[j].kind) /\ ChildIs(j, "confirmed")
     \/ JobIs(j, "failed")
  /\ UNCHANGED <<fileVars, edit, hub, orphans, stops>>

Finish(j) ==
  /\ job[j].state = "running" /\ job[j].child = "confirmed"
  /\ JobIs(j, "succeeded")
  /\ UNCHANGED <<fileVars, edit, hub, orphans, stops>>

\* An hour after its end a job is forgotten.
ForgetJob(j) ==
  /\ job[j].state \in {"succeeded", "failed"}
  /\ job' = [job EXCEPT ![j] = NoJob]
  /\ UNCHANGED <<fileVars, edit, hub, orphans, stops>>

\* The gateway stops: requests and jobs are gone, what is written stays, and
\* the children go on.
StopGateway ==
  /\ stops < MaxStops
  /\ stops' = stops + 1
  /\ edit' = [r \in Editors |-> NoEdit]
  /\ job' = [j \in JobIds |-> NoJob]
  /\ orphans' = AtWork
  /\ UNCHANGED <<fileVars, hub>>

OrphanEnds(kind) ==
  /\ kind \in orphans
  /\ orphans' = orphans \ {kind}
  /\ UNCHANGED <<fileVars, edit, hub, job, stops>>

-----------------------------------------------------------------------------

SkillsInit ==
  /\ skill = [s \in Skill |-> [place |-> "none", text |-> 0, pinned |-> FALSE]]
  /\ disabled = {} /\ memory = <<>> /\ logged = {} /\ dropped = {} /\ text = 0
  /\ edit = [r \in Editors |-> NoEdit]
  /\ hub = FALSE /\ job = [j \in JobIds |-> NoJob] /\ orphans = {} /\ stops = 0

\* An update of installed skills is like a curator that finds nothing to
\* archive: neither has a verify.
Kinds == {"install", "uninstall", "curator"}

JobSteps == \E j \in JobIds : TimeOut(j) \/ Kill(j) \/ Verify(j) \/ Finish(j)

SkillsNext ==
  \/ \E r \in Editors :
       \/ \E s \in Skill : CheckSkill(r, s)
       \/ \E i \in 1..MaxText : CheckChunk(r, i)
       \/ EditSkill(r) \/ ArchiveSkill(r) \/ RewriteChunk(r) \/ LogChunk(r) \/ DeleteChunk(r)
       \/ \E enable, disable \in SUBSET Skill : ReadDisabled(r, enable, disable)
       \/ WriteDisabled(r)
  \/ \E s \in Skill : CreateSkill(s) \/ RestoreSkill(s) \/ \E pinned \in BOOLEAN : PinSkill(s, pinned)
  \/ AgentEdits
  \/ \E j \in JobIds : (\E kind \in Kinds : StartJob(j, kind)) \/ ChildExits(j) \/ ForgetJob(j)
  \/ JobSteps
  \/ ChildWorks
  \/ StopGateway
  \/ \E kind \in Kinds : OrphanEnds(kind)

-----------------------------------------------------------------------------

SkillsTypeOK ==
  /\ skill \in [Skill -> [place : {"none", "active", "archived"}, text : 0..MaxText, pinned : BOOLEAN]]
  /\ disabled \subseteq Skill
  /\ memory \in Seq(1..text) /\ IsInjective(memory)
  /\ logged \cup dropped \subseteq 1..text
  /\ orphans \subseteq Kinds
  /\ \A j \in JobIds :
       \/ job[j] = NoJob
       \/ job[j] \in [state : {"succeeded", "failed"}]
       \/ job[j] \in [state : {"running"}, kind : Kinds,
                      child : Working]
       \/ job[j] \in [state : {"running"}, kind : Verified, child : {"exited", "confirmed"}]

\* Each chunk that a request deletes is in the log.
\* ("each deleted chunk is appended to ... memory_deleted.jsonl first",
\* README.md:69)
MemoryLogged == dropped \subseteq logged

\* When an installation or a removal is recorded a success, the skill is there
\* or gone, at that step and not only when it was looked at: no other job has
\* worked since.  It speaks of a gateway that never stopped, the children of
\* one that did may still be at work (OneCommand).  An update or a curator's
\* run that is recorded a success has exited with 0 and no more.
\* ("exit 0 even when blocked", skill_jobs.py:11)
JobsTellTruth ==
  [][stops' = 0 =>
       \A j \in JobIds : job[j].state = "running" /\ job'[j].state = "succeeded" =>
         (job[j].kind = "install" => hub') /\ (job[j].kind = "uninstall" => ~hub')]_skillVars

\* A job ends, whatever its child does, and leaves the profile free.  A child
\* that is killed is gone, and a look at the skills returns.
JobEnds == ~Free ~> Free

\* At most one command works on the skills of the profile.
\* ("so an install and a curator run never change the same skill folder at
\* once", skill_jobs.py:14-15)
OneCommand == Cardinality(orphans) + Cardinality(WorkingJobs) <= 1

=============================================================================
