------------------------------ MODULE CronJobs ------------------------------
(***************************************************************************)
(* The jobs of the cron stores of the profiles, and the registry of the    *)
(* scheduler that fires them.                                              *)
(*                                                                         *)
(* A request works on a thread of its own, in the store of its profile: a  *)
(* step on the store (atomic, Hermes locks it), then it asks the scheduler *)
(* to reconcile.  The built-in scheduler rereads the store on every tick   *)
(* and keeps no registry.  An external one keeps a registry that knows no  *)
(* profiles: reconciling it makes it the jobs of one store, so it is left  *)
(* alone when there is more than one profile.                              *)
(***************************************************************************)
EXTENDS Naturals, FiniteSets

CONSTANTS Jobs,         \* ids of jobs, each made once at most
          CronProfiles, \* profiles, each with a store of jobs
          RootProfile,  \* the one that is there at first
          CronRequests,
          MaxCalls      \* bound on requests

ASSUME CronAssumption == RootProfile \in CronProfiles /\ MaxCalls \in Nat

VARIABLES
  profiles, \* the profiles that exist
  cronjob,  \* cronjob[j]: its profile and its effective state
  registry, \* the jobs that the external scheduler would fire
  errand,   \* errand[r]: what request r does next
  missed,   \* whether the registry has missed a change, told in a 424 or not at all
  calls     \* requests so far

cronVars == <<profiles, cronjob, registry, errand, missed, calls>>

NoCronJob == [profile |-> "none", state |-> "absent"]
States == {"absent", "on", "paused", "done"}
NoErrand == [does |-> "nothing"]
Ready(r) == errand[r] = NoErrand
On(p) == {j \in Jobs : cronjob[j].profile = p /\ cronjob[j].state = "on"}
In(p) == {j \in Jobs : cronjob[j].profile = p}

Asks(r, next) == errand' = [errand EXCEPT ![r] = next]
Counts(r) ==
  /\ Ready(r) /\ calls < MaxCalls /\ calls' = calls + 1

\* cron_scope: the store of another profile is never written.
Sets(p, j, state) ==
  /\ cronjob[j].profile = p
  /\ cronjob' = [cronjob EXCEPT ![j] = IF state = "absent" THEN NoCronJob ELSE [@ EXCEPT !.state = state]]

ThenReconcile(r, p) == Asks(r, [does |-> "count", profile |-> p])

-----------------------------------------------------------------------------
(* Requests *)

\* POST of a job, or of a blueprint filled in.  Hermes stores the job and then
\* registers it; when that fails the job stays and the answer, 424, carries it.
CreateJob(r, p, j) ==
  /\ Counts(r) /\ p \in profiles /\ cronjob[j] = NoCronJob /\ j \notin registry
  /\ \E state \in {"on", "paused"} :
       /\ cronjob' = [cronjob EXCEPT ![j] = [profile |-> p, state |-> state]]
       /\ \/ /\ registry' = IF state = "on" THEN registry \cup {j} ELSE registry
             /\ ThenReconcile(r, p)
             /\ UNCHANGED missed
          \/ state = "on" /\ missed' = TRUE /\ UNCHANGED <<registry, errand>>
  /\ UNCHANGED profiles

\* An update with "enabled", or one that leaves the state alone.
UpdateJob(r, p, j) ==
  /\ Counts(r) /\ p \in profiles
  /\ \E state \in {"on", "paused", cronjob[j].state} : state # "absent" /\ Sets(p, j, state)
  /\ ThenReconcile(r, p)
  /\ UNCHANGED <<profiles, registry, missed>>

PauseJob(r, p, j) ==
  /\ Counts(r) /\ p \in profiles
  /\ Sets(p, j, "paused")
  /\ ThenReconcile(r, p)
  /\ UNCHANGED <<profiles, registry, missed>>

\* A one-off job whose time is past is refused, 409.
ResumeJob(r, p, j) ==
  /\ Counts(r) /\ p \in profiles /\ cronjob[j].state # "done"
  /\ Sets(p, j, "on")
  /\ ThenReconcile(r, p)
  /\ UNCHANGED <<profiles, registry, missed>>

\* Running a job looks at its state first, since trigger_job would resume it.
RunCheck(r, p, j) ==
  /\ Counts(r) /\ p \in profiles /\ j \in In(p) /\ cronjob[j].state # "paused"
  /\ Asks(r, [does |-> "trigger", profile |-> p, job |-> j])
  /\ UNCHANGED <<profiles, cronjob, registry, missed>>

Trigger(r) ==
  /\ errand[r].does = "trigger"
  /\ LET p == errand[r].profile  j == errand[r].job IN
     IF j \in In(p) /\ cronjob[j].state # "done" THEN Sets(p, j, "on") /\ ThenReconcile(r, p)
     ELSE Asks(r, NoErrand) /\ UNCHANGED cronjob
  /\ UNCHANGED <<profiles, registry, missed, calls>>

\* (slip) a job is removed and the scheduler is not asked
DeleteOnly(r, p, j) ==
  /\ Counts(r) /\ p \in profiles
  /\ Sets(p, j, "absent")
  /\ UNCHANGED <<profiles, registry, missed, errand>>

DeleteJob(r, p, j) ==
  /\ Counts(r) /\ p \in profiles
  /\ Sets(p, j, "absent")
  /\ ThenReconcile(r, p)
  /\ UNCHANGED <<profiles, registry, missed>>

-----------------------------------------------------------------------------
(* reconcile_provider *)

CountProfiles(r) ==
  /\ errand[r].does = "count"
  /\ IF Cardinality(profiles) = 1
     THEN Asks(r, [errand[r] EXCEPT !.does = "converge"]) /\ UNCHANGED missed
     ELSE Asks(r, NoErrand) /\ missed' = TRUE
  /\ UNCHANGED <<profiles, cronjob, registry, calls>>

\* on_jobs_changed reads the store of the scope and sets the registry; that
\* nothing comes between is assumed of the external scheduler.
Converge(r) ==
  /\ errand[r].does = "converge"
  /\ registry' = On(errand[r].profile)
  /\ missed' = FALSE
  /\ Asks(r, NoErrand)
  /\ UNCHANGED <<profiles, cronjob, calls>>

\* Whatever it raises is swallowed.
ConvergeFails(r) ==
  /\ errand[r].does = "converge"
  /\ missed' = TRUE
  /\ Asks(r, NoErrand)
  /\ UNCHANGED <<profiles, cronjob, registry, calls>>

\* A fire and the start of the gateway register the store of the profile.
StartRegisters(p) ==
  /\ p \in profiles
  /\ registry' = (registry \ In(p)) \cup On(p)
  /\ UNCHANGED <<profiles, cronjob, errand, missed, calls>>

\* A one-off job is over once it has fired.
Fires(j) ==
  /\ j \in registry /\ cronjob[j].state = "on"
  /\ cronjob' = [cronjob EXCEPT ![j].state = "done"]
  /\ registry' = registry \ {j}
  /\ UNCHANGED <<profiles, errand, missed, calls>>

AddProfile(p) ==
  /\ p \notin profiles
  /\ profiles' = profiles \cup {p}
  /\ UNCHANGED <<cronjob, registry, errand, missed, calls>>

-----------------------------------------------------------------------------

CronInit ==
  /\ profiles = {RootProfile}
  /\ cronjob = [j \in Jobs |-> NoCronJob]
  /\ registry = {} /\ missed = FALSE /\ calls = 0
  /\ errand = [r \in CronRequests |-> NoErrand]

CronNext ==
  \/ \E r \in CronRequests :
       \/ \E p \in CronProfiles, j \in Jobs :
            \/ CreateJob(r, p, j)
            \/ UpdateJob(r, p, j)
            \/ PauseJob(r, p, j)
            \/ ResumeJob(r, p, j)
            \/ RunCheck(r, p, j)
            \/ DeleteJob(r, p, j)
       \/ Trigger(r)
       \/ CountProfiles(r)
       \/ Converge(r)
       \/ ConvergeFails(r)
  \/ \E p \in CronProfiles : StartRegisters(p) \/ AddProfile(p)
  \/ \E j \in Jobs : Fires(j)

-----------------------------------------------------------------------------

CronTypeOK ==
  /\ profiles \subseteq CronProfiles /\ profiles # {}
  /\ \A j \in Jobs : cronjob[j].profile \in profiles \cup {"none"} /\ cronjob[j].state \in States
  /\ registry \subseteq Jobs /\ missed \in BOOLEAN /\ calls \in 0..MaxCalls

\* With one profile, and while no change has been missed, the external scheduler
\* would fire exactly the jobs that are on once every request has been answered,
\* in whatever order their steps on the store and on the registry interleave.
\* (reconcile_provider, cron.py:188-213)
RegistryFollows ==
  Cardinality(profiles) = 1 /\ ~missed /\ (\A r \in CronRequests : Ready(r))
    => registry = {j \in Jobs : cronjob[j].state = "on"}

\* Reconciling the store of one profile releases no job of another.  ("could
\* release another profile's one-shot jobs", cron.py:203-206)
OthersRegistered ==
  [][ \A r \in CronRequests : errand[r].does = "converge" /\ Ready(r)' =>
        \A j \in registry \ registry' : cronjob[j].profile \in {errand[r].profile, "none"} ]_cronVars

\* Running a job once never resumes it: what a person has paused is on again by
\* a resumption or an update only.  (cron.py:457-458)
RunsOnceOnly ==
  [][ \A r \in CronRequests, j \in Jobs :
        errand[r].does = "trigger" /\ errand[r].job = j /\ errand'[r] # errand[r]
          => ~(cronjob[j].state = "paused" /\ cronjob'[j].state = "on") ]_cronVars

=============================================================================
