----------------------- MODULE ProfileServicesProofs ------------------------
(* The services of a profile keep what they promise: jobs and the registry  *)
(* of the scheduler, cards and their parents, the configuration, connectors. *)
EXTENDS ProfileServices, ConversationFilesProofs, McpOAuthProofs, ArtifactsProofs, FiniteSetTheorems, TLAPS

-----------------------------------------------------------------------------
(* Jobs *)

CronErrands ==
  {NoErrand} \cup [does : {"count", "converge"}, profile : profiles]
             \cup [does : {"trigger"}, profile : profiles, job : Jobs]

CronShapes ==
  /\ profiles \subseteq CronProfiles /\ profiles # {} /\ IsFiniteSet(profiles)
  /\ cronjob \in [Jobs -> [profile : profiles \cup {"none"}, state : States]]
  /\ \A j \in Jobs : cronjob[j].state = "on" => cronjob[j].profile \in profiles
  /\ registry \subseteq Jobs /\ missed \in BOOLEAN /\ calls \in 0..MaxCalls
  /\ errand \in [CronRequests -> CronErrands]

\* A request that has changed the store and not yet told the scheduler.
Pending(r) == errand[r].does \in {"count", "converge"}

OnJobs == {j \in Jobs : cronjob[j].state = "on"}

\* What RegistryFollows says, also while requests look at a job first.
Followed ==
  Cardinality(profiles) = 1 /\ ~missed /\ (\A r \in CronRequests : ~Pending(r))
    => registry = OnJobs

CronInv == CronShapes /\ Followed

LEMMA CronInitInv == CronInit => CronInv
<1> SUFFICES ASSUME CronInit PROVE CronInv
  OBVIOUS
<1>1. profiles = {RootProfile} /\ IsFiniteSet(profiles)
  BY FS_Singleton, Zenon DEF CronInit
<1>2. \A j \in Jobs : cronjob[j] = NoCronJob
  BY DEF CronInit
<1>3. cronjob \in [Jobs -> [profile : profiles \cup {"none"}, state : States]]
  BY DEF CronInit, NoCronJob, States
<1>4. errand \in [CronRequests -> CronErrands]
  BY DEF CronInit, CronErrands
<1>5. \A j \in Jobs : cronjob[j].state # "on"
  BY <1>2 DEF NoCronJob
<1>6. CronShapes
  <2>1. profiles \subseteq CronProfiles /\ profiles # {}
    BY <1>1, CronAssumption
  <2>2. registry \subseteq Jobs
    BY DEF CronInit
  <2>3. missed \in BOOLEAN
    BY Zenon DEF CronInit
  <2>4. calls \in 0..MaxCalls
    BY CronAssumption DEF CronInit
  <2> QED
    BY <1>1, <1>3, <1>4, <1>5, <2>1, <2>2, <2>3, <2>4, Zenon DEF CronShapes
<1>7. Followed
  BY <1>5 DEF CronInit, Followed, OnJobs
<1> QED
  BY <1>6, <1>7 DEF CronInv

\* The only profile is the one in which every job that is on lives.
LEMMA OneStore ==
  ASSUME CronShapes, Cardinality(profiles) = 1, NEW p \in profiles
  PROVE  On(p) = OnJobs
<1>1. PICK q : profiles = {q}
  BY FS_Singleton, Zenon DEF CronShapes
<1>2. \A j \in Jobs : cronjob[j].state = "on" => cronjob[j].profile = p
  BY <1>1 DEF CronShapes
<1> QED
  BY <1>2 DEF On, OnJobs

\* What an errand may be, field by field.
LEMMA ErrandIs ==
  ASSUME CronShapes, NEW r \in CronRequests
  PROVE  /\ Pending(r) => /\ errand[r] = [does |-> errand[r].does, profile |-> errand[r].profile]
                          /\ errand[r].profile \in profiles
         /\ errand[r].does = "trigger" => errand[r].profile \in profiles /\ errand[r].job \in Jobs
         /\ Ready(r) => ~Pending(r)
<1>1. errand[r] \in CronErrands
  BY DEF CronShapes
<1>2. CASE errand[r] = NoErrand
  BY <1>2 DEF NoErrand, Pending
<1>3. CASE errand[r] \in [does : {"count", "converge"}, profile : profiles]
  BY <1>3 DEF Pending, Ready, NoErrand
<1>4. CASE errand[r] \in [does : {"trigger"}, profile : profiles, job : Jobs]
  BY <1>4 DEF Pending
<1> QED
  BY <1>1, <1>2, <1>3, <1>4 DEF CronErrands

\* A request that sends itself to the scheduler keeps the types, and there is a
\* change to tell.
LEMMA TellsScheduler ==
  ASSUME CronShapes, NEW r \in CronRequests, NEW p \in profiles, ThenReconcile(r, p)
  PROVE  errand' \in [CronRequests -> CronErrands] /\ Pending(r)'
<1>1. [does |-> "count", profile |-> p] \in CronErrands
  BY DEF CronErrands
<1>2. errand' = [errand EXCEPT ![r] = [does |-> "count", profile |-> p]]
  BY DEF ThenReconcile, Asks
<1> QED
  BY <1>1, <1>2 DEF CronShapes, Pending

\* A step on a job of a store.
LEMMA SetsKeeps ==
  ASSUME CronShapes, NEW p \in profiles, NEW j \in Jobs, NEW state \in States, Sets(p, j, state)
  PROVE  /\ cronjob' \in [Jobs -> [profile : profiles \cup {"none"}, state : States]]
         /\ \A k \in Jobs : cronjob'[k].state = "on" => cronjob'[k].profile \in profiles
<1>1. cronjob[j] \in [profile : profiles \cup {"none"}, state : States] /\ cronjob[j].profile = p
  BY DEF CronShapes, Sets
<1>2. [cronjob[j] EXCEPT !.state = state] = [profile |-> p, state |-> state]
  BY <1>1
<1>3. NoCronJob \in [profile : profiles \cup {"none"}, state : States] /\ NoCronJob.state # "on"
  BY DEF NoCronJob, States
<1>4. PICK new : /\ cronjob' = [cronjob EXCEPT ![j] = new]
                 /\ new = NoCronJob \/ new = [profile |-> p, state |-> state]
  BY <1>2 DEF Sets
<1>5. new \in [profile : profiles \cup {"none"}, state : States] /\ (new.state = "on" => new.profile \in profiles)
  BY <1>3, <1>4
<1> QED
  BY <1>4, <1>5 DEF CronShapes

\* Requests that change a job: they tell the scheduler, or have missed to.
LEMMA CronChangeInv ==
  ASSUME CronInv, NEW r \in CronRequests, NEW p \in CronProfiles, NEW j \in Jobs,
         \/ CreateJob(r, p, j) \/ UpdateJob(r, p, j) \/ PauseJob(r, p, j) \/ ResumeJob(r, p, j)
         \/ DeleteJob(r, p, j)
  PROVE  CronInv'
<1>0. /\ p \in profiles /\ UNCHANGED profiles
      /\ Ready(r) /\ calls' \in 0..MaxCalls
  BY CronAssumption DEF CreateJob, UpdateJob, PauseJob, ResumeJob, DeleteJob, Counts, CronInv, CronShapes
<1> USE CronInv, <1>0 DEF CronInv
<1>1. CASE CreateJob(r, p, j)
  <2>1. PICK state \in {"on", "paused"} :
          /\ cronjob' = [cronjob EXCEPT ![j] = [profile |-> p, state |-> state]]
          /\ \/ registry' \subseteq Jobs /\ ThenReconcile(r, p) /\ UNCHANGED missed
             \/ missed' = TRUE /\ UNCHANGED <<registry, errand>>
    BY <1>1 DEF CreateJob, CronShapes
  <2>2. /\ cronjob' \in [Jobs -> [profile : profiles \cup {"none"}, state : States]]
        /\ \A k \in Jobs : cronjob'[k].state = "on" => cronjob'[k].profile \in profiles
    BY <2>1 DEF CronShapes, States
  <2>3. CASE registry' \subseteq Jobs /\ ThenReconcile(r, p) /\ UNCHANGED missed
    BY <2>2, <2>3, TellsScheduler DEF CronShapes, Followed, CronErrands
  <2>4. CASE missed' = TRUE /\ UNCHANGED <<registry, errand>>
    BY <2>2, <2>4 DEF CronShapes, Followed, CronErrands
  <2> QED
    BY <2>1, <2>3, <2>4
<1>2. CASE ~CreateJob(r, p, j)
  <2>1. PICK state \in States : Sets(p, j, state)
    BY <1>2 DEF UpdateJob, PauseJob, ResumeJob, DeleteJob, States, CronShapes
  <2>2. ThenReconcile(r, p) /\ UNCHANGED <<registry, missed>>
    BY <1>2 DEF UpdateJob, PauseJob, ResumeJob, DeleteJob
  <2> QED
    BY <2>1, <2>2, SetsKeeps, TellsScheduler DEF CronShapes, Followed, CronErrands
<1> QED
  BY <1>1, <1>2

\* A run of a job, which looks first and changes the store later.
LEMMA CronRunInv ==
  ASSUME CronInv, NEW r \in CronRequests,
         \/ \E p \in CronProfiles, j \in Jobs : RunCheck(r, p, j)
         \/ Trigger(r)
  PROVE  CronInv'
<1> USE CronInv DEF CronInv
<1>1. ASSUME NEW p \in CronProfiles, NEW j \in Jobs, RunCheck(r, p, j) PROVE CronInv'
  <2>1. [does |-> "trigger", profile |-> p, job |-> j] \in CronErrands
    BY <1>1 DEF RunCheck, CronErrands
  <2>2. /\ errand' = [errand EXCEPT ![r] = [does |-> "trigger", profile |-> p, job |-> j]]
        /\ Ready(r) /\ calls' \in 0..MaxCalls /\ UNCHANGED <<profiles, cronjob, registry, missed>>
    BY <1>1, CronAssumption DEF RunCheck, Asks, Counts, CronShapes
  <2>3. CronShapes'
    BY <2>1, <2>2 DEF CronShapes, CronErrands
  <2>4. \A q \in CronRequests : ~Pending(q)' => ~Pending(q)
    BY <2>2, ErrandIs DEF Pending, CronShapes
  <2> QED
    BY <2>2, <2>3, <2>4 DEF Followed, OnJobs
<1>2. CASE Trigger(r)
  <2>1. errand[r].profile \in profiles /\ errand[r].job \in Jobs /\ errand[r].does = "trigger"
    BY <1>2, ErrandIs DEF Trigger
  <2>2. UNCHANGED <<profiles, registry, missed, calls>>
    BY <1>2 DEF Trigger
  <2>3. CASE Sets(errand[r].profile, errand[r].job, "on") /\ ThenReconcile(r, errand[r].profile)
    BY <2>1, <2>2, <2>3, SetsKeeps, TellsScheduler DEF CronShapes, Followed, CronErrands, States
  <2>4. CASE Asks(r, NoErrand) /\ UNCHANGED cronjob
    <3>1. CronShapes'
      BY <2>2, <2>4 DEF CronShapes, CronErrands, Asks
    <3>2. \A q \in CronRequests : ~Pending(q)' => ~Pending(q)
      BY <2>1, <2>4 DEF Pending, CronShapes, Asks
    <3> QED
      BY <2>2, <2>4, <3>1, <3>2 DEF Followed, OnJobs
  <2> QED
    BY <1>2, <2>3, <2>4 DEF Trigger
<1> QED
  BY <1>1, <1>2

\* The scheduler is told, or not.
LEMMA ReconcileInv ==
  ASSUME CronInv, NEW r \in CronRequests, CountProfiles(r) \/ Converge(r) \/ ConvergeFails(r)
  PROVE  CronInv'
<1> USE CronInv DEF CronInv
<1>0. UNCHANGED <<profiles, cronjob, calls>> /\ Pending(r)
  BY DEF CountProfiles, Converge, ConvergeFails, Pending
<1>1. errand[r] = [does |-> errand[r].does, profile |-> errand[r].profile] /\ errand[r].profile \in profiles
  BY <1>0, ErrandIs
<1>2. CASE CountProfiles(r) /\ Cardinality(profiles) = 1
  <2>1. errand' = [errand EXCEPT ![r] = [does |-> "converge", profile |-> errand[r].profile]]
    BY <1>1, <1>2 DEF CountProfiles, Asks
  <2>2. [does |-> "converge", profile |-> errand[r].profile] \in CronErrands
    BY <1>1 DEF CronErrands
  <2>3. Pending(r)' /\ errand' \in [CronRequests -> CronErrands] /\ UNCHANGED <<registry, missed>>
    BY <1>2, <2>1, <2>2 DEF Pending, CronShapes, CountProfiles
  <2> QED
    BY <1>0, <2>3 DEF CronShapes, Followed, CronErrands
<1>3. CASE missed' = TRUE /\ Asks(r, NoErrand) /\ UNCHANGED registry
  BY <1>0, <1>3 DEF CronShapes, Followed, CronErrands, Asks
<1>4. CASE Converge(r)
  <2>1. registry' \subseteq Jobs /\ missed' = FALSE /\ errand' \in [CronRequests -> CronErrands]
    BY <1>4 DEF Converge, On, Asks, CronShapes, CronErrands
  <2>2. CronShapes'
    BY <1>0, <2>1 DEF CronShapes, CronErrands
  <2>3. Cardinality(profiles) = 1 => registry' = OnJobs
    BY <1>1, <1>4, OneStore DEF Converge
  <2> QED
    BY <1>0, <2>2, <2>3 DEF Followed, OnJobs
<1> QED
  BY <1>2, <1>3, <1>4 DEF CountProfiles, ConvergeFails

\* The gateway starts, a job fires, a profile comes.
LEMMA SchedulerInv ==
  ASSUME CronInv,
         \/ \E p \in CronProfiles : StartRegisters(p) \/ AddProfile(p)
         \/ \E j \in Jobs : Fires(j)
  PROVE  CronInv'
<1> USE CronInv DEF CronInv
<1>1. ASSUME NEW p \in CronProfiles, StartRegisters(p) PROVE CronInv'
  <2>1. /\ p \in profiles /\ registry' = (registry \ In(p)) \cup On(p)
        /\ UNCHANGED <<profiles, cronjob, errand, missed, calls>>
    BY <1>1 DEF StartRegisters
  <2>2. CronShapes'
    BY <2>1 DEF CronShapes, On, CronErrands
  <2>3. Cardinality(profiles) = 1 /\ registry = OnJobs => registry' = OnJobs
    BY <2>1, OneStore
  <2> QED
    BY <2>1, <2>2, <2>3 DEF Followed, OnJobs, Pending
<1>2. ASSUME NEW j \in Jobs, Fires(j) PROVE CronInv'
  <2>1. /\ cronjob' = [cronjob EXCEPT ![j] = [profile |-> cronjob[j].profile, state |-> "done"]]
        /\ registry' = registry \ {j} /\ UNCHANGED <<profiles, errand, missed, calls>>
    <3>1. cronjob[j] \in [profile : profiles \cup {"none"}, state : States]
      BY DEF CronShapes
    <3>2. [cronjob[j] EXCEPT !.state = "done"] = [profile |-> cronjob[j].profile, state |-> "done"]
      BY <3>1
    <3> QED
      BY <1>2, <3>2 DEF Fires
  <2>2. CronShapes'
    BY <2>1 DEF CronShapes, States, CronErrands
  <2>3. OnJobs' = OnJobs \ {j}
    BY <2>1 DEF OnJobs, CronShapes
  <2> QED
    BY <2>1, <2>2, <2>3 DEF Followed, Pending
<1>3. ASSUME NEW p \in CronProfiles, AddProfile(p) PROVE CronInv'
  <2>1. /\ p \notin profiles /\ profiles' = profiles \cup {p}
        /\ UNCHANGED <<cronjob, registry, errand, missed, calls>>
    BY <1>3 DEF AddProfile
  <2>2. IsFiniteSet(profiles') /\ Cardinality(profiles') = Cardinality(profiles) + 1
    BY <2>1, FS_AddElement DEF CronShapes
  <2>3. Cardinality(profiles) \in Nat /\ Cardinality(profiles) # 0
    BY FS_EmptySet, FS_CardinalityType DEF CronShapes
  <2>4. CronErrands \subseteq CronErrands'
    BY <2>1 DEF CronErrands
  <2>5. errand' \in [CronRequests -> CronErrands']
    BY <2>1, <2>4 DEF CronShapes
  <2>6. cronjob' \in [Jobs -> [profile : profiles' \cup {"none"}, state : States]]
    BY <2>1 DEF CronShapes
  <2>7. CronShapes'
    BY <2>1, <2>2, <2>5, <2>6 DEF CronShapes
  <2> QED
    BY <2>2, <2>3, <2>7 DEF Followed
<1> QED
  BY <1>1, <1>2, <1>3

LEMMA CronNextInv == CronInv /\ [CronNext]_cronVars => CronInv'
<1> SUFFICES ASSUME CronInv, [CronNext]_cronVars PROVE CronInv'
  OBVIOUS
<1>1. CASE UNCHANGED cronVars
  BY <1>1 DEF cronVars, CronInv, CronShapes, CronErrands, Followed, OnJobs, Pending
<1>2. CASE CronNext
  BY <1>2, CronChangeInv, CronRunInv, ReconcileInv, SchedulerInv DEF CronNext
<1> QED
  BY <1>1, <1>2

\* Every step of the services is a step of the jobs or leaves them alone.
LEMMA CronSteps == [ServicesNext]_servicesVars => [CronNext]_cronVars
BY DEF ServicesNext, servicesVars

\* The invariant of the jobs holds in every reachable state.
THEOREM JobsInvariant == ServicesSpec => []CronInv
<1>1. ServicesInit => CronInv
  BY CronInitInv DEF ServicesInit
<1> QED
  BY <1>1, CronNextInv, CronSteps, PTL DEF ServicesSpec

\* With one profile, and as long as no change has been missed, the external
\* scheduler would fire exactly the jobs that are on whenever no request is under
\* way, however many requests interleave on the store and on the registry
\* (reconcile_provider, cron.py:188-213).
THEOREM RegistryHolds == ServicesSpec => []RegistryFollows
<1>1. CronInv => RegistryFollows
  BY ErrandIs DEF CronInv, Followed, RegistryFollows, OnJobs
<1> QED
  BY <1>1, JobsInvariant, PTL

-----------------------------------------------------------------------------
(* Cards *)

Drags == {"unblock", "reopen", "direct", "reclaim", "reclaimed", "promote", "write", "recompute"}

CardMoves ==
  {NoMove} \cup [does : {"store policy"}, card : Cards] \cup [does : {"archive"}]
           \cup [does : Drags, card : Cards, to : {"ready", "todo", "triage"}]

CardShapes ==
  /\ status \in [Cards -> Statuses] /\ source \in [Cards -> {"ready", "review"}]
  /\ parents \in [Cards -> SUBSET Cards] /\ late \subseteq Cards /\ policies \subseteq Cards
  /\ archived \in BOOLEAN /\ requested \in 0..MaxAsked
  /\ moves \in [Movers -> CardMoves]

ParentsThere == \A c \in Cards : \A p \in parents[c] : There(p)

Acyclic == \A c \in Cards : c \notin Descendants(c)

\* The cards that are under work or may be claimed for it.
InWork(c) == status[c] = "ready" \/ (status[c] = "running" /\ source[c] = "ready")

CardsInv == CardShapes /\ ParentsThere /\ Acyclic /\ ReadyParents

\* What is below a card: its children, and what is below has its children there.
LEMMA ChildrenBelow ==
  ASSUME NEW c \in Cards, NEW k \in Cards, NEW d \in parents[k], d = c \/ d \in Descendants(c)
  PROVE  k \in Descendants(c)
<1> SUFFICES ASSUME NEW cs \in SUBSET Cards, Below(c, cs) PROVE k \in cs
  BY DEF Descendants
<1>1. CASE d = c
  BY <1>1 DEF Below, Children
<1>2. CASE d \in Descendants(c)
  <2>1. d \in cs
    BY <1>2 DEF Descendants
  <2> QED
    BY <2>1 DEF Below, Children
<1> QED
  BY <1>1, <1>2

\* A set that is closed and lacks the card shows that the card is on no cycle.
LEMMA ClosedWithout ==
  ASSUME NEW c \in Cards, NEW cs \in SUBSET Cards, c \notin cs,
         \A k \in Cards : parents'[k] \cap ({c} \cup cs) # {} => k \in cs
  PROVE  (c \notin Descendants(c))'
BY DEF Descendants, Below, Children

LEMMA FewerParents ==
  ASSUME Acyclic, \A k \in Cards : parents'[k] \subseteq parents[k]
  PROVE  Acyclic'
<1> SUFFICES ASSUME NEW c \in Cards PROVE (c \notin Descendants(c))'
  BY DEF Acyclic
<1>1. PICK cs \in SUBSET Cards : cs = Descendants(c)
  BY DEF Descendants
<1>2. \A k \in Cards : parents'[k] \cap ({c} \cup cs) # {} => k \in cs
  BY <1>1, ChildrenBelow
<1>3. c \notin cs
  BY <1>1 DEF Acyclic
<1> QED
  BY <1>2, <1>3, ClosedWithout

\* A new card has no children.
LEMMA NewCardAcyclic ==
  ASSUME CardShapes, Acyclic, ParentsThere, NEW c \in Cards, ~There(c), NEW ps \in SUBSET {p \in Cards : There(p)},
         parents' = [parents EXCEPT ![c] = ps]
  PROVE  Acyclic'
<1> SUFFICES ASSUME NEW d \in Cards PROVE (d \notin Descendants(d))'
  BY DEF Acyclic
<1>1. /\ parents'[c] = ps /\ c \notin ps
      /\ \A k \in Cards : c \notin parents'[k] /\ (k # c => parents'[k] = parents[k])
  BY DEF CardShapes, ParentsThere
<1>2. CASE d = c
  <2>1. \A k \in Cards : parents'[k] \cap ({d} \cup {}) # {} => k \in {}
    BY <1>1, <1>2
  <2> QED
    BY <2>1, ClosedWithout
<1>3. CASE d # c
  <2>1. PICK cs \in SUBSET Cards : cs = Descendants(d) \cup {c}
    BY DEF Descendants
  <2>2. d \notin cs
    BY <1>3, <2>1 DEF Acyclic
  <2>3. ASSUME NEW k \in Cards, parents'[k] \cap ({d} \cup cs) # {} PROVE k \in cs
    <3>1. CASE k = c
      BY <3>1, <2>1
    <3>2. CASE k # c
      <4>1. PICK p \in parents[k] : p = d \/ p \in Descendants(d)
        BY <1>1, <2>1, <2>3, <3>2
      <4> QED
        BY <2>1, <4>1, ChildrenBelow
    <3> QED
      BY <3>1, <3>2
  <2> QED
    BY <2>2, <2>3, ClosedWithout
<1> QED
  BY <1>2, <1>3

\* What is below what is below is below.
LEMMA BelowBelow ==
  ASSUME NEW c \in Cards, NEW d \in Descendants(c)
  PROVE  Descendants(d) \subseteq Descendants(c)
<1>1. PICK cs \in SUBSET Cards : cs = Descendants(c)
  BY DEF Descendants
<1>2. Below(d, cs)
  BY <1>1, ChildrenBelow DEF Below, Children, Descendants
<1>3. d \in Cards
  BY DEF Descendants
<1> QED
  BY <1>1, <1>2, <1>3 DEF Descendants

\* A link from a card that is not below closes no cycle.
LEMMA LinkAcyclic ==
  ASSUME CardShapes, Acyclic, NEW c \in Cards, NEW p \in Cards, p # c, p \notin Descendants(c),
         parents' = [parents EXCEPT ![c] = @ \cup {p}]
  PROVE  Acyclic'
<1> SUFFICES ASSUME NEW d \in Cards PROVE (d \notin Descendants(d))'
  BY DEF Acyclic
<1>1. \A k \in Cards : parents'[k] = IF k = c THEN parents[k] \cup {p} ELSE parents[k]
  BY DEF CardShapes
<1>2. CASE d # p /\ p \notin Descendants(d)
  <2>1. PICK cs \in SUBSET Cards : cs = Descendants(d)
    BY DEF Descendants
  <2>2. d \notin cs
    BY <2>1 DEF Acyclic
  <2>3. ASSUME NEW k \in Cards, parents'[k] \cap ({d} \cup cs) # {} PROVE k \in cs
    <3>1. PICK q \in parents[k] : q = d \/ q \in Descendants(d)
      BY <1>1, <1>2, <2>1, <2>3
    <3> QED
      BY <2>1, <3>1, ChildrenBelow
  <2> QED
    BY <2>2, <2>3, ClosedWithout
<1>3. CASE d = p \/ p \in Descendants(d)
  <2>1. PICK cs \in SUBSET Cards : cs = Descendants(d) \cup Descendants(c) \cup {c}
    BY DEF Descendants
  <2>2. d \notin cs
    <3>1. d \notin Descendants(d) /\ d # c
      BY <1>3 DEF Acyclic
    <3>2. d \notin Descendants(c)
      BY <1>3, BelowBelow
    <3> QED
      BY <2>1, <3>1, <3>2
  <2>3. ASSUME NEW k \in Cards, parents'[k] \cap ({d} \cup cs) # {} PROVE k \in cs
    <3>1. CASE k = c
      BY <2>1, <3>1
    <3>2. CASE k # c
      <4>1. PICK q \in parents[k] : q = d \/ q \in Descendants(d) \/ q = c \/ q \in Descendants(c)
        BY <1>1, <2>1, <2>3, <3>2
      <4>2. k \in Descendants(d) \/ k \in Descendants(c)
        BY <4>1, ChildrenBelow
      <4> QED
        BY <2>1, <4>2
    <3> QED
      BY <3>1, <3>2
  <2> QED
    BY <2>2, <2>3, ClosedWithout
<1> QED
  BY <1>2, <1>3

LEMMA CardsInitInv == CardsInit => CardsInv
<1> SUFFICES ASSUME CardsInit PROVE CardsInv
  OBVIOUS
<1>1. /\ status \in [Cards -> Statuses] /\ source \in [Cards -> {"ready", "review"}]
      /\ parents \in [Cards -> SUBSET Cards] /\ late \subseteq Cards /\ policies \subseteq Cards
  BY DEF CardsInit, Statuses
<1>2. archived \in BOOLEAN
  BY Zenon DEF CardsInit
<1>3. requested \in 0..MaxAsked
  BY CardsAssumption DEF CardsInit
<1>4. moves \in [Movers -> CardMoves]
  BY DEF CardsInit, CardMoves
<1>5. ParentsThere /\ ReadyParents
  BY DEF CardsInit, ParentsThere, ReadyParents
<1>6. Acyclic
  BY DEF CardsInit, Acyclic, Descendants, Below, Children
<1> QED
  BY <1>1, <1>2, <1>3, <1>4, <1>5, <1>6 DEF CardsInv, CardShapes

\* As long as no parent is unfinished again, a card in work was one before or
\* has been looked at.
LEMMA NothingReopened ==
  ASSUME ReadyParents,
         \A c \in Cards : \A p \in parents'[c] : status[p] \in Finished => status'[p] \in Finished,
         \A c \in Cards \ late' : InWork(c)' =>
           \/ c \notin late /\ InWork(c) /\ parents'[c] \subseteq parents[c]
           \/ \A p \in parents'[c] : status[p] \in Finished
  PROVE  ReadyParents'
<1> SUFFICES ASSUME NEW c \in Cards \ late', InWork(c)'
             PROVE  \A p \in parents'[c] : status'[p] \in Finished
  BY DEF ReadyParents, InWork, SatisfiedIn
<1>1. \A p \in parents'[c] : status[p] \in Finished
  BY DEF ReadyParents, InWork, SatisfiedIn
<1> QED
  BY <1>1

\* recompute_ready promotes cards whose parents are finished, and only those.
LEMMA RecomputedIs ==
  ASSUME NEW st \in [Cards -> Statuses]
  PROVE  /\ Recomputed(st) \in [Cards -> Statuses]
         /\ \A c \in Cards : \/ Recomputed(st)[c] = st[c]
                             \/ st[c] = "todo" /\ Recomputed(st)[c] = "ready" /\ SatisfiedIn(st, c)
BY DEF Recomputed, Statuses

\* A move that goes on knows its card and its column.
LEMMA MoveIs ==
  ASSUME CardShapes, NEW r \in Movers
  PROVE  /\ moves[r].does = "store policy" => moves[r].card \in Cards
         /\ moves[r].does \in Drags =>
              /\ moves[r].card \in Cards /\ moves[r].to \in {"ready", "todo", "triage"}
              /\ \A what \in Drags : [moves[r] EXCEPT !.does = what] \in CardMoves
<1>1. moves[r] \in CardMoves
  BY DEF CardShapes
<1>2. CASE moves[r] \in {NoMove} \cup [does : {"archive"}] \cup [does : {"store policy"}, card : Cards]
  <2>1. CASE moves[r] = NoMove \/ moves[r] \in [does : {"archive"}]
    <3>1. moves[r].does \in {"nothing", "archive"}
      BY <2>1 DEF NoMove
    <3>2. moves[r].does \notin Drags /\ moves[r].does # "store policy"
      BY <3>1 DEF Drags
    <3> QED
      BY <3>2, Zenon
  <2>2. CASE moves[r] \in [does : {"store policy"}, card : Cards]
    <3>1. moves[r].does = "store policy" /\ moves[r].card \in Cards
      BY <2>2
    <3>2. moves[r].does \notin Drags
      BY <3>1 DEF Drags
    <3> QED
      BY <3>1, <3>2, Zenon
  <2> QED
    BY <1>2, <2>1, <2>2
<1>3. CASE moves[r] \in [does : Drags, card : Cards, to : {"ready", "todo", "triage"}]
  <2>1. \A what \in Drags : [moves[r] EXCEPT !.does = what]
          \in [does : Drags, card : Cards, to : {"ready", "todo", "triage"}]
    BY <1>3
  <2>2. moves[r].does # "store policy"
    BY <1>3 DEF Drags
  <2> QED
    BY <1>3, <2>1, <2>2, Zenon DEF CardMoves
<1> QED
  BY <1>1, <1>2, <1>3 DEF CardMoves

LEMMA MovesOn ==
  ASSUME CardShapes, NEW r \in Movers,
         \/ Over(r) \/ UNCHANGED moves
         \/ moves[r].does \in Drags /\ \E what \in Drags : ThenDoes(r, what)
  PROVE  moves' \in [Movers -> CardMoves]
<1>1. NoMove \in CardMoves
  BY DEF CardMoves
<1>2. CASE Over(r)
  BY <1>1, <1>2 DEF Over, Move, CardShapes
<1>3. CASE moves[r].does \in Drags /\ \E what \in Drags : ThenDoes(r, what)
  <2>1. PICK what \in Drags : moves' = [moves EXCEPT ![r] = [moves[r] EXCEPT !.does = what]]
    BY <1>3 DEF ThenDoes, Move
  <2>2. [moves[r] EXCEPT !.does = what] \in CardMoves
    BY <1>3, MoveIs
  <2> QED
    BY <2>1, <2>2 DEF CardShapes
<1> QED
  BY <1>2, <1>3 DEF CardShapes

\* A card goes to another column, and what waits may be promoted: a finished
\* card stays finished, and one becomes ready with its parents finished.
LEMMA CardPut ==
  ASSUME CardsInv, NEW c \in Cards, NEW to \in Statuses, There(c), to \notin {"none", "running"},
         status[c] \in Finished => to \in Finished,
         to = "ready" => c \in late \/ SatisfiedIn(status, c),
         UNCHANGED <<source, parents, late>>, PutIn(c, to) \/ PutAndRecompute(c, to)
  PROVE  status' \in [Cards -> Statuses] /\ ParentsThere' /\ ReadyParents'
<1> USE CardsInv DEF CardsInv
<1>1. PICK st \in [Cards -> Statuses] : st = [status EXCEPT ![c] = to]
  BY DEF CardShapes
<1>2. /\ status' \in [Cards -> Statuses]
      /\ \A k \in Cards : \/ status'[k] = st[k]
                          \/ st[k] = "todo" /\ status'[k] = "ready" /\ SatisfiedIn(st, k)
  <2>1. CASE PutIn(c, to)
    BY <1>1, <2>1 DEF PutIn
  <2>2. CASE PutAndRecompute(c, to)
    <3>1. status' = Recomputed(st)
      BY <1>1, <2>2 DEF PutAndRecompute
    <3> QED
      BY <3>1, RecomputedIs
  <2> QED
    BY <2>1, <2>2
<1>3. \A k \in Cards : There(k) => status'[k] # "none"
  BY <1>1, <1>2 DEF CardShapes, There
<1>4. \A k \in Cards : st[k] \in Finished => status'[k] \in Finished
  BY <1>2 DEF Finished
<1>5. \A k \in Cards : status[k] \in Finished => status'[k] \in Finished
  BY <1>1, <1>4 DEF CardShapes
<1>6. ASSUME NEW k \in Cards \ late', InWork(k)' PROVE \A p \in parents'[k] : status'[p] \in Finished
  <2>1. CASE st[k] = "todo" /\ status'[k] = "ready" /\ SatisfiedIn(st, k)
    BY <1>4, <2>1 DEF SatisfiedIn, CardShapes
  <2>2. CASE status'[k] = st[k]
    <3>1. InWork(k) \/ SatisfiedIn(status, k)
      BY <1>1, <1>6, <2>2 DEF InWork, CardShapes
    <3>2. SatisfiedIn(status, k)
      BY <3>1 DEF ReadyParents, InWork
    <3> QED
      BY <1>5, <3>2 DEF SatisfiedIn, CardShapes
  <2> QED
    BY <1>2, <2>1, <2>2
<1>7. ReadyParents'
  BY <1>6 DEF ReadyParents, InWork, SatisfiedIn
<1>8. ParentsThere'
  BY <1>3 DEF ParentsThere, There, CardShapes
<1> QED
  BY <1>2, <1>7, <1>8

\* The dispatcher claims a card, or a run of it ends.
LEMMA DispatchInv ==
  ASSUME CardsInv, NEW c \in Cards, Claim(c) \/ WorkerEnds(c)
  PROVE  CardsInv'
<1> USE CardsInv DEF CardsInv
<1>1. UNCHANGED <<parents, late, policies, archived, moves, requested>>
  BY DEF Claim, WorkerEnds
<1>2. Acyclic'
  BY <1>1, FewerParents
<1>3. CASE Claim(c)
  <2>1. /\ status' = [status EXCEPT ![c] = "running"] /\ status[c] \in {"ready", "review"}
        /\ source' = [source EXCEPT ![c] = status[c]]
    BY <1>3 DEF Claim, PutIn
  <2>2. CardShapes' /\ ParentsThere'
    <3>1. status' \in [Cards -> Statuses] /\ source' \in [Cards -> {"ready", "review"}]
      BY <2>1 DEF CardShapes, Statuses
    <3>2. \A k \in Cards : There(k) => There(k)'
      BY <2>1 DEF CardShapes, There
    <3> QED
      BY <1>1, <3>1, <3>2 DEF CardShapes, ParentsThere
  <2>3. \A k \in Cards : status[k] \in Finished => status'[k] \in Finished
    BY <2>1 DEF CardShapes, Finished
  <2>4. \A k \in Cards : InWork(k)' => InWork(k)
    BY <2>1 DEF CardShapes, InWork
  <2>5. ReadyParents'
    BY <1>1, <2>3, <2>4, NothingReopened DEF CardShapes
  <2> QED
    BY <1>2, <2>2, <2>5
<1>4. CASE WorkerEnds(c)
  <2>1. PICK to \in {"done", "blocked", "review"} : PutAndRecompute(c, to)
    BY <1>4 DEF WorkerEnds
  <2>2. UNCHANGED source /\ status[c] = "running"
    BY <1>4 DEF WorkerEnds
  <2>3. to \in Statuses /\ to \notin {"none", "ready", "running"} /\ There(c) /\ status[c] \notin Finished
    BY <2>2 DEF Statuses, There, Finished
  <2>4. status' \in [Cards -> Statuses] /\ ParentsThere' /\ ReadyParents'
    BY <1>1, <2>1, <2>2, <2>3, CardPut
  <2> QED
    BY <1>1, <1>2, <2>2, <2>4 DEF CardShapes
<1> QED
  BY <1>3, <1>4

\* A card comes; it is ready when its parents are done.
LEMMA CreateInv ==
  ASSUME CardsInv, NEW r \in Movers, NEW c \in Cards, CreateCard(r, c)
  PROVE  CardsInv'
<1> USE CardsInv DEF CardsInv
<1>1. PICK ps \in SUBSET {p \in Cards : There(p)}, asks \in {"triage", "blocked", "work"}, own \in BOOLEAN :
        /\ parents' = [parents EXCEPT ![c] = ps]
        /\ PutIn(c, IF asks # "work" THEN asks
                    ELSE IF \A p \in ps : status[p] = "done" THEN "ready" ELSE "todo")
        /\ Move(r, IF own THEN [does |-> "store policy", card |-> c] ELSE NoMove)
  BY DEF CreateCard
<1>2. PICK to \in {"triage", "blocked", "ready", "todo"} :
        status' = [status EXCEPT ![c] = to] /\ (to = "ready" => \A p \in ps : status[p] = "done")
  BY <1>1 DEF PutIn
<1>3. /\ ~There(c) /\ UNCHANGED <<late, policies, archived>> /\ source' = [source EXCEPT ![c] = "ready"]
      /\ requested' \in 0..MaxAsked
  <2>1. Asked(r)
    BY DEF CreateCard
  <2>2. requested' \in 0..MaxAsked
    BY <2>1, CardsAssumption DEF Asked, CardShapes
  <2> QED
    BY <2>2, Zenon DEF CreateCard
<1>4. Acyclic'
  BY <1>1, <1>3, NewCardAcyclic
<1>5. moves' \in [Movers -> CardMoves]
  <2>1. NoMove \in CardMoves /\ [does |-> "store policy", card |-> c] \in CardMoves
    BY DEF CardMoves
  <2> QED
    BY <1>1, <2>1 DEF Move, CardShapes
<1>6. status' \in [Cards -> Statuses] /\ source' \in [Cards -> {"ready", "review"}]
  BY <1>2, <1>3 DEF CardShapes, Statuses
<1>7. parents' \in [Cards -> SUBSET Cards]
  BY <1>1 DEF CardShapes
<1>8. CardShapes'
  BY <1>3, <1>5, <1>6, <1>7 DEF CardShapes
<1>9. ParentsThere'
  <2>1. \A k \in Cards : There(k) => status'[k] # "none"
    BY <1>2 DEF There, CardShapes
  <2>2. \A k \in Cards : \A p \in parents'[k] : p \in Cards /\ There(p)
    BY <1>1 DEF ParentsThere, CardShapes
  <2> QED
    BY <2>1, <2>2 DEF ParentsThere, There
<1>10. ReadyParents'
  <2>1. \A k \in Cards : status[k] \in Finished => status'[k] \in Finished
    BY <1>2, <1>3 DEF CardShapes, There, Finished
  <2>2. ASSUME NEW k \in Cards \ late', InWork(k)'
        PROVE  \/ k \notin late /\ InWork(k) /\ parents'[k] \subseteq parents[k]
               \/ \A p \in parents'[k] : status[p] \in Finished
    <3>1. CASE k = c
      BY <1>1, <1>2, <2>2, <3>1 DEF InWork, CardShapes, Finished
    <3>2. CASE k # c
      BY <1>1, <1>2, <1>3, <2>2, <3>2 DEF InWork, CardShapes
    <3> QED
      BY <3>1, <3>2
  <2>3. \A k \in Cards : \A p \in parents'[k] : status[p] \in Finished => status'[p] \in Finished
    BY <1>7, <2>1
  <2> QED
    BY <2>2, <2>3, NothingReopened
<1> QED
  BY <1>4, <1>8, <1>9, <1>10

\* A card goes, and no card keeps it as a parent.
LEMMA DeletedInv ==
  ASSUME CardsInv, NEW c \in Cards, Deleted(c), UNCHANGED <<source, policies, archived>>,
         moves' \in [Movers -> CardMoves], requested' \in 0..MaxAsked
  PROVE  CardsInv'
<1> USE CardsInv DEF CardsInv
<1>1. \A k \in Cards : parents'[k] = IF k = c THEN {} ELSE parents[k] \ {c}
  BY DEF Deleted
<1>2. /\ \A k \in Cards : \/ k = c /\ status'[k] = "none"
                          \/ k # c /\ status'[k] = status[k]
                          \/ k # c /\ status'[k] = "ready" /\ status[k] = "todo"
                             /\ \A p \in parents[k] \ {c} : status[p] \in Finished
      /\ late' = late \ {c}
  BY DEF Deleted
<1>3. CardShapes'
  <2>1. status' \in [Cards -> Statuses]
    BY DEF Deleted, CardShapes, Statuses
  <2>2. parents' \in [Cards -> SUBSET Cards]
    BY DEF Deleted, CardShapes
  <2> QED
    BY <1>2, <2>1, <2>2 DEF CardShapes
<1>4. Acyclic'
  BY <1>1, FewerParents
<1>5. ParentsThere'
  BY <1>1, <1>2 DEF ParentsThere, There, CardShapes
<1>6. ReadyParents'
  <2>0. \A p \in Cards \ {c} : status[p] \in Finished => status'[p] = status[p]
    BY <1>2 DEF Finished
  <2>1. \A k \in Cards : \A p \in parents'[k] : status[p] \in Finished => status'[p] \in Finished
    BY <1>1, <2>0 DEF CardShapes
  <2>2. \A k \in Cards \ late' : InWork(k)' =>
          \/ k \notin late /\ InWork(k) /\ parents'[k] \subseteq parents[k]
          \/ \A p \in parents'[k] : status[p] \in Finished
    BY <1>1, <1>2 DEF InWork, CardShapes
  <2> QED
    BY <2>1, <2>2, NothingReopened
<1> QED
  BY <1>3, <1>4, <1>5, <1>6

LEMMA DeleteInv ==
  ASSUME CardsInv, NEW r \in Movers, PolicyFails(r) \/ \E c \in Cards : DeleteCard(r, c)
  PROVE  CardsInv'
<1>1. CASE PolicyFails(r)
  <2>1. moves[r].card \in Cards
    BY <1>1, MoveIs DEF PolicyFails, CardsInv
  <2>2. moves' \in [Movers -> CardMoves]
    BY <1>1, MovesOn DEF PolicyFails, CardsInv
  <2> QED
    BY <1>1, <2>1, <2>2, DeletedInv DEF PolicyFails, CardsInv, CardShapes
<1>2. ASSUME NEW c \in Cards, DeleteCard(r, c) PROVE CardsInv'
  <2>1. requested' \in 0..MaxAsked /\ moves' \in [Movers -> CardMoves]
    BY <1>2, CardsAssumption DEF DeleteCard, Asked, CardsInv, CardShapes
  <2> QED
    BY <1>2, <2>1, DeletedInv DEF DeleteCard
<1> QED
  BY <1>1, <1>2

\* Links and their removal.
LEMMA LinkInv ==
  ASSUME CardsInv, NEW r \in Movers, NEW p \in Cards, NEW c \in Cards, Link(r, p, c)
  PROVE  CardsInv'
<1> USE CardsInv DEF CardsInv
<1>1. /\ There(p) /\ There(c) /\ p # c /\ p \notin Descendants(c)
      /\ parents' = [parents EXCEPT ![c] = @ \cup {p}]
      /\ UNCHANGED <<source, policies, archived, moves>>
  BY DEF Link
<1>2. requested' \in 0..MaxAsked
  BY CardsAssumption DEF Link, Asked, CardShapes
<1>3. \/ status[c] = "ready" /\ status[p] # "done" /\ status' = [status EXCEPT ![c] = "todo"]
      \/ (status[c] = "ready" => status[p] = "done") /\ UNCHANGED status
  BY DEF Link, PutIn
<1>4. /\ late \subseteq late' /\ late' \subseteq Cards
      /\ status[c] = "running" /\ status[p] \notin Finished => c \in late'
  BY DEF Link, CardShapes
<1>5. Acyclic'
  BY <1>1, LinkAcyclic
<1>6. \A k \in Cards : parents'[k] = IF k = c THEN parents[k] \cup {p} ELSE parents[k]
  BY <1>1 DEF CardShapes
<1>7. CardShapes'
  <2>1. status' \in [Cards -> Statuses]
    BY <1>3 DEF CardShapes, Statuses
  <2>2. parents' \in [Cards -> SUBSET Cards]
    BY <1>1 DEF CardShapes
  <2> QED
    BY <1>1, <1>2, <1>4, <2>1, <2>2 DEF CardShapes
<1>8. ParentsThere'
  <2>1. \A k \in Cards : There(k) => status'[k] # "none"
    BY <1>3 DEF There, CardShapes
  <2>2. \A k \in Cards : \A q \in parents'[k] : q \in Cards /\ There(q)
    BY <1>1, <1>6 DEF ParentsThere, CardShapes
  <2> QED
    BY <2>1, <2>2 DEF ParentsThere, There
<1>9. ReadyParents'
  <2>1. \A k \in Cards : status[k] \in Finished => status'[k] \in Finished
    BY <1>3 DEF CardShapes, Finished
  <2>2. \A k \in Cards : \A q \in parents'[k] : status[q] \in Finished => status'[q] \in Finished
    BY <2>1, <1>7 DEF CardShapes
  <2>3. ASSUME NEW k \in Cards \ late', InWork(k)'
        PROVE  \/ k \notin late /\ InWork(k) /\ parents'[k] \subseteq parents[k]
               \/ \A q \in parents'[k] : status[q] \in Finished
    <3>1. k \notin late /\ InWork(k)
      BY <1>1, <1>3, <1>4, <2>3 DEF InWork, CardShapes
    <3>2. CASE k # c
      BY <1>6, <3>1, <3>2
    <3>3. CASE k = c
      <4>1. status[p] \in Finished
        BY <1>1, <1>3, <1>4, <2>3, <3>1, <3>3 DEF InWork, CardShapes, Finished
      <4>2. \A q \in parents[k] : status[q] \in Finished
        BY <3>1 DEF ReadyParents, InWork, SatisfiedIn
      <4> QED
        BY <1>6, <3>3, <4>1, <4>2
    <3> QED
      BY <3>2, <3>3
  <2> QED
    BY <2>2, <2>3, NothingReopened
<1> QED
  BY <1>5, <1>7, <1>8, <1>9

LEMMA UnlinkInv ==
  ASSUME CardsInv, NEW r \in Movers, NEW p \in Cards, NEW c \in Cards, Unlink(r, p, c)
  PROVE  CardsInv'
<1> USE CardsInv DEF CardsInv
<1>1. /\ parents' = [parents EXCEPT ![c] = @ \ {p}]
      /\ UNCHANGED <<source, late, policies, archived, moves>>
  BY DEF Unlink
<1>2. requested' \in 0..MaxAsked
  BY CardsAssumption DEF Unlink, Asked, CardShapes
<1>3. /\ status' \in [Cards -> Statuses]
      /\ \A k \in Cards : \/ status'[k] = status[k]
                          \/ /\ status[k] = "todo" /\ status'[k] = "ready"
                             /\ \A q \in parents'[k] : status[q] \in Finished
  BY DEF Unlink, CardShapes, Statuses
<1>4. parents' \in [Cards -> SUBSET Cards] /\ \A k \in Cards : parents'[k] \subseteq parents[k]
  BY <1>1 DEF CardShapes
<1>5. Acyclic'
  BY <1>4, FewerParents
<1>6. CardShapes'
  BY <1>1, <1>2, <1>3, <1>4 DEF CardShapes
<1>7. ParentsThere'
  <2>1. \A k \in Cards : There(k) => status'[k] # "none"
    BY <1>3 DEF There
  <2> QED
    BY <1>4, <2>1 DEF ParentsThere, There
<1>8. ReadyParents'
  <2>1. \A k \in Cards : status[k] \in Finished => status'[k] \in Finished
    BY <1>3 DEF Finished
  <2>2. \A k \in Cards : \A q \in parents'[k] : status[q] \in Finished => status'[q] \in Finished
    BY <2>1, <1>4
  <2>3. \A k \in Cards \ late' : InWork(k)' =>
          \/ k \notin late /\ InWork(k) /\ parents'[k] \subseteq parents[k]
          \/ \A q \in parents'[k] : status[q] \in Finished
    BY <1>1, <1>3, <1>4 DEF InWork
  <2> QED
    BY <2>2, <2>3, NothingReopened
<1> QED
  BY <1>5, <1>6, <1>7, <1>8

\* A verb puts one card in a column, or leaves the cards alone.
LEMMA VerbInv ==
  ASSUME CardsInv, UNCHANGED <<source, parents, late>>, policies' \subseteq Cards, archived' \in BOOLEAN,
         requested' \in 0..MaxAsked, moves' \in [Movers -> CardMoves],
         \/ UNCHANGED status
         \/ \E c \in Cards, to \in Statuses :
              /\ There(c) /\ to \notin {"none", "running"} /\ (status[c] \in Finished => to \in Finished)
              /\ to = "ready" => c \in late \/ SatisfiedIn(status, c)
              /\ PutIn(c, to) \/ PutAndRecompute(c, to)
  PROVE  CardsInv'
<1> USE CardsInv DEF CardsInv
<1>1. Acyclic'
  BY FewerParents
<1>2. status' \in [Cards -> Statuses] /\ ParentsThere' /\ ReadyParents'
  <2>1. CASE UNCHANGED status
    BY <2>1 DEF CardShapes, ParentsThere, There, ReadyParents, SatisfiedIn
  <2>2. CASE ~UNCHANGED status
    BY <2>2, CardPut
  <2> QED
    BY <2>1, <2>2
<1> QED
  BY <1>1, <1>2 DEF CardShapes

\* Verbs that people call, and the ones that a drag ends in.
LEMMA PeopleMoveInv ==
  ASSUME CardsInv, NEW r \in Movers,
         \/ \E c \in Cards : MoveByVerb(r, c)
         \/ Unblock(r) \/ Reopen(r) \/ Reclaim(r) \/ Promote(r)
  PROVE  CardsInv'
<1> USE CardsInv DEF CardsInv
<1>1. ASSUME NEW c \in Cards, MoveByVerb(r, c) PROVE CardsInv'
  <2>1. requested' \in 0..MaxAsked
    BY <1>1, CardsAssumption DEF MoveByVerb, Asked, CardShapes
  <2>2. UNCHANGED <<source, parents, late, policies, archived, moves>>
    BY <1>1 DEF MoveByVerb
  <2>3. PICK to \in {"done", "blocked", "review", "scheduled", "archived"} :
          /\ There(c) /\ (status[c] \in Finished => to \in Finished)
          /\ PutIn(c, to) \/ PutAndRecompute(c, to)
    <3>1. CASE status[c] \in {"running", "ready", "blocked", "review"} /\ PutAndRecompute(c, "done")
      BY <3>1 DEF There, Finished
    <3>2. CASE status[c] \in {"running", "ready"} /\ \E to \in {"blocked", "review"} : PutIn(c, to)
      BY <3>2 DEF There, Finished
    <3>3. CASE status[c] \in {"todo", "ready", "running", "blocked"} /\ PutIn(c, "scheduled")
      BY <3>3 DEF There, Finished
    <3>4. CASE There(c) /\ PutAndRecompute(c, "archived")
      BY <3>4 DEF Finished
    <3> QED
      BY <1>1, <3>1, <3>2, <3>3, <3>4 DEF MoveByVerb
  <2>4. to \in Statuses /\ to \notin {"none", "running", "ready"}
    BY DEF Statuses
  <2> QED
    BY <2>1, <2>2, <2>3, <2>4, VerbInv DEF CardShapes
<1>2. CASE Unblock(r) \/ Reopen(r) \/ Reclaim(r) \/ Promote(r)
  <2>1. moves[r].card \in Cards /\ UNCHANGED <<source, parents, late, policies, archived, requested>>
    BY <1>2, MoveIs DEF Unblock, Reopen, Reclaim, Promote, Drags
  <2>2. PICK c \in Cards : c = moves[r].card
    BY <2>1
  <2>3. moves' \in [Movers -> CardMoves]
    BY <1>2, MovesOn DEF Unblock, Reopen, Reclaim, Promote, Drags
  <2>4. \/ UNCHANGED status
        \/ \E to \in Statuses :
             /\ There(c) /\ to \notin {"none", "running"} /\ (status[c] \in Finished => to \in Finished)
             /\ to = "ready" => c \in late \/ SatisfiedIn(status, c)
             /\ PutIn(c, to)
    <3>1. Gated(c) \in {"ready", "todo"} /\ (Gated(c) = "ready" => SatisfiedIn(status, c))
      BY DEF Gated
    <3>2. CASE Unblock(r) \/ Reopen(r)
      <4>1. \/ UNCHANGED status
            \/ /\ status[c] \in {"blocked", "scheduled", "review"}
               /\ PutIn(c, "review") \/ PutIn(c, Gated(c))
        BY <2>2, <3>2 DEF Unblock, Reopen
      <4> QED
        BY <3>1, <4>1 DEF There, Finished, Statuses
    <3>3. CASE Reclaim(r)
      <4>1. \/ UNCHANGED status
            \/ status[c] = "running" /\ PutIn(c, source[c])
        BY <2>2, <3>3 DEF Reclaim
      <4>2. source[c] \in {"ready", "review"} /\ (status[c] = "running" /\ source[c] = "ready" => c \in late \/ SatisfiedIn(status, c))
        BY DEF CardShapes, ReadyParents
      <4> QED
        BY <4>1, <4>2 DEF There, Finished, Statuses
    <3>4. CASE Promote(r)
      <4>1. \/ UNCHANGED status
            \/ status[c] \in {"todo", "blocked"} /\ SatisfiedIn(status, c) /\ PutIn(c, "ready")
        BY <2>2, <3>4 DEF Promote
      <4> QED
        BY <4>1 DEF There, Finished, Statuses
    <3> QED
      BY <1>2, <3>2, <3>3, <3>4
  <2> QED
    BY <2>1, <2>3, <2>4, VerbInv DEF CardShapes
<1> QED
  BY <1>1, <1>2

\* Looks, rows of policies and the board.
LEMMA LookInv ==
  ASSUME CardsInv, NEW r \in Movers,
         \/ \E c \in Cards, to \in {"ready", "todo", "triage"} : Drag(r, c, to)
         \/ StorePolicy(r) \/ Direct(r) \/ Reclaimed(r) \/ ArchiveCheck(r) \/ Archive(r) \/ Unarchive(r)
  PROVE  CardsInv'
<1> USE CardsInv DEF CardsInv
<1>1. UNCHANGED <<status, source, parents, late>>
  BY DEF Drag, StorePolicy, Direct, Reclaimed, ArchiveCheck, Archive, Unarchive
<1>2. policies' \subseteq Cards
  <2>1. CASE StorePolicy(r)
    BY <2>1, MoveIs DEF StorePolicy, CardShapes
  <2>2. CASE UNCHANGED policies
    BY <2>2 DEF CardShapes
  <2> QED
    BY <2>1, <2>2 DEF Drag, Direct, Reclaimed, ArchiveCheck, Archive, Unarchive
<1>3. archived' \in BOOLEAN
  BY Zenon DEF Drag, StorePolicy, Direct, Reclaimed, ArchiveCheck, Archive, Unarchive, CardShapes
<1>4. requested' \in 0..MaxAsked
  <2>1. CASE Asked(r)
    BY <2>1, CardsAssumption DEF Asked, CardShapes
  <2>2. CASE UNCHANGED requested
    BY <2>2 DEF CardShapes
  <2> QED
    BY <2>1, <2>2 DEF Drag, StorePolicy, Direct, Reclaimed, ArchiveCheck, Archive, Unarchive
<1>5. moves' \in [Movers -> CardMoves]
  <2>1. ASSUME NEW c \in Cards, NEW to \in {"ready", "todo", "triage"}, Drag(r, c, to) PROVE <1>5
    <3>1. PICK what \in Drags : moves' = [moves EXCEPT ![r] = [card |-> c, to |-> to, does |-> what]]
      BY <2>1 DEF Drag, Move, Drags
    <3>2. [card |-> c, to |-> to, does |-> what] \in CardMoves
      BY DEF CardMoves
    <3> QED
      BY <3>1, <3>2 DEF CardShapes
  <2>2. CASE ArchiveCheck(r)
    <3>1. [does |-> "archive"] \in CardMoves
      BY DEF CardMoves
    <3> QED
      BY <2>2, <3>1 DEF ArchiveCheck, Move, CardShapes
  <2>3. CASE Direct(r) \/ Reclaimed(r)
    BY <2>3, MovesOn DEF Direct, Reclaimed, Drags
  <2>4. CASE StorePolicy(r) \/ Archive(r) \/ Unarchive(r)
    BY <2>4, MovesOn DEF StorePolicy, Archive, Unarchive
  <2> QED
    BY <2>1, <2>2, <2>3, <2>4
<1> QED
  BY <1>1, <1>2, <1>3, <1>4, <1>5, VerbInv

\* The one move that reopens a finished card sends back what is below it.
LEMMA WriteInv ==
  ASSUME CardsInv, NEW r \in Movers, Write(r)
  PROVE  CardsInv'
<1> USE CardsInv DEF CardsInv
<1>1. /\ moves[r].card \in Cards /\ moves[r].to \in {"ready", "todo", "triage"}
      /\ UNCHANGED <<source, parents, late, policies, archived, requested>>
  BY MoveIs DEF Write, Drags
<1>2. PICK c \in Cards, to \in {"ready", "todo", "triage"} : c = moves[r].card /\ to = moves[r].to
  BY <1>1
<1>3. moves' \in [Movers -> CardMoves]
  BY MovesOn DEF Write, Drags
<1>4. CASE ~MayWrite(c, to)
  <2>1. UNCHANGED status
    BY <1>2, <1>4 DEF Write
  <2> QED
    BY <1>1, <1>3, <2>1, VerbInv DEF CardShapes
<1>5. CASE MayWrite(c, to)
  <2>1. status' = [k \in Cards |-> IF k = c THEN to ELSE IF k \in Invalidated(c) THEN "todo" ELSE status[k]]
    BY <1>2, <1>5 DEF Write
  <2>2. status' \in [Cards -> Statuses]
    BY <2>1 DEF CardShapes, Statuses
  <2>3. ParentsThere'
    BY <1>1, <1>5, <2>1 DEF ParentsThere, There, CardShapes
  <2>4. Acyclic'
    BY <1>1, FewerParents
  <2>5. ASSUME NEW k \in Cards, NEW p \in parents[k], status[p] \in Finished, status'[p] \notin Finished
        PROVE  k \in Descendants(c) /\ status[c] \in Finished
    <3>1. p = c \/ p \in Invalidated(c)
      BY <2>1, <2>5 DEF CardShapes
    <3> QED
      BY <2>5, <3>1, ChildrenBelow DEF Invalidated
  <2>6. ASSUME NEW k \in Cards \ late', InWork(k)' PROVE \A p \in parents[k] : status'[p] \in Finished
    <3>1. k \notin Descendants(c) \/ status[c] \notin Finished
      <4>1. CASE k = c
        BY <4>1 DEF Acyclic
      <4>2. CASE k # c
        BY <2>1, <2>6, <4>2 DEF Invalidated, InWork, CardShapes
      <4> QED
        BY <4>1, <4>2
    <3>2. \A p \in parents[k] : status[p] \in Finished
      <4>1. CASE k = c
        BY <1>5, <2>1, <2>6, <4>1 DEF MayWrite, SatisfiedIn, InWork, CardShapes
      <4>2. CASE k # c
        BY <1>1, <2>1, <2>6, <4>2 DEF InWork, ReadyParents, SatisfiedIn, CardShapes
      <4> QED
        BY <4>1, <4>2
    <3> QED
      BY <2>5, <3>1, <3>2
  <2>7. ReadyParents'
    BY <1>1, <2>6 DEF ReadyParents, InWork, SatisfiedIn
  <2> QED
    BY <1>1, <1>3, <2>2, <2>3, <2>4, <2>7 DEF CardShapes
<1> QED
  BY <1>4, <1>5

LEMMA RecomputeInv ==
  ASSUME CardsInv, NEW r \in Movers, Recompute(r)
  PROVE  CardsInv'
<1> USE CardsInv DEF CardsInv
<1>1. UNCHANGED <<source, parents, late, policies, archived, requested>>
  BY DEF Recompute
<1>2. moves' \in [Movers -> CardMoves]
  BY MovesOn DEF Recompute
<1>3. /\ status' \in [Cards -> Statuses]
      /\ \A k \in Cards : \/ status'[k] = status[k]
                          \/ status[k] = "todo" /\ status'[k] = "ready" /\ SatisfiedIn(status, k)
  BY RecomputedIs DEF Recompute, CardShapes
<1>4. CardShapes'
  BY <1>1, <1>2, <1>3 DEF CardShapes
<1>5. ParentsThere'
  BY <1>1, <1>3 DEF ParentsThere, There, CardShapes
<1>6. Acyclic'
  BY <1>1, FewerParents
<1>7. ReadyParents'
  <2>1. \A k \in Cards : status[k] \in Finished => status'[k] \in Finished
    BY <1>3 DEF Finished
  <2>2. \A k \in Cards : \A q \in parents'[k] : status[q] \in Finished => status'[q] \in Finished
    BY <1>4, <2>1 DEF CardShapes
  <2>3. \A k \in Cards \ late' : InWork(k)' =>
          \/ k \notin late /\ InWork(k) /\ parents'[k] \subseteq parents[k]
          \/ \A q \in parents'[k] : status[q] \in Finished
    BY <1>1, <1>3 DEF InWork, SatisfiedIn
  <2> QED
    BY <2>2, <2>3, NothingReopened
<1> QED
  BY <1>4, <1>5, <1>6, <1>7

LEMMA CardsNextInv == CardsInv /\ [CardsNext]_cardVars => CardsInv'
<1> SUFFICES ASSUME CardsInv, [CardsNext]_cardVars PROVE CardsInv'
  OBVIOUS
<1>1. CASE UNCHANGED cardVars
  BY <1>1, FewerParents
     DEF cardVars, CardsInv, CardShapes, ParentsThere, There, ReadyParents, SatisfiedIn
<1>2. CASE CardsNext
  BY <1>2, DispatchInv, CreateInv, DeleteInv, LinkInv, UnlinkInv, PeopleMoveInv, LookInv, WriteInv, RecomputeInv
     DEF CardsNext
<1> QED
  BY <1>1, <1>2

LEMMA CardsSteps == [ServicesNext]_servicesVars => [CardsNext]_cardVars
BY DEF ServicesNext, servicesVars

\* The invariant of the cards holds in every reachable state.
THEOREM CardsInvariant == ServicesSpec => []CardsInv
<1>1. ServicesInit => CardsInv
  BY CardsInitInv DEF ServicesInit
<1> QED
  BY <1>1, CardsNextInv, CardsSteps, PTL DEF ServicesSpec

\* The columns of the cards are columns, and no card is below itself, whatever is
\* linked, created and deleted at the same time.
THEOREM CardTypes == ServicesSpec => []CardsTypeOK
<1>1. CardsInv => CardsTypeOK
  BY DEF CardsInv, CardShapes, Acyclic, CardsTypeOK
<1> QED
  BY <1>1, CardsInvariant, PTL

\* No card is ready or claimed for work while a parent of it is unfinished, but
\* for cards that got the parent while they were running or in review: for any
\* graph of cards and any number of requests that drag, reopen, link and delete
\* at once (_set_status_direct, kanban_board.py:552).
THEOREM ParentsComeFirst == ServicesSpec => []ReadyParents
<1>1. CardsInv => ReadyParents
  BY DEF CardsInv
<1> QED
  BY <1>1, CardsInvariant, PTL

-----------------------------------------------------------------------------
(* The files of a profile *)

HomeDoings == {"make", "clone read", "clone save", "clone env", "clone env save", "worker read",
               "worker link", "worker save", "key read", "key save", "line read", "line save",
               "put read", "put save", "wrapper", "tree"}
Envs == [key : Nat, lines : SUBSET {"clone", "provider"}]
NewReqs == [does : HomeDoings, for : {"create"}, clone : BOOLEAN, conf : SUBSET Marks, env : Envs]
PlainReqs == [does : HomeDoings, for : {"worker", "key", "line", "delete"}, conf : SUBSET Marks, env : Envs]
PutReqs == [does : HomeDoings, for : {"put", "allow"}, mark : Marks, conf : SUBSET Marks, env : Envs]
HomeReq(q) == q \in NewReqs \/ q \in PlainReqs \/ q \in PutReqs

HomeShapes ==
  /\ req = [r \in HomeRequests |-> req[r]]
  /\ \A r \in HomeRequests : req[r] = NoRequest \/ HomeReq(req[r])
  /\ conf \subseteq Marks /\ kept \subseteq Marks /\ dir \in {"none", "made", "bits"}
  /\ env \in Envs /\ handed \in Nat /\ apart \in BOOLEAN

\* Requests that put something read and save; those of the policy save one at a time.
Puts(q) == q.for \in {"put", "allow"} <=> q.does \in {"put read", "put save"}
Policy ==
  /\ \A r \in HomeRequests : Puts(req[r])
  /\ \A q, r \in HomeRequests : q # r /\ req[q].does = "put save" /\ req[r].does = "put save" =>
        ~(req[q].for = "allow" /\ req[r].for = "allow")

\* Of requests that overlap while nobody overlaps, each is one of the policy.
Sole ==
  apart => \A q, r \in HomeRequests : Busy(q) /\ Busy(r) /\ q # r => req[q].for = "allow"

\* The profile is there for as long as a request works in it.
AtHome ==
  apart => dir # "bits" /\ \A r \in HomeRequests : Busy(r) /\ req[r].does # "make" => dir = "made"

\* What a request will write back holds all that is to be kept.
ConfReaders == {"clone save", "worker link", "worker save", "put save"}
ConfRead ==
  apart => kept \subseteq conf /\ \A r \in HomeRequests : req[r].does \in ConfReaders => kept \subseteq req[r].conf

\* So with the key that was handed out.
EnvReaders == {"clone env save", "key save", "line save"}
KeyRead ==
  apart => env.key = handed /\ \A r \in HomeRequests : req[r].does \in EnvReaders => req[r].env.key = handed

HomeInv == HomeShapes /\ Policy /\ Sole /\ AtHome /\ ConfRead /\ KeyRead

\* The record of a request that goes on, with what it has read.
GoesOn(q, what, cs, e, new) ==
  HomeReq(new) /\ new.does = what /\ new.for = q.for /\ new.conf = cs /\ new.env = e

LEMMA RecordGoes ==
  ASSUME NEW q, HomeReq(q), NEW what \in HomeDoings, NEW cs \in SUBSET Marks, NEW e \in Envs
  PROVE  /\ GoesOn(q, what, q.conf, q.env, [q EXCEPT !.does = what])
         /\ GoesOn(q, what, cs, q.env, [[q EXCEPT !.does = what] EXCEPT !.conf = cs])
         /\ GoesOn(q, what, q.conf, e, [[q EXCEPT !.does = what] EXCEPT !.env = e])
<1>1. CASE q \in NewReqs
  BY <1>1 DEF NewReqs, GoesOn, HomeReq
<1>2. CASE q \in PlainReqs
  BY <1>2 DEF PlainReqs, GoesOn, HomeReq
<1>3. CASE q \in PutReqs
  BY <1>3 DEF PutReqs, GoesOn, HomeReq
<1> QED
  BY <1>1, <1>2, <1>3 DEF HomeReq

LEMMA HomeInitInv == HomeInit => HomeInv
<1> SUFFICES ASSUME HomeInit PROVE HomeInv
  OBVIOUS
<1>1. \A r \in HomeRequests : req[r] = NoRequest
  BY DEF HomeInit
<1>2. \A r \in HomeRequests : ~Busy(r) /\ req[r].does = "nothing" /\ req[r].for = "nobody"
  BY <1>1 DEF NoRequest, Busy
<1>3. env \in Envs /\ env.key = 0
  BY DEF HomeInit, NoEnv, Envs
<1>4. apart \in BOOLEAN
  BY Zenon DEF HomeInit
<1>5. HomeShapes
  BY <1>1, <1>3, <1>4 DEF HomeInit, HomeShapes
<1>6. Policy /\ Sole /\ AtHome /\ ConfRead /\ KeyRead
  BY <1>2, <1>3 DEF HomeInit, Policy, Puts, Sole, AtHome, ConfRead, KeyRead, ConfReaders, EnvReaders
<1> QED
  BY <1>5, <1>6 DEF HomeInv

\* A request begins: it has read nothing, and while nobody overlaps it is alone
\* or one of the policy among such.
LEMMA BeginsInv ==
  ASSUME HomeInv, NEW r \in HomeRequests, NEW job, HomeReq(job), RequestBegins(r, job),
         job.does \notin ConfReaders \cup EnvReaders,
         Puts(job),
         job.does # "make" => Exists
  PROVE  HomeInv'
<1> USE HomeInv DEF HomeInv
<1>1. /\ ~Busy(r) /\ req' = [req EXCEPT ![r] = job]
      /\ apart' = (apart /\ \A q \in HomeRequests : Busy(q) => req[q].for = "allow" /\ job.for = "allow")
      /\ UNCHANGED <<dir, wrapper, service, conf, env, link, handed, kept>>
  BY DEF RequestBegins
<1>2. req'[r] = job /\ \A q \in HomeRequests : q # r => req'[q] = req[q]
  BY <1>1 DEF HomeShapes
<1>3. apart' \in BOOLEAN /\ (apart' => apart)
  BY <1>1
<1>4. HomeShapes'
  BY <1>1, <1>2, <1>3 DEF HomeShapes, HomeReq
<1>5. Policy'
  BY <1>2 DEF Policy, Puts, ConfReaders
<1>6. Sole'
  BY <1>1, <1>2 DEF Sole, Busy
<1>7. AtHome'
  BY <1>1, <1>2, <1>3 DEF AtHome, HomeShapes, Exists, Busy
<1>8. ConfRead'
  BY <1>1, <1>2, <1>3 DEF ConfRead
<1>9. KeyRead'
  BY <1>1, <1>2, <1>3 DEF KeyRead
<1> QED
  BY <1>4, <1>5, <1>6, <1>7, <1>8, <1>9

\* A request takes a step: what it has to see to, for all the rest to follow.
\* Nobody but the policy's own requests are there with it, while nobody overlaps.
HomeStep(r, new) ==
  /\ req' = [req EXCEPT ![r] = new] /\ UNCHANGED apart
  /\ new = NoRequest \/ (HomeReq(new) /\ new.for = req[r].for /\ (new.does = "make" => req[r].does = "make"))
  /\ conf' \subseteq Marks /\ kept' \subseteq Marks /\ dir' \in {"none", "made", "bits"}
  /\ env' \in Envs /\ handed' \in Nat
  /\ Puts(new) /\ (new.does = "put save" => HasPolicyLock(r))
  /\ apart =>
       /\ dir' # "bits" /\ (new # NoRequest => dir' = "made")
       /\ req[r].for = "allow" => UNCHANGED <<dir, env, handed>>
       /\ kept' \subseteq conf' /\ (new.does \in ConfReaders => kept' \subseteq new.conf)
       /\ req[r].for # "allow" \/ req[r].does = "put save" \/ kept' = kept
       /\ env'.key = handed' /\ (new.does \in EnvReaders => new.env.key = handed')

LEMMA HomeStepInv ==
  ASSUME HomeInv, NEW r \in HomeRequests, Busy(r), NEW new, HomeStep(r, new)
  PROVE  HomeInv'
<1> USE HomeInv DEF HomeInv
<1>1. req'[r] = new /\ \A q \in HomeRequests : q # r => req'[q] = req[q]
  BY DEF HomeShapes, HomeStep
<1>2. UNCHANGED apart
  BY DEF HomeStep
<1>3. HomeShapes'
  BY <1>1, <1>2 DEF HomeShapes, HomeStep, HomeReq
<1>4. NoRequest.for = "nobody" /\ NoRequest.does = "nothing"
  BY DEF NoRequest
<1>5. ASSUME apart, NEW q \in HomeRequests, q # r, Busy(q)
      PROVE  req[q].for = "allow" /\ req[r].for = "allow" /\ req[q].does \in {"put read", "put save"}
  BY <1>5 DEF Sole, Policy, Puts
<1>6. Policy'
  <2>1. \A q \in HomeRequests : Puts(req'[q])
    BY <1>1 DEF Policy, HomeStep
  <2>2. ASSUME NEW q \in HomeRequests, q # r, req'[q].does = "put save", new.does = "put save",
               req'[q].for = "allow", new.for = "allow"
        PROVE  FALSE
    <3>1. req[r].for = "allow"
      BY <1>4, <2>2 DEF HomeStep
    <3> QED
      BY <1>1, <2>2, <3>1 DEF HomeStep, HasPolicyLock
  <2> QED
    BY <1>1, <2>1, <2>2 DEF Policy
<1>7. apart => /\ dir' # "bits" /\ (new # NoRequest => dir' = "made")
               /\ req[r].for = "allow" => UNCHANGED <<dir, env, handed>>
               /\ kept' \subseteq conf' /\ (new.does \in ConfReaders => kept' \subseteq new.conf)
               /\ env'.key = handed' /\ (new.does \in EnvReaders => new.env.key = handed')
  BY DEF HomeStep
<1>8. new = NoRequest \/ new.for = req[r].for
  BY DEF HomeStep
<1>9. ASSUME apart, NEW q \in HomeRequests, q # r, ~Busy(q)
      PROVE  req[q].does \notin ConfReaders \cup EnvReaders /\ req[q].does # "make"
  BY <1>4, <1>9 DEF Busy, ConfReaders, EnvReaders
<1>10. ASSUME apart PROVE \A p, q \in HomeRequests : Busy(p)' /\ Busy(q)' /\ p # q => req'[p].for = "allow"
  <2>1. \A q \in HomeRequests : Busy(q)' => Busy(q)
    BY <1>1 DEF Busy
  <2>2. ASSUME NEW p \in HomeRequests, NEW q \in HomeRequests, Busy(p)', Busy(q)', p # q
        PROVE  req'[p].for = "allow"
    <3>1. Busy(p) /\ Busy(q)
      BY <2>1, <2>2
    <3>2. req[p].for = "allow"
      BY <1>10, <2>2, <3>1 DEF Sole
    <3> QED
      BY <1>1, <1>8, <2>2, <3>2 DEF Busy
  <2> QED
    BY <2>2
<1>11. ASSUME apart PROVE dir' # "bits" /\ \A q \in HomeRequests : Busy(q)' /\ req'[q].does # "make" => dir' = "made"
  <2>1. ASSUME NEW q \in HomeRequests, q # r, Busy(q) PROVE dir' = "made"
    <3>1. req[r].for = "allow" /\ req[q].does # "make"
      BY <1>5, <1>11, <2>1
    <3>2. dir' = dir /\ dir = "made"
      BY <1>7, <1>11, <2>1, <3>1 DEF AtHome
    <3> QED
      BY <3>2
  <2> QED
    BY <1>1, <1>7, <1>11, <2>1 DEF Busy
<1>12. ASSUME apart PROVE \A q \in HomeRequests : req'[q].does \in ConfReaders => kept' \subseteq req'[q].conf
  <2>1. ASSUME NEW q \in HomeRequests, q # r, req[q].does \in ConfReaders PROVE kept' \subseteq req[q].conf
    <3>1. Busy(q)
      BY <1>9, <1>12, <2>1
    <3>2. req[q].for = "allow" /\ req[r].for = "allow" /\ req[q].does = "put save"
      BY <1>5, <1>12, <2>1, <3>1 DEF ConfReaders
    <3>3. req[r].does # "put save"
      BY <2>1, <3>2 DEF Policy
    <3>4. kept' = kept
      BY <1>12, <3>2, <3>3 DEF HomeStep
    <3> QED
      BY <1>12, <2>1, <3>4 DEF ConfRead
  <2> QED
    BY <1>1, <1>7, <1>12, <2>1
<1>13. ASSUME apart PROVE \A q \in HomeRequests : req'[q].does \in EnvReaders => req'[q].env.key = handed'
  <2>1. ASSUME NEW q \in HomeRequests, q # r PROVE req[q].does \notin EnvReaders
    BY <1>5, <1>9, <1>13, <2>1 DEF EnvReaders
  <2> QED
    BY <1>1, <1>7, <1>13, <2>1
<1>14. Sole' /\ AtHome' /\ ConfRead' /\ KeyRead'
  BY <1>2, <1>7, <1>10, <1>11, <1>12, <1>13 DEF Sole, AtHome, ConfRead, KeyRead
<1> QED
  BY <1>3, <1>6, <1>14

\* What a request that is under way is, and what holds while nobody overlaps.
LEMMA UnderWayIs ==
  ASSUME HomeInv, NEW r \in HomeRequests, req[r].does # "nothing"
  PROVE  /\ Busy(r) /\ HomeReq(req[r]) /\ req[r].conf \subseteq Marks /\ req[r].env \in Envs
         /\ Puts(req[r])
         /\ apart => /\ dir # "bits" /\ (req[r].does # "make" => dir = "made")
                     /\ kept \subseteq conf /\ env.key = handed
                     /\ req[r].does \in ConfReaders => kept \subseteq req[r].conf
                     /\ req[r].does \in EnvReaders => req[r].env.key = handed
<1> USE HomeInv DEF HomeInv
<1>1. Busy(r)
  BY DEF Busy, NoRequest
<1>2. HomeReq(req[r])
  BY <1>1 DEF HomeShapes, Busy
<1>3. req[r].conf \subseteq Marks /\ req[r].env \in Envs
  BY <1>2 DEF HomeReq, NewReqs, PlainReqs, PutReqs
<1> QED
  BY <1>1, <1>2, <1>3 DEF Policy, AtHome, ConfRead, KeyRead

LEMMA RequestGoesOn ==
  ASSUME HomeInv, NEW r \in HomeRequests, req[r].does # "nothing", NEW what \in HomeDoings
  PROVE  /\ RequestGoes(r, what) =>
              \E new : req' = [req EXCEPT ![r] = new] /\ GoesOn(req[r], what, req[r].conf, req[r].env, new)
         /\ req' = [req EXCEPT ![r].does = what, ![r].conf = conf] =>
              \E new : req' = [req EXCEPT ![r] = new] /\ GoesOn(req[r], what, conf, req[r].env, new)
         /\ req' = [req EXCEPT ![r].does = what, ![r].env = env] =>
              \E new : req' = [req EXCEPT ![r] = new] /\ GoesOn(req[r], what, req[r].conf, env, new)
<1>1. HomeReq(req[r]) /\ conf \in SUBSET Marks /\ env \in Envs
  BY UnderWayIs DEF HomeInv, HomeShapes
<1>2. PICK cs \in SUBSET Marks, e \in Envs : cs = conf /\ e = env
  BY <1>1
<1>3. req = [q \in HomeRequests |-> req[q]]
  BY DEF HomeInv, HomeShapes
<1>4. ASSUME RequestGoes(r, what)
      PROVE  \E new : req' = [req EXCEPT ![r] = new] /\ GoesOn(req[r], what, req[r].conf, req[r].env, new)
  <2>1. req' = [req EXCEPT ![r] = [req[r] EXCEPT !.does = what]]
    BY <1>3, <1>4 DEF RequestGoes
  <2> QED
    BY <1>1, <1>2, <2>1, RecordGoes
<1>5. ASSUME req' = [req EXCEPT ![r].does = what, ![r].conf = conf]
      PROVE  \E new : req' = [req EXCEPT ![r] = new] /\ GoesOn(req[r], what, conf, req[r].env, new)
  <2>1. req' = [req EXCEPT ![r] = [[req[r] EXCEPT !.does = what] EXCEPT !.conf = conf]]
    BY <1>3, <1>5
  <2> QED
    BY <1>1, <1>2, <2>1, RecordGoes
<1>6. ASSUME req' = [req EXCEPT ![r].does = what, ![r].env = env]
      PROVE  \E new : req' = [req EXCEPT ![r] = new] /\ GoesOn(req[r], what, req[r].conf, env, new)
  <2>1. req' = [req EXCEPT ![r] = [[req[r] EXCEPT !.does = what] EXCEPT !.env = env]]
    BY <1>3, <1>6
  <2> QED
    BY <1>1, <1>2, <2>1, RecordGoes
<1> QED
  BY <1>4, <1>5, <1>6

\* A request reads, fails or goes on, and writes nothing.
LEMMA ReadsInv ==
  ASSUME HomeInv, NEW r \in HomeRequests, req[r].does \notin {"nothing", "make"},
         UNCHANGED <<dir, conf, env, handed, kept, apart>>,
         NEW new, req' = [req EXCEPT ![r] = new],
         NEW what \in HomeDoings, NEW cs, NEW e,
         cs = conf \/ (cs = req[r].conf /\ (what \in ConfReaders => req[r].does \in ConfReaders)),
         e = env \/ (e = req[r].env /\ (what \in EnvReaders => req[r].does \in EnvReaders)),
         what # "make", what = "put save" => HasPolicyLock(r),
         req[r].for \in {"put", "allow"} <=> what \in {"put read", "put save"},
         new = NoRequest \/ GoesOn(req[r], what, cs, e, new)
  PROVE  HomeInv'
<1>1. /\ Busy(r)
      /\ apart => /\ dir = "made" /\ kept \subseteq conf /\ env.key = handed
                  /\ req[r].does \in ConfReaders => kept \subseteq req[r].conf
                  /\ req[r].does \in EnvReaders => req[r].env.key = handed
  BY UnderWayIs
<1>2. CASE new = NoRequest
  <2>1. new.does = "nothing" /\ new.for = "nobody"
    BY <1>2 DEF NoRequest
  <2>2. new.does \notin ConfReaders /\ new.does \notin EnvReaders
    BY <2>1 DEF ConfReaders, EnvReaders
  <2>3. HomeStep(r, new)
    BY <1>1, <1>2, <2>1, <2>2 DEF HomeStep, HomeInv, HomeShapes, Puts
  <2> QED
    BY <1>1, <2>3, HomeStepInv
<1>3. CASE GoesOn(req[r], what, cs, e, new)
  <2>1. HomeReq(new) /\ new.does = what /\ new.for = req[r].for /\ new.conf = cs /\ new.env = e
    BY <1>3 DEF GoesOn
  <2>2. apart => /\ new.does \in ConfReaders => kept \subseteq new.conf
                 /\ new.does \in EnvReaders => new.env.key = handed
    BY <1>1, <2>1
  <2>3. HomeStep(r, new)
    BY <1>1, <2>1, <2>2 DEF HomeStep, HomeInv, HomeShapes, Puts
  <2> QED
    BY <1>1, <2>3, HomeStepInv
<1> QED
  BY <1>2, <1>3

LEMMA HomeReadInv ==
  ASSUME HomeInv, NEW r \in HomeRequests,
         \/ CloneRead(r) \/ WorkerRead(r) \/ PutRead(r)
         \/ ReadEnvFor(r, "clone env", "clone env save")
         \/ ReadEnvFor(r, "key read", "key save") \/ ReadEnvFor(r, "line read", "line save")
  PROVE  HomeInv'
<1>0. UNCHANGED <<dir, conf, env, handed, kept, apart>>
  BY DEF CloneRead, WorkerRead, PutRead, ReadEnvFor
<1>1. ASSUME NEW what \in {"clone save", "worker link"}, req[r].does \in {"clone read", "worker read"},
             req' = [req EXCEPT ![r].does = what, ![r].conf = conf]
      PROVE  HomeInv'
  <2>1. what \in HomeDoings /\ what \notin {"make", "put save"} /\ what \notin EnvReaders
    BY <1>1 DEF HomeDoings, EnvReaders
  <2>2. req[r].does \notin {"nothing", "make", "put read", "put save"}
    BY <1>1
  <2>3. PICK new : req' = [req EXCEPT ![r] = new] /\ GoesOn(req[r], what, conf, req[r].env, new)
    BY <1>1, <2>1, <2>2, RequestGoesOn
  <2>4. req[r].for \notin {"put", "allow"} /\ what \notin {"put read", "put save"}
    BY <2>2, UnderWayIs, <1>1 DEF Puts
  <2> QED
    BY <1>0, <2>1, <2>2, <2>3, <2>4, ReadsInv
<1>2. ASSUME NEW what \in {"clone env save", "key save", "line save"},
             req[r].does \in {"clone env", "key read", "line read"},
             req' = [req EXCEPT ![r].does = what, ![r].env = env]
      PROVE  HomeInv'
  <2>1. what \in HomeDoings /\ what \notin {"make", "put save"} /\ what \notin ConfReaders
    BY <1>2 DEF HomeDoings, ConfReaders
  <2>2. req[r].does \notin {"nothing", "make", "put read", "put save"}
    BY <1>2
  <2>3. PICK new : req' = [req EXCEPT ![r] = new] /\ GoesOn(req[r], what, req[r].conf, env, new)
    BY <1>2, <2>1, <2>2, RequestGoesOn
  <2>4. req[r].for \notin {"put", "allow"} /\ what \notin {"put read", "put save"}
    BY <2>2, UnderWayIs, <1>2 DEF Puts
  <2> QED
    BY <1>0, <2>1, <2>2, <2>3, <2>4, ReadsInv
<1>3. CASE PutRead(r)
  <2>1. /\ req[r].does = "put read" /\ HasPolicyLock(r)
        /\ \/ req' = [req EXCEPT ![r] = NoRequest]
           \/ req' = [req EXCEPT ![r] = [[req[r] EXCEPT !.does = "put save"] EXCEPT !.conf = conf]]
    <3>1. req = [q \in HomeRequests |-> req[q]]
      BY DEF HomeInv, HomeShapes
    <3> QED
      BY <1>3, <3>1 DEF PutRead, Loaded
  <2>2. /\ HomeReq(req[r]) /\ conf \subseteq Marks /\ req[r].env \in Envs
        /\ req[r].for \in {"put", "allow"}
    BY <2>1, UnderWayIs DEF HomeInv, HomeShapes, Puts
  <2>3. "put save" \in HomeDoings /\ "put save" \notin EnvReaders
    BY DEF HomeDoings, EnvReaders
  <2>4. GoesOn(req[r], "put save", conf, req[r].env, [[req[r] EXCEPT !.does = "put save"] EXCEPT !.conf = conf])
    BY <2>2, <2>3, RecordGoes
  <2>5. PICK new : /\ req' = [req EXCEPT ![r] = new]
                   /\ new = NoRequest \/ GoesOn(req[r], "put save", conf, req[r].env, new)
    BY <2>1, <2>4
  <2> QED
    BY <1>0, <2>1, <2>2, <2>3, <2>5, ReadsInv
<1>4. CASE CloneRead(r)
  BY <1>1, <1>4 DEF CloneRead
<1>5. CASE WorkerRead(r)
  BY <1>1, <1>5 DEF WorkerRead
<1>6. CASE ReadEnvFor(r, "clone env", "clone env save")
  BY <1>2, <1>6 DEF ReadEnvFor
<1>7. CASE ReadEnvFor(r, "key read", "key save")
  BY <1>2, <1>7 DEF ReadEnvFor
<1>8. CASE ReadEnvFor(r, "line read", "line save")
  BY <1>2, <1>8 DEF ReadEnvFor
<1> QED
  BY <1>3, <1>4, <1>5, <1>6, <1>7, <1>8

\* A part fails, and creation goes on with the next; or the wrapper goes.
LEMMA HomeFailsInv ==
  ASSUME HomeInv, NEW r \in HomeRequests, CloneFails(r) \/ WorkerFails(r) \/ KeyFails(r) \/ RemoveWrapper(r)
  PROVE  HomeInv'
<1>0. UNCHANGED <<dir, conf, env, handed, kept, apart>>
  BY DEF CloneFails, WorkerFails, KeyFails, RemoveWrapper
<1>1. req[r].does \notin {"nothing", "make", "put read", "put save"}
  BY DEF CloneFails, WorkerFails, KeyFails, RemoveWrapper
<1>2. \/ RequestEnds(r)
      \/ \E what \in {"worker read", "key read", "tree"} : RequestGoes(r, what)
  BY DEF CloneFails, WorkerFails, KeyFails, RemoveWrapper, LeaveWorker
<1>3. \A what \in {"worker read", "key read", "tree"} :
        what \in HomeDoings /\ what \notin {"make", "put save"} /\ what \notin ConfReaders /\ what \notin EnvReaders
  BY DEF HomeDoings, ConfReaders, EnvReaders
<1> PICK what \in {"worker read", "key read", "tree"} :
      \E new : /\ req' = [req EXCEPT ![r] = new]
               /\ new = NoRequest \/ GoesOn(req[r], what, req[r].conf, req[r].env, new)
  BY <1>1, <1>2, <1>3, RequestGoesOn DEF RequestEnds
<1>4. PICK new :
        /\ req' = [req EXCEPT ![r] = new]
        /\ new = NoRequest \/ GoesOn(req[r], what, req[r].conf, req[r].env, new)
  OBVIOUS
<1>5. req[r].for \notin {"put", "allow"} /\ what \notin {"put read", "put save"}
  BY <1>1, UnderWayIs DEF Puts
<1> QED
  BY <1>0, <1>1, <1>3, <1>4, <1>5, ReadsInv

\* A write of config.yaml puts back what has been read, with the change.
LEMMA ReplaceKeeps ==
  ASSUME HomeInv, NEW r \in HomeRequests, req[r].does \in ConfReaders,
         NEW add \in SUBSET Marks, NEW drop, Replace(r, add, drop)
  PROVE  /\ conf' \subseteq Marks /\ kept' \subseteq Marks /\ dir' \in {"none", "made", "bits"}
         /\ apart => dir' = "made" /\ dir' = dir /\ kept' \subseteq conf'
<1>1. req[r].does \notin {"nothing", "make"}
  BY DEF ConfReaders
<1>2. /\ req[r].conf \subseteq Marks
      /\ apart => dir = "made" /\ kept \subseteq req[r].conf
  BY <1>1, UnderWayIs
<1>3. conf' = (req[r].conf \cup add) \ drop /\ kept' = (kept \cup add) \ drop /\ dir' = Written
  BY DEF Replace
<1> QED
  BY <1>2, <1>3 DEF Written, HomeInv, HomeShapes

\* What a write has to see to, while nobody overlaps.
Wrote(r) ==
  /\ conf' \subseteq Marks /\ kept' \subseteq Marks /\ dir' \in {"none", "made", "bits"}
  /\ env' \in Envs /\ handed' \in Nat /\ UNCHANGED apart
  /\ apart => /\ dir' # "bits" /\ kept' \subseteq conf' /\ env'.key = handed'
              /\ req[r].for = "allow" => UNCHANGED <<dir, env, handed>> /\ req[r].does = "put save"

\* A request writes and is over.
LEMMA WroteAndOver ==
  ASSUME HomeInv, NEW r \in HomeRequests, req[r].does # "nothing", Wrote(r), RequestEnds(r)
  PROVE  HomeInv'
<1>1. Busy(r)
  BY UnderWayIs
<1>2. PICK new : new = NoRequest
  OBVIOUS
<1>3. req' = [req EXCEPT ![r] = new] /\ new.does = "nothing" /\ new.for = "nobody"
  BY <1>2 DEF NoRequest, RequestEnds
<1>4. new.does \notin ConfReaders /\ new.does \notin EnvReaders
  BY <1>3 DEF ConfReaders, EnvReaders
<1>5. HomeStep(r, new)
  BY <1>2, <1>3, <1>4 DEF HomeStep, Puts, Wrote
<1> QED
  BY <1>1, <1>5, HomeStepInv

\* A request writes and goes on to another part.
LEMMA WroteAndGoes ==
  ASSUME HomeInv, NEW r \in HomeRequests, req[r].does # "nothing", Wrote(r),
         NEW what \in HomeDoings, what \notin EnvReaders, what \notin {"make", "put read", "put save"},
         what \in ConfReaders => req[r].does \in ConfReaders /\ UNCHANGED kept,
         RequestGoes(r, what), req[r].for \notin {"put", "allow"}, apart => dir' = "made"
  PROVE  HomeInv'
<1>1. /\ Busy(r)
      /\ apart => (req[r].does \in ConfReaders => kept \subseteq req[r].conf)
  BY UnderWayIs
<1>2. PICK new : req' = [req EXCEPT ![r] = new] /\ GoesOn(req[r], what, req[r].conf, req[r].env, new)
  BY RequestGoesOn
<1>3. HomeReq(new) /\ new.does = what /\ new.for = req[r].for /\ new.conf = req[r].conf
  BY <1>2 DEF GoesOn
<1>4. apart => (new.does \in ConfReaders => kept' \subseteq new.conf)
  BY <1>1, <1>3
<1>5. HomeStep(r, new)
  BY <1>1, <1>2, <1>3, <1>4 DEF HomeStep, Puts, Wrote
<1> QED
  BY <1>1, <1>5, HomeStepInv

\* The writers of config.yaml.
LEMMA ConfWriteInv ==
  ASSUME HomeInv, NEW r \in HomeRequests, CloneSave(r) \/ WorkerSave(r) \/ PutSave(r)
  PROVE  HomeInv'
<1>1. UNCHANGED <<env, handed, apart>> /\ env \in Envs /\ handed \in Nat
  BY DEF CloneSave, WorkerSave, PutSave, HomeInv, HomeShapes
<1>2. req[r].does \in ConfReaders /\ req[r].does \notin {"nothing", "make"}
  BY DEF CloneSave, WorkerSave, PutSave, ConfReaders
<1>3. /\ apart => dir = "made" /\ kept \subseteq conf /\ env.key = handed
      /\ req[r].does # "put save" => req[r].for \notin {"put", "allow"}
  BY <1>2, UnderWayIs DEF ConfReaders, Puts
<1>4. ASSUME NEW add \in SUBSET Marks, NEW drop, Replace(r, add, drop)
      PROVE  Wrote(r) /\ (apart => dir' = "made")
  <2>1. /\ conf' \subseteq Marks /\ kept' \subseteq Marks /\ dir' \in {"none", "made", "bits"}
        /\ apart => dir' = "made" /\ dir' = dir /\ kept' \subseteq conf'
    BY <1>2, <1>4, ReplaceKeeps
  <2>2. env' \in Envs /\ handed' \in Nat /\ UNCHANGED apart /\ env' = env /\ handed' = handed
    BY <1>1
  <2>3. req[r].for = "allow" => req[r].does = "put save"
    BY <1>3
  <2>4. apart => env'.key = handed'
    BY <1>3, <2>2
  <2> QED
    BY <2>1, <2>2, <2>3, <2>4, Zenon DEF Wrote
<1>5. CASE CloneSave(r)
  <2>1. Wrote(r) /\ (apart => dir' = "made")
    BY <1>4, <1>5 DEF CloneSave, Marks
  <2>2. "clone env" \in HomeDoings /\ "clone env" \notin EnvReaders /\ "clone env" \notin ConfReaders
    BY DEF HomeDoings, EnvReaders, ConfReaders
  <2>3. RequestGoes(r, "clone env") /\ req[r].for \notin {"put", "allow"}
    BY <1>3, <1>5 DEF CloneSave
  <2> QED
    BY <1>2, <2>1, <2>2, <2>3, WroteAndGoes
<1>6. CASE WorkerSave(r)
  <2>1. Wrote(r) /\ (apart => dir' = "made")
    <3>1. CASE Replace(r, {"plugin"}, {})
      BY <1>4, <3>1 DEF Marks
    <3>2. CASE UNCHANGED <<conf, kept, dir>>
      <4>1. conf \subseteq Marks /\ kept \subseteq Marks /\ dir \in {"none", "made", "bits"}
        BY DEF HomeInv, HomeShapes
      <4>2. req[r].for # "allow"
        BY <1>3, <1>6 DEF WorkerSave
      <4>3. env' \in Envs /\ handed' \in Nat /\ UNCHANGED apart /\ env' = env /\ handed' = handed
        BY <1>1
      <4>4. apart => env'.key = handed' /\ dir' # "bits" /\ dir' = "made" /\ kept' \subseteq conf'
        BY <1>3, <3>2, <4>3
      <4> QED
        BY <1>1, <1>3, <3>2, <4>1, <4>2, <4>3, <4>4, Zenon DEF Wrote
    <3> QED
      BY <1>6, <3>1, <3>2 DEF WorkerSave
  <2>2. "key read" \in HomeDoings /\ "key read" \notin EnvReaders /\ "key read" \notin ConfReaders
    BY DEF HomeDoings, EnvReaders, ConfReaders
  <2>3. RequestGoes(r, "key read") \/ RequestEnds(r)
    BY <1>6 DEF WorkerSave, LeaveWorker
  <2>4. req[r].for \notin {"put", "allow"}
    BY <1>3, <1>6 DEF WorkerSave
  <2> QED
    BY <1>2, <2>1, <2>2, <2>3, <2>4, WroteAndGoes, WroteAndOver
<1>7. CASE PutSave(r)
  <2>1. RequestEnds(r) /\ req[r].does = "put save"
    BY <1>7 DEF PutSave
  <2>2. req[r].mark \in Marks
    BY <1>2, <2>1, UnderWayIs DEF Puts, HomeReq, NewReqs, PlainReqs, PutReqs
  <2>3. PICK add, drop : add \in SUBSET Marks /\ Replace(r, add, drop)
    <3>1. CASE Replace(r, {req[r].mark}, {})
      BY <2>2, <3>1
    <3>2. CASE Replace(r, {}, {req[r].mark})
      BY <3>2
    <3> QED
      BY <1>7, <3>1, <3>2 DEF PutSave
  <2> QED
    BY <1>2, <1>4, <2>1, <2>3, WroteAndOver
<1> QED
  BY <1>5, <1>6, <1>7

\* The writers of .env, and the link of the plugin.
LEMMA EnvWriteInv ==
  ASSUME HomeInv, NEW r \in HomeRequests, CloneEnvSave(r) \/ WorkerLink(r) \/ KeySave(r) \/ LineSave(r)
  PROVE  HomeInv'
<1>1. UNCHANGED <<conf, kept, apart>> /\ dir' = Written
  BY DEF CloneEnvSave, WorkerLink, KeySave, LineSave
<1>2. conf \subseteq Marks /\ kept \subseteq Marks /\ dir \in {"none", "made", "bits"} /\ handed \in Nat /\ env \in Envs
  BY DEF HomeInv, HomeShapes
<1>3. req[r].does \in {"clone env save", "worker link", "key save", "line save"}
  BY DEF CloneEnvSave, WorkerLink, KeySave, LineSave
<1>4. /\ req[r].env \in Envs /\ req[r].for \notin {"put", "allow"}
      /\ apart => /\ dir = "made" /\ kept \subseteq conf /\ env.key = handed
                  /\ req[r].does \in EnvReaders => req[r].env.key = handed
  BY <1>3, UnderWayIs DEF Puts
<1>5. dir' \in {"none", "made", "bits"} /\ (apart => dir' = "made")
  BY <1>1, <1>2, <1>4 DEF Written
<1>6. ASSUME env' \in Envs, handed' \in Nat, apart => env'.key = handed' PROVE Wrote(r)
  BY <1>1, <1>2, <1>4, <1>5, <1>6 DEF Wrote
<1>7. {"worker read", "worker save"} \subseteq HomeDoings /\ {"worker read", "worker save"} \cap EnvReaders = {}
  BY DEF HomeDoings, EnvReaders
<1>8. CASE CloneEnvSave(r)
  <2>1. env' = [key |-> req[r].env.key, lines |-> req[r].env.lines \cup {"clone"}] /\ handed' = handed
    BY <1>4, <1>8 DEF CloneEnvSave, LinesAdded, Envs
  <2>2. Wrote(r)
    BY <1>2, <1>4, <1>6, <1>8, <2>1 DEF CloneEnvSave, Envs, EnvReaders
  <2>3. "worker read" \notin ConfReaders /\ RequestGoes(r, "worker read")
    BY <1>8 DEF ConfReaders, CloneEnvSave
  <2> QED
    BY <1>3, <1>4, <1>5, <1>7, <2>2, <2>3, WroteAndGoes
<1>9. CASE WorkerLink(r)
  <2>1. Wrote(r)
    BY <1>2, <1>4, <1>6, <1>9 DEF WorkerLink
  <2>2. req[r].does \in ConfReaders /\ RequestGoes(r, "worker save")
    BY <1>9 DEF ConfReaders, WorkerLink
  <2> QED
    BY <1>1, <1>3, <1>4, <1>5, <1>7, <2>1, <2>2, WroteAndGoes
<1>10. CASE KeySave(r)
  <2>1. env' = [key |-> handed + 1, lines |-> req[r].env.lines] /\ handed' = handed + 1 /\ RequestEnds(r)
    BY <1>4, <1>10 DEF KeySave, Envs
  <2>2. Wrote(r)
    BY <1>2, <1>4, <1>6, <2>1 DEF Envs
  <2> QED
    BY <1>3, <2>1, <2>2, WroteAndOver
<1>11. CASE LineSave(r)
  <2>1. PICK gone \in BOOLEAN :
          env' = [req[r].env EXCEPT !.lines = IF gone THEN @ \ {"provider"} ELSE @ \cup {"provider"}]
    BY <1>11 DEF LineSave
  <2>2. PICK lines \in SUBSET {"clone", "provider"} : env' = [key |-> req[r].env.key, lines |-> lines]
    BY <1>4, <2>1 DEF Envs
  <2>3. handed' = handed /\ RequestEnds(r)
    BY <1>11 DEF LineSave
  <2>4. Wrote(r)
    BY <1>2, <1>4, <1>6, <1>11, <2>2, <2>3 DEF Envs, LineSave, EnvReaders
  <2> QED
    BY <1>3, <2>3, <2>4, WroteAndOver
<1> QED
  BY <1>8, <1>9, <1>10, <1>11

\* The tree comes with a new profile and goes with a deleted one.
LEMMA TreeInv ==
  ASSUME HomeInv, NEW r \in HomeRequests, Make(r) \/ DeleteTree(r)
  PROVE  HomeInv'
<1>1. UNCHANGED apart /\ req[r].does \in {"make", "tree"}
  BY DEF Make, DeleteTree
<1>2. /\ conf \subseteq Marks /\ kept \subseteq Marks /\ dir \in {"none", "made", "bits"} /\ handed \in Nat /\ env \in Envs
      /\ NoEnv \in Envs /\ NoEnv.key = 0
  BY DEF HomeInv, HomeShapes, NoEnv, Envs
<1>3. req[r].for \notin {"put", "allow"} /\ (apart => dir # "bits" /\ kept \subseteq conf /\ env.key = handed)
  BY <1>1, UnderWayIs DEF Puts
<1>4. \/ UNCHANGED <<dir, conf, env, kept, handed>>
      \/ dir' \in {"none", "made"} /\ conf' = {} /\ env' = NoEnv /\ kept' = {} /\ handed' = 0
  BY DEF Make, DeleteTree
<1>5. Wrote(r)
  <2>1. CASE UNCHANGED <<dir, conf, env, kept, handed>>
    BY <1>1, <1>2, <1>3, <2>1 DEF Wrote
  <2>2. CASE dir' \in {"none", "made"} /\ conf' = {} /\ env' = NoEnv /\ kept' = {} /\ handed' = 0
    BY <1>1, <1>2, <1>3, <2>2 DEF Wrote
  <2> QED
    BY <1>4, <2>1, <2>2
<1>6. CASE RequestEnds(r)
  BY <1>1, <1>5, <1>6, WroteAndOver
<1>7. CASE ~RequestEnds(r)
  <2>1. dir' = "made" /\ \E what \in {"clone read", "worker read"} : RequestGoes(r, what)
    BY <1>7 DEF Make, DeleteTree
  <2>2. \A what \in {"clone read", "worker read"} :
          what \in HomeDoings /\ what \notin EnvReaders /\ what \notin {"make", "put read", "put save"} /\ what \notin ConfReaders
    BY DEF HomeDoings, EnvReaders, ConfReaders
  <2> QED
    BY <1>1, <1>3, <1>5, <2>1, <2>2, WroteAndGoes
<1> QED
  BY <1>6, <1>7

\* A read or a write fails, and the request is over.
LEMMA PutFailsInv == ASSUME HomeInv, NEW r \in HomeRequests, PutFails(r) PROVE HomeInv'
<1>1. /\ UNCHANGED <<dir, conf, env, handed, kept, apart>>
      /\ req[r].does \in {"put read", "put save", "line read", "line save"}
      /\ req' = [req EXCEPT ![r] = NoRequest]
  BY DEF PutFails, RequestEnds
<1>2. req[r].for \in {"put", "allow"} <=> req[r].does \in {"put read", "put save"}
  BY <1>1, UnderWayIs DEF Puts
<1>3. PICK what \in {"put read", "line read"} :
        req[r].for \in {"put", "allow"} <=> what \in {"put read", "put save"}
  OBVIOUS
<1>4. what \in HomeDoings /\ what \notin {"make", "put save"} /\ what \notin ConfReaders /\ what \notin EnvReaders
  BY DEF HomeDoings, ConfReaders, EnvReaders
<1>5. PICK new : new = NoRequest
  OBVIOUS
<1>6. req' = [req EXCEPT ![r] = new] /\ req[r].does \notin {"nothing", "make"}
  BY <1>1, <1>5
<1> QED
  BY <1>1, <1>3, <1>4, <1>5, <1>6, ReadsInv

\* What rmtree leaves half way has no key that was handed out, or has it still.
LEMMA HalfGoneInv == ASSUME HomeInv, NEW r \in HomeRequests, TreeFails(r) PROVE HomeInv'
<1>1. /\ req[r].does = "tree" /\ RequestEnds(r) /\ UNCHANGED <<dir, apart>>
      /\ UNCHANGED <<conf, kept>> \/ (conf' = {} /\ kept' = {})
      /\ UNCHANGED <<env, handed>> \/ (env' = NoEnv /\ handed' = 0)
  BY DEF TreeFails
<1>2. /\ conf \subseteq Marks /\ kept \subseteq Marks /\ dir \in {"none", "made", "bits"}
      /\ handed \in Nat /\ env \in Envs /\ NoEnv \in Envs /\ NoEnv.key = 0
  BY DEF HomeInv, HomeShapes, NoEnv, Envs
<1>3. req[r].for \notin {"put", "allow"} /\ (apart => dir # "bits" /\ kept \subseteq conf /\ env.key = handed)
  BY <1>1, UnderWayIs DEF Puts
<1>4. conf' \subseteq Marks /\ kept' \subseteq Marks /\ (apart => kept' \subseteq conf')
  BY <1>1, <1>2, <1>3
<1>5. env' \in Envs /\ handed' \in Nat /\ (apart => env'.key = handed')
  BY <1>1, <1>2, <1>3
<1>6. Wrote(r)
  BY <1>1, <1>2, <1>3, <1>4, <1>5 DEF Wrote
<1> QED
  BY <1>1, <1>6, WroteAndOver

LEMMA HomeBeginInv ==
  ASSUME HomeInv, NEW r \in HomeRequests,
         \/ \E clone \in BOOLEAN : CreateProfile(r, clone)
         \/ Worker(r)
         \/ \E rotate \in BOOLEAN : Key(r, rotate)
         \/ ProviderKey(r)
         \/ \E m \in PutMarks : PutConfig(r, m)
         \/ \E m \in AllowMarks : Allow(r, m)
         \/ DeleteProfile(r)
  PROVE  HomeInv'
<1>1. NoEnv \in Envs
  BY DEF NoEnv, Envs
<1>2. ASSUME NEW job, HomeReq(job), Puts(job), RequestBegins(r, job), job.does # "make" => Exists,
             job.does \in {"make", "worker read", "key read", "line read", "put read", "wrapper"}
      PROVE  HomeInv'
  <2>1. job.does \notin ConfReaders \cup EnvReaders
    BY <1>2 DEF ConfReaders, EnvReaders
  <2> QED
    BY <1>2, <2>1, BeginsInv
<1>3. ASSUME NEW clone \in BOOLEAN, CreateProfile(r, clone) PROVE HomeInv'
  <2>1. PICK job : job = [does |-> "make", for |-> "create", clone |-> clone, conf |-> {}, env |-> NoEnv]
    OBVIOUS
  <2>2. job \in NewReqs /\ job.does = "make" /\ job.for = "create"
    <3>1. \A b \in BOOLEAN : [does |-> "make", for |-> "create", clone |-> b, conf |-> {}, env |-> NoEnv] \in NewReqs
      BY <1>1 DEF NewReqs, HomeDoings
    <3>2. job \in NewReqs
      BY <2>1, <3>1, Zenon
    <3> QED
      BY <2>1, <3>2
  <2> QED
    BY <1>2, <1>3, <2>1, <2>2 DEF CreateProfile, HomeReq, Puts
<1>4. ASSUME NEW does \in {"worker read", "key read", "line read", "wrapper"}, NEW for \in {"worker", "key", "line", "delete"},
             Exists, RequestBegins(r, [does |-> does, for |-> for, conf |-> {}, env |-> NoEnv])
      PROVE  HomeInv'
  <2>1. PICK job : job = [does |-> does, for |-> for, conf |-> {}, env |-> NoEnv]
    OBVIOUS
  <2>2. job \in PlainReqs /\ job.does = does /\ job.for = for
    BY <1>1, <2>1 DEF PlainReqs, HomeDoings
  <2> QED
    BY <1>2, <1>4, <2>1, <2>2 DEF HomeReq, Puts
<1>5. ASSUME NEW m \in Marks, NEW for \in {"put", "allow"},
             Exists, RequestBegins(r, [does |-> "put read", for |-> for, mark |-> m, conf |-> {}, env |-> NoEnv])
      PROVE  HomeInv'
  <2>1. PICK job : job = [does |-> "put read", for |-> for, mark |-> m, conf |-> {}, env |-> NoEnv]
    OBVIOUS
  <2>2. job \in PutReqs /\ job.does = "put read" /\ job.for = for
    BY <1>1, <2>1 DEF PutReqs, HomeDoings
  <2> QED
    BY <1>2, <1>5, <2>1, <2>2 DEF HomeReq, Puts
<1>6. CASE Worker(r) \/ ProviderKey(r) \/ DeleteProfile(r) \/ \E rotate \in BOOLEAN : Key(r, rotate)
  BY <1>4, <1>6 DEF Worker, ProviderKey, DeleteProfile, Key
<1>7. CASE (\E m \in PutMarks : PutConfig(r, m)) \/ (\E m \in AllowMarks : Allow(r, m))
  BY <1>5, <1>7 DEF PutConfig, Allow, Marks
<1> QED
  BY <1>3, <1>6, <1>7

LEMMA OperatorInv == ASSUME HomeInv, Operator PROVE HomeInv'
<1> USE HomeInv DEF HomeInv
<1>1. /\ apart' = (apart /\ \A r \in HomeRequests : ~Busy(r))
      /\ UNCHANGED <<dir, env, req, handed>>
      /\ conf' \subseteq conf \cup {"off", "broken"} /\ kept' \subseteq kept \cup {"off", "broken"}
      /\ kept \subseteq conf => kept' \subseteq conf'
  BY DEF Operator
<1>2. apart' \in BOOLEAN /\ (apart' => apart /\ \A r \in HomeRequests : ~Busy(r))
  BY <1>1
<1>3. {"off", "broken"} \subseteq Marks
  BY DEF Marks
<1>4. \A r \in HomeRequests : ~Busy(r) => req[r].does \notin ConfReaders
  <2>1. \A r \in HomeRequests : ~Busy(r) => req[r].does = "nothing"
    BY DEF Busy, NoRequest
  <2> QED
    BY <2>1 DEF ConfReaders
<1>5. HomeShapes'
  BY <1>1, <1>2, <1>3 DEF HomeShapes
<1>6. Policy' /\ Sole' /\ AtHome' /\ KeyRead'
  BY <1>1, <1>2 DEF Policy, Sole, AtHome, KeyRead, Busy
<1>7. ConfRead'
  BY <1>1, <1>2, <1>4 DEF ConfRead
<1> QED
  BY <1>5, <1>6, <1>7

LEMMA HomeNextInv == HomeInv /\ [HomeNext]_homeVars => HomeInv'
<1> SUFFICES ASSUME HomeInv, [HomeNext]_homeVars PROVE HomeInv'
  OBVIOUS
<1>1. CASE UNCHANGED homeVars
  BY <1>1 DEF homeVars, HomeInv, HomeShapes, Policy, Sole, AtHome, ConfRead, KeyRead, Busy
<1>2. CASE HomeNext
  BY <1>2, HomeBeginInv, HomeReadInv, HomeFailsInv, ConfWriteInv, EnvWriteInv, TreeInv,
     PutFailsInv, HalfGoneInv, OperatorInv DEF HomeNext
<1> QED
  BY <1>1, <1>2

LEMMA HomeSteps == [ServicesNext]_servicesVars => [HomeNext]_homeVars
BY DEF ServicesNext, servicesVars

\* The invariant of the files of a profile holds in every reachable state.
THEOREM HomeInvariant == ServicesSpec => []HomeInv
<1>1. ServicesInit => HomeInv
  BY HomeInitInv DEF ServicesInit
<1> QED
  BY <1>1, HomeNextInv, HomeSteps, PTL DEF ServicesSpec

\* While no two requests overlap that take no common lock, and however requests
\* of the approval policy overlap among themselves, no writer of config.yaml
\* loses what another one or the operator has written, and the key that was
\* handed out last is the one that works, whichever parts of a creation have
\* failed (config.py:184, profiles.py:133).
THEOREM NothingLost == ServicesSpec => []ConfigKept
<1>1. HomeInv => ConfigKept
  BY DEF HomeInv, ConfRead, KeyRead, ConfigKept
<1> QED
  BY <1>1, HomeInvariant, PTL

\* The requests that have a key to hand out, and what they do next to hand it out.
KeyRequests == {r \in HomeRequests : req[r].for \in {"create", "key"}}
KeyDoings == {"key read", "key save"}

\* No key is handed out but by a request that has begun, once; nor is one in
\* .env, or in what a request has read of it, that was not handed out before.
HomeBounds ==
  /\ {wrapper, service} \subseteq BOOLEAN /\ link \in {"none", "linked", "other"}
  /\ started \in 0..MaxStarted
  /\ env.key <= started /\ \A r \in HomeRequests : Busy(r) => req[r].env.key <= started
  /\ \A r \in HomeRequests : req[r].does \in KeyDoings => r \in KeyRequests
  /\ IsFiniteSet(KeyRequests) /\ handed + Cardinality(KeyRequests) <= started

LEMMA HomeInitBounds == HomeInit => HomeBounds
<1> SUFFICES ASSUME HomeInit PROVE HomeBounds
  OBVIOUS
<1>1. \A r \in HomeRequests : ~Busy(r) /\ req[r].for = "nobody" /\ req[r].does = "nothing"
  BY DEF HomeInit, NoRequest, Busy
<1>2. KeyRequests = {}
  BY <1>1 DEF KeyRequests
<1>3. IsFiniteSet(KeyRequests) /\ Cardinality(KeyRequests) = 0
  BY <1>2, FS_EmptySet
<1>4. /\ {wrapper, service} \subseteq BOOLEAN /\ link \in {"none", "linked", "other"}
      /\ started = 0 /\ handed = 0 /\ env.key = 0
  BY Zenon DEF HomeInit, NoEnv
<1>5. started \in 0..MaxStarted
  BY <1>4, HomeAssumption
<1>6. \A r \in HomeRequests : req[r].does \notin KeyDoings
  BY <1>1, Zenon DEF KeyDoings
<1> QED
  BY <1>1, <1>3, <1>4, <1>5, <1>6 DEF HomeBounds

\* A request begins: at most one more that may hand out a key.
LEMMA BeginsBounds ==
  ASSUME HomeInv, HomeBounds, NEW r \in HomeRequests, NEW job, RequestBegins(r, job),
         job.env = NoEnv, job.does \in KeyDoings => job.for = "key"
  PROVE  HomeBounds'
<1>1. /\ req' = [req EXCEPT ![r] = job] /\ started < MaxStarted /\ started' = started + 1
      /\ UNCHANGED <<wrapper, service, link, env, handed>>
  BY DEF RequestBegins
<1>2. req'[r] = job /\ \A q \in HomeRequests : q # r => req'[q] = req[q]
  BY <1>1 DEF HomeInv, HomeShapes
<1>3. started \in Nat /\ MaxStarted \in Nat /\ handed \in Nat /\ env.key \in Nat
  BY HomeAssumption DEF HomeBounds, HomeInv, HomeShapes, Envs
<1>4. started' \in 0..MaxStarted
  BY <1>1, <1>3
<1>5. \A q \in HomeRequests : Busy(q) => req[q].env.key \in Nat /\ req[q].env.key <= started
  <2>1. ASSUME NEW q \in HomeRequests, Busy(q) PROVE req[q].env \in Envs
    BY <2>1 DEF HomeInv, HomeShapes, Busy, HomeReq, NewReqs, PlainReqs, PutReqs
  <2> QED
    BY <2>1 DEF HomeBounds, Envs
<1>6. ASSUME NEW q \in HomeRequests, Busy(q)' PROVE req'[q].env.key <= started'
  <2>1. CASE q = r
    <3>1. req'[q].env.key = 0
      BY <1>2, <2>1 DEF NoEnv
    <3> QED
      BY <1>1, <1>3, <3>1
  <2>2. CASE q # r
    <3>1. req'[q] = req[q] /\ Busy(q)
      BY <1>2, <1>6, <2>2 DEF Busy
    <3> QED
      BY <1>1, <1>3, <1>5, <3>1
  <2> QED
    BY <2>1, <2>2
<1>7. \A q \in HomeRequests : req'[q].does \in KeyDoings => q \in KeyRequests'
  BY <1>2 DEF HomeBounds, KeyRequests
<1>8. IsFiniteSet(KeyRequests \cup {r}) /\ Cardinality(KeyRequests \cup {r}) <= Cardinality(KeyRequests) + 1
  <2>1. IsFiniteSet(KeyRequests)
    BY DEF HomeBounds
  <2>2. IsFiniteSet(KeyRequests \cup {r}) /\ Cardinality(KeyRequests) \in Nat
        /\ Cardinality(KeyRequests \cup {r})
             = IF r \in KeyRequests THEN Cardinality(KeyRequests) ELSE Cardinality(KeyRequests) + 1
    BY <2>1, FS_AddElement, FS_CardinalityType
  <2> QED
    BY <2>2
<1>9. KeyRequests' \subseteq KeyRequests \cup {r}
  BY <1>2 DEF KeyRequests
<1>10. IsFiniteSet(KeyRequests') /\ Cardinality(KeyRequests') <= Cardinality(KeyRequests \cup {r})
  BY <1>8, <1>9, FS_Subset
<1>11. Cardinality(KeyRequests) \in Nat /\ Cardinality(KeyRequests') \in Nat /\ Cardinality(KeyRequests \cup {r}) \in Nat
  BY <1>8, <1>10, FS_CardinalityType DEF HomeBounds
<1>12. handed + Cardinality(KeyRequests) <= started
  BY DEF HomeBounds
<1>13. handed' + Cardinality(KeyRequests') <= started'
  BY <1>1, <1>3, <1>8, <1>10, <1>11, <1>12
<1>14. env'.key <= started'
  BY <1>1, <1>3 DEF HomeBounds
<1> QED
  BY <1>1, <1>4, <1>6, <1>7, <1>10, <1>13, <1>14 DEF HomeBounds

\* A request takes a step: the key that it hands out is its last step.
LEMMA StepBounds ==
  ASSUME HomeInv, HomeBounds, NEW r \in HomeRequests, NEW what \in HomeDoings, req[r].does # "nothing",
         \/ RequestEnds(r)
         \/ RequestGoes(r, what)
         \/ req' = [req EXCEPT ![r].does = what, ![r].conf = conf]
         \/ req' = [req EXCEPT ![r].does = what, ![r].env = env],
         what \in KeyDoings => r \in KeyRequests,
         UNCHANGED started, {wrapper', service'} \subseteq BOOLEAN, link' \in {"none", "linked", "other"},
         env'.key <= started,
         handed' \in Nat,
         \/ handed' <= handed
         \/ handed' = handed + 1 /\ r \in KeyRequests /\ RequestEnds(r)
  PROVE  HomeBounds'
<1>1. Busy(r) /\ req[r].for # "nobody"
  <2>1. Busy(r) /\ HomeReq(req[r])
    BY UnderWayIs
  <2> QED
    BY <2>1 DEF HomeReq, NewReqs, PlainReqs, PutReqs
<1>2. PICK new :
        /\ req' = [req EXCEPT ![r] = new]
        /\ \/ new = NoRequest
           \/ /\ new.for = req[r].for /\ new.does = what
              /\ new.env = req[r].env \/ new.env = env
        /\ RequestEnds(r) => new = NoRequest
  <2>1. CASE RequestEnds(r)
    BY <2>1, Zenon DEF RequestEnds
  <2>2. CASE ~RequestEnds(r)
    <3>1. PICK cs, e : /\ e = req[r].env \/ e = env
                       /\ \E x : req' = [req EXCEPT ![r] = x] /\ GoesOn(req[r], what, cs, e, x)
      BY <2>2, RequestGoesOn
    <3>2. PICK x : req' = [req EXCEPT ![r] = x] /\ GoesOn(req[r], what, cs, e, x)
      BY <3>1
    <3>3. x.for = req[r].for /\ x.does = what /\ x.env = e
      BY <3>2 DEF GoesOn
    <3> QED
      BY <2>2, <3>1, <3>2, <3>3
  <2> QED
    BY <2>1, <2>2
<1>3. req'[r] = new /\ \A q \in HomeRequests : q # r => req'[q] = req[q]
  BY <1>2 DEF HomeInv, HomeShapes
<1>4. NoRequest.for = "nobody" /\ NoRequest.does = "nothing"
  BY DEF NoRequest
<1>5. ASSUME NEW q \in HomeRequests, Busy(q)' PROVE req'[q].env.key <= started
  <2>1. CASE q = r
    <3>1. new # NoRequest
      BY <1>3, <1>5, <2>1 DEF Busy
    <3>2. req'[q].env = req[r].env \/ req'[q].env = env
      BY <1>2, <1>3, <2>1, <3>1
    <3> QED
      BY <1>1, <3>2 DEF HomeBounds
  <2>2. CASE q # r
    <3>1. req'[q] = req[q] /\ Busy(q)
      BY <1>3, <1>5, <2>2 DEF Busy
    <3> QED
      BY <3>1 DEF HomeBounds
  <2> QED
    BY <2>1, <2>2
<1>6. ASSUME NEW q \in HomeRequests, req'[q].does \in KeyDoings PROVE q \in KeyRequests'
  <2>1. CASE q = r
    <3>1. new # NoRequest
      BY <1>3, <1>4, <1>6, <2>1 DEF KeyDoings
    <3> QED
      BY <1>2, <1>3, <1>6, <2>1, <3>1 DEF KeyRequests
  <2>2. CASE q # r
    BY <1>3, <1>6, <2>2 DEF HomeBounds, KeyRequests
  <2> QED
    BY <2>1, <2>2
<1>7. KeyRequests' \subseteq KeyRequests /\ (RequestEnds(r) => r \notin KeyRequests')
  BY <1>2, <1>3, <1>4 DEF KeyRequests
<1>8. IsFiniteSet(KeyRequests) /\ handed + Cardinality(KeyRequests) <= started
  BY DEF HomeBounds
<1>9. /\ IsFiniteSet(KeyRequests') /\ Cardinality(KeyRequests') <= Cardinality(KeyRequests)
      /\ KeyRequests' # KeyRequests => Cardinality(KeyRequests') < Cardinality(KeyRequests)
  <2> DEFINE S == KeyRequests
             T == KeyRequests'
  <2>1. IsFiniteSet(S) /\ T \in SUBSET S
    BY <1>7, <1>8
  <2> HIDE DEF S, T
  <2>2. IsFiniteSet(T) /\ Cardinality(T) <= Cardinality(S) /\ (Cardinality(S) = Cardinality(T) => S = T)
    BY <2>1, FS_Subset
  <2>3. Cardinality(S) \in Nat /\ Cardinality(T) \in Nat
    BY <2>1, <2>2, FS_CardinalityType
  <2>4. T # S => Cardinality(T) < Cardinality(S)
    BY <2>2, <2>3
  <2> QED
    BY <2>2, <2>4 DEF S, T
<1>10. Cardinality(KeyRequests) \in Nat /\ Cardinality(KeyRequests') \in Nat /\ handed \in Nat /\ started \in Nat
  BY <1>8, <1>9, FS_CardinalityType DEF HomeBounds, HomeInv, HomeShapes
<1>11. handed' + Cardinality(KeyRequests') <= started
  <2>1. CASE handed' <= handed
    BY <1>8, <1>9, <1>10, <2>1
  <2>2. CASE handed' = handed + 1 /\ r \in KeyRequests /\ RequestEnds(r)
    <3>1. Cardinality(KeyRequests') < Cardinality(KeyRequests)
      BY <1>7, <1>9, <2>2
    <3> QED
      BY <1>8, <1>10, <2>2, <3>1
  <2> QED
    BY <2>1, <2>2
<1>12. UNCHANGED started
  OBVIOUS
<1> QED
  BY <1>5, <1>6, <1>9, <1>11, <1>12 DEF HomeBounds

\* What a step reads has its bounds.
LEMMA BoundsAre ==
  ASSUME HomeInv, HomeBounds, NEW r \in HomeRequests, req[r].does # "nothing"
  PROVE  /\ {wrapper, service} \subseteq BOOLEAN /\ link \in {"none", "linked", "other"}
         /\ env.key <= started /\ handed \in Nat /\ handed <= handed
         /\ req[r].env \in Envs /\ req[r].env.key <= started
         /\ NoEnv.key <= started /\ 0 \in Nat /\ 0 <= handed
         /\ handed + 1 \in Nat /\ (r \in KeyRequests => handed + 1 <= started)
<1>1. Busy(r) /\ req[r].env \in Envs
  BY UnderWayIs
<1>2. handed \in Nat /\ started \in Nat
  BY DEF HomeBounds, HomeInv, HomeShapes
<1>3. r \in KeyRequests => Cardinality(KeyRequests) \in Nat /\ Cardinality(KeyRequests) # 0
  BY FS_CardinalityType, FS_EmptySet DEF HomeBounds
<1>4. handed + Cardinality(KeyRequests) <= started
  BY DEF HomeBounds
<1>5. r \in KeyRequests => handed + 1 <= started
  BY <1>2, <1>3, <1>4
<1>6. NoEnv.key = 0
  BY DEF NoEnv
<1> QED
  BY <1>1, <1>2, <1>5, <1>6 DEF HomeBounds

\* A step that leaves .env alone: the request goes on, fails or ends.
LEMMA QuietBounds ==
  ASSUME HomeInv, HomeBounds, NEW r \in HomeRequests, req[r].does # "nothing", NEW what \in HomeDoings,
         UNCHANGED <<env, handed, started, service>>, wrapper' \in {wrapper, FALSE}, link' \in {link, "linked"},
         \/ RequestEnds(r)
         \/ RequestGoes(r, what)
         \/ req' = [req EXCEPT ![r].does = what, ![r].conf = conf]
         \/ req' = [req EXCEPT ![r].does = what, ![r].env = env],
         what \in KeyDoings => r \in KeyRequests
  PROVE  HomeBounds'
<1>1. /\ {wrapper', service'} \subseteq BOOLEAN /\ link' \in {"none", "linked", "other"}
      /\ env'.key <= started /\ handed' \in Nat /\ handed' <= handed
  BY BoundsAre
<1> QED
  BY <1>1, StepBounds

LEMMA ReadBounds ==
  ASSUME HomeInv, HomeBounds, NEW r \in HomeRequests, CloneRead(r) \/ WorkerRead(r) \/ PutRead(r)
  PROVE  HomeBounds'
<1>1. UNCHANGED <<env, handed, started, service, wrapper, link>>
  BY DEF CloneRead, WorkerRead, PutRead
<1>2. {"clone save", "worker link", "put save"} \subseteq HomeDoings \ KeyDoings
  BY Zenon DEF HomeDoings, KeyDoings
<1>3. CASE CloneRead(r) \/ WorkerRead(r)
  <2>1. /\ req[r].does \in {"clone read", "worker read"}
        /\ \E what \in {"clone save", "worker link"} : req' = [req EXCEPT ![r].does = what, ![r].conf = conf]
    BY <1>3 DEF CloneRead, WorkerRead
  <2> QED
    BY <1>1, <1>2, <2>1, QuietBounds
<1>4. CASE PutRead(r)
  <2>1. req = [q \in HomeRequests |-> req[q]]
    BY DEF HomeInv, HomeShapes
  <2>2. req[r].does = "put read" /\ (RequestEnds(r) \/ req' = [req EXCEPT ![r].does = "put save", ![r].conf = conf])
    BY <1>4, <2>1 DEF PutRead, Loaded, RequestEnds
  <2> QED
    BY <1>1, <1>2, <2>2, QuietBounds
<1> QED
  BY <1>3, <1>4

LEMMA ReadEnvBounds ==
  ASSUME HomeInv, HomeBounds, NEW r \in HomeRequests, NEW now \in HomeDoings, NEW then \in HomeDoings,
         ReadEnvFor(r, now, then), then \in KeyDoings => now \in KeyDoings
  PROVE  HomeBounds'
<1>1. /\ req[r].does = now /\ req' = [req EXCEPT ![r].does = then, ![r].env = env]
      /\ UNCHANGED <<env, handed, started, service, wrapper, link>>
  BY DEF ReadEnvFor
<1>2. req[r].does # "nothing"
  BY <1>1, Zenon DEF HomeDoings
<1>3. then \in KeyDoings => r \in KeyRequests
  BY <1>1 DEF HomeBounds
<1> QED
  BY <1>1, <1>2, <1>3, QuietBounds

LEMMA GoesBounds ==
  ASSUME HomeInv, HomeBounds, NEW r \in HomeRequests,
         \/ CloneSave(r) \/ CloneFails(r) \/ WorkerLink(r) \/ WorkerSave(r) \/ WorkerFails(r)
         \/ KeyFails(r) \/ PutSave(r) \/ PutFails(r) \/ RemoveWrapper(r)
  PROVE  HomeBounds'
<1>1. {"clone env", "worker read", "worker save", "tree"} \subseteq HomeDoings \ KeyDoings
  BY Zenon DEF HomeDoings, KeyDoings
<1>2. "key read" \in HomeDoings
  BY Zenon DEF HomeDoings
<1>3. UNCHANGED <<env, handed, started, service>> /\ wrapper' \in {wrapper, FALSE} /\ link' \in {link, "linked"}
  BY DEF CloneSave, CloneFails, WorkerLink, WorkerSave, WorkerFails, KeyFails, PutSave, PutFails,
     RemoveWrapper, LinkIfMissing
<1>4. ASSUME req[r].does # "nothing",
             \/ RequestEnds(r)
             \/ \E what \in {"clone env", "worker read", "worker save", "tree"} : RequestGoes(r, what)
      PROVE  HomeBounds'
  BY <1>1, <1>3, <1>4, QuietBounds
<1>5. CASE CloneSave(r) \/ CloneFails(r)
  BY <1>4, <1>5 DEF CloneSave, CloneFails
<1>6. CASE WorkerLink(r) \/ RemoveWrapper(r)
  BY <1>4, <1>6 DEF WorkerLink, RemoveWrapper
<1>7. CASE KeyFails(r) \/ PutSave(r) \/ PutFails(r)
  BY <1>4, <1>7 DEF KeyFails, PutSave, PutFails
<1>8. CASE WorkerSave(r) \/ WorkerFails(r)
  <2>1. req[r].does # "nothing" /\ LeaveWorker(r)
    BY <1>8 DEF WorkerSave, WorkerFails
  <2>2. CASE req[r].for = "create"
    <3>1. r \in KeyRequests
      BY <2>2 DEF KeyRequests
    <3>2. \E what \in HomeDoings : RequestGoes(r, what)
      BY <1>2, <2>1, <2>2 DEF LeaveWorker
    <3> QED
      BY <1>3, <2>1, <3>1, <3>2, QuietBounds
  <2>3. CASE req[r].for # "create"
    BY <1>4, <2>1, <2>3 DEF LeaveWorker
  <2> QED
    BY <2>2, <2>3
<1> QED
  BY <1>5, <1>6, <1>7, <1>8

\* Steps that write .env, or make or delete the tree.
LEMMA EnvBounds ==
  ASSUME HomeInv, HomeBounds, NEW r \in HomeRequests,
         CloneEnvSave(r) \/ KeySave(r) \/ LineSave(r) \/ Make(r) \/ DeleteTree(r) \/ TreeFails(r)
  PROVE  HomeBounds'
<1>1. req[r].does # "nothing" /\ UNCHANGED <<started, service>>
  BY DEF CloneEnvSave, KeySave, LineSave, Make, DeleteTree, TreeFails
<1>2. /\ "worker read" \in HomeDoings /\ "worker read" \notin KeyDoings
      /\ "clone read" \in HomeDoings /\ "clone read" \notin KeyDoings
  BY DEF HomeDoings, KeyDoings
<1>3. /\ {wrapper, service} \subseteq BOOLEAN /\ link \in {"none", "linked", "other"}
      /\ env.key <= started /\ handed \in Nat /\ handed <= handed
      /\ req[r].env \in Envs /\ req[r].env.key <= started
      /\ NoEnv.key <= started /\ 0 \in Nat /\ 0 <= handed
      /\ handed + 1 \in Nat /\ (r \in KeyRequests => handed + 1 <= started)
  BY <1>1, BoundsAre
<1>4. CASE CloneEnvSave(r)
  <2>1. /\ env'.key = req[r].env.key /\ RequestGoes(r, "worker read")
        /\ UNCHANGED <<wrapper, service, link, handed>>
    BY <1>3, <1>4 DEF CloneEnvSave, LinesAdded, Envs
  <2> QED
    BY <1>1, <1>2, <1>3, <2>1, StepBounds
<1>5. CASE KeySave(r)
  <2>1. r \in KeyRequests
    BY <1>5 DEF KeySave, HomeBounds, KeyDoings
  <2>2. /\ env'.key = handed + 1 /\ handed' = handed + 1 /\ RequestEnds(r)
        /\ UNCHANGED <<wrapper, service, link>>
    BY <1>3, <1>5 DEF KeySave, Envs
  <2> QED
    BY <1>1, <1>2, <1>3, <2>1, <2>2, StepBounds
<1>6. CASE LineSave(r)
  <2>1. PICK gone \in BOOLEAN :
          env' = [req[r].env EXCEPT !.lines = IF gone THEN @ \ {"provider"} ELSE @ \cup {"provider"}]
    BY <1>6 DEF LineSave
  <2>2. env'.key = req[r].env.key
    BY <1>3, <2>1 DEF Envs
  <2>3. RequestEnds(r) /\ UNCHANGED <<wrapper, service, link, handed>>
    BY <1>6 DEF LineSave
  <2> QED
    BY <1>1, <1>2, <1>3, <2>2, <2>3, StepBounds
<1>7. CASE Make(r) \/ DeleteTree(r)
  <2>1. /\ \/ UNCHANGED <<env, handed, link>>
           \/ env' = NoEnv /\ handed' = 0 /\ link' = "none"
        /\ wrapper' = wrapper \/ wrapper' = TRUE
        /\ RequestEnds(r) \/ \E what \in {"clone read", "worker read"} : RequestGoes(r, what)
    BY <1>7 DEF Make, DeleteTree
  <2>2. /\ {wrapper', service'} \subseteq BOOLEAN /\ link' \in {"none", "linked", "other"}
        /\ env'.key <= started /\ handed' \in Nat /\ handed' <= handed
    BY <1>1, <1>3, <2>1
  <2> QED
    BY <1>1, <1>2, <2>1, <2>2, StepBounds
<1>8. CASE TreeFails(r)
  <2>1. /\ UNCHANGED <<env, handed>> \/ (env' = NoEnv /\ handed' = 0)
        /\ link' \in {link, "none"} /\ wrapper' = wrapper /\ RequestEnds(r)
    BY <1>8 DEF TreeFails
  <2>2. /\ {wrapper', service'} \subseteq BOOLEAN /\ link' \in {"none", "linked", "other"}
        /\ env'.key <= started /\ handed' \in Nat /\ handed' <= handed
    BY <1>1, <1>3, <2>1
  <2> QED
    BY <1>1, <1>2, <2>1, <2>2, StepBounds
<1> QED
  BY <1>4, <1>5, <1>6, <1>7, <1>8

LEMMA HomeNextBounds == HomeInv /\ HomeBounds /\ [HomeNext]_homeVars => HomeBounds'
<1> SUFFICES ASSUME HomeInv, HomeBounds, [HomeNext]_homeVars PROVE HomeBounds'
  OBVIOUS
<1>1. CASE UNCHANGED homeVars
  BY <1>1 DEF homeVars, HomeBounds, KeyRequests, Busy
<1>2. ASSUME NEW r \in HomeRequests,
             \/ \E clone \in BOOLEAN : CreateProfile(r, clone)
             \/ Worker(r)
             \/ \E rotate \in BOOLEAN : Key(r, rotate)
             \/ ProviderKey(r)
             \/ \E m \in PutMarks : PutConfig(r, m)
             \/ \E m \in AllowMarks : Allow(r, m)
             \/ DeleteProfile(r)
      PROVE  HomeBounds'
  <2>1. {"make", "worker read", "line read", "put read", "wrapper"} \cap KeyDoings = {}
    BY Zenon DEF KeyDoings
  <2>2. ASSUME NEW clone, CreateProfile(r, clone) PROVE HomeBounds'
    BY <2>1, <2>2, BeginsBounds DEF CreateProfile
  <2>3. CASE Worker(r)
    BY <2>1, <2>3, BeginsBounds DEF Worker
  <2>4. ASSUME NEW rotate, Key(r, rotate) PROVE HomeBounds'
    BY <2>4, BeginsBounds DEF Key
  <2>5. CASE ProviderKey(r)
    BY <2>1, <2>5, BeginsBounds DEF ProviderKey
  <2>6. ASSUME NEW m, PutConfig(r, m) PROVE HomeBounds'
    BY <2>1, <2>6, BeginsBounds DEF PutConfig
  <2>7. ASSUME NEW m, Allow(r, m) PROVE HomeBounds'
    BY <2>1, <2>7, BeginsBounds DEF Allow
  <2>8. CASE DeleteProfile(r)
    BY <2>1, <2>8, BeginsBounds DEF DeleteProfile
  <2> QED
    BY <1>2, <2>2, <2>3, <2>4, <2>5, <2>6, <2>7, <2>8
<1>3. CASE Operator
  <2>1. /\ started < MaxStarted /\ started' = started + 1 /\ UNCHANGED <<req, env, handed, wrapper>>
        /\ service' = service \/ service' = ~service
        /\ link' = link \/ link' = "other"
    BY <1>3 DEF Operator
  <2>2. started \in Nat /\ started' \in 0..MaxStarted /\ handed \in Nat /\ env.key \in Nat
    BY <2>1, HomeAssumption DEF HomeBounds, HomeInv, HomeShapes, Envs
  <2>3. {wrapper', service'} \subseteq BOOLEAN /\ link' \in {"none", "linked", "other"}
    BY <2>1 DEF HomeBounds
  <2>4. \A r \in HomeRequests : Busy(r) => req[r].env.key \in Nat /\ req[r].env.key <= started
    <3>1. ASSUME NEW r \in HomeRequests, Busy(r) PROVE req[r].env \in Envs
      BY <3>1 DEF HomeInv, HomeShapes, Busy, HomeReq, NewReqs, PlainReqs, PutReqs
    <3> QED
      BY <3>1 DEF HomeBounds, Envs
  <2>5. /\ IsFiniteSet(KeyRequests) /\ Cardinality(KeyRequests) \in Nat
        /\ handed + Cardinality(KeyRequests) <= started /\ env.key <= started
    BY FS_CardinalityType DEF HomeBounds
  <2>6. handed + Cardinality(KeyRequests) <= started + 1 /\ env.key <= started + 1
    BY <2>2, <2>5
  <2>7. \A r \in HomeRequests : Busy(r) => req[r].env.key <= started + 1
    BY <2>2, <2>4
  <2>8. KeyRequests' = KeyRequests /\ \A r \in HomeRequests : Busy(r)' = Busy(r)
    BY <2>1 DEF KeyRequests, Busy
  <2> QED
    BY <2>1, <2>2, <2>3, <2>5, <2>6, <2>7, <2>8 DEF HomeBounds
<1>4. CASE HomeNext
  <2>1. \A r \in HomeRequests :
          ReadEnvFor(r, "clone env", "clone env save") \/ ReadEnvFor(r, "line read", "line save")
            \/ ReadEnvFor(r, "key read", "key save") => HomeBounds'
    <3>1. /\ {"clone env", "clone env save", "line read", "line save", "key read", "key save"} \subseteq HomeDoings
          /\ "clone env save" \notin KeyDoings /\ "line save" \notin KeyDoings /\ "key read" \in KeyDoings
      BY Zenon DEF HomeDoings, KeyDoings
    <3> QED
      BY <3>1, ReadEnvBounds
  <2> QED
    BY <1>2, <1>3, <1>4, <2>1, ReadBounds, GoesBounds, EnvBounds, Zenon DEF HomeNext
<1> QED
  BY <1>1, <1>4

LEMMA HomeTypes == HomeInv /\ HomeBounds => HomeTypeOK
<1> SUFFICES ASSUME HomeInv, HomeBounds PROVE HomeTypeOK
  OBVIOUS
<1>1. /\ env.key \in Nat /\ env.lines \subseteq {"clone", "provider"} /\ handed \in Nat
      /\ env.key <= started /\ started \in 0..MaxStarted /\ MaxStarted \in Nat
  BY HomeAssumption DEF HomeInv, HomeShapes, HomeBounds, Envs
<1>2. Cardinality(KeyRequests) \in Nat /\ handed + Cardinality(KeyRequests) <= started
  BY FS_CardinalityType DEF HomeBounds
<1>3. env.key \in 0..MaxStarted /\ handed \in 0..MaxStarted
  BY <1>1, <1>2
<1>4. {wrapper, service, apart} \subseteq BOOLEAN
  BY DEF HomeInv, HomeShapes, HomeBounds
<1> QED
  BY <1>1, <1>3, <1>4 DEF HomeTypeOK, HomeInv, HomeShapes, HomeBounds, AtHome

\* The files of a profile have their types in every reachable state; that a
\* directory is bits of a late write takes requests that overlap.
THEOREM HomeBounded == ServicesSpec => [](HomeInv /\ HomeBounds)
<1>1. ServicesInit => HomeBounds
  BY HomeInitBounds DEF ServicesInit
<1> QED
  BY <1>1, HomeInvariant, HomeNextBounds, HomeSteps, PTL DEF ServicesSpec

-----------------------------------------------------------------------------
(* Connectors *)

EntryShape == [there : BOOLEAN, refs : SUBSET EnvKeys, enabled : BOOLEAN, tools : {"all", "few"}]
Checks == [ok : BOOLEAN, tools : {"unknown", "all", "few"}]
WorkShape == [does : Steps, kind : {"none", "save", "remove", "secret", "test"}, of : Servers \cup {NoServer},
              put : SUBSET EnvKeys, drop : SUBSET EnvKeys, lines : SUBSET EnvKeys,
              entry : EntryShape, record : Checks]

\* What a request does next is of its kind.
Sound(q) ==
  /\ q.does = "nothing" => q = NoWork
  /\ q.does \in {"save", "read flags", "write flags"} =>
       q.kind = "save" /\ q.of \in Servers /\ q.entry \in Entries(q.of)
  /\ q.does \in {"remove", "drop tokens", "drop check"} => q.kind = "remove"
  /\ q.kind = "remove" =>
       q.of \in Servers /\ q.does \in {"remove", "read env", "write env", "drop tokens", "drop check"}
  /\ q.does \in {"probe", "write check"} => q.kind = "test" /\ q.of \in Servers

ConnShapes ==
  /\ entry \in [Servers -> EntryShape] /\ \A n \in Servers : entry[n] = NoEntry \/ entry[n] \in Entries(n)
  /\ work \in [Workers -> WorkShape] /\ \A w \in Workers : Sound(work[w])
  /\ line \subseteq EnvKeys /\ check \in [Servers -> Checks]
  /\ tokens \subseteq Servers /\ authorizing \subseteq Servers /\ begun \in 0..MaxBegun
  /\ order \in [Servers -> {"calm", "alone", "mixed"}]

\* While the requests about a server are not mixed, one works on it at most.
OneWorks ==
  \A n \in Servers : order[n] # "mixed" =>
    \A v, w \in Workers : work[v].of = n /\ work[w].of = n => v = w

\* A deletion that is alone knows what it has taken already,
RemovalKnows(q) ==
  q.kind = "remove" =>
    /\ q.of \notin authorizing
    /\ q.does # "remove" => entry[q.of] = NoEntry
    /\ q.does = "drop check" => q.of \notin tokens

\* and where things are calm, what a request has read is so still.
CalmKnows(q) ==
  /\ q.does = "read flags" => entry[q.of] = q.entry
  /\ q.does = "write flags" => entry[q.of].there /\ q.record.tools = entry[q.of].tools
  /\ q.does = "probe" => entry[q.of].there /\ entry[q.of] = q.entry
  /\ q.does = "write check" => entry[q.of].there /\ q.record.tools \in {"unknown", entry[q.of].tools}

Knowing ==
  \A w \in Workers : work[w].of \in Servers =>
    /\ order[work[w].of] # "mixed" => RemovalKnows(work[w])
    /\ order[work[w].of] = "calm" => CalmKnows(work[w])

Tidying ==
  \A n \in Servers : order[n] = "calm" =>
    Settled(n) \/ \E w \in Workers : work[w].of = n /\ Half(work[w])

ConnInv == ConnShapes /\ OneWorks /\ Knowing /\ Tidying

LEMMA NoWorkIs ==
  /\ NoWork \in WorkShape /\ Sound(NoWork) /\ NoWork.of \notin Servers /\ NoWork.does = "nothing"
  /\ NoWork.kind = "none" /\ NoEntry \in EntryShape /\ NoCheck \in Checks /\ ~Half(NoWork)
  /\ NoEntry.there = FALSE /\ NoCheck.tools = "unknown" /\ NoEntry.refs = {}
<1>1. NoEntry \in EntryShape /\ NoCheck \in Checks
  BY DEF NoEntry, NoCheck, EntryShape, Checks
<1>2. NoWork \in WorkShape
  BY <1>1 DEF NoWork, WorkShape, Steps
<1>3. NoWork.does = "nothing" /\ NoWork.kind = "none" /\ NoWork.of = NoServer
  BY DEF NoWork
<1>4. Sound(NoWork) /\ ~Half(NoWork)
  BY <1>3 DEF Sound, Half
<1> QED
  BY <1>1, <1>2, <1>3, <1>4, ConnAssumption DEF NoEntry, NoCheck

LEMMA EntriesAre ==
  ASSUME NEW n \in Servers, NEW e \in Entries(n)
  PROVE  e \in EntryShape /\ e.there /\ e # NoEntry
<1>1. RefSets[n] \subseteq SUBSET EnvKeys
  BY DEF EnvKeys
<1>2. e \in EntryShape /\ e.there = TRUE
  BY <1>1 DEF Entries, EntryShape
<1> QED
  BY <1>2, NoWorkIs

LEMMA ConnInitInv == ConnInit => ConnInv
<1> SUFFICES ASSUME ConnInit PROVE ConnInv
  OBVIOUS
<1>1. /\ \A n \in Servers : entry[n] = NoEntry /\ check[n] = NoCheck /\ n \notin tokens \cup authorizing
      /\ \A w \in Workers : work[w] = NoWork
  BY DEF ConnInit
<1>2. ConnShapes
  <2>1. begun \in 0..MaxBegun
    BY ConnAssumption DEF ConnInit
  <2> QED
    BY <1>1, <2>1, NoWorkIs DEF ConnInit, ConnShapes
<1>3. OneWorks /\ Knowing
  BY <1>1, NoWorkIs DEF OneWorks, Knowing
<1>4. Tidying
  BY <1>1, NoWorkIs DEF Tidying, Settled
<1> QED
  BY <1>2, <1>3, <1>4 DEF ConnInv

\* A request goes on with `new`: what it changes is of its own server, and
\* what it needs next holds.
WorkStep(w, new) ==
  /\ new \in WorkShape /\ Sound(new) /\ (new = NoWork \/ new.of = work[w].of)
  /\ work' = [work EXCEPT ![w] = new] /\ UNCHANGED <<begun, authorizing>>
  /\ entry' \in [Servers -> EntryShape] /\ \A m \in Servers : entry'[m] = NoEntry \/ entry'[m] \in Entries(m)
  /\ line' \subseteq EnvKeys /\ check' \in [Servers -> Checks] /\ tokens' \subseteq Servers
  /\ order' \in [Servers -> {"calm", "alone", "mixed"}]
  /\ \A m \in Servers : m # work[w].of =>
       entry'[m] = entry[m] /\ check'[m] = check[m] /\ (m \in tokens' <=> m \in tokens) /\ order'[m] = order[m]
  /\ \A n \in Servers : n = work[w].of =>
       /\ order'[n] # "mixed" => order[n] # "mixed" /\ RemovalKnows(new)'
       /\ order'[n] = "calm" => CalmKnows(new)' /\ (Settled(n)' \/ (new.of = n /\ Half(new)))

LEMMA WorkStepInv ==
  ASSUME ConnInv, NEW w \in Workers, NEW new, WorkStep(w, new)
  PROVE  ConnInv'
<1> USE DEF ConnInv
<1>1. work'[w] = new /\ \A v \in Workers : v # w => work'[v] = work[v]
  BY DEF ConnShapes, WorkStep
<1>2. \A n \in Servers : new.of = n => work[w].of = n
  BY NoWorkIs DEF WorkStep
<1>3. \A n \in Servers : order'[n] # "mixed" => order[n] # "mixed"
  BY DEF WorkStep
<1>4. ConnShapes'
  <2>1. work' \in [Workers -> WorkShape] /\ \A v \in Workers : Sound(work'[v])
    BY <1>1 DEF ConnShapes, WorkStep
  <2>2. begun' \in 0..MaxBegun /\ authorizing' \subseteq Servers
    BY DEF ConnShapes, WorkStep
  <2>3. /\ entry' \in [Servers -> EntryShape] /\ \A m \in Servers : entry'[m] = NoEntry \/ entry'[m] \in Entries(m)
        /\ line' \subseteq EnvKeys /\ check' \in [Servers -> Checks] /\ tokens' \subseteq Servers
        /\ order' \in [Servers -> {"calm", "alone", "mixed"}]
    BY DEF WorkStep
  <2> QED
    BY <2>1, <2>2, <2>3 DEF ConnShapes
<1>5. OneWorks'
  BY <1>1, <1>2, <1>3 DEF OneWorks
<1>6. Knowing'
  <2> SUFFICES ASSUME NEW v \in Workers, work'[v].of \in Servers
               PROVE  (/\ order[work[v].of] # "mixed" => RemovalKnows(work[v])
                       /\ order[work[v].of] = "calm" => CalmKnows(work[v]))'
    BY DEF Knowing
  <2>1. CASE v = w
    <3>1. work'[v] = new /\ work[w].of = new.of
      BY <1>1, <1>2, <2>1
    <3>2. /\ order'[new.of] # "mixed" => RemovalKnows(new)'
          /\ order'[new.of] = "calm" => CalmKnows(new)'
      BY <3>1 DEF WorkStep
    <3> QED
      BY <3>1, <3>2 DEF RemovalKnows, CalmKnows
  <2>2. CASE v # w
    <3>1. work'[v] = work[v]
      BY <1>1, <2>2
    <3> DEFINE n == work[v].of
    <3>2. CASE n # work[w].of
      <4>1. /\ entry'[n] = entry[n] /\ (n \in tokens' <=> n \in tokens) /\ order'[n] = order[n]
            /\ authorizing' = authorizing
        BY <3>1, <3>2 DEF WorkStep
      <4> QED
        BY <3>1, <4>1 DEF Knowing, RemovalKnows, CalmKnows
    <3>3. CASE n = work[w].of
      <4>1. order[n] = "mixed"
        BY <2>2, <3>1, <3>3 DEF OneWorks
      <4>2. order'[n] = "mixed"
        BY <1>3, <3>1, <4>1
      <4> QED
        BY <3>1, <4>2
    <3> QED
      BY <3>2, <3>3
  <2> QED
    BY <2>1, <2>2
<1>7. Tidying'
  <2> SUFFICES ASSUME NEW n \in Servers, order'[n] = "calm"
               PROVE  Settled(n)' \/ \E v \in Workers : work'[v].of = n /\ Half(work'[v])
    BY DEF Tidying, Half
  <2>1. CASE n = work[w].of
    BY <1>1, <2>1 DEF WorkStep
  <2>2. CASE n # work[w].of
    <3>1. /\ entry'[n] = entry[n] /\ check'[n] = check[n] /\ (n \in tokens' <=> n \in tokens)
          /\ authorizing' = authorizing /\ order[n] = "calm"
      BY <2>2 DEF WorkStep
    <3>2. Settled(n) => Settled(n)'
      BY <3>1 DEF Settled
    <3>3. \A v \in Workers : work[v].of = n => work'[v] = work[v]
      BY <1>1, <2>2
    <3> QED
      BY <3>1, <3>2, <3>3 DEF Tidying
  <2> QED
    BY <2>1, <2>2
<1> QED
  BY <1>4, <1>5, <1>6, <1>7

FirstSteps == {"save", "remove", "read env", "probe"}

LEMMA WorkBeginsInv ==
  ASSUME ConnInv, NEW w \in Workers, NEW job, WorkBegins(w, job),
         job \in WorkShape, Sound(job), job.does \in FirstSteps,
         job.kind = "remove" => job.does = "remove",
         job.does = "probe" => entry[job.of].there /\ entry[job.of] = job.entry
  PROVE  ConnInv'
<1> USE DEF ConnInv
<1> DEFINE n == job.of
<1>1. /\ work'[w] = job /\ \A v \in Workers : v # w => work'[v] = work[v]
      /\ work[w] = NoWork /\ UNCHANGED <<entry, line, check, tokens, authorizing>>
  BY DEF ConnShapes, WorkBegins, connFiles
<1>2. \A m \in Servers :
        IF m # n THEN order'[m] = order[m]
        ELSE /\ order'[m] \in {"calm", "alone", "mixed"}
             /\ order'[m] = "calm" => order[m] = "calm"
             /\ order'[m] # "mixed" =>
                  (\A v \in Workers : work[v].of # m) /\ (job.kind = "remove" => m \notin authorizing)
  BY DEF WorkBegins, InHand, ConnShapes
<1>3. ConnShapes'
  <2>1. begun' \in 0..MaxBegun
    <3>1. begun \in 0..MaxBegun /\ begun < MaxBegun /\ begun' = begun + 1 /\ MaxBegun \in Nat
      BY ConnAssumption DEF ConnShapes, WorkBegins
    <3> QED
      BY <3>1
  <2>2. order' \in [Servers -> {"calm", "alone", "mixed"}]
    BY <1>2 DEF WorkBegins, ConnShapes
  <2>3. work' \in [Workers -> WorkShape] /\ \A v \in Workers : Sound(work'[v])
    BY <1>1 DEF ConnShapes, WorkBegins
  <2> QED
    BY <1>1, <2>1, <2>2, <2>3 DEF ConnShapes
<1>4. OneWorks'
  <2> SUFFICES ASSUME NEW m \in Servers, order'[m] # "mixed", NEW u \in Workers, NEW v \in Workers,
                      work'[u].of = m, work'[v].of = m
               PROVE  u = v
    BY DEF OneWorks
  <2>1. CASE m = n
    BY <1>1, <1>2, <2>1
  <2>2. CASE m # n
    BY <1>1, <1>2, <2>2 DEF OneWorks
  <2> QED
    BY <2>1, <2>2
<1>5. Knowing'
  <2> SUFFICES ASSUME NEW v \in Workers, work'[v].of \in Servers
               PROVE  /\ order'[work'[v].of] # "mixed" => RemovalKnows(work'[v])
                      /\ order'[work'[v].of] = "calm" => CalmKnows(work'[v])
    BY <1>1 DEF Knowing, RemovalKnows, CalmKnows
  <2>1. CASE v = w
    BY <1>1, <1>2, <2>1 DEF RemovalKnows, CalmKnows, FirstSteps
  <2>2. CASE v # w
    <3>1. work'[v] = work[v]
      BY <1>1, <2>2
    <3>2. CASE work[v].of # n
      BY <1>2, <3>1, <3>2 DEF Knowing
    <3>3. CASE work[v].of = n
      BY <1>2, <3>1, <3>3
    <3> QED
      BY <3>2, <3>3
  <2> QED
    BY <2>1, <2>2
<1>6. Tidying'
  <2> SUFFICES ASSUME NEW m \in Servers, order'[m] = "calm"
               PROVE  Settled(m) \/ \E v \in Workers : work'[v].of = m /\ Half(work'[v])
    BY <1>1 DEF Tidying, Settled, Half
  <2>1. order[m] = "calm"
    BY <1>2
  <2>2. \A v \in Workers : work[v].of = m => work'[v] = work[v]
    BY <1>1, NoWorkIs
  <2> QED
    BY <2>1, <2>2 DEF Tidying
<1> QED
  BY <1>3, <1>4, <1>5, <1>6

LEMMA RequestsBegin ==
  ASSUME ConnInv, NEW w \in Workers, NEW n \in Servers,
         \/ \E e \in Entries(n) : CreateServer(w, n, e) \/ UpdateServer(w, n, e)
         \/ PatchServer(w, n) \/ DeleteServer(w, n) \/ Test(w, n)
         \/ \E k \in EnvKeys : Secret(w, n, k)
  PROVE  ConnInv'
<1>1. entry[n] \in EntryShape /\ (entry[n] = NoEntry \/ entry[n] \in Entries(n))
  BY DEF ConnInv, ConnShapes
<1>2. ASSUME NEW e \in Entries(n), NEW keys \in SUBSET EnvKeys, WorkBegins(w, SaveJob(n, e, keys))
      PROVE  ConnInv'
  <2>1. /\ SaveJob(n, e, keys) \in WorkShape /\ SaveJob(n, e, keys).does = "save" /\ SaveJob(n, e, keys).kind = "save"
        /\ SaveJob(n, e, keys).of = n /\ SaveJob(n, e, keys).entry = e
    BY EntriesAre, NoWorkIs DEF SaveJob, NoWork, WorkShape, Steps
  <2>2. Sound(SaveJob(n, e, keys))
    BY <2>1 DEF Sound
  <2> HIDE DEF SaveJob
  <2> QED
    BY <1>2, <2>1, <2>2, WorkBeginsInv DEF FirstSteps
<1>3. ASSUME NEW e \in Entries(n), CreateServer(w, n, e) \/ UpdateServer(w, n, e) PROVE ConnInv'
  <2>1. e.refs \in SUBSET EnvKeys
    BY EntriesAre DEF EntryShape
  <2>2. e.refs \ entry[n].refs \in SUBSET EnvKeys /\ {} \in SUBSET EnvKeys
    BY <2>1
  <2>3. \E keys \in SUBSET EnvKeys : WorkBegins(w, SaveJob(n, e, keys))
    BY <1>3, <2>1, <2>2 DEF CreateServer, UpdateServer
  <2> QED
    BY <1>2, <2>3
<1>4. ASSUME PatchServer(w, n) PROVE ConnInv'
  <2> DEFINE e == [entry[n] EXCEPT !.enabled = ~@]
  <2>1. entry[n] \in Entries(n)
    BY <1>1, <1>4, NoWorkIs DEF PatchServer
  <2>2. e \in Entries(n)
    BY <2>1 DEF Entries
  <2>3. WorkBegins(w, SaveJob(n, e, {}))
    BY <1>4 DEF PatchServer
  <2> QED
    BY <1>2, <2>2, <2>3
<1>5. ASSUME DeleteServer(w, n) PROVE ConnInv'
  <2> DEFINE job == [NoWork EXCEPT !.does = "remove", !.kind = "remove", !.of = n, !.drop = DropOf(n)]
  <2>1. DropOf(n) \subseteq EnvKeys
    BY <1>1 DEF DropOf, EnvKeys, EntryShape
  <2>2. job \in WorkShape /\ job.does = "remove" /\ job.kind = "remove" /\ job.of = n
    BY <2>1, NoWorkIs DEF NoWork, WorkShape, Steps
  <2>3. WorkBegins(w, job)
    BY <1>5 DEF DeleteServer
  <2>4. Sound(job)
    BY <2>2 DEF Sound
  <2> HIDE DEF job
  <2> QED
    BY <2>2, <2>3, <2>4, WorkBeginsInv DEF FirstSteps
<1>6. ASSUME Test(w, n) PROVE ConnInv'
  <2> DEFINE job == [NoWork EXCEPT !.does = "probe", !.kind = "test", !.of = n, !.entry = entry[n]]
  <2>1. job \in WorkShape /\ job.does = "probe" /\ job.kind = "test" /\ job.of = n /\ job.entry = entry[n]
    BY <1>1, NoWorkIs DEF NoWork, WorkShape, Steps
  <2>2. WorkBegins(w, job) /\ entry[n].there
    BY <1>6 DEF Test
  <2>3. Sound(job)
    BY <2>1 DEF Sound
  <2> HIDE DEF job
  <2> QED
    BY <2>1, <2>2, <2>3, WorkBeginsInv DEF FirstSteps
<1>7. ASSUME NEW k \in EnvKeys, Secret(w, n, k) PROVE ConnInv'
  <2>1. PICK put \in SUBSET EnvKeys :
          WorkBegins(w, [NoWork EXCEPT !.does = "read env", !.kind = "secret", !.of = n,
                                       !.put = put, !.drop = {k} \ put])
    BY <1>7 DEF Secret
  <2> DEFINE job == [NoWork EXCEPT !.does = "read env", !.kind = "secret", !.of = n,
                                   !.put = put, !.drop = {k} \ put]
  <2>2. job \in WorkShape /\ job.does = "read env" /\ job.kind = "secret"
    BY NoWorkIs DEF NoWork, WorkShape, Steps
  <2>3. WorkBegins(w, job)
    BY <2>1
  <2>4. Sound(job)
    BY <2>2 DEF Sound
  <2> HIDE DEF job
  <2> QED
    BY <2>2, <2>3, <2>4, WorkBeginsInv DEF FirstSteps
<1> QED
  BY <1>3, <1>4, <1>5, <1>6, <1>7

LEMMA ForeignBegins ==
  ASSUME ConnInv, NEW w \in Workers, NEW k \in Foreign, ForeignKey(w, k)
  PROVE  ConnInv'
<1>1. PICK put \in {{}, {k}} :
        WorkBegins(w, [NoWork EXCEPT !.does = "read env", !.kind = "secret", !.put = put, !.drop = {k} \ put])
  BY DEF ForeignKey
<1> DEFINE job == [NoWork EXCEPT !.does = "read env", !.kind = "secret", !.put = put, !.drop = {k} \ put]
<1>2. put \subseteq EnvKeys /\ {k} \ put \subseteq EnvKeys
  BY DEF EnvKeys
<1>3. job \in WorkShape /\ job.does = "read env" /\ job.kind = "secret"
  BY <1>2, NoWorkIs DEF NoWork, WorkShape, Steps
<1>4. WorkBegins(w, job)
  BY <1>1
<1>5. Sound(job)
  BY <1>3 DEF Sound
<1> HIDE DEF job
<1> QED
  BY <1>3, <1>4, <1>5, WorkBeginsInv DEF FirstSteps

\* A request that is at work, and what ConnInv says of its server.
LEMMA AtWork ==
  ASSUME ConnInv, NEW w \in Workers
  PROVE  /\ work[w] \in WorkShape /\ Sound(work[w])
         /\ work[w].of \in Servers =>
              /\ entry[work[w].of] \in EntryShape /\ check[work[w].of] \in Checks
              /\ entry[work[w].of] = NoEntry \/ entry[work[w].of] \in Entries(work[w].of)
              /\ order[work[w].of] # "mixed" => RemovalKnows(work[w])
              /\ order[work[w].of] = "calm" =>
                   CalmKnows(work[w]) /\ (Settled(work[w].of) \/ Half(work[w]))
<1>1. work[w] \in WorkShape /\ Sound(work[w])
  BY DEF ConnInv, ConnShapes
<1>2. ASSUME work[w].of \in Servers, order[work[w].of] = "calm"
      PROVE  Settled(work[w].of) \/ Half(work[w])
  BY <1>2, Zenon DEF ConnInv, Tidying, OneWorks
<1> QED
  BY <1>1, <1>2 DEF ConnInv, ConnShapes, Knowing

\* What a step that changes no server has to say of itself.
LEMMA QuietStep ==
  ASSUME ConnInv, NEW w \in Workers, NEW new \in WorkShape, Sound(new),
         new = NoWork \/ new.of = work[w].of,
         work' = [work EXCEPT ![w] = new],
         line' \subseteq EnvKeys, UNCHANGED <<entry, check, tokens, authorizing, begun, order>>,
         work[w].of \in Servers /\ order[work[w].of] # "mixed" => RemovalKnows(new),
         work[w].of \in Servers /\ order[work[w].of] = "calm" =>
           CalmKnows(new) /\ (Settled(work[w].of) \/ (new.of = work[w].of /\ Half(new)))
  PROVE  ConnInv'
<1>1. RemovalKnows(new)' <=> RemovalKnows(new)
  BY DEF RemovalKnows
<1>2. CalmKnows(new)' <=> CalmKnows(new)
  BY DEF CalmKnows
<1>3. \A n \in Servers : Settled(n)' <=> Settled(n)
  BY DEF Settled
<1>4. /\ entry \in [Servers -> EntryShape] /\ \A m \in Servers : entry[m] = NoEntry \/ entry[m] \in Entries(m)
      /\ check \in [Servers -> Checks] /\ tokens \subseteq Servers
      /\ order \in [Servers -> {"calm", "alone", "mixed"}]
  BY DEF ConnInv, ConnShapes
<1>5. WorkStep(w, new)
  BY <1>1, <1>2, <1>3, <1>4 DEF WorkStep
<1> QED
  BY <1>5, WorkStepInv

Does(w, what) == [work[w] EXCEPT !.does = what]

LEMMA DoesIs ==
  ASSUME ConnInv, NEW w \in Workers, NEW what \in Steps
  PROVE  /\ Does(w, what) \in WorkShape /\ Does(w, what).does = what /\ Does(w, what).kind = work[w].kind
         /\ Does(w, what).of = work[w].of /\ Does(w, what).entry = work[w].entry
         /\ Does(w, what).record = work[w].record
         /\ WorkDoes(w, what) => work' = [work EXCEPT ![w] = Does(w, what)]
<1>1. work[w] \in WorkShape
  BY AtWork
<1>2. \A q \in WorkShape :
        /\ [q EXCEPT !.does = what] \in WorkShape /\ [q EXCEPT !.does = what].does = what
        /\ [q EXCEPT !.does = what].kind = q.kind /\ [q EXCEPT !.does = what].of = q.of
        /\ [q EXCEPT !.does = what].entry = q.entry /\ [q EXCEPT !.does = what].record = q.record
  BY DEF WorkShape
<1>3. WorkDoes(w, what) => work' = [work EXCEPT ![w] = Does(w, what)]
  BY DEF WorkDoes, Does
<1> QED
  BY <1>1, <1>2, <1>3 DEF Does

\* config.yaml
LEMMA EntriesMove ==
  ASSUME ConnInv, NEW w \in Workers, SaveEntry(w) \/ RemoveEntry(w)
  PROVE  ConnInv'
<1> DEFINE n == work[w].of
<1>1. Sound(work[w]) /\ (work[w].does = "save" \/ work[w].does = "remove")
  BY AtWork DEF SaveEntry, RemoveEntry
<1>2. n \in Servers
  BY <1>1 DEF Sound
<1>3. /\ order[n] # "mixed" => RemovalKnows(work[w])
      /\ entry \in [Servers -> EntryShape] /\ \A m \in Servers : entry[m] = NoEntry \/ entry[m] \in Entries(m)
      /\ line \subseteq EnvKeys /\ check \in [Servers -> Checks] /\ tokens \subseteq Servers
      /\ order \in [Servers -> {"calm", "alone", "mixed"}]
  BY <1>2, AtWork DEF ConnInv, ConnShapes
<1>4. UNCHANGED <<line, check, tokens, authorizing, begun, order>>
  BY DEF SaveEntry, RemoveEntry
<1>5. CASE SaveEntry(w)
  <2>0. PICK new : new = Does(w, "read flags")
    OBVIOUS
  <2>1. /\ new \in WorkShape /\ new.does = "read flags" /\ new.kind = work[w].kind /\ new.of = n
        /\ new.entry = work[w].entry /\ work' = [work EXCEPT ![w] = new]
    BY <2>0, <1>5, DoesIs DEF SaveEntry, Steps
  <2>2. work[w].kind = "save" /\ work[w].entry \in Entries(n)
    BY <1>1, <1>5 DEF Sound, SaveEntry
  <2>3. entry'[n] = work[w].entry /\ \A m \in Servers : m # n => entry'[m] = entry[m]
    BY <1>2, <1>3, <1>5 DEF SaveEntry
  <2>4. entry' \in [Servers -> EntryShape] /\ \A m \in Servers : entry'[m] = NoEntry \/ entry'[m] \in Entries(m)
    BY <1>2, <1>3, <1>5, <2>2, <2>3, EntriesAre DEF SaveEntry
  <2>5. Sound(new) /\ Half(new)
    BY <1>2, <2>1, <2>2 DEF Sound, Half
  <2>6. RemovalKnows(new)' /\ CalmKnows(new)'
    BY <2>1, <2>2, <2>3 DEF RemovalKnows, CalmKnows
  <2>7. WorkStep(w, new)
    BY <1>2, <1>3, <1>4, <2>1, <2>3, <2>4, <2>5, <2>6 DEF WorkStep
  <2> QED
    BY <2>7, WorkStepInv
<1>6. CASE RemoveEntry(w)
  <2>0. PICK new : new = Does(w, "read env")
    OBVIOUS
  <2>1. /\ new \in WorkShape /\ new.does = "read env" /\ new.kind = work[w].kind /\ new.of = n
        /\ work' = [work EXCEPT ![w] = new]
    BY <2>0, <1>6, DoesIs DEF RemoveEntry, Steps
  <2>2. work[w].kind = "remove"
    BY <1>1, <1>6 DEF Sound, RemoveEntry
  <2>3. entry'[n] = NoEntry /\ \A m \in Servers : m # n => entry'[m] = entry[m]
    BY <1>2, <1>3, <1>6 DEF RemoveEntry
  <2>4. entry' \in [Servers -> EntryShape] /\ \A m \in Servers : entry'[m] = NoEntry \/ entry'[m] \in Entries(m)
    BY <1>2, <1>3, <1>6, <2>3, NoWorkIs DEF RemoveEntry
  <2>5. Sound(new) /\ Half(new)
    BY <1>2, <2>1, <2>2 DEF Sound, Half
  <2>6. CalmKnows(new)' /\ (order[n] # "mixed" => RemovalKnows(new)')
    BY <1>3, <1>4, <2>1, <2>2, <2>3 DEF RemovalKnows, CalmKnows
  <2>7. WorkStep(w, new)
    BY <1>2, <1>3, <1>4, <2>1, <2>3, <2>4, <2>5, <2>6 DEF WorkStep
  <2> QED
    BY <2>7, WorkStepInv
<1> QED
  BY <1>5, <1>6

\* .env
LEMMA EnvMoves ==
  ASSUME ConnInv, NEW w \in Workers, ReadEnv(w) \/ WriteEnv(w)
  PROVE  ConnInv'
<1>1. /\ work[w] \in WorkShape /\ Sound(work[w]) /\ line \subseteq EnvKeys
      /\ work[w].does = "read env" \/ work[w].does = "write env"
  BY AtWork DEF ReadEnv, WriteEnv, ConnInv, ConnShapes
<1>2. work[w].does \notin {"save", "remove", "read flags", "write flags", "probe", "write check"}
  BY <1>1
<1>3. Half(work[w]) => work[w].kind = "remove"
  BY <1>2 DEF Half
<1>4. CASE ReadEnv(w)
  <2> DEFINE new == [work[w] EXCEPT !.does = "write env", !.lines = line]
  <2>1. /\ new \in WorkShape /\ new.does = "write env" /\ new.kind = work[w].kind /\ new.of = work[w].of
    <3>1. \A q \in WorkShape : LET r == [q EXCEPT !.does = "write env", !.lines = line] IN
            r \in WorkShape /\ r.does = "write env" /\ r.kind = q.kind /\ r.of = q.of
      BY <1>1 DEF WorkShape, Steps
    <3> QED
      BY <1>1, <3>1
  <2>2. work' = [work EXCEPT ![w] = new] /\ UNCHANGED <<entry, line, check, tokens, authorizing, begun, order>>
    BY <1>4 DEF ReadEnv, connFiles
  <2> HIDE DEF new
  <2>3. Sound(new) /\ CalmKnows(new) /\ (Half(work[w]) => Half(new))
    BY <1>1, <1>3, <2>1 DEF Sound, CalmKnows, Half
  <2>4. RemovalKnows(work[w]) => RemovalKnows(new)
    BY <1>2, <2>1 DEF RemovalKnows
  <2>5. work[w].of \in Servers =>
          /\ order[work[w].of] # "mixed" => RemovalKnows(new)
          /\ order[work[w].of] = "calm" => Settled(work[w].of) \/ Half(new)
    BY <2>3, <2>4, AtWork
  <2>6. line' \subseteq EnvKeys
    BY <1>1, <2>2
  <2> QED
    BY <2>1, <2>2, <2>3, <2>5, <2>6, QuietStep
<1>5. CASE WriteEnv(w)
  <2>1. line' \subseteq EnvKeys /\ UNCHANGED <<entry, check, tokens, authorizing, begun, order>>
    BY <1>1, <1>5 DEF WriteEnv, NewLines, WorkShape
  <2>2. CASE work[w].kind = "remove"
    <3> DEFINE new == Does(w, "drop tokens")
    <3>1. /\ new \in WorkShape /\ new.does = "drop tokens" /\ new.kind = "remove" /\ new.of = work[w].of
          /\ work' = [work EXCEPT ![w] = new]
      BY <1>5, <2>2, DoesIs DEF WriteEnv, Steps
    <3> HIDE DEF new
    <3>2. Sound(new) /\ CalmKnows(new) /\ Half(new)
      BY <1>1, <2>2, <3>1 DEF Sound, CalmKnows, Half
    <3>3. RemovalKnows(work[w]) => RemovalKnows(new)
      BY <1>2, <2>2, <3>1 DEF RemovalKnows
    <3>4. work[w].of \in Servers /\ order[work[w].of] # "mixed" => RemovalKnows(new)
      BY <3>3, AtWork
    <3> QED
      BY <2>1, <3>1, <3>2, <3>4, QuietStep
  <2>3. CASE work[w].kind # "remove"
    <3>1. work' = [work EXCEPT ![w] = NoWork]
      BY <1>5, <2>3 DEF WriteEnv, WorkEnds
    <3>2. RemovalKnows(NoWork) /\ CalmKnows(NoWork)
      BY NoWorkIs DEF RemovalKnows, CalmKnows
    <3>3. work[w].of \in Servers /\ order[work[w].of] = "calm" => Settled(work[w].of)
      BY <1>3, <2>3, AtWork
    <3> QED
      BY <2>1, <3>1, <3>2, <3>3, NoWorkIs, QuietStep
  <2> QED
    BY <2>2, <2>3
<1> QED
  BY <1>4, <1>5

\* The checks
LEMMA FlagsMove ==
  ASSUME ConnInv, NEW w \in Workers, ReadFlags(w) \/ WriteFlags(w)
  PROVE  ConnInv'
<1> DEFINE n == work[w].of
<1>1. /\ work[w] \in WorkShape /\ Sound(work[w])
      /\ work[w].does = "read flags" \/ work[w].does = "write flags"
  BY AtWork DEF ReadFlags, WriteFlags
<1>2. n \in Servers /\ work[w].kind = "save" /\ work[w].entry \in Entries(n) /\ check[n] \in Checks
  BY <1>1, AtWork DEF Sound
<1>3. /\ entry \in [Servers -> EntryShape] /\ \A m \in Servers : entry[m] = NoEntry \/ entry[m] \in Entries(m)
      /\ line \subseteq EnvKeys /\ check \in [Servers -> Checks] /\ tokens \subseteq Servers
      /\ order \in [Servers -> {"calm", "alone", "mixed"}]
  BY DEF ConnInv, ConnShapes
<1>4. CASE ReadFlags(w)
  <2>0. /\ UNCHANGED <<entry, line, check, tokens, authorizing, begun, order>>
        /\ order[n] = "calm" => entry[n] = work[w].entry
    BY <1>2, <1>4, AtWork DEF ReadFlags, connFiles, CalmKnows
  <2>1. work[w].entry.there
    BY <1>2, EntriesAre
  <2>2. CASE check[n].tools = "unknown"
    <3> DEFINE new == Does(w, "read env")
    <3>1. /\ new \in WorkShape /\ new.does = "read env" /\ new.kind = "save" /\ new.of = n
      BY <1>2, DoesIs DEF Steps
    <3>2. work' = [work EXCEPT ![w] = new]
      BY <1>4, <2>2 DEF ReadFlags, Does
    <3> HIDE DEF new
    <3>3. Sound(new) /\ CalmKnows(new) /\ RemovalKnows(new)
      BY <3>1 DEF Sound, CalmKnows, RemovalKnows
    <3>4. order[n] = "calm" => Settled(n)
      BY <2>0, <2>1, <2>2 DEF Settled
    <3>5. line' \subseteq EnvKeys
      BY <1>3, <2>0
    <3> QED
      BY <1>2, <2>0, <3>1, <3>2, <3>3, <3>4, <3>5, QuietStep
  <2>3. CASE check[n].tools # "unknown"
    <3> DEFINE record == [check[n] EXCEPT !.tools = work[w].entry.tools]
               new == [work[w] EXCEPT !.does = "write flags", !.record = record]
    <3>1. record \in Checks /\ record.tools = work[w].entry.tools
      <4>1. work[w].entry.tools \in {"all", "few"}
        BY <1>2, EntriesAre DEF EntryShape
      <4>2. check[n] \in Checks
        BY <1>2
      <4> QED
        BY <4>1, <4>2 DEF Checks
    <3>2. /\ new \in WorkShape /\ new.does = "write flags" /\ new.kind = "save" /\ new.of = n
          /\ new.entry = work[w].entry /\ new.record = record
      <4>1. \A q \in WorkShape, c \in Checks : LET r == [q EXCEPT !.does = "write flags", !.record = c] IN
              /\ r \in WorkShape /\ r.does = "write flags" /\ r.kind = q.kind /\ r.of = q.of
              /\ r.entry = q.entry /\ r.record = c
        BY DEF WorkShape, Steps
      <4> QED
        BY <1>1, <1>2, <3>1, <4>1
    <3>3. work' = [work EXCEPT ![w] = new]
      BY <1>4, <2>3 DEF ReadFlags
    <3> HIDE DEF new, record
    <3>4. Sound(new) /\ RemovalKnows(new) /\ Half(new)
      BY <1>2, <3>2 DEF Sound, RemovalKnows, Half
    <3>5. order[n] = "calm" => CalmKnows(new)
      BY <2>0, <2>1, <3>1, <3>2 DEF CalmKnows
    <3>6. line' \subseteq EnvKeys
      BY <1>3, <2>0
    <3> QED
      BY <1>2, <2>0, <3>2, <3>3, <3>4, <3>5, <3>6, QuietStep
  <2> QED
    BY <2>2, <2>3
<1>5. CASE WriteFlags(w)
  <2>0. PICK new : new = Does(w, "read env")
    OBVIOUS
  <2>1. /\ new \in WorkShape /\ new.does = "read env" /\ new.kind = "save" /\ new.of = n
        /\ work' = [work EXCEPT ![w] = new]
    BY <2>0, <1>2, <1>5, DoesIs DEF WriteFlags, Steps
  <2>2. /\ check'[n] = work[w].record /\ \A m \in Servers : m # n => check'[m] = check[m]
        /\ check' \in [Servers -> Checks] /\ UNCHANGED <<entry, line, tokens, authorizing, begun, order>>
    BY <1>1, <1>2, <1>3, <1>5 DEF WriteFlags, WorkShape
  <2>3. order[n] = "calm" => entry[n].there /\ work[w].record.tools = entry[n].tools
    BY <1>2, <1>5, AtWork DEF CalmKnows, WriteFlags
  <2>4. Sound(new) /\ RemovalKnows(new)' /\ CalmKnows(new)'
    BY <2>1 DEF Sound, RemovalKnows, CalmKnows
  <2>5. PICK m \in Servers : m = n
    BY <1>2
  <2>6. order[m] = "calm" => Settled(m)'
    BY <2>2, <2>3, <2>5 DEF Settled
  <2>7. WorkStep(w, new)
    BY <1>2, <1>3, <2>1, <2>2, <2>4, <2>5, <2>6 DEF WorkStep
  <2> QED
    BY <2>7, WorkStepInv
<1> QED
  BY <1>4, <1>5

\* A test
LEMMA ChecksMove ==
  ASSUME ConnInv, NEW w \in Workers, Probe(w) \/ WriteCheck(w)
  PROVE  ConnInv'
<1>0. PICK n : n = work[w].of
  OBVIOUS
<1>1. /\ work[w] \in WorkShape /\ Sound(work[w]) /\ work[w].kind = "test" /\ n \in Servers
      /\ work[w].does = "probe" \/ work[w].does = "write check"
  BY <1>0, AtWork DEF Probe, WriteCheck, Sound
<1>2. /\ entry \in [Servers -> EntryShape] /\ \A m \in Servers : entry[m] = NoEntry \/ entry[m] \in Entries(m)
      /\ line \subseteq EnvKeys /\ check \in [Servers -> Checks] /\ tokens \subseteq Servers
      /\ order \in [Servers -> {"calm", "alone", "mixed"}] /\ entry[n] \in EntryShape /\ check[n] \in Checks
  BY <1>1 DEF ConnInv, ConnShapes
<1>3. ~Half(work[w])
  BY <1>1 DEF Half
<1>4. order[n] = "calm" => CalmKnows(work[w]) /\ Settled(n)
  BY <1>0, <1>1, <1>3, AtWork
<1>5. RemovalKnows(NoWork) /\ CalmKnows(NoWork)
  BY NoWorkIs DEF RemovalKnows, CalmKnows
<1>6. CASE Probe(w)
  <2>1. UNCHANGED <<entry, line, check, tokens, authorizing, begun, order>> /\ line' \subseteq EnvKeys
    BY <1>2, <1>6 DEF Probe, connFiles
  <2>2. CASE ~entry[n].there
    <3>1. work' = [work EXCEPT ![w] = NoWork]
      BY <1>0, <1>6, <2>2 DEF Probe
    <3> QED
      BY <1>0, <1>4, <1>5, <2>1, <3>1, NoWorkIs, QuietStep
  <2>3. CASE entry[n].there
    <3>1. PICK ok \in BOOLEAN, tools \in {work[w].entry.tools, check[n].tools} :
            /\ tools = (IF ok THEN work[w].entry.tools ELSE check[n].tools)
            /\ work' = [work EXCEPT ![w].does = "write check", ![w].record = [ok |-> ok, tools |-> tools]]
      BY <1>0, <1>6, <2>3 DEF Probe
    <3> DEFINE record == [ok |-> ok, tools |-> tools]
               new == [work[w] EXCEPT !.does = "write check", !.record = record]
    <3>2. tools \in {"unknown", "all", "few"}
      BY <1>1, <1>2, <3>1 DEF WorkShape, EntryShape, Checks
    <3>3. record \in Checks /\ record.tools = tools
      BY <3>2 DEF Checks
    <3>4. /\ new \in WorkShape /\ new.does = "write check" /\ new.kind = "test" /\ new.of = n
          /\ new.record = record
      <4>1. \A q \in WorkShape, c \in Checks : LET r == [q EXCEPT !.does = "write check", !.record = c] IN
              /\ r \in WorkShape /\ r.does = "write check" /\ r.kind = q.kind /\ r.of = q.of
              /\ r.record = c
        BY DEF WorkShape, Steps
      <4> QED
        BY <1>0, <1>1, <3>3, <4>1
    <3>5. work' = [work EXCEPT ![w] = new]
      BY <3>1
    <3> HIDE DEF new, record
    <3>6. Sound(new) /\ RemovalKnows(new)
      BY <1>1, <3>4 DEF Sound, RemovalKnows
    <3>7. order[n] = "calm" => tools \in {"unknown", entry[n].tools}
      <4>1. SUFFICES ASSUME order[n] = "calm" PROVE tools \in {"unknown", entry[n].tools}
        OBVIOUS
      <4>2. work[w].entry = entry[n]
        BY <1>0, <1>4, <1>6, <4>1 DEF CalmKnows, Probe
      <4>3. check[n].tools \in {"unknown", entry[n].tools}
        BY <1>4, <4>1 DEF Settled
      <4> QED
        BY <3>1, <4>2, <4>3
    <3>8. order[n] = "calm" => CalmKnows(new)
      BY <2>3, <3>3, <3>4, <3>7 DEF CalmKnows
    <3> QED
      BY <1>0, <1>4, <2>1, <3>4, <3>5, <3>6, <3>8, QuietStep
  <2> QED
    BY <2>2, <2>3
<1>7. CASE WriteCheck(w)
  <2>1. work' = [work EXCEPT ![w] = NoWork]
    BY <1>7 DEF WriteCheck, WorkEnds
  <2>2. /\ check'[n] = work[w].record /\ \A m \in Servers : m # n => check'[m] = check[m]
        /\ check' \in [Servers -> Checks] /\ UNCHANGED <<entry, line, tokens, authorizing, begun, order>>
    BY <1>0, <1>1, <1>2, <1>7 DEF WriteCheck, WorkShape
  <2>3. order[n] = "calm" => entry[n].there /\ work[w].record.tools \in {"unknown", entry[n].tools}
    BY <1>0, <1>4, <1>7 DEF CalmKnows, WriteCheck
  <2>4. RemovalKnows(NoWork)' /\ CalmKnows(NoWork)'
    BY NoWorkIs DEF RemovalKnows, CalmKnows, NoWork
  <2>5. order[n] = "calm" => Settled(n)'
    BY <2>2, <2>3 DEF Settled
  <2>6. WorkStep(w, NoWork)
    BY <1>0, <1>1, <1>2, <2>1, <2>2, <2>4, <2>5, NoWorkIs DEF WorkStep
  <2> QED
    BY <2>6, WorkStepInv
<1> QED
  BY <1>6, <1>7

\* The end of a deletion
LEMMA RemovalEnds ==
  ASSUME ConnInv, NEW w \in Workers, DropTokens(w) \/ DropCheck(w)
  PROVE  ConnInv'
<1>0. PICK n : n = work[w].of
  OBVIOUS
<1>1. /\ work[w] \in WorkShape /\ Sound(work[w]) /\ work[w].kind = "remove" /\ n \in Servers
      /\ work[w].does = "drop tokens" \/ work[w].does = "drop check"
  BY <1>0, AtWork DEF DropTokens, DropCheck, Sound
<1>2. /\ entry \in [Servers -> EntryShape] /\ \A m \in Servers : entry[m] = NoEntry \/ entry[m] \in Entries(m)
      /\ line \subseteq EnvKeys /\ check \in [Servers -> Checks] /\ tokens \subseteq Servers
      /\ order \in [Servers -> {"calm", "alone", "mixed"}]
  BY DEF ConnInv, ConnShapes
<1>3. order[n] # "mixed" =>
        n \notin authorizing /\ entry[n] = NoEntry /\ (work[w].does = "drop check" => n \notin tokens)
  BY <1>0, <1>1, AtWork DEF RemovalKnows
<1>4. CASE DropTokens(w)
  <2>0. PICK new : new = Does(w, "drop check")
    OBVIOUS
  <2>1. /\ new \in WorkShape /\ new.does = "drop check" /\ new.kind = "remove" /\ new.of = n
        /\ work' = [work EXCEPT ![w] = new]
    BY <1>0, <1>1, <1>4, <2>0, DoesIs DEF DropTokens, Steps
  <2>2. /\ n \notin tokens' /\ \A m \in Servers : m # n => (m \in tokens' <=> m \in tokens)
        /\ tokens' \subseteq Servers /\ UNCHANGED <<entry, line, check, authorizing, begun, order>>
    BY <1>0, <1>2, <1>4 DEF DropTokens
  <2>3. Sound(new) /\ Half(new) /\ CalmKnows(new)'
    BY <1>1, <2>1 DEF Sound, Half, CalmKnows
  <2>4. order[n] # "mixed" => RemovalKnows(new)'
    BY <1>3, <2>1, <2>2 DEF RemovalKnows
  <2>5. WorkStep(w, new)
    BY <1>0, <1>1, <1>2, <2>1, <2>2, <2>3, <2>4 DEF WorkStep
  <2> QED
    BY <2>5, WorkStepInv
<1>5. CASE DropCheck(w)
  <2>1. work' = [work EXCEPT ![w] = NoWork] /\ UNCHANGED <<entry, line, tokens, authorizing, begun>>
    BY <1>5 DEF DropCheck, WorkEnds
  <2>2. /\ check'[n] = NoCheck /\ \A m \in Servers : m # n => check'[m] = check[m]
        /\ check' \in [Servers -> Checks]
    BY <1>0, <1>1, <1>2, <1>5, NoWorkIs DEF DropCheck
  <2>3. /\ order'[n] = (IF order[n] = "mixed" THEN "mixed" ELSE "calm")
        /\ \A m \in Servers : m # n => order'[m] = order[m]
        /\ order' \in [Servers -> {"calm", "alone", "mixed"}]
    BY <1>0, <1>1, <1>2, <1>5 DEF DropCheck, Calmed
  <2>4. RemovalKnows(NoWork)' /\ CalmKnows(NoWork)'
    BY NoWorkIs DEF RemovalKnows, CalmKnows, NoWork
  <2>5. order'[n] = "calm" => Settled(n)'
    <3> SUFFICES ASSUME order'[n] = "calm" PROVE Settled(n)'
      OBVIOUS
    <3>1. order[n] # "mixed" /\ n \notin authorizing /\ n \notin tokens
      BY <1>3, <1>5, <2>3 DEF DropCheck
    <3>2. check'[n].tools = "unknown"
      BY <2>2, NoWorkIs
    <3> QED
      BY <2>1, <2>2, <3>1, <3>2 DEF Settled, NoCheck
  <2>6. WorkStep(w, NoWork)
    BY <1>0, <1>1, <1>2, <2>1, <2>2, <2>3, <2>4, <2>5, NoWorkIs DEF WorkStep
  <2> QED
    BY <2>6, WorkStepInv
<1> QED
  BY <1>4, <1>5

\* A request that fails
LEMMA BreaksOffInv ==
  ASSUME ConnInv, NEW w \in Workers, BreaksOff(w)
  PROVE  ConnInv'
<1>0. PICK n : n = work[w].of
  OBVIOUS
<1>1. /\ entry \in [Servers -> EntryShape] /\ \A m \in Servers : entry[m] = NoEntry \/ entry[m] \in Entries(m)
      /\ line \subseteq EnvKeys /\ check \in [Servers -> Checks] /\ tokens \subseteq Servers
      /\ order \in [Servers -> {"calm", "alone", "mixed"}]
  BY DEF ConnInv, ConnShapes
<1>2. work' = [work EXCEPT ![w] = NoWork] /\ UNCHANGED <<entry, line, check, tokens, authorizing, begun>>
  BY DEF BreaksOff, WorkEnds, connFiles
<1>3. \A m \in Servers : order'[m] = IF m = n /\ order[m] = "calm" /\ Half(work[w]) THEN "alone" ELSE order[m]
  BY <1>0 DEF BreaksOff
<1>4. order' \in [Servers -> {"calm", "alone", "mixed"}]
  BY <1>1, <1>3 DEF BreaksOff
<1>5. RemovalKnows(NoWork)' /\ CalmKnows(NoWork)'
  BY NoWorkIs DEF RemovalKnows, CalmKnows, NoWork
<1>6. n \in Servers /\ order'[n] = "calm" => Settled(n)'
  <2> SUFFICES ASSUME n \in Servers, order'[n] = "calm" PROVE Settled(n)'
    OBVIOUS
  <2>1. order[n] = "calm" /\ ~Half(work[w])
    BY <1>3
  <2>2. Settled(n)
    BY <1>0, <2>1, AtWork
  <2> QED
    BY <1>2, <2>2 DEF Settled
<1>7. WorkStep(w, NoWork)
  BY <1>0, <1>1, <1>2, <1>3, <1>4, <1>5, <1>6, NoWorkIs DEF WorkStep
<1> QED
  BY <1>7, WorkStepInv

\* The OAuth workers
LEMMA AuthMoves ==
  ASSUME ConnInv, NEW n \in Servers, AuthBegins(n) \/ TokensStored(n) \/ AuthEnds(n)
  PROVE  ConnInv'
<1> USE DEF ConnInv
<1>1. /\ UNCHANGED <<entry, line, check, work, begun>>
      /\ tokens' \subseteq Servers /\ authorizing' \subseteq Servers
      /\ \A m \in Servers : m # n => (m \in tokens' <=> m \in tokens) /\ (m \in authorizing' <=> m \in authorizing)
  BY DEF ConnShapes, AuthBegins, TokensStored, AuthEnds, connFiles
<1>2. /\ order' \in [Servers -> {"calm", "alone", "mixed"}]
      /\ \A m \in Servers : order'[m] = order[m] \/ order'[m] = "mixed"
  BY DEF ConnShapes, AuthBegins, TokensStored, AuthEnds
<1>3. ConnShapes'
  BY <1>1, <1>2 DEF ConnShapes
<1>4. OneWorks'
  BY <1>1, <1>2 DEF OneWorks
<1>5. Knowing'
  <2> SUFFICES ASSUME NEW w \in Workers, work[w].of \in Servers, order'[work[w].of] # "mixed"
               PROVE  /\ (RemovalKnows(work[w]))'
                      /\ order'[work[w].of] = "calm" => (CalmKnows(work[w]))'
    BY <1>1 DEF Knowing
  <2>1. order[work[w].of] = order'[work[w].of]
    BY <1>2
  <2>2. RemovalKnows(work[w]) /\ (order[work[w].of] = "calm" => CalmKnows(work[w]))
    BY <2>1 DEF Knowing
  <2>3. order'[work[w].of] = "calm" => (CalmKnows(work[w]))'
    BY <1>1, <2>1, <2>2 DEF CalmKnows
  <2>4. (RemovalKnows(work[w]))'
    <3> SUFFICES ASSUME work[w].kind = "remove"
                 PROVE  /\ work[w].of \notin authorizing'
                        /\ work[w].does # "remove" => entry[work[w].of] = NoEntry
                        /\ work[w].does = "drop check" => work[w].of \notin tokens'
      BY <1>1 DEF RemovalKnows
    <3>1. CASE work[w].of # n
      BY <1>1, <2>2, <3>1 DEF RemovalKnows
    <3>2. CASE work[w].of = n
      <4>1. n \notin authorizing
        BY <2>2, <3>2 DEF RemovalKnows
      <4>2. AuthBegins(n)
        BY <4>1 DEF TokensStored, AuthEnds
      <4>3. order'[n] = "mixed"
        BY <3>2, <4>2 DEF AuthBegins, ConnShapes
      <4> QED
        BY <3>2, <4>3
    <3> QED
      BY <3>1, <3>2
  <2> QED
    BY <2>3, <2>4
<1>6. Tidying'
  <2> SUFFICES ASSUME NEW m \in Servers, order'[m] = "calm",
                      \A w \in Workers : ~(work[w].of = m /\ Half(work[w]))
               PROVE  Settled(m)'
    BY <1>1 DEF Tidying, Half
  <2>1. Settled(m)
    BY <1>2 DEF Tidying
  <2>2. m \in tokens' \cup authorizing' => m \in tokens \cup authorizing \/ entry[m].there
    BY <1>1 DEF AuthBegins, TokensStored, AuthEnds
  <2> QED
    BY <1>1, <2>1, <2>2 DEF Settled
<1> QED
  BY <1>3, <1>4, <1>5, <1>6

LEMMA WorkGoesInv ==
  ASSUME ConnInv, NEW w \in Workers, WorkGoes(w)
  PROVE  ConnInv'
BY EntriesMove, EnvMoves, FlagsMove, ChecksMove, RemovalEnds, BreaksOffInv DEF WorkGoes

LEMMA ConnStutter == ConnInv /\ UNCHANGED connVars => ConnInv'
<1> SUFFICES ASSUME ConnInv, UNCHANGED connVars PROVE ConnInv'
  OBVIOUS
<1>1. UNCHANGED <<entry, line, check, tokens, authorizing, work, begun, order>>
  BY DEF connVars
<1>2. ConnShapes' /\ OneWorks'
  BY <1>1 DEF ConnInv, ConnShapes, OneWorks
<1>3. Knowing'
  BY <1>1 DEF ConnInv, Knowing, RemovalKnows, CalmKnows
<1>4. Tidying'
  BY <1>1 DEF ConnInv, Tidying, Settled, Half
<1> QED
  BY <1>2, <1>3, <1>4 DEF ConnInv

LEMMA ConnNextInv == ConnInv /\ [ConnNext]_connVars => ConnInv'
<1> SUFFICES ASSUME ConnInv, ConnNext PROVE ConnInv'
  BY ConnStutter
<1>1. CASE \E w \in Workers, n \in Servers :
             \/ \E e \in Entries(n) : CreateServer(w, n, e) \/ UpdateServer(w, n, e)
             \/ PatchServer(w, n) \/ DeleteServer(w, n) \/ Test(w, n)
             \/ \E k \in EnvKeys : Secret(w, n, k)
  BY <1>1, RequestsBegin
<1>2. CASE \E w \in Workers, k \in Foreign : ForeignKey(w, k)
  BY <1>2, ForeignBegins
<1>3. CASE \E w \in Workers : WorkGoes(w)
  BY <1>3, WorkGoesInv
<1>4. CASE \E n \in Servers : AuthBegins(n) \/ TokensStored(n) \/ AuthEnds(n)
  BY <1>4, AuthMoves
<1> QED
  BY <1>1, <1>2, <1>3, <1>4 DEF ConnNext

LEMMA ConnTidy == ConnInv => TidyCalm /\ ConnTypeOK
<1> SUFFICES ASSUME ConnInv PROVE TidyCalm /\ ConnTypeOK
  OBVIOUS
<1>1. TidyCalm
  BY DEF ConnInv, Tidying, TidyCalm, InHand
<1>2. \A w \in Workers : work[w].does \in Steps /\ work[w].of \in Servers \cup {NoServer}
  BY DEF ConnInv, ConnShapes, WorkShape
<1> QED
  BY <1>1, <1>2 DEF ConnInv, ConnShapes, ConnTypeOK, Checks

LEMMA ConnSteps == [ServicesNext]_servicesVars => [ConnNext]_connVars
BY DEF ServicesNext, servicesVars, connVars

\* The requests of the connectors hold ConnInv: what is read and written keeps
\* its shape; while the requests about a server are not mixed, one works on it
\* at most, a deletion knows what it has taken, and where things are calm what
\* a request has read is so still.
THEOREM ConnInvariant == ServicesSpec => []ConnInv
<1>1. ServicesInit => ConnInv
  BY ConnInitInv DEF ServicesInit
<1> QED
  BY <1>1, ConnNextInv, ConnSteps, PTL DEF ServicesSpec

\* Whatever the requests of other servers do at the same time, and wherever
\* requests fail or the gateway stops, a server on which nobody works and whose
\* own requests came one after the other has no record, token or OAuth worker
\* without its entry and shows the tools its entry chooses; and a deletion that
\* no other request of its server and no OAuth worker meets makes it so again
\* whatever was left of it (mcp_admin.py:284-306, :69).
THEOREM NothingStays == ServicesSpec => []TidyCalm
BY ConnTidy, ConnInvariant, PTL

\* Entries, records, tokens and lines keep their types, and a request that is
\* under way does one of the things a request of mcp_admin.py does.
THEOREM ConnTypes == ServicesSpec => []ConnTypeOK
BY ConnTidy, ConnInvariant, PTL

-----------------------------------------------------------------------------
(* Results of jobs *)

Moment == 0..MaxClock \cup {None}
RunState == [started : 0..MaxClock, ended : Moment, status : {"running", "completed", "failed", "unknown"},
             session : Moment, closed : Moment, file : Moment]

\* A session opens soon after its run starts, and runs start apart.
ResultsInv ==
  /\ clock \in 0..MaxClock /\ runs \in Seq(RunState) /\ Len(runs) <= MaxRuns
  /\ \A i \in 1..Len(runs) : /\ runs[i].started <= clock
                             /\ runs[i].session # None => runs[i].session - runs[i].started \in 0..Lag
  /\ \A i, j \in 1..Len(runs) : i < j => runs[j].started - runs[i].started >= Gap

LEMMA ResultsInitInv == ResultsInit => ResultsInv
<1> SUFFICES ASSUME ResultsInit PROVE ResultsInv
  OBVIOUS
<1>1. runs = <<>> /\ clock = 0 /\ Len(runs) = 0
  BY DEF ResultsInit
<1>2. clock \in 0..MaxClock /\ Len(runs) <= MaxRuns
  BY <1>1, ResultsAssumption
<1>3. runs \in Seq(RunState) /\ 1..Len(runs) = {}
  BY <1>1
<1> QED
  BY <1>2, <1>3 DEF ResultsInv

\* The run i of the job, field by field.
LEMMA RunFields ==
  ASSUME ResultsInv, NEW i \in 1..Len(runs)
  PROVE  /\ runs[i] \in RunState /\ runs[i].started \in Nat
         /\ runs[i].started <= clock /\ clock \in Nat /\ clock \in 0..MaxClock
         /\ runs[i].session # None => /\ runs[i].session \in Nat
                                     /\ runs[i].session - runs[i].started \in 0..Lag
<1>1. clock \in 0..MaxClock /\ MaxClock \in Nat /\ runs \in Seq(RunState)
  BY ResultsAssumption DEF ResultsInv
<1>2. runs[i] \in RunState
  BY <1>1
<1>3. runs[i].started \in 0..MaxClock /\ runs[i].session \in 0..MaxClock \cup {None}
  BY <1>2 DEF RunState, Moment
<1>4. /\ runs[i].started <= clock
      /\ runs[i].session # None => runs[i].session - runs[i].started \in 0..Lag
  BY DEF ResultsInv
<1>5. runs[i].session # None => runs[i].session \in Nat
  BY <1>1, <1>3
<1> QED
  BY <1>1, <1>2, <1>3, <1>4, <1>5

\* What becomes of the run under way leaves its start and the others alone.
LEMMA RunChanges ==
  ASSUME ResultsInv, UnderWay, NEW new \in RunState, Changes(new), new.started = LastRun.started,
         new.session # None => new.session - new.started \in 0..Lag
  PROVE  ResultsInv'
<1>1. /\ clock' = clock /\ Len(runs) \in 1..Len(runs)
      /\ runs' \in Seq(RunState) /\ Len(runs') = Len(runs)
      /\ \A i \in 1..Len(runs) : runs'[i] = IF i = Len(runs) THEN new ELSE runs[i]
  BY DEF ResultsInv, Changes, UnderWay
<1>2. \A i \in 1..Len(runs) : /\ runs'[i].started = runs[i].started
                              /\ runs'[i].session # None => runs'[i].session - runs'[i].started \in 0..Lag
  BY <1>1 DEF ResultsInv, LastRun
<1> QED
  BY <1>1, <1>2 DEF ResultsInv

LEMMA LastIs ==
  ASSUME ResultsInv, UnderWay
  PROVE  /\ LastRun \in RunState /\ LastRun.started <= clock /\ clock \in 0..MaxClock
         /\ LastRun.session # None => LastRun.session - LastRun.started \in 0..Lag
<1>1. Len(runs) \in 1..Len(runs)
  BY DEF ResultsInv, UnderWay
<1> QED
  BY <1>1 DEF ResultsInv, LastRun

\* The scheduler starts a run when the last has ended and its time has come.
LEMMA RunBeginsInv ==
  ASSUME ResultsInv, RunBegins
  PROVE  ResultsInv'
<1> DEFINE n == Len(runs)
<1>1. n \in Nat /\ n < MaxRuns /\ clock \in Nat /\ clock' = clock /\ runs' = Append(runs, NewRun(clock))
  BY DEF ResultsInv, RunBegins
<1>2. NewRun(clock) \in RunState /\ NewRun(clock).started = clock /\ NewRun(clock).session = None
  BY DEF ResultsInv, NewRun, RunState, Moment
<1>3. /\ runs' \in Seq(RunState) /\ Len(runs') = n + 1
      /\ \A i \in 1..n : runs'[i] = runs[i]
      /\ runs'[n + 1] = NewRun(clock)
  BY <1>1, <1>2 DEF ResultsInv
<1>4. \A i \in 1..n : runs[i].started \in Nat /\ runs[i].started <= clock
  BY RunFields
<1>5. \A i \in 1..n : clock - runs[i].started >= Gap
  <2> SUFFICES ASSUME NEW i \in 1..n PROVE clock - runs[i].started >= Gap
    OBVIOUS
  <2>1. runs # <<>> /\ n \in 1..n
    BY <1>1
  <2>2. clock - runs[n].started >= Gap
    BY <2>1 DEF RunBegins, LastRun
  <2>4. /\ runs[i].started \in Nat /\ runs[n].started \in Nat /\ Gap \in Nat
        /\ i \in Nat /\ i <= n
    <3>1. Gap \in Nat
      BY ResultsAssumption
    <3>2. i \in Nat /\ i <= n
      BY <1>1
    <3> QED
      BY <1>4, <2>1, <3>1, <3>2
  <2>3. i < n => runs[n].started - runs[i].started >= Gap
    BY <2>1 DEF ResultsInv
  <2>5. CASE i = n
    BY <2>2, <2>5
  <2>6. CASE i < n
    <3>1. runs[n].started - runs[i].started >= Gap
      BY <2>3, <2>6
    <3> HIDE DEF n
    <3> QED
      BY <1>1, <2>2, <2>4, <3>1
  <2> HIDE DEF n
  <2> QED
    BY <1>1, <2>4, <2>5, <2>6
<1>6. \A i \in 1..(n + 1) : i \in 1..n \/ i = n + 1
  BY <1>1
<1>7. \A i \in 1..n : /\ runs[i].started <= clock
                      /\ runs[i].session # None => runs[i].session - runs[i].started \in 0..Lag
  BY DEF ResultsInv
<1>8. \A i, j \in 1..n : i < j => runs[j].started - runs[i].started >= Gap
  BY DEF ResultsInv
<1>9. clock' \in 0..MaxClock /\ Len(runs') <= MaxRuns
  BY <1>1, <1>3, ResultsAssumption DEF ResultsInv
<1> HIDE DEF n
<1>10. \A i \in 1..(n + 1) : /\ runs'[i].started <= clock'
                             /\ runs'[i].session # None => runs'[i].session - runs'[i].started \in 0..Lag
  BY <1>1, <1>2, <1>3, <1>6, <1>7
<1>11. \A i, j \in 1..(n + 1) : i < j => runs'[j].started - runs'[i].started >= Gap
  <2> SUFFICES ASSUME NEW i \in 1..(n + 1), NEW j \in 1..(n + 1), i < j
               PROVE  runs'[j].started - runs'[i].started >= Gap
    OBVIOUS
  <2>1. i \in 1..n
    BY <1>1
  <2>2. CASE j \in 1..n
    BY <1>3, <1>8, <2>1, <2>2
  <2>3. CASE j = n + 1
    BY <1>2, <1>3, <1>5, <2>1, <2>3
  <2> QED
    BY <1>6, <2>2, <2>3
<1> QED
  BY <1>3, <1>9, <1>10, <1>11 DEF ResultsInv

LEMMA ResultsNextInv == ResultsInv /\ [ResultsNext]_resultVars => ResultsInv'
<1> SUFFICES ASSUME ResultsInv, [ResultsNext]_resultVars PROVE ResultsInv'
  OBVIOUS
<1>1. CASE TimePasses
  <2>1. clock' = clock + 1 /\ clock' \in 0..MaxClock /\ runs' = runs /\ clock \in Nat
    BY <1>1, ResultsAssumption DEF TimePasses, ResultsInv
  <2>2. \A i \in 1..Len(runs) : runs[i].started \in Nat /\ runs[i].started <= clock + 1
    BY <2>1, RunFields
  <2>3. \A i \in 1..Len(runs) : runs[i].session # None => runs[i].session - runs[i].started \in 0..Lag
    BY DEF ResultsInv
  <2> QED
    BY <2>1, <2>2, <2>3 DEF ResultsInv
<1>2. CASE RunBegins
  BY <1>2, RunBeginsInv
<1>3. CASE OpenSession
  <2> DEFINE new == [LastRun EXCEPT !.session = clock]
  <2>1. UnderWay /\ Changes(new) /\ clock - LastRun.started <= Lag
    BY <1>3 DEF OpenSession
  <2>2. LastRun \in RunState /\ LastRun.started <= clock /\ clock \in 0..MaxClock
    BY <2>1, LastIs
  <2>3. new \in RunState /\ new.started = LastRun.started /\ new.session = clock
    BY <2>2 DEF RunState, Moment
  <2>4. new.session - new.started \in 0..Lag
    BY <2>1, <2>2, <2>3, ResultsAssumption DEF RunState
  <2> HIDE DEF new
  <2> QED
    BY <2>1, <2>3, <2>4, RunChanges
<1>4. CASE RunEnds
  <2>1. UnderWay
    BY <1>4 DEF RunEnds
  <2> DEFINE Ended(st, end) ==
               [LastRun EXCEPT !.status = st, !.ended = clock, !.file = end,
                               !.closed = IF @ = None /\ LastRun.session # None THEN clock ELSE @]
  <2>2. \E st \in {"completed", "failed"}, end \in {None, clock} : Changes(Ended(st, end))
    BY <1>4, Zenon DEF RunEnds
  <2> HIDE DEF Ended
  <2>5. PICK st \in {"completed", "failed"}, end \in {None, clock} : Changes(Ended(st, end))
    BY <2>2
  <2> USE DEF Ended
  <2> DEFINE new == Ended(st, end)
  <2>3. new \in RunState /\ new.started = LastRun.started /\ new.session = LastRun.session
    BY <2>1, LastIs DEF RunState, Moment
  <2>4. Changes(new)
    BY <2>5
  <2> HIDE DEF new
  <2> QED
    BY <2>1, <2>3, <2>4, LastIs, RunChanges
<1>6. CASE RunStops
  <2> DEFINE new == [LastRun EXCEPT !.status = "unknown", !.ended = clock]
  <2>1. UnderWay /\ Changes(new)
    BY <1>6 DEF RunStops
  <2>2. new \in RunState /\ new.started = LastRun.started /\ new.session = LastRun.session
    BY <2>1, LastIs DEF RunState, Moment
  <2> HIDE DEF new
  <2> QED
    BY <2>1, <2>2, LastIs, RunChanges
<1>5. CASE UNCHANGED resultVars
  BY <1>5 DEF resultVars, ResultsInv
<1> QED
  BY <1>1, <1>2, <1>3, <1>4, <1>5, <1>6 DEF ResultsNext

\* Every step of the services is a step of the results or leaves them alone.
LEMMA ResultsSteps == [ServicesNext]_servicesVars => [ResultsNext]_resultVars
BY DEF ServicesNext, servicesVars

\* The times of runs and sessions keep their distances in every reachable state.
THEOREM ResultsInvariant == ServicesSpec => []ResultsInv
<1>1. ServicesInit => ResultsInv
  BY ResultsInitInv DEF ServicesInit
<1> QED
  BY <1>1, ResultsNextInv, ResultsSteps, PTL DEF ServicesSpec

\* Among starts that lie more than twice the lag apart, a session is nearest to
\* the start of its own run.
LEMMA OwnIsNearest ==
  ASSUME 2 * Lag < Gap, ResultsInv, NEW i \in DOMAIN runs, runs[i].session # None
  PROVE  ExecutionOf(i) \in {0, i}
<1> DEFINE t == runs[i].session
           times == [k \in DOMAIN runs |-> runs[k].started]
           near == Near(times, t)
           best == {k \in near : \A l \in near : Apart(times[k], t) <= Apart(times[l], t)}
<1>1. ExecutionOf(i) = IF near = {} THEN 0 ELSE Max(best)
  BY DEF ExecutionOf, Nearest
<1>2. DOMAIN runs = 1..Len(runs) /\ Len(runs) \in Nat /\ DOMAIN times = DOMAIN runs
  BY DEF ResultsInv
<1>11. \A k \in DOMAIN runs : times[k] = runs[k].started /\ runs[k].started \in Nat
  BY <1>2, RunFields
<1>3. t \in Nat /\ \A k \in DOMAIN runs : times[k] \in Nat /\ times[k] # None
  BY <1>2, <1>11, RunFields DEF None
<1>4. t - times[i] \in 0..Lag
  BY <1>2, <1>11, RunFields
<1>5. \A k \in DOMAIN runs : k # i => times[k] - times[i] >= Gap \/ times[i] - times[k] >= Gap
  <2>1. \A k, l \in 1..Len(runs) : k < l => runs[l].started - runs[k].started >= Gap
    BY DEF ResultsInv
  <2> QED
    BY <1>2, <1>11, <2>1
<1> HIDE DEF t, times
<1>6. \A k \in DOMAIN runs : k # i => Apart(times[i], t) < Apart(times[k], t)
  <2> SUFFICES ASSUME NEW k \in DOMAIN runs, k # i PROVE Apart(times[i], t) < Apart(times[k], t)
    OBVIOUS
  <2>1. Lag \in Nat /\ Gap \in Nat /\ times[i] \in Nat /\ times[k] \in Nat
    BY <1>3, ResultsAssumption
  <2>2. times[k] - times[i] >= Gap \/ times[i] - times[k] >= Gap
    BY <1>5
  <2> QED
    BY <1>3, <1>4, <2>1, <2>2 DEF Apart
<1>7. \A k \in DOMAIN runs : Apart(times[k], t) \in Nat
  BY <1>3 DEF Apart
<1>8. \A k \in near : k \in DOMAIN runs /\ Apart(times[k], t) <= Window
  BY <1>2 DEF Near
<1>9. CASE near = {}
  BY <1>1, <1>9
<1>10. CASE near # {}
  <2>1. i \in near
    <3>1. PICK k \in near : TRUE
      BY <1>10
    <3>2. Apart(times[i], t) <= Window
      BY <1>6, <1>7, <1>8, <3>1, ResultsAssumption
    <3> QED
      BY <1>2, <1>3, <3>2 DEF Near
  <2> HIDE DEF near
  <2>2. best = {i}
    BY <1>6, <1>7, <1>8, <2>1
  <2>3. \A m : (m \in {i} /\ \A y \in {i} : m >= y) <=> m = i
    BY <1>2
  <2> HIDE DEF best
  <2>4. Max(best) = i
    BY <1>2, <2>2 DEF Max
  <2> QED
    BY <1>1, <1>10, <2>4
<1> QED
  BY <1>9, <1>10

\* A row of the run history never shows the outcome of another run, even when
\* two runs start within the window, as long as Hermes opens the session of a
\* run in less than half of the time between two starts (find_session_for_execution
\* and match_execution, cron_results.py).
THEOREM OwnOutcome ==
  ASSUME 2 * Lag < Gap
  PROVE  ServicesSpec => []OwnStatus
<1>1. ResultsInv => OwnStatus
  <2> SUFFICES ASSUME ResultsInv, NEW i \in DOMAIN runs, runs[i].session # None
               PROVE  RowStatus(i) \in {"running", "unknown", Told(runs[i].status)}
    BY DEF OwnStatus
  <2>1. ExecutionOf(i) \in {0, i}
    BY OwnIsNearest
  <2> QED
    BY <2>1 DEF RowStatus
<1> QED
  BY <1>1, ResultsInvariant, PTL

-----------------------------------------------------------------------------
(* All of them *)

\* What is proved of one service alone holds of it among the others: their
\* steps leave its variables alone.
LEMMA OAuthAmongThem == ServicesSpec => OAuthSpec
<1>1. ServicesInit => OAuthInit
  BY DEF ServicesInit
<1>2. [ServicesNext]_servicesVars => [OAuthNext]_oauthVars
  BY DEF ServicesNext, servicesVars
<1> QED
  BY <1>1, <1>2, PTL DEF ServicesSpec, OAuthSpec

LEMMA ArtifactsAmongThem == ServicesSpec => ArtifactsSpec
<1>1. ServicesInit => ArtifactsInit
  BY DEF ServicesInit
<1>2. [ServicesNext]_servicesVars => [ArtifactsNext]_artifactVars
  BY DEF ServicesNext, servicesVars
<1> QED
  BY <1>1, <1>2, PTL DEF ServicesSpec, ArtifactsSpec

\* Uploads among the other services keep what ConversationFilesProofs says.
LEMMA UploadsAmongThem == ServicesSpec => []FilesInv
<1>1. ServicesInit => FilesInv
  BY FilesInitInv DEF ServicesInit
<1>2. [ServicesNext]_servicesVars => [FilesNext]_filesVars
  BY DEF ServicesNext, servicesVars
<1> QED
  BY <1>1, <1>2, FilesNextInv, PTL DEF ServicesSpec

\* When a revocation has ended, no session that continues the one it names reads
\* a file of that conversation, however many sessions there are and whatever
\* Hermes compresses meanwhile, unless the file was bound again since
\* (revoke_binding, bound_file, conversation_files_prepare.py).
THEOREM RevocationReaches == ServicesSpec => RevokedGone
<1>1. [ServicesNext]_servicesVars => [FilesNext]_filesVars
  BY DEF ServicesNext, servicesVars
<1>2. FilesInv /\ [FilesNext]_filesVars =>
        [revoke # NoRevoke /\ revoke' = NoRevoke /\ crashes' = crashes =>
           \A x \in Sessions : revoke.session \in older[x] =>
             \A b \in bound' : b[2] \in older[x] /\ Conversation[b[1]] = revoke.conversation
                                 => b \in revoke.since]_filesVars
  BY RevokedStays
<1> QED
  BY <1>1, <1>2, UploadsAmongThem, PTL DEF ServicesSpec, RevokedGone

LEMMA JobTypes == CronInv => CronTypeOK
<1> SUFFICES ASSUME CronInv PROVE CronTypeOK
  OBVIOUS
<1>1. \A j \in Jobs : cronjob[j].profile \in profiles \cup {"none"} /\ cronjob[j].state \in States
  BY DEF CronInv, CronShapes
<1> QED
  BY <1>1 DEF CronInv, CronShapes, CronTypeOK

LEMMA ResultTypes == ResultsInv => ResultsTypeOK
<1> SUFFICES ASSUME ResultsInv PROVE ResultsTypeOK
  OBVIOUS
<1>1. DOMAIN runs = 1..Len(runs)
  BY DEF ResultsInv
<1>2. ASSUME NEW i \in DOMAIN runs
      PROVE  /\ {runs[i].ended, runs[i].session, runs[i].closed, runs[i].file} \subseteq 0..MaxClock \cup {None}
             /\ runs[i].status \in {"running", "completed", "failed", "unknown"}
  <2>1. runs[i] \in RunState
    BY <1>1, RunFields
  <2> QED
    BY <2>1 DEF RunState, Moment
<1> QED
  BY <1>2 DEF ResultsInv, ResultsTypeOK

\* Types of every service of a profile, however many requests are under way: a
\* key in _STARTING has its request, no artifact has more versions than are
\* kept, no card is its own ancestor, and no more keys are out than requests
\* have begun.
THEOREM ServicesTyped == ServicesSpec => []ServicesTypeOK
<1>1. ServicesSpec => []FilesTypeOK
  BY UploadsAmongThem, FilesTypes, PTL
<1>2. ServicesSpec => []OAuthTypeOK
  BY OAuthAmongThem, OAuthTypeCorrect, PTL
<1>3. ServicesSpec => []ArtifactsTypeOK
  BY ArtifactsAmongThem, ArtifactTypes, PTL
<1>4. ServicesSpec => []HomeTypeOK
  BY HomeBounded, HomeTypes, PTL
<1>5. ServicesSpec => []CronTypeOK
  BY JobsInvariant, JobTypes, PTL
<1>6. ServicesSpec => []ResultsTypeOK
  BY ResultsInvariant, ResultTypes, PTL
<1> QED
  BY <1>1, <1>2, <1>3, <1>4, <1>5, <1>6, ConnTypes, CardTypes, PTL DEF ServicesTypeOK

=============================================================================
