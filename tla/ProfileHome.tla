---------------------------- MODULE ProfileHome ----------------------------
(***************************************************************************)
(* The home of one profile: its creation (with a copy of the model         *)
(* settings of default, the plugin for its workers and an API key), its    *)
(* deletion, and the requests that change config.yaml and .env.            *)
(*                                                                         *)
(* A request reads a file, changes what it has read and replaces the whole *)
(* file.  Nothing excludes two requests from one another but the lock of   *)
(* the approval policy, which its own requests take.  An operator edits    *)
(* the files by hand as well.  Every step of a request may fail, and       *)
(* creation goes on with the next part and says so in its answer.          *)
(*                                                                         *)
(* config.yaml is the set of marks that its writers have left in it.       *)
(***************************************************************************)
EXTENDS Naturals

CONSTANTS HomeRequests, \* requests that may be in flight together
          MaxStarted    \* bound on requests and edits by hand

ASSUME HomeAssumption == MaxStarted \in Nat

VARIABLES
  dir,     \* "none", "made" by Hermes, or "bits": what a late write brought back
  wrapper, \* whether the wrapper script is there
  service, \* whether the profile has a unit of its own
  conf,    \* the marks in config.yaml
  env,     \* .env: the API key and other lines
  link,    \* plugins/deskrpg: "none", "linked" or "other"
  req,     \* req[r]: what request r does next and what it has read
  handed,  \* the key that was handed out last, 0 for none
  kept,    \* marks that somebody has set and nobody has taken away
  apart,   \* whether no two have overlapped that take no common lock
  started  \* requests and edits so far

homeVars == <<dir, wrapper, service, conf, env, link, req, handed, kept, apart, started>>

NoRequest == [does |-> "nothing", for |-> "nobody"]
Busy(r) == req[r] # NoRequest
NoEnv == [key |-> 0, lines |-> {}]
PutMarks == {"model", "toolsets"}
AllowMarks == {"entry1", "entry2"}
Marks == PutMarks \cup AllowMarks \cup {"clone", "plugin", "off", "broken"}

Exists == dir # "none"
RequestGoes(r, what) == req' = [req EXCEPT ![r].does = what]
RequestEnds(r) == req' = [req EXCEPT ![r] = NoRequest]

RequestBegins(r, job) ==
  /\ ~Busy(r) /\ started < MaxStarted /\ started' = started + 1
  /\ req' = [req EXCEPT ![r] = job]
  /\ apart' = (apart /\ \A q \in HomeRequests : Busy(q) => req[q].for = "allow" /\ job.for = "allow")
  /\ UNCHANGED <<dir, wrapper, service, conf, env, link, handed, kept>>

\* A write makes the directory when it is not there.
Written == IF dir = "none" THEN "bits" ELSE dir

\* config.yaml is replaced by what the request has read, with its change.
Replace(r, add, drop) ==
  /\ conf' = (req[r].conf \cup add) \ drop
  /\ kept' = (kept \cup add) \ drop
  /\ dir' = Written

-----------------------------------------------------------------------------
(* Creation *)

CreateProfile(r, clone) ==
  ~Exists /\ RequestBegins(r, [does |-> "make", for |-> "create", clone |-> clone, conf |-> {}, env |-> NoEnv])

\* Hermes makes the tree and the wrapper, or finds that somebody else has.
Make(r) ==
  /\ req[r].does = "make"
  /\ IF Exists THEN RequestEnds(r) /\ UNCHANGED <<dir, wrapper, conf, env, link, kept, handed>>
     ELSE /\ dir' = "made" /\ wrapper' = TRUE /\ conf' = {} /\ env' = NoEnv /\ link' = "none"
          /\ kept' = {} /\ handed' = 0
          /\ RequestGoes(r, IF req[r].clone THEN "clone read" ELSE "worker read")
  /\ UNCHANGED <<service, apart, started>>

CloneRead(r) ==
  /\ req[r].does = "clone read" /\ "broken" \notin conf
  /\ req' = [req EXCEPT ![r].does = "clone save", ![r].conf = conf]
  /\ UNCHANGED <<dir, wrapper, service, conf, env, link, handed, kept, apart, started>>

CloneSave(r) ==
  /\ req[r].does = "clone save"
  /\ Replace(r, {"clone"}, {})
  /\ RequestGoes(r, "clone env")
  /\ UNCHANGED <<wrapper, service, env, link, handed, apart, started>>

\* upsert_lines: what has been read, with the lines of default
LinesAdded(r) == env' = [req[r].env EXCEPT !.lines = @ \cup {"clone"}]

ReadEnvFor(r, now, then) ==
  /\ req[r].does = now
  /\ req' = [req EXCEPT ![r].does = then, ![r].env = env]
  /\ UNCHANGED <<dir, wrapper, service, conf, env, link, handed, kept, apart, started>>

CloneEnvSave(r) ==
  /\ req[r].does = "clone env save"
  /\ LinesAdded(r) /\ dir' = Written
  /\ RequestGoes(r, "worker read")
  /\ UNCHANGED <<wrapper, service, conf, link, handed, kept, apart, started>>

\* CloneFailed; creation goes on.
CloneFails(r) ==
  /\ req[r].does \in {"clone read", "clone save", "clone env", "clone env save"}
  /\ RequestGoes(r, "worker read")
  /\ UNCHANGED <<dir, wrapper, service, conf, env, link, handed, kept, apart, started>>

-----------------------------------------------------------------------------
(* The plugin for the profile's workers: at creation and by a route *)

Worker(r) == Exists /\ RequestBegins(r, [does |-> "worker read", for |-> "worker", conf |-> {}, env |-> NoEnv])

LeaveWorker(r) == IF req[r].for = "create" THEN RequestGoes(r, "key read") ELSE RequestEnds(r)

WorkerRead(r) ==
  /\ req[r].does = "worker read" /\ Exists /\ "broken" \notin conf
  /\ req' = [req EXCEPT ![r].does = "worker link", ![r].conf = conf]
  /\ UNCHANGED <<dir, wrapper, service, conf, env, link, handed, kept, apart, started>>

\* A link is made where nothing is, and what else is there stays.
LinkIfMissing == link' = IF link = "none" THEN "linked" ELSE link

WorkerLink(r) ==
  /\ req[r].does = "worker link"
  /\ LinkIfMissing
  /\ dir' = Written
  /\ RequestGoes(r, "worker save")
  /\ UNCHANGED <<wrapper, service, conf, env, handed, kept, apart, started>>

MayEnable(r) == {"plugin", "off"} \cap req[r].conf = {}

WorkerSave(r) ==
  /\ req[r].does = "worker save"
  /\ IF MayEnable(r) THEN Replace(r, {"plugin"}, {}) ELSE UNCHANGED <<conf, kept, dir>>
  /\ LeaveWorker(r)
  /\ UNCHANGED <<wrapper, service, env, link, handed, apart, started>>

\* Propagation is off, the profile is gone, the file is unreadable, an OSError.
WorkerFails(r) ==
  /\ req[r].does \in {"worker read", "worker link", "worker save"}
  /\ LeaveWorker(r)
  /\ UNCHANGED <<dir, wrapper, service, conf, env, link, handed, kept, apart, started>>

-----------------------------------------------------------------------------
(* Keys, and other lines of .env *)

\* One request for a key at a time: it runs on the event loop without a pause.
Key(r, rotate) ==
  /\ Exists /\ (env.key = 0 \/ rotate)
  /\ \A q \in HomeRequests : Busy(q) => req[q].for # "key"
  /\ RequestBegins(r, [does |-> "key read", for |-> "key", conf |-> {}, env |-> NoEnv])

ProviderKey(r) ==
  Exists /\ RequestBegins(r, [does |-> "line read", for |-> "line", conf |-> {}, env |-> NoEnv])

\* The key is made, written, and handed out once.
KeySave(r) ==
  /\ req[r].does = "key save"
  /\ env' = [req[r].env EXCEPT !.key = handed + 1] /\ dir' = Written
  /\ handed' = handed + 1
  /\ RequestEnds(r)
  /\ UNCHANGED <<wrapper, service, conf, link, kept, apart, started>>

\* (slip) the key is handed out although it could not be written
KeyToldAnyway(r) ==
  /\ req[r].does \in {"key read", "key save"}
  /\ handed' = handed + 1
  /\ RequestEnds(r)
  /\ UNCHANGED <<dir, wrapper, service, conf, env, link, kept, apart, started>>

\* keyIssued: false, or 500 from the route
KeyFails(r) ==
  /\ req[r].does \in {"key read", "key save"}
  /\ RequestEnds(r)
  /\ UNCHANGED <<dir, wrapper, service, conf, env, link, handed, kept, apart, started>>

LineSave(r) ==
  /\ req[r].does = "line save"
  /\ \E gone \in BOOLEAN :
       env' = [req[r].env EXCEPT !.lines = IF gone THEN @ \ {"provider"} ELSE @ \cup {"provider"}]
  /\ dir' = Written
  /\ RequestEnds(r)
  /\ UNCHANGED <<wrapper, service, conf, link, handed, kept, apart, started>>

-----------------------------------------------------------------------------
(* Requests that change config.yaml *)

\* PUT of the configuration, which waits for the known names between its read
\* and its save; the choice of a tool's provider reads and saves alike.
PutConfig(r, m) ==
  Exists /\ RequestBegins(r, [does |-> "put read", for |-> "put", mark |-> m, conf |-> {}, env |-> NoEnv])

\* The modes and the allowlist of unattended runs.
Allow(r, m) ==
  Exists /\ RequestBegins(r, [does |-> "put read", for |-> "allow", mark |-> m, conf |-> {}, env |-> NoEnv])

\* (slip) the requests of the approval policy do not exclude one another
NoLock(r) == TRUE

HasPolicyLock(r) == req[r].for = "allow" =>
                \A q \in HomeRequests : req[q].does = "put save" => req[q].for # "allow"

\* (slip) a file that cannot be parsed counts as empty
LoadedAnyway(r) == req[r].does = "put read" /\
  req' = [req EXCEPT ![r].does = "put save", ![r].conf = IF "broken" \in conf THEN {} ELSE conf]

\* A file that cannot be parsed is refused and left as it is.
Loaded(r) == req[r].does = "put read" /\
  req' = [req EXCEPT ![r] = IF "broken" \in conf THEN NoRequest ELSE [@ EXCEPT !.does = "put save", !.conf = conf]]

PutRead(r) ==
  /\ HasPolicyLock(r) /\ Loaded(r)
  /\ UNCHANGED <<dir, wrapper, service, conf, env, link, handed, kept, apart, started>>

PutSave(r) ==
  /\ req[r].does = "put save"
  /\ Replace(r, {req[r].mark}, {}) \/ Replace(r, {}, {req[r].mark})
  /\ RequestEnds(r)
  /\ UNCHANGED <<wrapper, service, env, link, handed, apart, started>>

\* A read or a write fails, or the check of what the request asks for.
PutFails(r) ==
  /\ req[r].does \in {"put read", "put save", "line read", "line save"}
  /\ RequestEnds(r)
  /\ UNCHANGED <<dir, wrapper, service, conf, env, link, handed, kept, apart, started>>

-----------------------------------------------------------------------------
(* Deletion, and the operator *)

DeleteProfile(r) == Exists /\ RequestBegins(r, [does |-> "wrapper", for |-> "delete", conf |-> {}, env |-> NoEnv])

RemoveWrapper(r) ==
  /\ req[r].does = "wrapper"
  /\ wrapper' = FALSE
  /\ RequestGoes(r, "tree")
  /\ UNCHANGED <<dir, service, conf, env, link, handed, kept, apart, started>>

\* profile_has_service, or the tree goes.
DeleteTree(r) ==
  /\ req[r].does = "tree"
  /\ IF service \/ ~Exists THEN UNCHANGED <<dir, conf, env, link, kept, handed>>
     ELSE dir' = "none" /\ conf' = {} /\ env' = NoEnv /\ link' = "none" /\ kept' = {} /\ handed' = 0
  /\ RequestEnds(r)
  /\ UNCHANGED <<wrapper, service, apart, started>>

\* rmtree stops half way: some of the files are gone, and the directory is there.
TreeFails(r) ==
  /\ req[r].does = "tree" /\ ~service /\ Exists
  /\ \/ UNCHANGED <<conf, kept>>
     \/ conf' = {} /\ kept' = {}
  /\ \/ UNCHANGED <<env, handed>>
     \/ env' = NoEnv /\ handed' = 0
  /\ link' \in {link, "none"}
  /\ RequestEnds(r)
  /\ UNCHANGED <<dir, wrapper, service, apart, started>>

\* By hand: the plugin is switched off, or config.yaml broken or mended; a
\* directory is put where the link would be; a service is installed.
Operator ==
  /\ Exists /\ started < MaxStarted /\ started' = started + 1
  /\ apart' = (apart /\ \A r \in HomeRequests : ~Busy(r))
  /\ \/ /\ conf' = (conf \ {"plugin"}) \cup {"off"} /\ kept' = (kept \ {"plugin"}) \cup {"off"}
        /\ UNCHANGED <<link, service>>
     \/ \E broken \in {{}, {"broken"}} :
          /\ conf' = (conf \ {"broken"}) \cup broken /\ kept' = (kept \ {"broken"}) \cup broken
          /\ UNCHANGED <<link, service>>
     \/ link = "none" /\ link' = "other" /\ UNCHANGED <<conf, kept, service>>
     \/ service' = ~service /\ UNCHANGED <<conf, kept, link>>
  /\ UNCHANGED <<dir, wrapper, env, req, handed>>

-----------------------------------------------------------------------------

HomeInit ==
  /\ dir = "none" /\ wrapper = FALSE /\ service = FALSE
  /\ conf = {} /\ env = NoEnv /\ link = "none"
  /\ req = [r \in HomeRequests |-> NoRequest]
  /\ handed = 0 /\ kept = {} /\ apart = TRUE /\ started = 0

HomeNext ==
  \/ \E r \in HomeRequests :
       \/ \E clone \in BOOLEAN : CreateProfile(r, clone)
       \/ Make(r)
       \/ CloneRead(r)
       \/ CloneSave(r)
       \/ ReadEnvFor(r, "clone env", "clone env save")
       \/ CloneEnvSave(r)
       \/ CloneFails(r)
       \/ Worker(r)
       \/ WorkerRead(r)
       \/ WorkerLink(r)
       \/ WorkerSave(r)
       \/ WorkerFails(r)
       \/ \E rotate \in BOOLEAN : Key(r, rotate)
       \/ ReadEnvFor(r, "key read", "key save")
       \/ KeySave(r)
       \/ KeyFails(r)
       \/ ProviderKey(r)
       \/ ReadEnvFor(r, "line read", "line save")
       \/ LineSave(r)
       \/ \E m \in PutMarks : PutConfig(r, m)
       \/ \E m \in AllowMarks : Allow(r, m)
       \/ PutRead(r)
       \/ PutSave(r)
       \/ PutFails(r)
       \/ DeleteProfile(r)
       \/ RemoveWrapper(r)
       \/ DeleteTree(r)
       \/ TreeFails(r)
  \/ Operator

-----------------------------------------------------------------------------

HomeTypeOK ==
  /\ dir \in {"none", "made", "bits"} /\ {wrapper, service, apart} \subseteq BOOLEAN
  /\ conf \subseteq Marks /\ kept \subseteq Marks
  /\ env.key \in 0..MaxStarted /\ env.lines \subseteq {"clone", "provider"}
  /\ link \in {"none", "linked", "other"}
  /\ dir = "bits" => ~apart
  /\ started \in 0..MaxStarted /\ handed \in 0..MaxStarted

\* While nobody overlaps, and however requests of the approval policy overlap
\* among themselves, no request loses what another one or the operator has
\* written to config.yaml ("write only skills.disabled, other keys as they are",
\* config.py:184); and the key that was handed out last is the one that works,
\* whichever steps of a creation have failed (profiles.py:133).
ConfigKept ==
  apart =>
    /\ kept \subseteq conf
    /\ dir = "made" /\ (\A r \in HomeRequests : ~Busy(r)) => env.key = handed

\* config.yaml keeps everything whatever overlaps, which the writers that take no
\* lock do not see to.
ConfigAlwaysKept == kept \subseteq conf

\* A deletion that is refused because the profile has a service of its own
\* deletes nothing: the wrapper is still there.  ("nothing was deleted",
\* profiles.py:192; test_profiles.py:244)
RefusalDeletesNothing ==
  [][\A r \in HomeRequests :
       apart /\ Exists /\ service /\ req[r].does = "tree" /\ ~Busy(r)' => wrapper]_homeVars

=============================================================================
