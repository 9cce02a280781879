------------------------- MODULE ConversationFiles -------------------------
(***************************************************************************)
(* The originals of a conversation, and the copies an execution reads.     *)
(*                                                                         *)
(* An original is a row of manifest.sqlite and a blob beside it; a copy is *)
(* a row and a file in the cache of a profile.  Rows change in             *)
(* transactions, the files before the commit.  A prepare takes a lease     *)
(* first, reads, copies, has the agent's backend read the copy, and gives  *)
(* a receipt after a last look at the binding; between those, the file is  *)
(* linked, revoked, deleted and swept by others.                           *)
(*                                                                         *)
(* Hermes compresses a session into a new one.  A binding is of one        *)
(* session, and the new session reads through those it continues.          *)
(*                                                                         *)
(* Time is abstracted to what the code compares: a lease is live until it  *)
(* expires, an original or a blob is young until it is old.  One profile.  *)
(***************************************************************************)
EXTENDS Naturals, FiniteSets

CONSTANTS Files,        \* uploads, each the request of one conversation
          Conversation, \* Conversation[f]: the conversation f was uploaded to
          Empty,        \* the uploads of no bytes
          Messages,     \* messages an upload may be linked to
          Sessions,     \* sessions of the profile
          Requests,     \* request ids of prepares
          Preparers,    \* prepares and executions that may be in flight together
          MaxCount,     \* files a message may have (MAX_COUNT)
          Quota,        \* originals of one unit each that the store may hold
          CacheQuota,   \* copies of one unit each that the profile may hold
          MaxCrashes    \* bound on stops of the gateway

ASSUME FilesAssumption == MaxCrashes \in Nat

NoRevoke == [left |-> {}]

VARIABLES
  file,    \* file[f]: the row: state, bytes > 0, linked, and whether it is old
  blob,    \* the originals whose blob is in place
  stray,   \* stray[n]: the blob without a row that stop n of the gateway left
  links,   \* rows of links: <<file, message>>
  bound,   \* bindings that are not revoked: <<file, session>>
  older,   \* older[s]: the sessions s continues and s itself; {} before it begins
  revoke,  \* the revocation under way, and the sessions it still has to do
  asked,   \* asked[r]: the row of prepare_requests for r and its lease
  copies,  \* files with a row in copies
  cached,  \* files with a copy in the profile's cache directory
  prep,    \* prep[p]: how far a prepare is, and for which request
  sweep,   \* the cleanup task: its phase and the ids it still has to delete
  crashes

filesVars == <<file, blob, stray, links, bound, older, revoke, asked, copies, cached, prep, sweep, crashes>>
sessionVars == <<older, revoke>>

Stops == 1..MaxCrashes

NewFile == [state |-> "none", sized |-> FALSE, linked |-> FALSE, old |-> FALSE]
NoPrepare == [phase |-> "idle"]
NotAsked == [lease |-> "none"]

FileOf(p) == asked[prep[p].request].file

Leased(f) == \E r \in Requests : asked[r].lease = "live" /\ asked[r].file = f

-----------------------------------------------------------------------------
(* Originals: upload, link, bind, revoke *)

Used == Cardinality({g \in Files : file[g].sized})

\* A retry of an upload finds its row and changes nothing; a deleted one is a
\* conflict.
Upload(f) ==
  /\ file[f].state = "none"
  /\ Used + (IF f \in Empty THEN 0 ELSE 1) <= Quota
  /\ file' = [file EXCEPT ![f] = [NewFile EXCEPT !.state = "kept", !.sized = f \notin Empty]]
  /\ blob' = blob \cup {f}
  /\ UNCHANGED <<stray, links, bound, asked, copies, cached, prep, sweep, crashes, sessionVars>>

LinkFile(f, m) ==
  /\ file[f].state = "kept"
  /\ \/ <<f, m>> \in links
     \/ Cardinality({g \in Files : /\ <<g, m>> \in links
                                   /\ Conversation[g] = Conversation[f]
                                   /\ file[g].state = "kept"}) < MaxCount
  /\ links' = links \cup {<<f, m>>}
  /\ file' = [file EXCEPT ![f].linked = TRUE]
  /\ UNCHANGED <<blob, stray, bound, asked, copies, cached, prep, sweep, crashes, sessionVars>>

-----------------------------------------------------------------------------
(* Sessions: Hermes begins them and compresses one into another; a file is   *)
(* bound to one of them *)

SessionBegins(s) ==
  /\ older[s] = {}
  /\ older' = [older EXCEPT ![s] = {s}]
  /\ UNCHANGED <<file, blob, stray, links, bound, revoke, asked, copies, cached, prep, sweep, crashes>>

Compress(s, t) ==
  /\ older[s] # {} /\ older[t] = {}
  /\ \A x \in Sessions \ {s} : s \notin older[x]
  /\ older' = [older EXCEPT ![t] = older[s] \cup {t}]
  /\ UNCHANGED <<file, blob, stray, links, bound, revoke, asked, copies, cached, prep, sweep, crashes>>

\* What is refused is a second conversation for this very session; that of a
\* session it continues is not looked at.
IssueGrant(f, s) ==
  /\ file[f].state = "kept" /\ older[s] # {}
  /\ \A g \in Files : <<g, s>> \in bound => Conversation[g] = Conversation[f]
  /\ bound' = bound \cup {<<f, s>>}
  /\ revoke' = IF revoke = NoRevoke THEN NoRevoke ELSE [revoke EXCEPT !.since = @ \cup {<<f, s>>}]
  /\ UNCHANGED <<file, blob, stray, links, older, asked, copies, cached, prep, sweep, crashes>>

\* authorized_sessions, list_bound, bound_file
MayRead(f, s) == \E a \in older[s] : <<f, a>> \in bound

\* (slip) the session that is named
Named(s) == {s}

\* The sessions s continues and those that continue it.
Lineage(s) == {x \in Sessions : x \in older[s] \/ s \in older[x]}

\* A revocation reads the lineage, and takes the bindings of one session after
\* the other; "since" are the bindings that are given meanwhile.
BeginRevoke(c, s) ==
  /\ revoke = NoRevoke /\ older[s] # {}
  /\ revoke' = [conversation |-> c, session |-> s, left |-> Lineage(s), since |-> {}]
  /\ UNCHANGED <<file, blob, stray, links, bound, older, asked, copies, cached, prep, sweep, crashes>>

RevokeNext(s) ==
  /\ revoke # NoRevoke /\ s \in revoke.left
  /\ bound' = {b \in bound : b[2] # s \/ Conversation[b[1]] # revoke.conversation}
  /\ revoke' = IF revoke.left = {s} THEN NoRevoke ELSE [revoke EXCEPT !.left = @ \ {s}]
  /\ UNCHANGED <<file, blob, stray, links, older, asked, copies, cached, prep, sweep, crashes>>

-----------------------------------------------------------------------------
(* Deletion *)

\* (slip) the copies' leases are not looked at
Removable(f, lost) == TRUE

\* No lease but the one given up protects f.
Unprotected(f, lost) ==
  \A r \in Requests \ lost : asked[r].lease = "live" => asked[r].file # f

\* (slip) the row is cleared and the original left where it is
ClearRow(f, lost) ==
  /\ file' = [file EXCEPT ![f].state = "deleted", ![f].sized = ~Unprotected(f, lost)]
  /\ UNCHANGED <<cached, blob, copies, links>>

\* _delete_ready: what is left when f is deleted and nothing protects it.
DeleteReady(f, lost) ==
  IF Unprotected(f, lost)
  THEN /\ cached' = cached \ ({f} \cap copies)
       /\ blob' = blob \ {f}
       /\ copies' = copies \ {f}
       /\ links' = links \ ({f} \X Messages)
       /\ file' = [file EXCEPT ![f].state = "deleted", ![f].sized = FALSE]
  ELSE /\ file' = [file EXCEPT ![f].state = "deleted"]
       /\ UNCHANGED <<cached, blob, copies, links>>

DeleteFile(f) ==
  /\ file[f].state # "none"
  /\ bound' = bound \ ({f} \X Sessions)
  /\ DeleteReady(f, {})

PersonDeletes(f) ==
  /\ DeleteFile(f)
  /\ UNCHANGED <<stray, asked, prep, sweep, crashes, sessionVars>>

-----------------------------------------------------------------------------
(* Prepare, and the execution that reads the copy *)

\* authorize_grant and bound_file, then acquire_lease; what was checked before
\* the lease is checked again at the end.  The lease is of the session s of the
\* binding, the reader of a session that continues it.  A request id stays with
\* its file.
AcquireLease(p, r, f, s, reader) ==
  /\ prep[p] = NoPrepare
  /\ file[f].state = "kept" /\ <<f, s>> \in bound /\ s \in older[reader]
  /\ asked[r] # NotAsked => asked[r].file = f /\ asked[r].session = s
  /\ asked' = [asked EXCEPT ![r] = [lease |-> "live", file |-> f, session |-> s]]
  /\ prep' = [prep EXCEPT ![p] = [phase |-> "leased", request |-> r, reader |-> reader]]
  /\ UNCHANGED <<file, blob, stray, links, bound, copies, cached, sweep, crashes, sessionVars>>

Reaches(p, phase) == prep' = [prep EXCEPT ![p].phase = phase]

ReadOriginal(p) ==
  /\ prep[p].phase = "leased"
  /\ file[FileOf(p)].state = "kept" /\ FileOf(p) \in blob
  /\ Reaches(p, "read")
  /\ UNCHANGED <<file, blob, stray, links, bound, asked, copies, cached, sweep, crashes, sessionVars>>

\* The transaction around the copy looks at the row again.
MayPlace(p) ==
  /\ file[FileOf(p)].state = "kept"
  /\ Cardinality(copies \ {FileOf(p)}) < CacheQuota

PlaceCopy(p) ==
  /\ prep[p].phase = "read" /\ MayPlace(p)
  /\ cached' = cached \cup {FileOf(p)}
  /\ copies' = copies \cup {FileOf(p)}
  /\ Reaches(p, "copied")
  /\ UNCHANGED <<file, blob, stray, links, bound, asked, sweep, crashes, sessionVars>>

\* The backend reads the copy, and the binding is looked at once more.
GiveReceipt(p) ==
  /\ prep[p].phase = "copied"
  /\ FileOf(p) \in cached
  /\ file[FileOf(p)].state = "kept" /\ MayRead(FileOf(p), prep[p].reader)
  /\ Reaches(p, "ready")
  /\ UNCHANGED <<file, blob, stray, links, bound, asked, copies, cached, sweep, crashes, sessionVars>>

\* Any error of a prepare; and an execution whose process ends.  The lease
\* stays, another execution may share it.
Fail(p) ==
  /\ prep[p] # NoPrepare
  /\ prep' = [prep EXCEPT ![p] = NoPrepare]
  /\ UNCHANGED <<file, blob, stray, links, bound, asked, copies, cached, sweep, crashes, sessionVars>>

ReleaseLease(p) ==
  /\ prep[p].phase = "ready"
  /\ asked' = [asked EXCEPT ![prep[p].request].lease = "released"]
  /\ prep' = [prep EXCEPT ![p] = NoPrepare]
  /\ IF file[FileOf(p)].state = "deleted"
     THEN DeleteReady(FileOf(p), {prep[p].request})
     ELSE UNCHANGED <<file, blob, links, copies, cached>>
  /\ UNCHANGED <<stray, bound, sweep, crashes, sessionVars>>

\* A renewal keeps a live lease live; this is the end of renewing.
Expire(r) ==
  /\ asked[r].lease = "live"
  /\ asked' = [asked EXCEPT ![r].lease = "expired"]
  /\ UNCHANGED <<file, blob, stray, links, bound, copies, cached, prep, sweep, crashes, sessionVars>>

AgeFile(f) ==
  /\ file[f].state # "none" /\ ~file[f].old
  /\ file' = [file EXCEPT ![f].old = TRUE]
  /\ UNCHANGED <<blob, stray, links, bound, asked, copies, cached, prep, sweep, crashes, sessionVars>>

AgeStray(n) ==
  /\ stray[n] = "young"
  /\ stray' = [stray EXCEPT ![n] = "old"]
  /\ UNCHANGED <<file, blob, links, bound, asked, copies, cached, prep, sweep, crashes, sessionVars>>

-----------------------------------------------------------------------------
(* The cleanup task *)

\* After a start of the gateway the task waits as long as a lease lasts.
EndGrace ==
  /\ sweep.phase = "grace"
  /\ sweep' = [phase |-> "idle", ids |-> {}]
  /\ UNCHANGED <<file, blob, stray, links, bound, asked, copies, cached, prep, crashes, sessionVars>>

\* (slip) what was deleted while a lease protected it is left to the release
SweepsKept(f) ==
  file[f].sized /\ ~file[f].linked /\ file[f].old /\ ~Leased(f)

Sweeps(f) ==
  /\ file[f].sized
  /\ file[f].state = "deleted" \/ (~file[f].linked /\ file[f].old /\ ~Leased(f))

SweepList ==
  /\ sweep.phase = "idle"
  /\ sweep' = [phase |-> "deleting", ids |-> {f \in Files : Sweeps(f)}]
  /\ UNCHANGED <<file, blob, stray, links, bound, asked, copies, cached, prep, crashes, sessionVars>>

SweepDelete(f) ==
  /\ f \in sweep.ids
  /\ DeleteFile(f)
  /\ sweep' = [sweep EXCEPT !.ids = @ \ {f}]
  /\ UNCHANGED <<stray, asked, prep, crashes, sessionVars>>

IdleCopies == {f \in copies : ~Leased(f)}

SweepCopies ==
  /\ sweep.phase = "deleting" /\ sweep.ids = {}
  /\ cached' = cached \ IdleCopies
  /\ copies' = copies \ IdleCopies
  /\ sweep' = [sweep EXCEPT !.phase = "blobs"]
  /\ UNCHANGED <<file, blob, stray, links, bound, asked, prep, crashes, sessionVars>>

SweepStrays ==
  /\ sweep.phase = "blobs"
  /\ stray' = [n \in Stops |-> IF stray[n] = "old" THEN "none" ELSE stray[n]]
  /\ sweep' = [sweep EXCEPT !.phase = "idle"]
  /\ UNCHANGED <<file, blob, links, bound, asked, copies, cached, prep, crashes, sessionVars>>

-----------------------------------------------------------------------------
(* The gateway stops.  Files change before the commit, so that a stop in    *)
(* between takes the change of the rows back and not that of the files.     *)

Stop ==
  /\ crashes < MaxCrashes
  /\ crashes' = crashes + 1
  /\ prep' = [p \in Preparers |-> NoPrepare]
  /\ sweep' = [phase |-> "grace", ids |-> {}]
  /\ revoke' = NoRevoke

StopAnywhere ==
  /\ Stop
  /\ UNCHANGED <<file, blob, stray, links, bound, asked, copies, cached, older>>

\* A blob that is written gets a name of its own.
StopInUpload(f) ==
  /\ Stop
  /\ file[f].state = "none"
  /\ stray' = [stray EXCEPT ![crashes + 1] = "young"]
  /\ UNCHANGED <<file, blob, links, bound, asked, copies, cached, older>>

StopInPlaceCopy(p) ==
  /\ prep[p].phase = "read" /\ MayPlace(p)
  /\ Stop
  /\ cached' = cached \cup {FileOf(p)}
  /\ UNCHANGED <<file, blob, stray, links, bound, asked, copies, older>>

\* In delete_file, from a request or from the sweep.
StopInDelete(f) ==
  /\ Stop
  /\ file[f].state # "none" /\ Unprotected(f, {})
  /\ cached' = cached \ ({f} \cap copies)
  /\ blob' = blob \ {f}
  /\ UNCHANGED <<file, stray, links, bound, asked, copies, older>>

-----------------------------------------------------------------------------

FilesInit ==
  /\ file = [f \in Files |-> NewFile]
  /\ blob = {} /\ stray = [n \in Stops |-> "none"]
  /\ links = {} /\ bound = {} /\ older = [s \in Sessions |-> {}] /\ revoke = NoRevoke
  /\ asked = [r \in Requests |-> NotAsked]
  /\ copies = {} /\ cached = {}
  /\ prep = [p \in Preparers |-> NoPrepare]
  /\ sweep = [phase |-> "grace", ids |-> {}]
  /\ crashes = 0

Sweeping == EndGrace \/ SweepList \/ SweepCopies \/ SweepStrays \/ \E f \in Files : SweepDelete(f)

FilesNext ==
  \/ \E f \in Files : Upload(f) \/ PersonDeletes(f) \/ AgeFile(f)
  \/ \E n \in Stops : AgeStray(n)
  \/ \E f \in Files, m \in Messages : LinkFile(f, m)
  \/ \E f \in Files, s \in Sessions : IssueGrant(f, s)
  \/ \E f \in Files, s \in Sessions : BeginRevoke(Conversation[f], s)
  \/ \E s \in Sessions : SessionBegins(s) \/ RevokeNext(s)
  \/ \E s, t \in Sessions : Compress(s, t)
  \/ \E p \in Preparers, r \in Requests, f \in Files, s, reader \in Sessions : AcquireLease(p, r, f, s, reader)
  \/ \E p \in Preparers : ReadOriginal(p) \/ PlaceCopy(p) \/ GiveReceipt(p) \/ Fail(p) \/ ReleaseLease(p)
  \/ \E r \in Requests : Expire(r)
  \/ Sweeping
  \/ StopAnywhere
  \/ \E f \in Files : StopInUpload(f) \/ StopInDelete(f)
  \/ \E p \in Preparers : StopInPlaceCopy(p)

-----------------------------------------------------------------------------

\* Types; a receipt or a prepare in flight has a request; what is listed for
\* the sweep was uploaded; what is bound is kept, to a session that has begun.
FilesTypeOK ==
  /\ file \in [Files -> [state : {"none", "kept", "deleted"}, sized : BOOLEAN, linked : BOOLEAN, old : BOOLEAN]]
  /\ blob \subseteq Files /\ copies \subseteq Files /\ cached \subseteq Files
  /\ stray \in [Stops -> {"none", "young", "old"}] /\ crashes \in 0..MaxCrashes
  /\ links \subseteq Files \X Messages /\ bound \subseteq Files \X Sessions
  /\ \A b \in bound : file[b[1]].state = "kept" /\ older[b[2]] # {}
  /\ older \in [Sessions -> SUBSET Sessions]
  /\ \A r \in Requests : asked[r] = NotAsked \/ asked[r] \in [lease : {"live", "expired", "released"}, file : Files, session : Sessions]
  /\ \A p \in Preparers : prep[p] = NoPrepare \/ (prep[p].phase \in {"leased", "read", "copied", "ready"} /\ asked[prep[p].request] # NotAsked)
  /\ sweep.phase \in {"grace", "idle", "deleting", "blobs"}
  /\ \A f \in sweep.ids : file[f].state # "none"

\* While an execution has a receipt and its lease is live, nothing takes its
\* copy away, whatever is deleted, revoked, swept or released by others.
\* ("Failure must not release that execution's protection",
\* conversation_files_prepare.py:168)
ReceiptHolds ==
  [][\A p \in Preparers :
       /\ prep[p].phase = "ready" /\ prep'[p] = prep[p]
       /\ asked[prep[p].request].lease = "live" /\ asked'[prep[p].request].lease = "live"
       /\ FileOf(p) \in cached
       => FileOf(p) \in cached']_filesVars

\* When a revocation has been through all its transactions, neither the session
\* it names nor one that continues it, those that Hermes has begun meanwhile
\* included, reads a file of that conversation, unless it was bound again since
\* ("session-bound grants", README.md:178; conversation_files_prepare.py:79).
RevokedGone ==
  [][revoke # NoRevoke /\ revoke' = NoRevoke /\ crashes' = crashes =>
       \A x \in Sessions : revoke.session \in older[x] =>
         \A b \in bound' : b[2] \in older[x] /\ Conversation[b[1]] = revoke.conversation
                             => b \in revoke.since]_filesVars

\* A blob that has a row is counted in the quota until it is gone.  Bytes that
\* no row counts, an original's or a copy's, are left by stops of the gateway
\* only, and by one stop at most one file; while it has not stopped, every
\* copy has its row and every file that is kept its bytes.
BytesHaveRows ==
  /\ \A f \in blob : file[f].sized \/ f \in Empty
  /\ Cardinality({n \in Stops : stray[n] # "none"}) + Cardinality(cached \ copies) <= crashes
  /\ crashes = 0 =>
       /\ cached = copies
       /\ \A f \in Files : file[f].state = "kept" => f \in blob

\* When the leases of a deleted file have ended, its blob goes, and its copy as
\* far as a row of copies says where that is: the copies of a gateway that never
\* stopped all do.  What a stopped upload left goes too.  Of uploads that are
\* not empty: sweep_files asks for bytes > 0.
DeletedGoes ==
  /\ \A f \in Files :
       f \notin Empty /\ file[f].state = "deleted" ~>
         file[f].state = "deleted" /\ f \notin blob \cup copies /\ (crashes = 0 => f \notin cached)
  /\ \A n \in Stops : stray[n] # "none" ~> stray[n] = "none"

\* The copy of a deleted file goes.
\* ("Execution copies use short-lived leases and are reclaimed when idle.",
\* README.md:174)
CopiesReclaimed ==
  \A f \in Files : f \notin Empty /\ file[f].state = "deleted" ~> f \notin cached

\* The sweep takes only what no message links.
\* ("Originals remain available through their conversation links",
\* README.md:174)
SweptUnlinked ==
  [][\A f \in sweep.ids \ sweep'.ids :
       sweep'.phase # "grace" /\ file[f].state = "kept" => ~file[f].linked]_filesVars

=============================================================================
