---------------------- MODULE ConversationFilesProofs -----------------------
(* What the uploads of a conversation keep: rows, bindings, leases, copies   *)
(* and the list of the sweep.  Two compositions rest on it.                  *)
EXTENDS ConversationFiles, FiniteSetTheorems, TLAPS

-----------------------------------------------------------------------------
(* The inductive invariant *)

FileRow == [state : {"none", "kept", "deleted"}, sized : BOOLEAN, linked : BOOLEAN, old : BOOLEAN]
Lease == [lease : {"live", "expired", "released"}, file : Files, session : Sessions]
Prepare == [phase : {"leased", "read", "copied", "ready"}, request : Requests, reader : Sessions]
Revocation == [conversation : {Conversation[f] : f \in Files}, session : Sessions,
               left : SUBSET Sessions, since : SUBSET (Files \X Sessions)]

FilesStored ==
  /\ file \in [Files -> FileRow]
  /\ blob \subseteq Files /\ copies \subseteq Files /\ cached \subseteq Files
  /\ stray \in [Stops -> {"none", "young", "old"}]
  /\ links \subseteq Files \X Messages /\ bound \subseteq Files \X Sessions
  /\ crashes \in 0..MaxCrashes
  /\ \A f \in Files : file[f].sized => file[f].state # "none"

\* A prepare has a request that is known.
Preparing ==
  /\ asked \in [Requests -> {NotAsked} \cup Lease]
  /\ prep \in [Preparers -> {NoPrepare} \cup Prepare]
  /\ \A p \in Preparers : prep[p] # NoPrepare => asked[prep[p].request] # NotAsked

SweepListed ==
  /\ sweep \in [phase : {"grace", "idle", "deleting", "blobs"}, ids : SUBSET Files]
  /\ \A f \in sweep.ids : file[f].state # "none"

BoundKept == \A b \in bound : file[b[1]].state = "kept" /\ older[b[2]] # {}

\* The sessions that one continues stand in a row.
SessionsInRow ==
  /\ older \in [Sessions -> SUBSET Sessions]
  /\ \A s \in Sessions : older[s] # {} => s \in older[s]
  /\ \A s \in Sessions : \A a, b \in older[s] : a \in older[b] \/ b \in older[a]

\* What a revocation under way has not reached is still to be done, or has been
\* bound since.
Revoking ==
  \/ revoke = NoRevoke
  \/ /\ revoke \in Revocation /\ revoke.left # {} /\ older[revoke.session] # {}
     /\ \A b \in bound :
          /\ b[2] \in older[revoke.session] \/ revoke.session \in older[b[2]]
          /\ Conversation[b[1]] = revoke.conversation
          => b \in revoke.since \/ b[2] \in revoke.left

\* Files on the disk that no row knows, and how many there may be.
StrayBlobs == {n \in Stops : stray[n] # "none"}
StrayCopies == cached \ copies

FewStrays ==
  /\ IsFiniteSet(StrayBlobs) /\ IsFiniteSet(StrayCopies)
  /\ Cardinality(StrayBlobs) + Cardinality(StrayCopies) <= crashes

BytesKept ==
  /\ \A f \in blob : file[f].sized \/ f \in Empty
  /\ crashes = 0 =>
       /\ cached = copies
       /\ \A f \in Files : file[f].state = "kept" => f \in blob

FilesInv ==
  FilesStored /\ Preparing /\ SweepListed /\ BoundKept /\ SessionsInRow /\ Revoking /\ FewStrays /\ BytesKept

LEMMA FilesInitInv == FilesInit => FilesInv
<1> SUFFICES ASSUME FilesInit PROVE FilesInv
  OBVIOUS
<1>1. FilesStored
  BY FilesAssumption DEF FilesInit, FilesStored, FileRow, NewFile
<1>2. Preparing
  BY DEF FilesInit, Preparing
<1>3. SweepListed /\ BoundKept
  BY DEF FilesInit, SweepListed, BoundKept
<1>4. SessionsInRow /\ Revoking
  BY DEF FilesInit, SessionsInRow, Revoking
<1>5. StrayBlobs = {} /\ StrayCopies = {} /\ crashes = 0
  BY DEF FilesInit, StrayBlobs, StrayCopies
<1>6. FewStrays
  BY <1>5, FS_EmptySet DEF FewStrays
<1>7. BytesKept
  BY DEF FilesInit, BytesKept, NewFile
<1> QED
  BY <1>1, <1>2, <1>3, <1>4, <1>6, <1>7 DEF FilesInv

\* Nothing new is lost.
LEMMA NoMoreStrays ==
  ASSUME FilesInv, StrayBlobs' \subseteq StrayBlobs, StrayCopies' \subseteq StrayCopies,
         crashes' \in Nat, crashes' >= crashes
  PROVE  FewStrays'
<1>1. /\ IsFiniteSet(StrayBlobs') /\ Cardinality(StrayBlobs') <= Cardinality(StrayBlobs)
      /\ IsFiniteSet(StrayCopies') /\ Cardinality(StrayCopies') <= Cardinality(StrayCopies)
  BY FS_Subset DEF FilesInv, FewStrays
<1>2. /\ Cardinality(StrayBlobs) \in Nat /\ Cardinality(StrayCopies) \in Nat
      /\ Cardinality(StrayBlobs') \in Nat /\ Cardinality(StrayCopies') \in Nat
  BY <1>1, FS_CardinalityType DEF FilesInv, FewStrays
<1>3. crashes \in Nat
  BY DEF FilesInv, FilesStored
<1> QED
  BY <1>1, <1>2, <1>3 DEF FilesInv, FewStrays

\* One more is lost by a stop.
LEMMA OneMoreStray ==
  ASSUME FilesInv, crashes' = crashes + 1,
         \/ \E n : StrayBlobs' \subseteq StrayBlobs \cup {n} /\ StrayCopies' \subseteq StrayCopies
         \/ \E f : StrayBlobs' \subseteq StrayBlobs /\ StrayCopies' \subseteq StrayCopies \cup {f}
  PROVE  FewStrays'
<1>1. /\ IsFiniteSet(StrayBlobs) /\ IsFiniteSet(StrayCopies) /\ crashes \in Nat
      /\ Cardinality(StrayBlobs) + Cardinality(StrayCopies) <= crashes
      /\ Cardinality(StrayBlobs) \in Nat /\ Cardinality(StrayCopies) \in Nat
  BY FS_CardinalityType DEF FilesInv, FewStrays, FilesStored
<1>2. ASSUME NEW S, NEW T, NEW x, IsFiniteSet(S), T \subseteq S \cup {x}
      PROVE  IsFiniteSet(T) /\ Cardinality(T) \in Nat /\ Cardinality(T) <= Cardinality(S) + 1
  <2>1. /\ IsFiniteSet(S \cup {x}) /\ Cardinality(S) \in Nat
        /\ Cardinality(S \cup {x}) = IF x \in S THEN Cardinality(S) ELSE Cardinality(S) + 1
    BY <1>2, FS_AddElement, FS_CardinalityType
  <2>2. IsFiniteSet(T) /\ Cardinality(T) <= Cardinality(S \cup {x})
    BY <1>2, <2>1, FS_Subset
  <2>3. Cardinality(T) \in Nat
    BY <2>2, FS_CardinalityType
  <2> QED
    BY <2>1, <2>2, <2>3
<1>3. ASSUME NEW S, NEW T, IsFiniteSet(S), T \subseteq S
      PROVE  IsFiniteSet(T) /\ Cardinality(T) \in Nat /\ Cardinality(T) <= Cardinality(S)
  BY <1>3, FS_Subset, FS_CardinalityType
<1>4. /\ IsFiniteSet(StrayBlobs') /\ IsFiniteSet(StrayCopies')
      /\ Cardinality(StrayBlobs') + Cardinality(StrayCopies') <= crashes + 1
  <2>1. CASE \E n : StrayBlobs' \subseteq StrayBlobs \cup {n} /\ StrayCopies' \subseteq StrayCopies
    <3>1. PICK n : StrayBlobs' \subseteq StrayBlobs \cup {n}
      BY <2>1
    <3>2. IsFiniteSet(StrayBlobs') /\ Cardinality(StrayBlobs') \in Nat /\ Cardinality(StrayBlobs') <= Cardinality(StrayBlobs) + 1
      BY <1>1, <1>2, <3>1
    <3>3. IsFiniteSet(StrayCopies') /\ Cardinality(StrayCopies') \in Nat /\ Cardinality(StrayCopies') <= Cardinality(StrayCopies)
      BY <1>1, <1>3, <2>1
    <3> QED
      BY <1>1, <3>2, <3>3
  <2>2. CASE \E f : StrayBlobs' \subseteq StrayBlobs /\ StrayCopies' \subseteq StrayCopies \cup {f}
    <3>1. PICK f : StrayCopies' \subseteq StrayCopies \cup {f}
      BY <2>2
    <3>2. IsFiniteSet(StrayCopies') /\ Cardinality(StrayCopies') \in Nat /\ Cardinality(StrayCopies') <= Cardinality(StrayCopies) + 1
      BY <1>1, <1>2, <3>1
    <3>3. IsFiniteSet(StrayBlobs') /\ Cardinality(StrayBlobs') \in Nat /\ Cardinality(StrayBlobs') <= Cardinality(StrayBlobs)
      BY <1>1, <1>3, <2>2
    <3> QED
      BY <1>1, <3>2, <3>3
  <2> QED
    BY <2>1, <2>2
<1> QED
  BY <1>4 DEF FewStrays

\* The files and the cache stay as they are.
LEMMA NoStray ==
  ASSUME FilesInv, UNCHANGED <<stray, copies, cached, crashes>>
  PROVE  FewStrays'
BY DEF FilesInv, FewStrays, StrayBlobs, StrayCopies

\* Sessions stay, and nothing is bound anew.
LEMMA NothingBound ==
  ASSUME FilesInv, UNCHANGED sessionVars, bound' \subseteq bound
  PROVE  SessionsInRow' /\ Revoking'
<1>1. older' = older /\ revoke' = revoke
  BY DEF sessionVars
<1>2. SessionsInRow'
  BY <1>1 DEF FilesInv, SessionsInRow
<1>3. Revoking'
  BY <1>1 DEF FilesInv, Revoking
<1> QED
  BY <1>2, <1>3

LEMMA LeaseOf ==
  ASSUME Preparing, NEW p \in Preparers, prep[p].phase \in {"leased", "read", "copied", "ready"}
  PROVE  /\ prep[p].request \in Requests /\ prep[p] \in Prepare
         /\ asked[prep[p].request] \in Lease /\ FileOf(p) \in Files
<1>1. prep[p] \in Prepare /\ prep[p] # NoPrepare
  BY DEF Preparing, NoPrepare, Prepare
<1>2. prep[p].request \in Requests /\ asked[prep[p].request] \in Lease
  BY <1>1 DEF Preparing, Prepare
<1> QED
  BY <1>1, <1>2 DEF FileOf, Lease

LEMMA NotALease == \A l \in Lease : l # NotAsked
BY DEF Lease, NotAsked

\* Requests that touch rows and bindings of files that are kept.
LEMMA UploadInv ==
  ASSUME FilesInv, NEW f \in Files, Upload(f)
  PROVE  FilesInv'
<1> DEFINE x == [NewFile EXCEPT !.state = "kept", !.sized = f \notin Empty]
<1>1. /\ file[f].state = "none" /\ file' = [file EXCEPT ![f] = x] /\ blob' = blob \cup {f}
      /\ UNCHANGED <<stray, links, bound, asked, copies, cached, prep, sweep, crashes, sessionVars>>
  BY DEF Upload
<1>2. x.state = "kept" /\ (x.sized \/ f \in Empty) /\ x \in FileRow
  <2>1. NewFile \in FileRow
    BY DEF NewFile, FileRow
  <2>2. \A b \in BOOLEAN : /\ [NewFile EXCEPT !.state = "kept", !.sized = b] \in FileRow
                           /\ [NewFile EXCEPT !.state = "kept", !.sized = b].state = "kept"
                           /\ [NewFile EXCEPT !.state = "kept", !.sized = b].sized = b
    BY <2>1 DEF FileRow
  <2>3. (f \notin Empty) \in BOOLEAN
    OBVIOUS
  <2>4. x \in FileRow /\ x.state = "kept" /\ x.sized = (f \notin Empty)
    BY <2>2, <2>3, Zenon
  <2> QED
    BY <2>4
<1> HIDE DEF x
<1>3. FilesStored'
  BY <1>1, <1>2 DEF FilesInv, FilesStored
<1>4. Preparing'
  BY <1>1 DEF FilesInv, Preparing
<1>5. SweepListed'
  BY <1>1, <1>2 DEF FilesInv, SweepListed, FilesStored
<1>6. BoundKept'
  BY <1>1, <1>2 DEF FilesInv, BoundKept, FilesStored, sessionVars
<1>7. BytesKept'
  BY <1>1, <1>2 DEF FilesInv, BytesKept, FilesStored
<1>8. SessionsInRow' /\ Revoking' /\ FewStrays'
  BY <1>1, NothingBound, NoStray
<1> QED
  BY <1>3, <1>4, <1>5, <1>6, <1>7, <1>8 DEF FilesInv

LEMMA LinkFileInv ==
  ASSUME FilesInv, NEW f \in Files, NEW m \in Messages, LinkFile(f, m)
  PROVE  FilesInv'
<1>1. /\ file' = [file EXCEPT ![f].linked = TRUE] /\ links' = links \cup {<<f, m>>}
      /\ UNCHANGED <<blob, stray, bound, asked, copies, cached, prep, sweep, crashes, sessionVars>>
  BY DEF LinkFile
<1>2. /\ file' \in [Files -> FileRow]
      /\ \A g \in Files : file'[g].state = file[g].state /\ file'[g].sized = file[g].sized
  BY <1>1 DEF FilesInv, FilesStored, FileRow
<1>3. FilesStored'
  BY <1>1, <1>2 DEF FilesInv, FilesStored
<1>4. Preparing' /\ SweepListed'
  BY <1>1, <1>2 DEF FilesInv, Preparing, SweepListed
<1>5. BoundKept'
  BY <1>1, <1>2 DEF FilesInv, BoundKept, FilesStored, sessionVars
<1>6. BytesKept'
  BY <1>1, <1>2 DEF FilesInv, BytesKept, FilesStored
<1>7. SessionsInRow' /\ Revoking' /\ FewStrays'
  BY <1>1, NothingBound, NoStray
<1> QED
  BY <1>3, <1>4, <1>5, <1>6, <1>7 DEF FilesInv

LEMMA GrantInv ==
  ASSUME FilesInv, NEW f \in Files, NEW s \in Sessions, IssueGrant(f, s)
  PROVE  FilesInv'
<1>1. /\ file[f].state = "kept" /\ older[s] # {} /\ bound' = bound \cup {<<f, s>>}
      /\ revoke' = IF revoke = NoRevoke THEN NoRevoke ELSE [revoke EXCEPT !.since = @ \cup {<<f, s>>}]
      /\ UNCHANGED <<file, blob, stray, links, older, asked, copies, cached, prep, sweep, crashes>>
  BY DEF IssueGrant
<1>2. FilesStored' /\ Preparing' /\ SweepListed' /\ BytesKept' /\ SessionsInRow'
  BY <1>1 DEF FilesInv, FilesStored, Preparing, SweepListed, BytesKept, SessionsInRow
<1>3. BoundKept'
  BY <1>1 DEF FilesInv, BoundKept
<1>4. FewStrays'
  BY <1>1, NoStray
<1>5. Revoking'
  <2>1. CASE revoke = NoRevoke
    BY <1>1, <2>1 DEF Revoking
  <2>2. CASE revoke # NoRevoke
    <3> DEFINE x == [revoke EXCEPT !.since = @ \cup {<<f, s>>}]
    <3>1. revoke \in Revocation /\ revoke.left # {} /\ older[revoke.session] # {}
      BY <2>2 DEF FilesInv, Revoking
    <3>2. /\ x \in Revocation /\ x.left = revoke.left /\ x.session = revoke.session
          /\ x.conversation = revoke.conversation /\ x.since = revoke.since \cup {<<f, s>>}
      BY <3>1 DEF Revocation
    <3>3. revoke' = x
      BY <1>1, <2>2
    <3> HIDE DEF x
    <3>4. \A b \in bound' :
            /\ b[2] \in older[x.session] \/ x.session \in older[b[2]]
            /\ Conversation[b[1]] = x.conversation
            => b \in x.since \/ b[2] \in x.left
      BY <1>1, <2>2, <3>2 DEF FilesInv, Revoking
    <3> QED
      BY <1>1, <3>1, <3>2, <3>3, <3>4 DEF Revoking
  <2> QED
    BY <2>1, <2>2
<1> QED
  BY <1>2, <1>3, <1>4, <1>5 DEF FilesInv

\* A session that Hermes begins, or compresses another into, has no bindings.
LEMMA SessionInv ==
  ASSUME FilesInv, NEW t \in Sessions, SessionBegins(t) \/ \E s \in Sessions : Compress(s, t)
  PROVE  FilesInv'
<1> DEFINE Continues(old) ==
             /\ older[t] = {} /\ older' = [older EXCEPT ![t] = old \cup {t}]
             /\ \A a, b \in old : a \in older[b] \/ b \in older[a]
             /\ \A a \in old : a # t /\ older[a] # {}
<1>1. PICK old \in SUBSET Sessions : Continues(old)
  <2>1. CASE SessionBegins(t)
    <3>1. Continues({})
      BY <2>1 DEF SessionBegins
    <3> QED
      BY <3>1
  <2>2. ASSUME NEW s \in Sessions, Compress(s, t) PROVE \E old \in SUBSET Sessions : Continues(old)
    <3>1. older[s] \in SUBSET Sessions /\ older[t] = {} /\ older' = [older EXCEPT ![t] = older[s] \cup {t}]
      BY <2>2 DEF Compress, FilesInv, SessionsInRow
    <3>2. \A a, b \in older[s] : a \in older[b] \/ b \in older[a]
      BY DEF FilesInv, SessionsInRow
    <3>3. \A a \in older[s] : older[a] # {}
      BY <3>2
    <3> QED
      BY <3>1, <3>2, <3>3
  <2> QED
    BY <2>1, <2>2
<1>2. UNCHANGED <<file, blob, stray, links, bound, revoke, asked, copies, cached, prep, sweep, crashes>>
  BY DEF SessionBegins, Compress
<1>3. older \in [Sessions -> SUBSET Sessions] /\ \A b \in bound : b[2] \in Sessions /\ b[2] # t
  BY <1>1 DEF FilesInv, SessionsInRow, BoundKept, FilesStored
<1>4. older'[t] = old \cup {t} /\ \A s \in Sessions : s # t => older'[s] = older[s]
  BY <1>1, <1>3
<1>5. SessionsInRow'
  <2>1. older' \in [Sessions -> SUBSET Sessions]
    BY <1>1, <1>3
  <2>2. \A s \in Sessions : older'[s] # {} => s \in older'[s]
    BY <1>4 DEF FilesInv, SessionsInRow
  <2>3. ASSUME NEW s \in Sessions, NEW a \in older'[s], NEW b \in older'[s]
        PROVE  a \in older'[b] \/ b \in older'[a]
    <3>0. a \in Sessions /\ b \in Sessions
      BY <2>1, <2>3
    <3>1. CASE s # t
      <4>1. a \in older[s] /\ b \in older[s]
        BY <1>4, <2>3, <3>1
      <4>2. a \in older[b] \/ b \in older[a]
        BY <4>1 DEF FilesInv, SessionsInRow
      <4>3. a \in older[a] /\ b \in older[b]
        BY <4>1 DEF FilesInv, SessionsInRow
      <4>4. a # t /\ b # t
        BY <1>1, <4>3
      <4> QED
        BY <1>4, <3>0, <4>2, <4>4
    <3>2. CASE s = t
      BY <1>1, <1>4, <2>3, <3>0, <3>2
    <3> QED
      BY <3>1, <3>2
  <2> QED
    BY <2>1, <2>2, <2>3 DEF SessionsInRow
<1>6. BoundKept'
  BY <1>2, <1>3, <1>4 DEF FilesInv, BoundKept
<1>7. Revoking'
  <2>1. CASE revoke = NoRevoke
    BY <1>2, <2>1 DEF Revoking
  <2>2. CASE revoke # NoRevoke
    <3>1. /\ revoke \in Revocation /\ revoke.left # {} /\ revoke.session \in Sessions /\ older[revoke.session] # {}
          /\ \A b \in bound :
               /\ b[2] \in older[revoke.session] \/ revoke.session \in older[b[2]]
               /\ Conversation[b[1]] = revoke.conversation
               => b \in revoke.since \/ b[2] \in revoke.left
      BY <2>2 DEF FilesInv, Revoking, Revocation
    <3>2. older'[revoke.session] = older[revoke.session] /\ \A b \in bound : older'[b[2]] = older[b[2]]
      BY <1>1, <1>3, <1>4, <3>1
    <3> QED
      BY <1>2, <3>1, <3>2 DEF Revoking
  <2> QED
    BY <2>1, <2>2
<1>8. FilesStored' /\ Preparing' /\ SweepListed' /\ BytesKept'
  BY <1>2 DEF FilesInv, FilesStored, Preparing, SweepListed, BytesKept
<1>9. FewStrays'
  BY <1>2, NoStray
<1> QED
  BY <1>5, <1>6, <1>7, <1>8, <1>9 DEF FilesInv

LEMMA RevokeInv ==
  ASSUME FilesInv, NEW s \in Sessions,
         RevokeNext(s) \/ \E f \in Files : BeginRevoke(Conversation[f], s)
  PROVE  FilesInv'
<1>1. UNCHANGED <<file, blob, stray, links, older, asked, copies, cached, prep, sweep, crashes>>
  BY DEF BeginRevoke, RevokeNext
<1>2. bound' \subseteq bound
  BY DEF BeginRevoke, RevokeNext
<1>3. FilesStored' /\ Preparing' /\ SweepListed' /\ BytesKept' /\ SessionsInRow' /\ BoundKept'
  BY <1>1, <1>2 DEF FilesInv, FilesStored, Preparing, SweepListed, BytesKept, SessionsInRow, BoundKept
<1>4. FewStrays'
  BY <1>1, NoStray
<1>5. Revoking'
  <2>1. ASSUME NEW f \in Files, BeginRevoke(Conversation[f], s) PROVE Revoking'
    <3> DEFINE x == [conversation |-> Conversation[f], session |-> s, left |-> Lineage(s), since |-> {}]
    <3>1. revoke' = x /\ bound' = bound /\ older[s] # {}
      BY <2>1 DEF BeginRevoke
    <3>2. x \in Revocation /\ x.session = s /\ x.left = Lineage(s) /\ s \in x.left
      BY <3>1 DEF Revocation, Lineage, FilesInv, SessionsInRow
    <3> HIDE DEF x
    <3>3. \A b \in bound : b[2] \in older[s] \/ s \in older[b[2]] => b[2] \in x.left
      BY <3>2 DEF Lineage, FilesInv, FilesStored
    <3> QED
      BY <1>1, <3>1, <3>2, <3>3 DEF Revoking
  <2>2. ASSUME RevokeNext(s) PROVE Revoking'
    <3>1. /\ revoke # NoRevoke
          /\ bound' = {b \in bound : b[2] # s \/ Conversation[b[1]] # revoke.conversation}
          /\ revoke' = IF revoke.left = {s} THEN NoRevoke ELSE [revoke EXCEPT !.left = @ \ {s}]
      BY <2>2 DEF RevokeNext
    <3>2. CASE revoke.left = {s}
      BY <3>1, <3>2 DEF Revoking
    <3>3. CASE revoke.left # {s}
      <4> DEFINE x == [revoke EXCEPT !.left = @ \ {s}]
      <4>1. revoke \in Revocation /\ revoke.left # {} /\ older[revoke.session] # {}
        BY <3>1 DEF FilesInv, Revoking
      <4>2. /\ x \in Revocation /\ x.left = revoke.left \ {s} /\ x.session = revoke.session
            /\ x.conversation = revoke.conversation /\ x.since = revoke.since
        BY <4>1 DEF Revocation
      <4>3. revoke' = x
        BY <3>1, <3>3
      <4>4. x.left # {}
        BY <3>3, <4>1, <4>2
      <4> HIDE DEF x
      <4>5. \A b \in bound' :
              /\ b[2] \in older[x.session] \/ x.session \in older[b[2]]
              /\ Conversation[b[1]] = x.conversation
              => b \in x.since \/ b[2] \in x.left
        BY <3>1, <4>2 DEF FilesInv, Revoking
      <4> QED
        BY <1>1, <4>1, <4>2, <4>3, <4>4, <4>5 DEF Revoking
    <3> QED
      BY <3>2, <3>3
  <2> QED
    BY <2>1, <2>2
<1> QED
  BY <1>3, <1>4, <1>5 DEF FilesInv

\* What _delete_ready leaves.
DeletedLeaves(f) ==
  /\ file' \in [Files -> FileRow] /\ file'[f].state = "deleted"
  /\ \A g \in Files : g # f => file'[g] = file[g]
  /\ blob' \subseteq blob /\ copies' \subseteq copies /\ cached' \subseteq cached /\ links' \subseteq links
  /\ \A g \in blob : g # f => g \in blob'
  /\ f \in blob' => file'[f].sized \/ f \in Empty
  /\ cached = copies => cached' = copies'
  /\ StrayCopies' \subseteq StrayCopies

LEMMA DeletionLeaves ==
  ASSUME FilesInv, NEW f \in Files, NEW unread, DeleteReady(f, unread)
  PROVE  DeletedLeaves(f)
<1>1. CASE Unprotected(f, unread)
  <2> DEFINE F == [file EXCEPT ![f].state = "deleted"]
             G == [F EXCEPT ![f].sized = FALSE]
  <2>1. F \in [Files -> FileRow] /\ F[f].state = "deleted" /\ \A g \in Files : g # f => F[g] = file[g]
    BY DEF FilesInv, FilesStored, FileRow
  <2>2. file' = G
    BY <1>1 DEF DeleteReady
  <2> HIDE DEF F
  <2>3. G \in [Files -> FileRow] /\ G[f].state = "deleted" /\ \A g \in Files : g # f => G[g] = F[g]
    BY <2>1 DEF FileRow
  <2> HIDE DEF G
  <2>4. /\ cached' = cached \ ({f} \cap copies) /\ blob' = blob \ {f} /\ copies' = copies \ {f}
        /\ links' \subseteq links
    BY <1>1 DEF DeleteReady
  <2> QED
    BY <2>1, <2>2, <2>3, <2>4 DEF DeletedLeaves, StrayCopies
<1>2. CASE ~Unprotected(f, unread)
  <2>1. file' = [file EXCEPT ![f].state = "deleted"] /\ UNCHANGED <<cached, blob, copies, links>>
    BY <1>2 DEF DeleteReady
  <2>2. file' \in [Files -> FileRow] /\ file'[f].state = "deleted" /\ file'[f].sized = file[f].sized
        /\ \A g \in Files : g # f => file'[g] = file[g]
    BY <2>1 DEF FilesInv, FilesStored, FileRow
  <2> QED
    BY <2>1, <2>2 DEF DeletedLeaves, StrayCopies, FilesInv, BytesKept
<1> QED
  BY <1>1, <1>2

LEMMA DeletionInv ==
  ASSUME FilesInv, NEW f \in Files, DeletedLeaves(f), file[f].state # "none",
         bound' \subseteq bound, \A b \in bound' : b[1] # f,
         Preparing', SweepListed', UNCHANGED sessionVars, stray' = stray, crashes' = crashes
  PROVE  FilesInv'
<1>1. FilesStored'
  <2>1. \A g \in Files : file'[g].sized => file'[g].state # "none"
    BY DEF FilesInv, FilesStored, DeletedLeaves
  <2> QED
    BY <2>1 DEF FilesInv, FilesStored, DeletedLeaves
<1>2. BoundKept'
  <2>1. \A b \in bound' : b[1] \in Files /\ b[1] # f /\ b \in bound
    BY DEF FilesInv, FilesStored
  <2> QED
    BY <2>1 DEF FilesInv, BoundKept, DeletedLeaves, sessionVars
<1>3. BytesKept'
  <2>1. \A g \in blob' : file'[g].sized \/ g \in Empty
    BY DEF FilesInv, FilesStored, BytesKept, DeletedLeaves
  <2>2. crashes' = 0 => cached' = copies'
    BY DEF FilesInv, BytesKept, DeletedLeaves
  <2>3. crashes' = 0 => \A g \in Files : file'[g].state = "kept" => g \in blob'
    BY DEF FilesInv, BytesKept, DeletedLeaves
  <2> QED
    BY <2>1, <2>2, <2>3 DEF BytesKept
<1>4. FewStrays'
  <2>1. StrayBlobs' \subseteq StrayBlobs /\ StrayCopies' \subseteq StrayCopies
    BY DEF DeletedLeaves, StrayBlobs
  <2>2. crashes' \in Nat /\ crashes' >= crashes
    BY DEF FilesInv, FilesStored
  <2> QED
    BY <2>1, <2>2, NoMoreStrays
<1>5. SessionsInRow' /\ Revoking'
  BY NothingBound
<1> QED
  BY <1>1, <1>2, <1>3, <1>4, <1>5 DEF FilesInv

\* A deletion never makes a row that was there one that was not.
LEMMA StillThere ==
  ASSUME NEW f \in Files, DeletedLeaves(f), SweepListed, sweep'.ids \subseteq sweep.ids,
         sweep' \in [phase : {"grace", "idle", "deleting", "blobs"}, ids : SUBSET Files]
  PROVE  SweepListed'
<1>1. \A g \in sweep'.ids : g \in Files /\ file[g].state # "none"
  BY DEF SweepListed
<1>2. \A g \in sweep'.ids : file'[g].state # "none"
  BY <1>1 DEF DeletedLeaves
<1> QED
  BY <1>2 DEF SweepListed

LEMMA DeleteFileInv ==
  ASSUME FilesInv, NEW f \in Files, PersonDeletes(f) \/ SweepDelete(f)
  PROVE  FilesInv'
<1>1. /\ DeleteFile(f) /\ UNCHANGED <<stray, asked, prep, crashes, sessionVars>>
      /\ sweep' = sweep \/ (f \in sweep.ids /\ sweep' = [sweep EXCEPT !.ids = @ \ {f}])
  BY DEF PersonDeletes, SweepDelete
<1>2. DeletedLeaves(f) /\ file[f].state # "none" /\ bound' = bound \ ({f} \X Sessions)
  BY <1>1, DeletionLeaves DEF DeleteFile
<1>3. \A b \in bound' : b[1] # f
  BY <1>2 DEF FilesInv, FilesStored
<1>4. SweepListed'
  BY <1>1, <1>2, StillThere DEF FilesInv, SweepListed
<1>5. Preparing'
  BY <1>1 DEF FilesInv, Preparing
<1> QED
  BY <1>1, <1>2, <1>3, <1>4, <1>5, DeletionInv

\* A prepare goes on, or ends; leases are taken and run out.
LEMMA PrepareInv ==
  ASSUME FilesInv,
         \/ \E p \in Preparers, r \in Requests, f \in Files, s, reader \in Sessions : AcquireLease(p, r, f, s, reader)
         \/ \E p \in Preparers : ReadOriginal(p) \/ PlaceCopy(p) \/ GiveReceipt(p) \/ Fail(p)
         \/ \E r \in Requests : Expire(r)
  PROVE  FilesInv'
<1>1. /\ UNCHANGED <<file, blob, stray, links, bound, sweep, crashes, sessionVars>>
      /\ \/ UNCHANGED <<copies, cached>>
         \/ \E f \in Files : cached' = cached \cup {f} /\ copies' = copies \cup {f}
  <2>1. ASSUME NEW p \in Preparers, PlaceCopy(p) PROVE FileOf(p) \in Files
    BY <2>1, LeaseOf DEF PlaceCopy, FilesInv
  <2> QED
    BY <2>1 DEF AcquireLease, ReadOriginal, PlaceCopy, GiveReceipt, Fail, Expire
<1>2. FilesStored' /\ BoundKept' /\ SweepListed' /\ SessionsInRow' /\ Revoking'
  BY <1>1, NothingBound DEF FilesInv, FilesStored, BoundKept, SweepListed, sessionVars
<1>3. BytesKept' /\ FewStrays'
  <2>1. BytesKept'
    BY <1>1 DEF FilesInv, BytesKept
  <2>2. StrayBlobs' \subseteq StrayBlobs /\ StrayCopies' \subseteq StrayCopies
    BY <1>1 DEF StrayBlobs, StrayCopies
  <2>3. crashes' \in Nat /\ crashes' >= crashes
    BY <1>1 DEF FilesInv, FilesStored
  <2> QED
    BY <2>1, <2>2, <2>3, NoMoreStrays
<1>4. Preparing'
  <2>1. Preparing
    BY DEF FilesInv
  <2>2. ASSUME NEW p \in Preparers, NEW r \in Requests, NEW f \in Files, NEW s \in Sessions,
               NEW reader \in Sessions, AcquireLease(p, r, f, s, reader)
        PROVE  Preparing'
    <3> DEFINE l == [lease |-> "live", file |-> f, session |-> s]
               x == [phase |-> "leased", request |-> r, reader |-> reader]
    <3>1. asked' = [asked EXCEPT ![r] = l] /\ prep' = [prep EXCEPT ![p] = x]
      BY <2>2 DEF AcquireLease
    <3>2. l \in Lease /\ x \in Prepare /\ x.request = r
      BY DEF Lease, Prepare
    <3>3. l # NotAsked
      BY <3>2, NotALease
    <3> HIDE DEF l, x
    <3>4. \A k \in Requests : asked[k] # NotAsked => asked'[k] # NotAsked
      BY <2>1, <3>1, <3>3 DEF Preparing
    <3>5. asked'[r] # NotAsked
      BY <2>1, <3>1, <3>3 DEF Preparing
    <3>6. \A q \in Preparers : prep[q] # NoPrepare => prep[q].request \in Requests
      BY <2>1 DEF Preparing, Prepare
    <3> QED
      BY <2>1, <3>1, <3>2, <3>4, <3>5, <3>6 DEF Preparing
  <2>3. ASSUME NEW p \in Preparers, ReadOriginal(p) \/ PlaceCopy(p) \/ GiveReceipt(p) \/ Fail(p)
        PROVE  Preparing'
    <3>1. /\ asked' = asked
          /\ \/ prep' = [prep EXCEPT ![p] = NoPrepare]
             \/ /\ prep[p].phase \in {"leased", "read", "copied", "ready"}
                /\ \E phase \in {"read", "copied", "ready"} : prep' = [prep EXCEPT ![p].phase = phase]
      BY <2>3 DEF ReadOriginal, PlaceCopy, GiveReceipt, Fail, Reaches
    <3>2. CASE prep' = [prep EXCEPT ![p] = NoPrepare]
      BY <2>1, <3>1, <3>2 DEF Preparing
    <3>3. ASSUME NEW phase \in {"read", "copied", "ready"}, prep' = [prep EXCEPT ![p].phase = phase],
                 prep[p].phase \in {"leased", "read", "copied", "ready"}
          PROVE  Preparing'
      <4>1. prep[p] \in Prepare /\ prep[p] # NoPrepare
        BY <2>1, <3>3, LeaseOf DEF NoPrepare
      <4>2. prep'[p] \in Prepare /\ prep'[p].request = prep[p].request /\ \A q \in Preparers : q # p => prep'[q] = prep[q]
        BY <2>1, <3>3, <4>1 DEF Preparing, Prepare
      <4>3. prep' \in [Preparers -> {NoPrepare} \cup Prepare]
        BY <2>1, <3>3, <4>2 DEF Preparing
      <4> QED
        BY <2>1, <3>1, <4>1, <4>2, <4>3 DEF Preparing
    <3> QED
      BY <3>1, <3>2, <3>3
  <2>4. ASSUME NEW r \in Requests, Expire(r) PROVE Preparing'
    <3>1. asked[r].lease = "live" /\ asked' = [asked EXCEPT ![r].lease = "expired"] /\ prep' = prep
      BY <2>4 DEF Expire
    <3>2. asked[r] \in Lease
      BY <2>1, <3>1 DEF Preparing, NotAsked
    <3>3. asked'[r] \in Lease /\ \A k \in Requests : k # r => asked'[k] = asked[k]
      BY <2>1, <3>1, <3>2 DEF Preparing, Lease
    <3>4. asked' \in [Requests -> {NotAsked} \cup Lease]
      BY <2>1, <3>1, <3>3 DEF Preparing
    <3>5. \A q \in Preparers : prep[q] # NoPrepare => prep[q].request \in Requests
      BY <2>1 DEF Preparing, Prepare
    <3> QED
      BY <2>1, <3>1, <3>3, <3>4, <3>5, NotALease DEF Preparing
  <2> QED
    BY <2>2, <2>3, <2>4
<1> QED
  BY <1>2, <1>3, <1>4 DEF FilesInv

LEMMA ReleaseInv ==
  ASSUME FilesInv, NEW p \in Preparers, ReleaseLease(p)
  PROVE  FilesInv'
<1>0. PICK f \in Files, r \in Requests : f = FileOf(p) /\ r = prep[p].request /\ asked[r] \in Lease
  BY LeaseOf DEF ReleaseLease, FilesInv
<1>1. /\ asked' = [asked EXCEPT ![r].lease = "released"] /\ prep' = [prep EXCEPT ![p] = NoPrepare]
      /\ IF file[f].state = "deleted" THEN DeleteReady(f, {r})
         ELSE UNCHANGED <<file, blob, links, copies, cached>>
      /\ UNCHANGED <<stray, bound, sweep, crashes, sessionVars>>
  BY <1>0 DEF ReleaseLease
<1>2. Preparing'
  <2>1. Preparing
    BY DEF FilesInv
  <2>2. asked'[r] \in Lease /\ \A k \in Requests : k # r => asked'[k] = asked[k]
    BY <1>0, <1>1, <2>1 DEF Preparing, Lease
  <2>3. asked' \in [Requests -> {NotAsked} \cup Lease]
    BY <1>1, <2>1, <2>2 DEF Preparing
  <2>4. \A q \in Preparers : prep[q] # NoPrepare => prep[q].request \in Requests
    BY <2>1 DEF Preparing, Prepare
  <2> QED
    BY <1>1, <2>1, <2>2, <2>3, <2>4, NotALease DEF Preparing
<1>3. CASE file[f].state = "deleted"
  <2>1. DeletedLeaves(f)
    BY <1>1, <1>3, DeletionLeaves
  <2>2. \A b \in bound' : b[1] # f
    BY <1>1, <1>3 DEF FilesInv, BoundKept
  <2>3. SweepListed'
    BY <1>1, <2>1, StillThere DEF FilesInv, SweepListed
  <2> QED
    BY <1>1, <1>2, <1>3, <2>1, <2>2, <2>3, DeletionInv
<1>4. CASE file[f].state # "deleted"
  BY <1>1, <1>2, <1>4, NothingBound, NoStray DEF FilesInv, FilesStored, SweepListed, BoundKept, BytesKept, sessionVars
<1> QED
  BY <1>3, <1>4

\* The clock, and the steps of the cleanup that delete no row.
LEMMA CleanupInv ==
  ASSUME FilesInv,
         \/ \E f \in Files : AgeFile(f)
         \/ \E n \in Stops : AgeStray(n)
         \/ EndGrace \/ SweepList \/ SweepCopies \/ SweepStrays
  PROVE  FilesInv'
<1>1. UNCHANGED <<blob, links, bound, asked, prep, crashes, sessionVars>>
  BY DEF AgeFile, AgeStray, EndGrace, SweepList, SweepCopies, SweepStrays
<1>2. /\ file' \in [Files -> FileRow]
      /\ \A g \in Files : file'[g].state = file[g].state /\ file'[g].sized = file[g].sized
  <2>1. ASSUME NEW f \in Files, AgeFile(f) PROVE <1>2
    BY <2>1 DEF AgeFile, FilesInv, FilesStored, FileRow
  <2>2. CASE file' = file
    BY <2>2 DEF FilesInv, FilesStored
  <2> QED
    BY <2>1, <2>2 DEF AgeStray, EndGrace, SweepList, SweepCopies, SweepStrays
<1>3. /\ stray' \in [Stops -> {"none", "young", "old"}]
      /\ \A n \in Stops : stray[n] = "none" => stray'[n] = "none"
  <2>1. ASSUME NEW n \in Stops, AgeStray(n) PROVE <1>3
    BY <2>1 DEF AgeStray, FilesInv, FilesStored
  <2>2. CASE SweepStrays
    BY <2>2 DEF SweepStrays, FilesInv, FilesStored
  <2>3. CASE stray' = stray
    BY <2>3 DEF FilesInv, FilesStored
  <2> QED
    BY <2>1, <2>2, <2>3 DEF AgeFile, EndGrace, SweepList, SweepCopies
<1>4. UNCHANGED <<cached, copies>> \/ (cached' = cached \ IdleCopies /\ copies' = copies \ IdleCopies)
  BY DEF AgeFile, AgeStray, EndGrace, SweepList, SweepCopies, SweepStrays
<1>5. FilesStored'
  BY <1>1, <1>2, <1>3, <1>4 DEF FilesInv, FilesStored
<1>6. Preparing' /\ SessionsInRow' /\ Revoking'
  BY <1>1, NothingBound DEF FilesInv, Preparing
<1>7. BoundKept'
  BY <1>1, <1>2 DEF FilesInv, BoundKept, FilesStored, sessionVars
<1>8. FewStrays'
  <2>1. StrayBlobs' \subseteq StrayBlobs /\ StrayCopies' \subseteq StrayCopies
    BY <1>3, <1>4 DEF StrayBlobs, StrayCopies, IdleCopies
  <2>2. crashes' \in Nat /\ crashes' >= crashes
    BY <1>1 DEF FilesInv, FilesStored
  <2> QED
    BY <2>1, <2>2, NoMoreStrays
<1>9. BytesKept'
  BY <1>1, <1>2, <1>4 DEF FilesInv, BytesKept, FilesStored
<1>10. SweepListed'
  <2>1. \/ sweep' = sweep
        \/ sweep' = [phase |-> "idle", ids |-> {}]
        \/ sweep' = [phase |-> "deleting", ids |-> {f \in Files : Sweeps(f)}]
        \/ \E phase \in {"blobs", "idle"} : sweep' = [sweep EXCEPT !.phase = phase]
    BY DEF AgeFile, AgeStray, EndGrace, SweepList, SweepCopies, SweepStrays
  <2>2. \A f \in Files : Sweeps(f) => file[f].state # "none"
    BY DEF Sweeps, FilesInv, FilesStored
  <2> QED
    BY <1>2, <2>1, <2>2 DEF FilesInv, SweepListed
<1> QED
  BY <1>5, <1>6, <1>7, <1>8, <1>9, <1>10 DEF FilesInv

\* The gateway stops: after that, only the rows speak for the bytes, and there
\* is at most one file more that no row knows.
LEMMA StopInv ==
  ASSUME FilesInv,
         \/ StopAnywhere
         \/ \E f \in Files : StopInUpload(f) \/ StopInDelete(f)
         \/ \E p \in Preparers : StopInPlaceCopy(p)
  PROVE  FilesInv'
<1>1. /\ Stop /\ UNCHANGED <<file, links, bound, asked, copies, older>>
      /\ blob' \subseteq blob
      /\ \/ stray' = stray /\ cached' \subseteq cached
         \/ stray' = [stray EXCEPT ![crashes + 1] = "young"] /\ cached' = cached
         \/ stray' = stray /\ \E f \in Files : cached' = cached \cup {f}
  <2>1. ASSUME NEW p \in Preparers, StopInPlaceCopy(p) PROVE FileOf(p) \in Files
    BY <2>1, LeaseOf DEF StopInPlaceCopy, FilesInv
  <2> QED
    BY <2>1 DEF StopAnywhere, StopInUpload, StopInDelete, StopInPlaceCopy
<1>2. /\ crashes' = crashes + 1 /\ crashes' \in 0..MaxCrashes /\ crashes' # 0 /\ crashes + 1 \in Stops
      /\ prep' = [p \in Preparers |-> NoPrepare] /\ sweep' = [phase |-> "grace", ids |-> {}]
      /\ revoke' = NoRevoke
  BY <1>1, FilesAssumption DEF Stop, FilesInv, FilesStored, Stops
<1>3. FilesStored'
  <2>1. stray' \in [Stops -> {"none", "young", "old"}] /\ cached' \subseteq Files
    BY <1>1, <1>2 DEF FilesInv, FilesStored
  <2> QED
    BY <1>1, <1>2, <2>1 DEF FilesInv, FilesStored
<1>4. Preparing' /\ SweepListed' /\ BoundKept' /\ SessionsInRow' /\ Revoking'
  BY <1>1, <1>2 DEF FilesInv, Preparing, SweepListed, BoundKept, SessionsInRow, Revoking
<1>5. BytesKept'
  BY <1>1, <1>2 DEF FilesInv, BytesKept
<1>6. FewStrays'
  <2>1. \/ StrayBlobs' \subseteq StrayBlobs \cup {crashes + 1} /\ StrayCopies' \subseteq StrayCopies
        \/ \E f : StrayBlobs' \subseteq StrayBlobs /\ StrayCopies' \subseteq StrayCopies \cup {f}
    BY <1>1, <1>2 DEF StrayBlobs, StrayCopies, FilesInv, FilesStored
  <2> QED
    BY <1>2, <2>1, OneMoreStray
<1> QED
  BY <1>3, <1>4, <1>5, <1>6 DEF FilesInv

LEMMA FilesNextInv == FilesInv /\ [FilesNext]_filesVars => FilesInv'
<1> SUFFICES ASSUME FilesInv, [FilesNext]_filesVars PROVE FilesInv'
  OBVIOUS
<1>1. CASE FilesNext
  <2>1. CASE Sweeping
    BY <2>1, CleanupInv, DeleteFileInv DEF Sweeping
  <2>2. CASE ~Sweeping
    BY <1>1, <2>2, UploadInv, LinkFileInv, GrantInv, SessionInv, RevokeInv, DeleteFileInv, PrepareInv, ReleaseInv, CleanupInv, StopInv
       DEF FilesNext
  <2> QED
    BY <2>1, <2>2
<1>2. CASE UNCHANGED filesVars
  BY <1>2, NothingBound, NoStray DEF filesVars, sessionVars, FilesInv, FilesStored, Preparing, SweepListed, BoundKept, BytesKept
<1> QED
  BY <1>1, <1>2

LEMMA FilesTypes == FilesInv => FilesTypeOK
<1> SUFFICES ASSUME FilesInv PROVE FilesTypeOK
  OBVIOUS
<1>1. \A p \in Preparers : prep[p] = NoPrepare \/ (prep[p].phase \in {"leased", "read", "copied", "ready"} /\ asked[prep[p].request] # NotAsked)
  BY DEF FilesInv, Preparing, Prepare
<1>2. \A r \in Requests : asked[r] = NotAsked \/ asked[r] \in Lease
  BY DEF FilesInv, Preparing
<1> QED
  BY <1>1, <1>2 DEF FilesInv, FilesStored, SweepListed, SessionsInRow, BoundKept, FilesTypeOK, FileRow, Lease

LEMMA FilesBytes == FilesInv => BytesHaveRows
BY DEF FilesInv, BytesKept, FewStrays, StrayBlobs, StrayCopies, BytesHaveRows

\* The transaction that ends a revocation leaves nothing that the session it
\* names, or one that continues it, reads.
LEMMA RevokedStays ==
  ASSUME FilesInv, FilesNext, revoke # NoRevoke, revoke' = NoRevoke, crashes' = crashes,
         NEW x \in Sessions, revoke.session \in older[x],
         NEW b \in bound', b[2] \in older[x], Conversation[b[1]] = revoke.conversation
  PROVE  b \in revoke.since
<1>1. PICK s \in Sessions : RevokeNext(s)
  <2>1. \/ revoke' = revoke
        \/ \E f \in Files, s \in Sessions : IssueGrant(f, s) \/ BeginRevoke(Conversation[f], s)
        \/ \E s \in Sessions : RevokeNext(s)
        \/ Stop
    BY DEF FilesNext, Sweeping, sessionVars, Upload, PersonDeletes, AgeFile, AgeStray, LinkFile, SessionBegins,
           Compress, AcquireLease, ReadOriginal, PlaceCopy, GiveReceipt, Fail, ReleaseLease, Expire, EndGrace,
           SweepList, SweepCopies, SweepStrays, SweepDelete, StopAnywhere, StopInUpload, StopInDelete, StopInPlaceCopy
  <2>2. ~Stop
    BY DEF Stop, FilesInv, FilesStored
  <2>3. revoke \in Revocation
    BY DEF FilesInv, Revoking
  <2>4. ~\E f \in Files, s \in Sessions : IssueGrant(f, s) \/ BeginRevoke(Conversation[f], s)
    <3>1. ASSUME NEW f \in Files, NEW s \in Sessions, IssueGrant(f, s) PROVE FALSE
      <4>1. revoke' = [revoke EXCEPT !.since = @ \cup {<<f, s>>}]
        BY <3>1 DEF IssueGrant
      <4>2. revoke' \in Revocation /\ revoke'.left = revoke.left
        BY <2>3, <4>1 DEF Revocation
      <4> QED
        BY <4>2 DEF NoRevoke, FilesInv, Revoking
    <3> QED
      BY <3>1 DEF BeginRevoke
  <2> QED
    BY <2>1, <2>2, <2>4
<1>2. /\ revoke \in Revocation
      /\ \A a \in bound :
           /\ a[2] \in older[revoke.session] \/ revoke.session \in older[a[2]]
           /\ Conversation[a[1]] = revoke.conversation
           => a \in revoke.since \/ a[2] \in revoke.left
  BY DEF FilesInv, Revoking
<1>3. /\ b \in bound /\ (b[2] # s \/ Conversation[b[1]] # revoke.conversation)
      /\ revoke' = IF revoke.left = {s} THEN NoRevoke ELSE [revoke EXCEPT !.left = @ \ {s}]
  BY <1>1 DEF RevokeNext
<1>4. revoke.left = {s}
  <2>1. CASE revoke.left # {s}
    <3>1. revoke' = [revoke EXCEPT !.left = @ \ {s}]
      BY <1>3, <2>1
    <3>2. revoke'.left = revoke.left \ {s}
      BY <1>2, <3>1 DEF Revocation
    <3>3. revoke.left \ {s} # {}
      BY <1>1, <2>1 DEF RevokeNext
    <3> QED
      BY <3>2, <3>3 DEF NoRevoke
  <2> QED
    BY <2>1
<1>5. b[2] \in older[revoke.session] \/ revoke.session \in older[b[2]]
  BY DEF FilesInv, SessionsInRow
<1> QED
  BY <1>2, <1>3, <1>4, <1>5

=============================================================================
