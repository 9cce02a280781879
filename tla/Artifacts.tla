----------------------------- MODULE Artifacts -----------------------------
(***************************************************************************)
(* The artifact store: rows in registry.db, and one file per version under *)
(* blobs/<artifact>/<version>/.                                            *)
(*                                                                         *)
(* store_artifact_version is the only writer.  Tools, hooks at the end of  *)
(* a tool call or a turn, and people who edit call it from threads of one  *)
(* or several processes.  It holds the write lock of the database from the *)
(* decision which artifact the save belongs to until the commit, writes    *)
(* the file in between, and removes the files of the versions past the     *)
(* limit afterwards.  A deletion marks the row under the lock and erases   *)
(* the files afterwards.  A process may stop between any two steps, a file *)
(* may fail to be written, and a commit may fail.                          *)
(*                                                                         *)
(* An artifact of kind file belongs to its title.  A link belongs to its   *)
(* URL, which a new version may change (see Url).  One session and one     *)
(* kind of file are modelled, so the title alone is the identity.          *)
(***************************************************************************)
EXTENDS Naturals, Sequences

CONSTANTS Writers,     \* threads: saves, edits and deletions
          Titles,      \* the titles of files
          Url,         \* the URLs of links; a link's text is its URL
          Texts,       \* the texts of files
          Turns,       \* what the hook finds in an answer: sequences of saves
          Keep,        \* the number of versions whose files are kept
          MaxArtifacts, MaxVersions, MaxFaults \* bounds

VARIABLES
  row,    \* row[a]: the row of a: state, key, versions, pruned up to
  files,  \* the files, as <<artifact, version, name, text>>
  told,   \* told[a]: the events of a, in the order of their commits
  op,     \* op[w]: what writer w does next
  faults  \* stops and failures so far

artifactVars == <<row, files, told, op, faults>>

Artifact == 1..MaxArtifacts
Names == 0..MaxFaults
NoArtifact == [state |-> "unused", key |-> "", versions |-> << >>, pruned |-> 0]
NoOp == [does |-> "nothing", queue |-> << >>, edits |-> 0]
Saves == [key : Titles, text : Texts, of : Artifact \cup {0}]
           \cup {[key |-> u, text |-> u, of |-> a] : u \in Url, a \in Artifact \cup {0}}

ASSUME ArtifactsAssumption ==
  /\ Keep \in Nat
  /\ MaxArtifacts \in Nat /\ MaxVersions \in Nat \ {0} /\ MaxFaults \in Nat
  /\ Turns \subseteq Seq(Saves) \ {<<>>} \* a hook saves what it has found, if anything

Live(a) == row[a].state = "live"
IsLink(k) == k \in Url
Locked == \E w \in Writers : op[w].does \in {"write", "commit"}
Saving(w) == Head(op[w].queue)
Fault == faults < MaxFaults /\ faults' = faults + 1

\* The save is done: a hook goes on with what else the answer holds.
Continue(w) ==
  op' = [op EXCEPT ![w] = IF Len(op[w].queue) = 1 THEN NoOp
                          ELSE [NoOp EXCEPT !.does = "save", !.queue = Tail(op[w].queue)]]

-----------------------------------------------------------------------------
(* Who saves *)

\* The tool, which may name an artifact that its save supersedes.
ToolSaves(w, s) ==
  /\ op[w] = NoOp
  /\ op' = [op EXCEPT ![w] = [NoOp EXCEPT !.does = "save", !.queue = <<s>>]]
  /\ UNCHANGED <<row, files, told, faults>>

TurnEnds(w, queue) ==
  /\ op[w] = NoOp
  /\ op' = [op EXCEPT ![w] = [NoOp EXCEPT !.does = "save", !.queue = queue]]
  /\ UNCHANGED <<row, files, told, faults>>

\* A person edits a: it is live when the handler looks.  A file keeps its title.
PersonEdits(w, a, s) ==
  /\ op[w] = NoOp /\ Live(a)
  /\ s.of = a /\ IsLink(s.key) = IsLink(row[a].key) /\ (IsLink(s.key) \/ s.key = row[a].key)
  /\ op' = [op EXCEPT ![w] = [does |-> "save", queue |-> <<s>>, edits |-> a]]
  /\ UNCHANGED <<row, files, told, faults>>

-----------------------------------------------------------------------------
(* store_artifact_version *)

\* The live artifacts of the key.  Two links may have come to the same URL; the
\* one that was updated last is taken, and here either.
Keyed(k) == {a \in Artifact : Live(a) /\ row[a].key = k}

Targets(s) == IF s.of # 0 /\ Live(s.of) THEN {s.of}
              ELSE IF Keyed(s.key) # {} THEN Keyed(s.key) ELSE {0}

Mismatch(s) == s.of # 0 /\ Live(s.of) /\ IsLink(s.key) # IsLink(row[s.of].key)

LatestOf(a) == row[a].versions[Len(row[a].versions)]

Unused(a) == row[a] = NoArtifact /\ ~ \E f \in files : f[1] = a

\* new_artifact_id grows.
NewId(a) == Unused(a) /\ \A b \in Artifact : b < a => ~Unused(b)

\* (slip) which artifact a save belongs to is decided before the lock is there
DecidesAtOnce == TRUE

\* BEGIN IMMEDIATE has the lock: nobody else decides until the commit.
HasWriteLock == ~Locked

\* Which artifact and version the text becomes; the latest text again is a duplicate.
Decide(w) ==
  /\ op[w].does = "save" /\ HasWriteLock
  /\ \/ Mismatch(Saving(w)) /\ Continue(w)
     \/ /\ ~Mismatch(Saving(w))
        /\ \E a \in Targets(Saving(w)) :
             \/ a # 0 /\ LatestOf(a).text = Saving(w).text /\ Continue(w)
             \/ /\ a # 0 /\ LatestOf(a).text # Saving(w).text /\ Len(row[a].versions) < MaxVersions
                /\ op' = [op EXCEPT ![w] = [does |-> "write", queue |-> op[w].queue, edits |-> op[w].edits,
                                            in |-> a, version |-> Len(row[a].versions) + 1]]
             \/ /\ a = 0
                /\ \E b \in Artifact :
                     /\ NewId(b)
                     /\ op' = [op EXCEPT ![w] = [does |-> "write", queue |-> op[w].queue, edits |-> op[w].edits,
                                                 in |-> b, version |-> 1]]
  /\ UNCHANGED <<row, files, told, faults>>

\* _collision_free: a name that no file of the version has.
FreeName(a, v, n) == ~ \E f \in files : f[1] = a /\ f[2] = v /\ f[3] = n

Beyond(v) == IF Keep > 0 /\ v > Keep THEN v - Keep ELSE 0
FilesOf(a, lo, hi) == {<<a, v, row[a].versions[v].name, row[a].versions[v].text>> : v \in lo..hi}

\* (slip) the files of the versions that will be marked are removed before the commit
BlobWithPruning(w) ==
  /\ op[w].does = "write"
  /\ \E n \in Names :
       /\ FreeName(op[w].in, op[w].version, n)
       /\ files' = (files \cup {<<op[w].in, op[w].version, n, Saving(w).text>>})
                     \ FilesOf(op[w].in, 1, Beyond(op[w].version))
       /\ op' = [op EXCEPT ![w] = [does |-> "commit", queue |-> op[w].queue, edits |-> op[w].edits,
                                   in |-> op[w].in, version |-> op[w].version, name |-> n]]
  /\ UNCHANGED <<row, told, faults>>

WriteBlob(w) ==
  /\ op[w].does = "write"
  /\ \E n \in Names :
       /\ FreeName(op[w].in, op[w].version, n)
       /\ \A m \in Names : m < n => ~FreeName(op[w].in, op[w].version, m)
       /\ files' = files \cup {<<op[w].in, op[w].version, n, Saving(w).text>>}
       /\ op' = [op EXCEPT ![w] = [does |-> "commit", queue |-> op[w].queue, edits |-> op[w].edits,
                                   in |-> op[w].in, version |-> op[w].version, name |-> n]]
  /\ UNCHANGED <<row, told, faults>>

\* The rows, the marks of the versions past the limit and the event are one transaction.
CommitVersion(w) ==
  /\ op[w].does = "commit"
  /\ LET a == op[w].in
         s == Saving(w)
         isNew == row[a] = NoArtifact
         marked == Beyond(op[w].version)
     IN /\ row' = [row EXCEPT ![a] =
                     [state |-> "live",
                      key |-> IF isNew \/ IsLink(s.key) THEN s.key ELSE @.key,
                      versions |-> Append(@.versions, [text |-> s.text, name |-> op[w].name]),
                      pruned |-> marked]]
        /\ told' = [told EXCEPT ![a] = Append(@, IF isNew THEN "created" ELSE "versioned")]
        /\ op' = [op EXCEPT ![w] = [does |-> "prune", queue |-> op[w].queue, edits |-> 0, in |-> a,
                                    from |-> row[a].pruned + 1, to |-> marked]]
  /\ UNCHANGED <<files, faults>>

\* _remove_blobs; a file that cannot be removed stays.
RemoveBlobs(w) ==
  /\ op[w].does = "prune"
  /\ files' = files \ FilesOf(op[w].in, op[w].from, op[w].to)
  /\ Continue(w)
  /\ UNCHANGED <<row, told, faults>>

\* The file or the commit fails: what was written is unlinked.  A locked database
\* ends the turn of a hook, any other error only the save.
StoreFails(w) ==
  /\ op[w].does \in {"write", "commit"} /\ Fault
  /\ files' = IF op[w].does = "write" THEN files
              ELSE files \ {<<op[w].in, op[w].version, op[w].name, Saving(w).text>>}
  /\ Continue(w) \/ op' = [op EXCEPT ![w] = NoOp]
  /\ UNCHANGED <<row, told>>

-----------------------------------------------------------------------------
(* Deletion, and a process that stops *)

PersonErases(w, a) ==
  /\ op[w] = NoOp /\ Live(a)
  /\ op' = [op EXCEPT ![w] = [does |-> "mark", queue |-> << >>, edits |-> 0, in |-> a]]
  /\ UNCHANGED <<row, files, told, faults>>

\* (slip) the event is written whether or not the row was still live
MarkAndTell(w) ==
  /\ op[w].does = "mark" /\ ~Locked
  /\ row' = [row EXCEPT ![op[w].in].state = "deleted"]
  /\ told' = [told EXCEPT ![op[w].in] = Append(@, "deleted")]
  /\ op' = [op EXCEPT ![w].does = "erase"]
  /\ UNCHANGED <<files, faults>>

\* Of two deletions the second changes no row and writes no event.
MarkDeleted(w) ==
  /\ op[w].does = "mark" /\ ~Locked
  /\ row' = [row EXCEPT ![op[w].in].state = "deleted"]
  /\ told' = IF Live(op[w].in) THEN [told EXCEPT ![op[w].in] = Append(@, "deleted")] ELSE told
  /\ op' = [op EXCEPT ![w].does = "erase"]
  /\ UNCHANGED <<files, faults>>

EraseFiles(w) ==
  /\ op[w].does = "erase"
  /\ files' = {f \in files : f[1] # op[w].in}
  /\ op' = [op EXCEPT ![w] = NoOp]
  /\ UNCHANGED <<row, told, faults>>

\* The database rolls back what was not committed; files stay as they are.
WriterStops(w) ==
  /\ op[w] # NoOp /\ Fault
  /\ op' = [op EXCEPT ![w] = NoOp]
  /\ UNCHANGED <<row, files, told>>

-----------------------------------------------------------------------------

ArtifactsInit ==
  /\ row = [a \in Artifact |-> NoArtifact]
  /\ files = {}
  /\ told = [a \in Artifact |-> << >>]
  /\ op = [w \in Writers |-> NoOp]
  /\ faults = 0

ArtifactsNext ==
  \E w \in Writers :
    \/ \E s \in Saves : ToolSaves(w, s)
    \/ \E queue \in Turns : TurnEnds(w, queue)
    \/ \E s \in Saves, a \in Artifact : PersonEdits(w, a, s)
    \/ \E a \in Artifact : PersonErases(w, a)
    \/ Decide(w)
    \/ WriteBlob(w)
    \/ CommitVersion(w)
    \/ RemoveBlobs(w)
    \/ StoreFails(w)
    \/ MarkDeleted(w)
    \/ EraseFiles(w)
    \/ WriterStops(w)

ArtifactsSpec == ArtifactsInit /\ [][ArtifactsNext]_artifactVars
-----------------------------------------------------------------------------

ArtifactsTypeOK ==
  /\ \A a \in Artifact :
       \/ row[a] = NoArtifact
       \/ /\ row[a].state \in {"live", "deleted"} /\ row[a].key \in Titles \cup Url
          /\ Len(row[a].versions) \in 1..MaxVersions /\ row[a].pruned < Len(row[a].versions)
  /\ files \subseteq Artifact \X (1..MaxVersions) \X Names \X (Texts \cup Url)
  /\ \A w, x \in Writers : {op[w].does, op[x].does} \subseteq {"write", "commit"} => w = x
  /\ faults \in 0..MaxFaults

\* What reading version v of a gives: the row is looked up, then its file.
Reads(a, v) ==
  LET file == row[a].versions[v]
  IN IF ~Live(a) \/ v <= row[a].pruned THEN "gone"
     ELSE IF <<a, v, file.name, file.text>> \in files THEN file.text ELSE "missing"

\* What a reader of the store sees of it.
Shelved == [a \in Artifact |-> row[a].state]
TitleOf == [a \in Artifact |-> IF IsLink(row[a].key) THEN "" ELSE row[a].key]
TextOf == [a \in Artifact |-> [v \in DOMAIN row[a].versions |-> Reads(a, v)]]

Shelf == INSTANCE ArtifactShelf WITH
  Artifacts <- Artifact, Untitled <- "", Texts <- Texts \cup Url, Gone <- "gone",
  shelf <- Shelved, title <- TitleOf, text <- TextOf

\* The store keeps the promise of ArtifactShelf whatever threads save, edit and
\* delete at once, and wherever one stops or fails: no version is lost or numbered
\* twice, exactly the last Keep can be read, one title is one artifact.  ("a live
\* version without its file" does not arise, artifacts_store.py:354; two writers
\* making version 1 each was "a past defect", artifacts_store.py:293)
KeepsShelf == Shelf!ShelfSpec

\* The events of an artifact tell its life once: created, a versioned for every
\* further version, deleted at the end.  (artifacts_store.py:463)
ToldOnce ==
  \A a \in Artifact :
    told[a] = IF row[a] = NoArtifact THEN << >>
              ELSE [n \in 1..(Len(row[a].versions) + IF Live(a) THEN 0 ELSE 1) |->
                      IF n > Len(row[a].versions) THEN "deleted"
                      ELSE IF n = 1 THEN "created" ELSE "versioned"]

\* What a person's edit adds, it adds to the artifact that was edited.  ("Adds a
\* version to the artifact")
EditHits == \A w \in Writers :
  op[w].does = "commit" /\ op[w].edits # 0 => op[w].in = op[w].edits

=============================================================================
