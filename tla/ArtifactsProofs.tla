--------------------------- MODULE ArtifactsProofs ---------------------------
(* The artifact store keeps the promise of ArtifactShelf, and tells every   *)
(* artifact's life once.                                                    *)
EXTENDS Artifacts, SequenceTheorems, TLAPS

-----------------------------------------------------------------------------
(* The inductive invariant *)

Keys == Titles \cup Url
Contents == Texts \cup Url
Queue == Seq(Saves) \ {<<>>}

RowState ==
  {NoArtifact}
    \cup [state : {"live", "deleted"}, key : Keys, versions : Seq([text : Contents, name : Names]), pruned : Nat]

OpState ==
  {NoOp}
    \cup [does : {"save"}, queue : Queue, edits : Artifact \cup {0}]
    \cup [does : {"write"}, queue : Queue, edits : Artifact \cup {0}, in : Artifact, version : 1..MaxVersions]
    \cup [does : {"commit"}, queue : Queue, edits : Artifact \cup {0}, in : Artifact, version : 1..MaxVersions,
          name : Names]
    \cup [does : {"prune"}, queue : Queue, edits : {0}, in : Artifact, from : Nat \ {0}, to : Nat]
    \cup [does : {"mark", "erase"}, queue : {<<>>}, edits : {0}, in : Artifact]

Shapes ==
  /\ row \in [Artifact -> RowState]
  /\ told \in [Artifact -> Seq({"created", "versioned", "deleted"})]
  /\ op \in [Writers -> OpState]
  /\ files \subseteq Artifact \X (1..MaxVersions) \X Names \X Contents
  /\ faults \in 0..MaxFaults

Stored(a) == row[a] # NoArtifact

\* Versions are marked as far as the limit says, never all of them.
Marked ==
  \A a \in Artifact : Stored(a) =>
    Len(row[a].versions) \in 1..MaxVersions /\ row[a].pruned = Beyond(Len(row[a].versions))

VersionFile(a, v) == <<a, v, row[a].versions[v].name, row[a].versions[v].text>>

\* Every version that is not marked has its file.
FilesThere ==
  \A a \in Artifact : Live(a) =>
    \A v \in 1..Len(row[a].versions) : v > row[a].pruned => VersionFile(a, v) \in files

HoldsLock(w) == op[w].does \in {"write", "commit"}
OneWriter == \A w, x \in Writers : HoldsLock(w) /\ HoldsLock(x) => w = x

\* What the holder of the lock has decided is still right: the artifact is live
\* and the version its next, or it is new and nobody else has the title.
Decided ==
  \A w \in Writers : HoldsLock(w) =>
    LET a == op[w].in
        s == Head(op[w].queue)
    IN /\ ~Stored(a) \/ Live(a)
       /\ op[w].version = Len(row[a].versions) + 1
       /\ Stored(a) => LatestOf(a).text # s.text /\ (IsLink(s.key) <=> IsLink(row[a].key))
       /\ ~Stored(a) => Keyed(s.key) = {}
       /\ op[w].does = "commit" => <<a, op[w].version, op[w].name, s.text>> \in files

\* What is still to be removed is marked or belongs to what was deleted.
Leftovers ==
  \A w \in Writers :
    /\ op[w].does = "prune" => Stored(op[w].in) /\ op[w].to <= row[op[w].in].pruned
    /\ op[w].does = "mark" => Stored(op[w].in)
    /\ op[w].does = "erase" => row[op[w].in].state = "deleted"

ArtifactsInv == Shapes /\ Marked /\ FilesThere /\ OneWriter /\ Decided /\ Leftovers /\ ToldOnce

LEMMA ArtifactsInitInv == ArtifactsInit => ArtifactsInv
<1> SUFFICES ASSUME ArtifactsInit PROVE ArtifactsInv
  OBVIOUS
<1>1. Shapes
  BY ArtifactsAssumption DEF ArtifactsInit, Shapes, RowState, OpState
<1>2. \A a \in Artifact : ~Stored(a) /\ ~Live(a) /\ told[a] = <<>> /\ row[a] = NoArtifact
  BY DEF ArtifactsInit, Stored, Live, NoArtifact
<1>3. \A w \in Writers : op[w].does = "nothing"
  BY DEF ArtifactsInit, NoOp
<1>4. ToldOnce
  BY <1>2 DEF ToldOnce
<1> QED
  BY <1>1, <1>2, <1>3, <1>4 DEF ArtifactsInv, Marked, FilesThere, OneWriter, HoldsLock, Decided, Leftovers

-----------------------------------------------------------------------------
(* What a writer is doing *)

LEMMA OpOf ==
  ASSUME Shapes, NEW w \in Writers
  PROVE  /\ op[w] \in OpState
         /\ op[w].does \in {"save", "write", "commit", "prune"} =>
              op[w].queue \in Queue /\ Saving(w) \in Saves
         /\ HoldsLock(w) => op[w].in \in Artifact /\ op[w].version \in 1..MaxVersions
                            /\ op[w].edits \in Artifact \cup {0}
         /\ op[w].does = "commit" => op[w].name \in Names
         /\ op[w].does = "prune" => op[w].in \in Artifact /\ op[w].from \in Nat \ {0} /\ op[w].to \in Nat
         /\ op[w].does \in {"mark", "erase"} => op[w] \in [does : {"mark", "erase"}, queue : {<<>>}, edits : {0}, in : Artifact]
<1>1. op[w] \in OpState
  BY DEF Shapes
<1>2. op[w].does \in {"save", "write", "commit", "prune"} => op[w].queue \in Queue
  BY <1>1 DEF OpState, NoOp
<1>3. \A q \in Queue : Head(q) \in Saves
  BY DEF Queue
<1> QED
  BY <1>1, <1>2, <1>3 DEF OpState, NoOp, HoldsLock, Saving

LEMMA HolderFacts ==
  ASSUME ArtifactsInv, NEW w \in Writers, HoldsLock(w)
  PROVE  /\ ~Stored(op[w].in) \/ Live(op[w].in)
         /\ op[w].version = Len(row[op[w].in].versions) + 1 /\ op[w].version \in Nat \ {0}
         /\ Stored(op[w].in) => /\ LatestOf(op[w].in).text # Saving(w).text
                                /\ IsLink(Saving(w).key) <=> IsLink(row[op[w].in].key)
         /\ ~Stored(op[w].in) => Keyed(Saving(w).key) = {}
         /\ op[w].does = "commit" => <<op[w].in, op[w].version, op[w].name, Saving(w).text>> \in files
<1>1. op[w].version \in Nat \ {0}
  BY OpOf, ArtifactsAssumption DEF ArtifactsInv
<1> QED
  BY <1>1 DEF ArtifactsInv, Decided, Saving

LEMMA SaveIn ==
  ASSUME NEW s \in Saves
  PROVE  s.key \in Keys /\ s.text \in Contents
BY DEF Saves, Keys, Contents

\* What a writer does after a save: nothing, or the next save.
Rests(o) == o \in OpState /\ o.does \in {"nothing", "save"}

LEMMA Continues ==
  ASSUME Shapes, NEW w \in Writers, op[w].does \in {"save", "write", "commit", "prune"}, Continue(w)
  PROVE  \E o : Rests(o) /\ op' = [op EXCEPT ![w] = o]
<1>1. op[w].queue \in Queue
  BY OpOf
<1>2. CASE Len(op[w].queue) = 1
  BY <1>2 DEF Continue, Rests, OpState, NoOp
<1>3. CASE Len(op[w].queue) # 1
  <2> DEFINE rest == Tail(op[w].queue)
  <2>1. rest \in Seq(Saves)
    BY <1>1 DEF Queue
  <2>2. rest # <<>>
    <3>1. Len(rest) = Len(op[w].queue) - 1 /\ Len(op[w].queue) \in Nat \ {0}
      BY <1>1, EmptySeq, HeadTailProperties DEF Queue
    <3>2. Len(rest) # 0
      BY <1>3, <3>1
    <3> QED
      BY <3>2, EmptySeq
  <2> HIDE DEF rest
  <2>3. rest \in Queue
    BY <2>1, <2>2 DEF Queue
  <2>4. [NoOp EXCEPT !.does = "save", !.queue = rest] = [does |-> "save", queue |-> rest, edits |-> 0]
    <3> DEFINE saving == [NoOp EXCEPT !.does = "save"]
    <3>1. saving = [does |-> "save", queue |-> <<>>, edits |-> 0]
      BY DEF NoOp
    <3> HIDE DEF saving
    <3>2. [saving EXCEPT !.queue = rest] = [does |-> "save", queue |-> rest, edits |-> 0]
      BY <3>1
    <3> QED
      BY <3>2 DEF saving
  <2>5. [does |-> "save", queue |-> rest, edits |-> 0] \in OpState
    BY <2>3 DEF OpState
  <2>6. op' = [op EXCEPT ![w] = [NoOp EXCEPT !.does = "save", !.queue = rest]]
    BY <1>3 DEF Continue, rest
  <2> QED
    BY <2>4, <2>5, <2>6 DEF Rests
<1> QED
  BY <1>2, <1>3

LEMMA OpUpdate ==
  ASSUME Shapes, NEW w \in Writers, NEW o \in OpState, op' = [op EXCEPT ![w] = o]
  PROVE  /\ op' \in [Writers -> OpState] /\ op'[w] = o
         /\ \A x \in Writers : x # w => op'[x] = op[x]
BY DEF Shapes

LEMMA RowsSame ==
  ASSUME Marked, ToldOnce, row' = row, told' = told
  PROVE  Marked' /\ ToldOnce'
<1>1. Marked'
  BY DEF Marked, Stored
<1>2. ToldOnce'
  BY ZenonT(60) DEF ToldOnce, Live
<1> QED
  BY <1>1, <1>2

\* What a holder has decided stays right, when the rows and its files stay.
LEMMA DecidedStays ==
  ASSUME Decided, row' = row,
         \A x \in Writers : HoldsLock(x)' =>
           /\ HoldsLock(x)
           /\ op'[x].in = op[x].in /\ op'[x].version = op[x].version /\ op'[x].queue = op[x].queue,
         \A x \in Writers : op'[x].does = "commit" =>
           <<op'[x].in, op'[x].version, op'[x].name, Head(op'[x].queue).text>> \in files'
  PROVE  Decided'
<1>1. ASSUME NEW w \in Writers, HoldsLock(w)'
      PROVE  (LET a == op[w].in
                  s == Head(op[w].queue)
              IN /\ ~Stored(a) \/ Live(a)
                 /\ op[w].version = Len(row[a].versions) + 1
                 /\ Stored(a) => LatestOf(a).text # s.text /\ (IsLink(s.key) <=> IsLink(row[a].key))
                 /\ ~Stored(a) => Keyed(s.key) = {}
                 /\ op[w].does = "commit" => <<a, op[w].version, op[w].name, s.text>> \in files)'
  <2>1. /\ HoldsLock(w)
        /\ op'[w].in = op[w].in /\ op'[w].version = op[w].version /\ op'[w].queue = op[w].queue
    BY <1>1
  <2>2. PICK q : q = op'[w]
    OBVIOUS
  <2>3. /\ ~Stored(q.in) \/ Live(q.in)
        /\ q.version = Len(row[q.in].versions) + 1
        /\ Stored(q.in) => LatestOf(q.in).text # Head(q.queue).text
                           /\ (IsLink(Head(q.queue).key) <=> IsLink(row[q.in].key))
        /\ ~Stored(q.in) => Keyed(Head(q.queue).key) = {}
    BY <2>1, <2>2 DEF Decided
  <2>4. q.does = "commit" => <<q.in, q.version, q.name, Head(q.queue).text>> \in files'
    BY <2>2
  <2>5. /\ row'[q.in] = NoArtifact \/ row'[q.in].state = "live"
        /\ q.version = Len(row'[q.in].versions) + 1
        /\ row'[q.in] # NoArtifact =>
             /\ row'[q.in].versions[Len(row'[q.in].versions)].text # Head(q.queue).text
             /\ IsLink(Head(q.queue).key) <=> IsLink(row'[q.in].key)
        /\ row'[q.in] = NoArtifact =>
             {a \in Artifact : row'[a].state = "live" /\ row'[a].key = Head(q.queue).key} = {}
    BY <2>3 DEF Stored, Live, LatestOf, Keyed
  <2> QED
    BY <2>2, <2>4, <2>5 DEF Stored, Live, LatestOf, Keyed
<1> QED
  BY <1>1 DEF Decided

LEMMA RowsKept ==
  ASSUME Marked, FilesThere, ToldOnce, row' = row, told' = told, files \subseteq files'
  PROVE  Marked' /\ FilesThere' /\ ToldOnce'
<1>1. FilesThere'
  BY DEF FilesThere, Live, VersionFile
<1> QED
  BY <1>1, RowsSame

\* A writer that rests afterwards disturbs nobody, when rows and files stay.
LEMMA QuietWriter ==
  ASSUME ArtifactsInv, NEW w \in Writers, NEW o, Rests(o), op' = [op EXCEPT ![w] = o],
         UNCHANGED <<row, files, told>>, faults' \in 0..MaxFaults
  PROVE  ArtifactsInv'
<1>1. /\ op' \in [Writers -> OpState] /\ op'[w] = o
      /\ \A x \in Writers : x # w => op'[x] = op[x]
  BY OpUpdate DEF ArtifactsInv, Rests
<1>2. \A x \in Writers : op'[x] = op[x] \/ (x = w /\ op'[x].does \in {"nothing", "save"})
  BY <1>1 DEF Rests
<1>3. Shapes'
  BY <1>1 DEF ArtifactsInv, Shapes
<1>4. Marked' /\ FilesThere' /\ ToldOnce'
  BY RowsKept DEF ArtifactsInv
<1>5. OneWriter'
  BY <1>2 DEF ArtifactsInv, OneWriter, HoldsLock
<1>6. Decided'
  <2>1. \A x \in Writers : HoldsLock(x)' => op'[x] = op[x] /\ HoldsLock(x)
    BY <1>2 DEF HoldsLock
  <2>2. \A x \in Writers : op'[x].does = "commit" =>
          <<op'[x].in, op'[x].version, op'[x].name, Head(op'[x].queue).text>> \in files'
    BY <1>2 DEF ArtifactsInv, Decided, HoldsLock
  <2> QED
    BY <2>1, <2>2, DecidedStays DEF ArtifactsInv
<1>7. Leftovers'
  BY <1>2 DEF ArtifactsInv, Leftovers, Stored
<1> QED
  BY <1>3, <1>4, <1>5, <1>6, <1>7 DEF ArtifactsInv

-----------------------------------------------------------------------------
(* store_artifact_version *)

RowOfKind == [state : {"live", "deleted"}, key : Keys, versions : Seq([text : Contents, name : Names]), pruned : Nat]

LEMMA RowOf ==
  ASSUME Shapes, NEW a \in Artifact
  PROVE  /\ row[a] \in RowState
         /\ Stored(a) => row[a] \in RowOfKind
         /\ ~Stored(a) => row[a].versions = <<>> /\ row[a].state = "unused" /\ row[a].pruned = 0
         /\ Live(a) => Stored(a)
         /\ Stored(a) => row[a].state \in {"live", "deleted"}
         /\ row[a].versions \in Seq([text : Contents, name : Names])
         /\ row[a].pruned \in Nat
<1>1. row[a] \in RowState
  BY DEF Shapes
<1>2. /\ NoArtifact.versions = <<>> /\ NoArtifact.state = "unused" /\ NoArtifact.pruned = 0
      /\ <<>> \in Seq([text : Contents, name : Names])
  BY DEF NoArtifact
<1>3. CASE row[a] = NoArtifact
  <2>1. row[a].pruned = 0 /\ row[a].versions = <<>> /\ row[a].state = "unused"
    BY <1>2, <1>3
  <2>2. ~Stored(a) /\ ~Live(a)
    BY <1>3, <2>1 DEF Stored, Live
  <2>3. row[a].versions \in Seq([text : Contents, name : Names])
    BY <1>2, <2>1
  <2> QED
    BY <1>1, <2>1, <2>2, <2>3
<1>4. CASE row[a] # NoArtifact
  <2>1. row[a] \in RowOfKind
    BY <1>1, <1>4 DEF RowState, RowOfKind
  <2> QED
    BY <1>1, <1>4, <2>1 DEF RowOfKind, Stored
<1> QED
  BY <1>3, <1>4

LEMMA BeyondBelow ==
  ASSUME NEW v \in Nat \ {0}
  PROVE  /\ Beyond(v) \in Nat /\ Beyond(v) < v /\ Beyond(v) <= Beyond(v + 1)
         /\ \A n \in 1..v : n <= Beyond(v) <=> Keep > 0 /\ n + Keep <= v
BY ArtifactsAssumption DEF Beyond

LEMMA DecideWrites ==
  ASSUME ArtifactsInv, NEW w \in Writers, op[w].does = "save", ~Locked, ~Mismatch(Saving(w)),
         NEW a \in Artifact, NEW v \in 1..MaxVersions, v = Len(row[a].versions) + 1,
         ~Stored(a) \/ Live(a),
         Stored(a) => LatestOf(a).text # Saving(w).text /\ (IsLink(Saving(w).key) <=> IsLink(row[a].key)),
         ~Stored(a) => Keyed(Saving(w).key) = {},
         op' = [op EXCEPT ![w] = [does |-> "write", queue |-> op[w].queue, edits |-> op[w].edits, in |-> a, version |-> v]],
         UNCHANGED <<row, files, told, faults>>
  PROVE  ArtifactsInv'
<1> DEFINE o == [does |-> "write", queue |-> op[w].queue, edits |-> op[w].edits, in |-> a, version |-> v]
<1>1. o \in OpState
  <2>1. op[w] \in OpState /\ op[w].queue \in Queue
    BY OpOf DEF ArtifactsInv
  <2>2. op[w].edits \in Artifact \cup {0}
    BY <2>1 DEF OpState, NoOp
  <2> QED
    BY <2>1, <2>2 DEF OpState
<1>2. o.does = "write" /\ o.queue = op[w].queue /\ o.in = a /\ o.version = v
  OBVIOUS
<1> HIDE DEF o
<1>3. /\ op' \in [Writers -> OpState] /\ op'[w] = o
      /\ \A x \in Writers : x # w => op'[x] = op[x]
  BY <1>1, OpUpdate DEF ArtifactsInv, o
<1>4. \A x \in Writers : op[x].does \notin {"write", "commit"}
  BY DEF Locked
<1>5. Shapes'
  BY <1>3 DEF ArtifactsInv, Shapes
<1>6. Marked' /\ FilesThere' /\ ToldOnce'
  BY RowsKept DEF ArtifactsInv
<1>7. OneWriter'
  BY <1>3, <1>4 DEF OneWriter, HoldsLock
<1>8. Decided'
  BY <1>2, <1>3, <1>4 DEF Decided, HoldsLock, Stored, Live, LatestOf, Keyed, Saving
<1>9. Leftovers'
  BY <1>2, <1>3 DEF ArtifactsInv, Leftovers, Stored
<1> QED
  BY <1>5, <1>6, <1>7, <1>8, <1>9 DEF ArtifactsInv

LEMMA DecideInv ==
  ASSUME ArtifactsInv, NEW w \in Writers, Decide(w)
  PROVE  ArtifactsInv'
<1>0. /\ op[w].does = "save" /\ ~Locked /\ UNCHANGED <<row, files, told, faults>>
      /\ Saving(w) \in Saves /\ faults \in 0..MaxFaults
  BY OpOf DEF Decide, HasWriteLock, ArtifactsInv, Shapes
<1>1. CASE Continue(w)
  <2>1. \E o : Rests(o) /\ op' = [op EXCEPT ![w] = o]
    BY <1>0, <1>1, Continues DEF ArtifactsInv
  <2> QED
    BY <1>0, <2>1, QuietWriter
<1>2. CASE ~Continue(w)
  <2>1. ~Mismatch(Saving(w))
    BY <1>2 DEF Decide
  <2>2. PICK a \in Targets(Saving(w)) :
          \/ /\ a # 0 /\ LatestOf(a).text # Saving(w).text /\ Len(row[a].versions) < MaxVersions
             /\ op' = [op EXCEPT ![w] = [does |-> "write", queue |-> op[w].queue, edits |-> op[w].edits,
                                         in |-> a, version |-> Len(row[a].versions) + 1]]
          \/ /\ a = 0
             /\ \E b \in Artifact :
                  /\ NewId(b)
                  /\ op' = [op EXCEPT ![w] = [does |-> "write", queue |-> op[w].queue, edits |-> op[w].edits,
                                              in |-> b, version |-> 1]]
    BY <1>2 DEF Decide
  <2>3. Saving(w).of \in Artifact \cup {0} /\ 0 \notin Artifact
    BY <1>0 DEF Saves, Artifact
  <2>4. CASE a # 0
    <3>1. a \in Artifact /\ Live(a) /\ (IsLink(Saving(w).key) <=> IsLink(row[a].key))
      <4>1. CASE Saving(w).of # 0 /\ Live(Saving(w).of)
        BY <2>1, <2>2, <2>3, <4>1 DEF Targets, Mismatch
      <4>2. CASE ~(Saving(w).of # 0 /\ Live(Saving(w).of))
        BY <2>2, <2>4, <4>2 DEF Targets, Keyed
      <4> QED
        BY <4>1, <4>2
    <3>2. Stored(a) /\ Len(row[a].versions) \in Nat
      BY <3>1, RowOf DEF ArtifactsInv
    <3>3. Len(row[a].versions) + 1 \in 1..MaxVersions
      BY <2>2, <2>4, <3>2, ArtifactsAssumption
    <3> QED
      BY <1>0, <2>1, <2>2, <2>4, <3>1, <3>2, <3>3, DecideWrites
  <2>5. CASE a = 0
    <3>1. PICK b \in Artifact :
            /\ NewId(b)
            /\ op' = [op EXCEPT ![w] = [does |-> "write", queue |-> op[w].queue, edits |-> op[w].edits,
                                        in |-> b, version |-> 1]]
      BY <2>2, <2>5
    <3>2. ~Stored(b) /\ row[b] = NoArtifact
      BY <3>1 DEF NewId, Unused, Stored
    <3>3. Keyed(Saving(w).key) = {}
      BY <2>2, <2>3, <2>5 DEF Targets, Keyed
    <3>4. 1 \in 1..MaxVersions /\ Len(row[b].versions) = 0
      <4>1. row[b].versions = <<>>
        BY <3>2, RowOf DEF ArtifactsInv
      <4> QED
        BY <4>1, EmptySeq, ArtifactsAssumption
    <3>5. 1 = Len(row[b].versions) + 1
      BY <3>4
    <3> QED
      BY <1>0, <2>1, <3>1, <3>2, <3>3, <3>4, <3>5, DecideWrites
  <2> QED
    BY <2>4, <2>5
<1> QED
  BY <1>1, <1>2

LEMMA WriteBlobInv ==
  ASSUME ArtifactsInv, NEW w \in Writers, WriteBlob(w)
  PROVE  ArtifactsInv'
<1>0. /\ op[w].does = "write" /\ HoldsLock(w) /\ UNCHANGED <<row, told, faults>>
      /\ op[w].in \in Artifact /\ op[w].version \in 1..MaxVersions /\ op[w].edits \in Artifact \cup {0}
      /\ Saving(w).text \in Contents /\ op[w].queue \in Queue
  BY OpOf, SaveIn DEF WriteBlob, HoldsLock, ArtifactsInv
<1>1. PICK n \in Names :
        /\ files' = files \cup {<<op[w].in, op[w].version, n, Saving(w).text>>}
        /\ op' = [op EXCEPT ![w] = [does |-> "commit", queue |-> op[w].queue, edits |-> op[w].edits,
                                    in |-> op[w].in, version |-> op[w].version, name |-> n]]
  BY DEF WriteBlob
<1> DEFINE o == [does |-> "commit", queue |-> op[w].queue, edits |-> op[w].edits,
                 in |-> op[w].in, version |-> op[w].version, name |-> n]
<1>2. o \in OpState
  BY <1>0 DEF OpState
<1>3. o.does = "commit" /\ o.queue = op[w].queue /\ o.in = op[w].in /\ o.version = op[w].version /\ o.name = n
  OBVIOUS
<1> HIDE DEF o
<1>4. /\ op' \in [Writers -> OpState] /\ op'[w] = o
      /\ \A x \in Writers : x # w => op'[x] = op[x]
  BY <1>1, <1>2, OpUpdate DEF ArtifactsInv, o
<1>5. \A x \in Writers : x # w => op[x].does \notin {"write", "commit"}
  BY <1>0 DEF ArtifactsInv, OneWriter, HoldsLock
<1>6. Shapes'
  BY <1>0, <1>1, <1>4 DEF ArtifactsInv, Shapes
<1>7. Marked' /\ FilesThere' /\ ToldOnce'
  BY <1>0, <1>1, RowsKept DEF ArtifactsInv
<1>8. OneWriter'
  BY <1>4, <1>5 DEF OneWriter, HoldsLock
<1>9. Decided'
  <2>1. \A x \in Writers : HoldsLock(x)' =>
          /\ HoldsLock(x)
          /\ op'[x].in = op[x].in /\ op'[x].version = op[x].version /\ op'[x].queue = op[x].queue
    BY <1>0, <1>3, <1>4, <1>5 DEF HoldsLock
  <2>2. \A x \in Writers : op'[x].does = "commit" =>
          <<op'[x].in, op'[x].version, op'[x].name, Head(op'[x].queue).text>> \in files'
    BY <1>1, <1>3, <1>4, <1>5 DEF Saving
  <2> QED
    BY <1>0, <2>1, <2>2, DecidedStays DEF ArtifactsInv
<1>10. Leftovers'
  BY <1>0, <1>3, <1>4 DEF ArtifactsInv, Leftovers, Stored
<1> QED
  BY <1>6, <1>7, <1>8, <1>9, <1>10 DEF ArtifactsInv

\* What a commit does to the row and the events of its artifact.
LEMMA CommitRow ==
  ASSUME ArtifactsInv, NEW w \in Writers, CommitVersion(w)
  PROVE  /\ HoldsLock(w) /\ op[w].in \in Artifact /\ op[w].version \in Nat \ {0}
         /\ op[w].version = Len(row[op[w].in].versions) + 1
         /\ row' \in [Artifact -> RowState]
         /\ \A b \in Artifact : b # op[w].in => row'[b] = row[b] /\ told'[b] = told[b]
         /\ row'[op[w].in] \in RowOfKind
         /\ row'[op[w].in].state = "live"
         /\ row'[op[w].in].key = IF ~Stored(op[w].in) \/ IsLink(Saving(w).key) THEN Saving(w).key ELSE row[op[w].in].key
         /\ row'[op[w].in].versions = Append(row[op[w].in].versions, [text |-> Saving(w).text, name |-> op[w].name])
         /\ Len(row'[op[w].in].versions) = op[w].version
         /\ row'[op[w].in].pruned = Beyond(op[w].version)
         /\ told' \in [Artifact -> Seq({"created", "versioned", "deleted"})]
         /\ told'[op[w].in] = Append(told[op[w].in], IF Stored(op[w].in) THEN "versioned" ELSE "created")
<1>0. /\ op[w].does = "commit" /\ HoldsLock(w)
      /\ op[w].in \in Artifact /\ op[w].version \in 1..MaxVersions /\ op[w].name \in Names
      /\ Saving(w).text \in Contents /\ Saving(w).key \in Keys
  BY OpOf, SaveIn DEF CommitVersion, HoldsLock, ArtifactsInv
<1> DEFINE a == op[w].in
           key == IF ~Stored(a) \/ IsLink(Saving(w).key) THEN Saving(w).key ELSE row[a].key
           versions == Append(row[a].versions, [text |-> Saving(w).text, name |-> op[w].name])
           new == [state |-> "live", key |-> key, versions |-> versions, pruned |-> Beyond(op[w].version)]
           event == IF Stored(a) THEN "versioned" ELSE "created"
<1>1. row' = [row EXCEPT ![a] = new] /\ told' = [told EXCEPT ![a] = Append(told[a], event)]
  BY DEF CommitVersion, Stored
<1>2. op[w].version \in Nat \ {0} /\ op[w].version = Len(row[a].versions) + 1
  BY <1>0, HolderFacts
<1>3. key \in Keys
  BY <1>0, RowOf DEF ArtifactsInv, RowOfKind
<1>4. versions \in Seq([text : Contents, name : Names]) /\ Len(versions) = op[w].version
  <2>1. row[a].versions \in Seq([text : Contents, name : Names])
    BY <1>0, RowOf DEF ArtifactsInv
  <2>2. [text |-> Saving(w).text, name |-> op[w].name] \in [text : Contents, name : Names]
    BY <1>0
  <2> QED
    BY <1>2, <2>1, <2>2, AppendProperties
<1>5. Beyond(op[w].version) \in Nat
  BY <1>2, BeyondBelow
<1>6. event \in {"created", "versioned", "deleted"} /\ event = IF Stored(a) THEN "versioned" ELSE "created"
  OBVIOUS
<1>7. key = IF ~Stored(a) \/ IsLink(Saving(w).key) THEN Saving(w).key ELSE row[a].key
  OBVIOUS
<1>8. versions = Append(row[a].versions, [text |-> Saving(w).text, name |-> op[w].name])
  OBVIOUS
<1> HIDE DEF key, versions, event
<1>9. new \in RowOfKind /\ new.state = "live" /\ new.key = key /\ new.versions = versions /\ new.pruned = Beyond(op[w].version)
  BY <1>3, <1>4, <1>5 DEF RowOfKind
<1> HIDE DEF new
<1>10. new \in RowState
  BY <1>9 DEF RowState, RowOfKind
<1>11. row \in [Artifact -> RowState] /\ told \in [Artifact -> Seq({"created", "versioned", "deleted"})]
  BY DEF ArtifactsInv, Shapes
<1>12. /\ row' \in [Artifact -> RowState] /\ row'[a] = new
       /\ \A b \in Artifact : b # a => row'[b] = row[b]
  BY <1>0, <1>1, <1>10, <1>11
<1>13. Append(told[a], event) \in Seq({"created", "versioned", "deleted"})
  BY <1>0, <1>6, <1>11
<1>14. /\ told' \in [Artifact -> Seq({"created", "versioned", "deleted"})] /\ told'[a] = Append(told[a], event)
       /\ \A b \in Artifact : b # a => told'[b] = told[b]
  BY <1>0, <1>1, <1>11, <1>13
<1> QED
  BY <1>0, <1>2, <1>4, <1>6, <1>7, <1>8, <1>9, <1>12, <1>14

\* What an artifact that has come to version v, and is live or deleted, has told.
Life(v, live) ==
  [n \in 1..(v + IF live THEN 0 ELSE 1) |->
     IF n > v THEN "deleted" ELSE IF n = 1 THEN "created" ELSE "versioned"]

LEMMA AppendAt ==
  ASSUME NEW S, NEW s \in Seq(S), NEW e \in S
  PROVE  /\ Append(s, e) \in Seq(S) /\ Len(Append(s, e)) = Len(s) + 1
         /\ \A n \in 1..(Len(s) + 1) : Append(s, e)[n] = IF n = Len(s) + 1 THEN e ELSE s[n]
OBVIOUS

LifeEvents == {"created", "versioned", "deleted"}

LEMMA LifeStarts == Append(<<>>, "created") = Life(1, TRUE)
BY DEF Life

LEMMA LifeGrows ==
  ASSUME NEW v \in Nat \ {0}
  PROVE  /\ Append(Life(v, TRUE), "versioned") = Life(v + 1, TRUE)
         /\ Append(Life(v, TRUE), "deleted") = Life(v, FALSE)
<1>1. \A u \in Nat \ {0} : Life(u, TRUE) \in Seq(LifeEvents) /\ Len(Life(u, TRUE)) = u
  BY DEF Life, LifeEvents
<1>2. \A u \in Nat \ {0} : Life(u, FALSE) \in Seq(LifeEvents) /\ Len(Life(u, FALSE)) = u + 1
  BY DEF Life, LifeEvents
<1>4. Append(Life(v, TRUE), "versioned") = Life(v + 1, TRUE)
  <2> DEFINE life == Life(v, TRUE)
             s == Append(life, "versioned")
             t == Life(v + 1, TRUE)
  <2>0. "versioned" \in LifeEvents /\ life \in Seq(LifeEvents) /\ Len(life) = v
    BY <1>1 DEF LifeEvents
  <2>1. /\ s \in Seq(LifeEvents) /\ Len(s) = v + 1
        /\ \A n \in 1..(v + 1) : s[n] = IF n = v + 1 THEN "versioned" ELSE life[n]
    <3> HIDE DEF life
    <3> QED
      BY <2>0, AppendAt
  <2>2. t \in Seq(LifeEvents) /\ Len(t) = v + 1
    <3> v + 1 \in Nat \ {0}
      OBVIOUS
    <3> QED
      BY <1>1, <1>2
  <2>3. \A n \in 1..(v + 1) : s[n] = t[n]
    BY <2>1 DEF Life
  <2> HIDE DEF s, t
  <2>4. s = t
    BY <2>1, <2>2, <2>3, SeqEqual
  <2> QED
    BY <2>4 DEF s, t
<1>5. Append(Life(v, TRUE), "deleted") = Life(v, FALSE)
  <2> DEFINE life == Life(v, TRUE)
             s == Append(life, "deleted")
             t == Life(v, FALSE)
  <2>0. "deleted" \in LifeEvents /\ life \in Seq(LifeEvents) /\ Len(life) = v
    BY <1>1 DEF LifeEvents
  <2>1. /\ s \in Seq(LifeEvents) /\ Len(s) = v + 1
        /\ \A n \in 1..(v + 1) : s[n] = IF n = v + 1 THEN "deleted" ELSE life[n]
    <3> HIDE DEF life
    <3> QED
      BY <2>0, AppendAt
  <2>2. t \in Seq(LifeEvents) /\ Len(t) = v + 1
    <3> v + 1 \in Nat \ {0}
      OBVIOUS
    <3> QED
      BY <1>1, <1>2
  <2>3. \A n \in 1..(v + 1) : s[n] = t[n]
    BY <2>1 DEF Life
  <2> HIDE DEF s, t
  <2>4. s = t
    BY <2>1, <2>2, <2>3, SeqEqual
  <2> QED
    BY <2>4 DEF s, t
<1> QED
  BY <1>4, <1>5

LEMMA ToldLife ==
  ASSUME ToldOnce, NEW a \in Artifact
  PROVE  /\ ~Stored(a) => told[a] = <<>>
         /\ Stored(a) /\ Live(a) => told[a] = Life(Len(row[a].versions), TRUE)
         /\ Stored(a) /\ ~Live(a) => told[a] = Life(Len(row[a].versions), FALSE)
BY DEF ToldOnce, Life, Stored

LEMMA CommitInv ==
  ASSUME ArtifactsInv, NEW w \in Writers, CommitVersion(w)
  PROVE  ArtifactsInv'
<1> DEFINE a == op[w].in
<1>0. /\ op[w].does = "commit" /\ HoldsLock(w) /\ UNCHANGED <<files, faults>>
      /\ a \in Artifact /\ op[w].version \in 1..MaxVersions /\ op[w].name \in Names /\ op[w].queue \in Queue
      /\ Saving(w).text \in Contents
  BY OpOf, SaveIn DEF CommitVersion, HoldsLock, ArtifactsInv
<1>1. /\ op[w].version \in Nat \ {0} /\ op[w].version = Len(row[a].versions) + 1
      /\ row' \in [Artifact -> RowState]
      /\ \A b \in Artifact : b # a => row'[b] = row[b] /\ told'[b] = told[b]
      /\ row'[a] \in RowOfKind /\ row'[a].state = "live"
      /\ row'[a].versions = Append(row[a].versions, [text |-> Saving(w).text, name |-> op[w].name])
      /\ Len(row'[a].versions) = op[w].version
      /\ row'[a].pruned = Beyond(op[w].version)
      /\ told' \in [Artifact -> Seq({"created", "versioned", "deleted"})]
      /\ told'[a] = Append(told[a], IF Stored(a) THEN "versioned" ELSE "created")
  BY CommitRow
<1>2. /\ ~Stored(a) \/ Live(a)
      /\ <<a, op[w].version, op[w].name, Saving(w).text>> \in files
      /\ row[a].versions \in Seq([text : Contents, name : Names]) /\ Len(row[a].versions) \in Nat
      /\ row[a].pruned \in Nat /\ (~Stored(a) => row[a].pruned = 0)
  <2>1. row[a].versions \in Seq([text : Contents, name : Names]) /\ row[a].pruned \in Nat
        /\ (~Stored(a) => row[a].pruned = 0)
    BY <1>0, RowOf DEF ArtifactsInv
  <2> QED
    BY <1>0, <2>1, HolderFacts
<1>3. row'[a] # NoArtifact
  <2>1. NoArtifact.state # "live"
    BY DEF NoArtifact
  <2> QED
    BY <1>1, <2>1
<1>4. row[a].pruned <= Beyond(op[w].version) /\ (Stored(a) => Len(row[a].versions) \in Nat \ {0})
  <2>1. CASE Stored(a)
    <3>1. Len(row[a].versions) \in Nat \ {0} /\ row[a].pruned = Beyond(Len(row[a].versions))
      BY <1>0, <2>1, ArtifactsAssumption DEF ArtifactsInv, Marked
    <3> QED
      BY <1>1, <3>1, BeyondBelow
  <2>2. CASE ~Stored(a)
    <3>1. Beyond(op[w].version) \in Nat
      BY <1>1, BeyondBelow
    <3> QED
      BY <1>2, <2>2, <3>1
  <2> QED
    BY <2>1, <2>2
<1> DEFINE o == [does |-> "prune", queue |-> op[w].queue, edits |-> 0, in |-> a,
                 from |-> row[a].pruned + 1, to |-> Beyond(op[w].version)]
<1>5. o \in OpState /\ o.does = "prune" /\ o.in = a /\ o.to = Beyond(op[w].version)
  <2>1. Beyond(op[w].version) \in Nat /\ row[a].pruned + 1 \in Nat \ {0}
    <3>1. op[w].version \in Nat \ {0} /\ row[a].pruned \in Nat
      BY <1>1, <1>2
    <3> QED
      BY <3>1, BeyondBelow
  <2> QED
    BY <1>0, <2>1 DEF OpState
<1>6. op' = [op EXCEPT ![w] = o]
  BY DEF CommitVersion
<1> HIDE DEF o
<1>7. /\ op' \in [Writers -> OpState] /\ op'[w] = o
      /\ \A x \in Writers : x # w => op'[x] = op[x]
  BY <1>5, <1>6, OpUpdate DEF ArtifactsInv
<1>8. \A x \in Writers : op'[x].does \notin {"write", "commit"}
  BY <1>0, <1>5, <1>7 DEF ArtifactsInv, OneWriter, HoldsLock
<1> HIDE DEF a
<1>9. Shapes'
  BY <1>0, <1>1, <1>7 DEF ArtifactsInv, Shapes
<1>10. Marked'
  BY <1>0, <1>1 DEF ArtifactsInv, Marked, Stored
<1>11. FilesThere'
  <2> SUFFICES ASSUME NEW b \in Artifact, row'[b].state = "live", NEW v \in 1..Len(row'[b].versions), v > row'[b].pruned
               PROVE  <<b, v, row'[b].versions[v].name, row'[b].versions[v].text>> \in files
    BY <1>0 DEF FilesThere, Live, VersionFile
  <2>1. CASE b # a
    BY <1>1, <2>1 DEF ArtifactsInv, FilesThere, Live, VersionFile
  <2>0. \A n \in 1..op[w].version :
          row'[a].versions[n] = IF n = op[w].version THEN [text |-> Saving(w).text, name |-> op[w].name]
                                ELSE row[a].versions[n]
    <3>1. [text |-> Saving(w).text, name |-> op[w].name] \in [text : Contents, name : Names]
      BY <1>0
    <3> QED
      BY <1>1, <1>2, <3>1, AppendAt, SMTT(20)
  <2>2. CASE b = a /\ v = op[w].version
    <3>1. row'[a].versions[v] = [text |-> Saving(w).text, name |-> op[w].name]
      BY <1>1, <2>0, <2>2
    <3>2. row'[a].versions[v].text = Saving(w).text /\ row'[a].versions[v].name = op[w].name
      BY <3>1
    <3> QED
      BY <1>2, <2>2, <3>2
  <2>3. CASE b = a /\ v # op[w].version
    <3>1. v \in 1..Len(row[a].versions) /\ row'[a].versions[v] = row[a].versions[v]
      BY <1>1, <1>2, <2>0, <2>3
    <3>2. Live(a)
      BY <1>2, <3>1, RowOf, EmptySeq, <1>0 DEF ArtifactsInv
    <3>3. v > row[a].pruned
      <4>1. Beyond(op[w].version) \in Nat /\ v \in Nat
        BY <1>1, BeyondBelow
      <4> QED
        BY <1>1, <1>2, <1>4, <2>3, <4>1
    <3> QED
      BY <1>0, <2>3, <3>1, <3>2, <3>3 DEF ArtifactsInv, FilesThere, VersionFile
  <2> QED
    BY <2>1, <2>2, <2>3
<1>12. OneWriter' /\ Decided'
  BY <1>8 DEF OneWriter, Decided, HoldsLock
<1>13. Leftovers'
  <2> SUFFICES ASSUME NEW x \in Writers
               PROVE  /\ op'[x].does = "prune" => row'[op'[x].in] # NoArtifact /\ op'[x].to <= row'[op'[x].in].pruned
                      /\ op'[x].does = "mark" => row'[op'[x].in] # NoArtifact
                      /\ op'[x].does = "erase" => row'[op'[x].in].state = "deleted"
    BY DEF Leftovers, Stored
  <2>0. Beyond(op[w].version) \in Nat
    BY <1>1, BeyondBelow
  <2>1. CASE x = w
    BY <1>1, <1>3, <1>5, <1>7, <2>0, <2>1
  <2>2. CASE x # w
    <3>1. op'[x] = op[x]
      BY <1>7, <2>2
    <3>2. op[x].does \in {"prune", "mark", "erase"} => op[x].in \in Artifact
      BY OpOf DEF ArtifactsInv
    <3>3. CASE op[x].in # a
      BY <1>1, <3>1, <3>2, <3>3, SMTT(20) DEF ArtifactsInv, Leftovers, Stored
    <3>4. CASE op[x].in = a
      <4>1. op[x].does = "prune" => op[x].to <= row[a].pruned /\ op[x].to \in Nat
        BY <3>4, OpOf DEF ArtifactsInv, Leftovers
      <4>2. op[x].does # "erase"
        BY <1>0, <1>2, <3>4, RowOf DEF ArtifactsInv, Leftovers, Live
      <4> QED
        BY <1>1, <1>2, <1>3, <1>4, <2>0, <3>1, <3>4, <4>1, <4>2
    <3> QED
      BY <3>3, <3>4
  <2> QED
    BY <2>1, <2>2
<1>14. ToldOnce'
  <2> SUFFICES ASSUME NEW b \in Artifact
               PROVE  /\ row'[b] = NoArtifact => told'[b] = <<>>
                      /\ row'[b] # NoArtifact /\ row'[b].state = "live" => told'[b] = Life(Len(row'[b].versions), TRUE)
                      /\ row'[b] # NoArtifact /\ row'[b].state # "live" => told'[b] = Life(Len(row'[b].versions), FALSE)
    BY DEF ToldOnce, Life, Live
  <2>0. \A c \in Artifact : /\ ~Stored(c) => told[c] = <<>>
                            /\ Stored(c) /\ Live(c) => told[c] = Life(Len(row[c].versions), TRUE)
                            /\ Stored(c) /\ ~Live(c) => told[c] = Life(Len(row[c].versions), FALSE)
    BY ToldLife DEF ArtifactsInv
  <2>1. CASE b # a
    BY <1>1, <2>0, <2>1 DEF Stored, Live
  <2>2. CASE b = a /\ Stored(a)
    <3>1. told'[a] = Append(Life(Len(row[a].versions), TRUE), "versioned")
      BY <1>0, <1>1, <1>2, <2>0, <2>2
    <3>2. told'[a] = Life(Len(row[a].versions) + 1, TRUE)
      BY <1>4, <2>2, <3>1, LifeGrows
    <3> QED
      BY <1>1, <1>3, <2>2, <3>2
  <2>3. CASE b = a /\ ~Stored(a)
    <3>1. told'[a] = Append(<<>>, "created") /\ Len(row[a].versions) = 0
      BY <1>0, <1>1, <2>0, <2>3, RowOf, EmptySeq DEF ArtifactsInv
    <3>2. told'[a] = Life(1, TRUE)
      BY <3>1, LifeStarts, Zenon
    <3>3. Len(row'[a].versions) = 1
      BY <1>1, <3>1
    <3> QED
      BY <1>1, <1>3, <2>3, <3>2, <3>3
  <2> QED
    BY <2>1, <2>2, <2>3
<1> QED
  BY <1>9, <1>10, <1>11, <1>12, <1>13, <1>14 DEF ArtifactsInv

\* Files that go are of versions that are marked, not there yet, or of an
\* artifact that is not live.
LEMMA FilesGo ==
  ASSUME ArtifactsInv, NEW a \in Artifact, NEW V, row' = row, files' \subseteq files,
         \A f \in files : f \notin files' => f[1] = a /\ f[2] \in V,
         Live(a) => \A v \in V : v \in 1..Len(row[a].versions) => v <= row[a].pruned
  PROVE  FilesThere'
<1> SUFFICES ASSUME NEW b \in Artifact, Live(b), NEW v \in 1..Len(row[b].versions), v > row[b].pruned
             PROVE  VersionFile(b, v) \in files'
  BY DEF FilesThere, Live, VersionFile
<1>1. VersionFile(b, v) \in files
  BY DEF ArtifactsInv, FilesThere
<1>2. VersionFile(b, v)[1] = b /\ VersionFile(b, v)[2] = v
  BY DEF VersionFile
<1>3. row[b].pruned \in Nat /\ v \in Nat
  BY RowOf DEF ArtifactsInv
<1> QED
  BY <1>1, <1>2, <1>3

LEMMA FilesOfVersions ==
  ASSUME NEW a, NEW lo \in Nat, NEW hi \in Nat, NEW f \in FilesOf(a, lo, hi)
  PROVE  f[1] = a /\ f[2] \in lo..hi
BY DEF FilesOf

\* The file that a commit waits for is of a version past those that are marked.
LEMMA CommitFileStays ==
  ASSUME ArtifactsInv, NEW w \in Writers, op[w].does = "commit", NEW a \in Artifact, NEW V, files' \subseteq files,
         \A f \in files : f \notin files' => f[1] = a /\ f[2] \in V,
         Stored(a) => row[a].state = "deleted" \/ \A v \in V : v <= row[a].pruned, Stored(a)
  PROVE  <<op[w].in, op[w].version, op[w].name, Saving(w).text>> \in files'
<1> DEFINE f == <<op[w].in, op[w].version, op[w].name, Saving(w).text>>
<1>1. HoldsLock(w)
  BY DEF HoldsLock
<1>2. /\ f \in files /\ op[w].version \in Nat \ {0} /\ op[w].version = Len(row[op[w].in].versions) + 1
      /\ ~Stored(op[w].in) \/ Live(op[w].in)
  BY <1>1, HolderFacts
<1>3. f[1] = op[w].in /\ f[2] = op[w].version
  OBVIOUS
<1> HIDE DEF f
<1>4. ASSUME op[w].in = a PROVE op[w].version \notin V
  <2>1. Live(a) /\ row[a].state # "deleted"
    BY <1>2, <1>4 DEF Live
  <2>2. row[a].pruned = Beyond(Len(row[a].versions)) /\ Len(row[a].versions) \in Nat \ {0}
    BY ArtifactsAssumption DEF ArtifactsInv, Marked
  <2>3. row[a].pruned \in Nat /\ row[a].pruned < op[w].version
    BY <1>2, <1>4, <2>2, BeyondBelow
  <2> QED
    BY <1>2, <2>1, <2>3
<1> QED
  BY <1>2, <1>3, <1>4 DEF f

LEMMA RemoveBlobsInv ==
  ASSUME ArtifactsInv, NEW w \in Writers, RemoveBlobs(w)
  PROVE  ArtifactsInv'
<1>0. /\ op[w].does = "prune" /\ UNCHANGED <<row, told, faults>>
      /\ op[w].in \in Artifact /\ op[w].from \in Nat \ {0} /\ op[w].to \in Nat
      /\ Stored(op[w].in) /\ op[w].to <= row[op[w].in].pruned /\ row[op[w].in].pruned \in Nat
      /\ files' = files \ FilesOf(op[w].in, op[w].from, op[w].to)
  BY OpOf, RowOf DEF RemoveBlobs, ArtifactsInv, Leftovers
<1>1. PICK o : Rests(o) /\ op' = [op EXCEPT ![w] = o]
  BY <1>0, Continues DEF ArtifactsInv, RemoveBlobs
<1>2. /\ op' \in [Writers -> OpState] /\ op'[w] = o
      /\ \A x \in Writers : x # w => op'[x] = op[x]
  BY <1>1, OpUpdate DEF ArtifactsInv, Rests
<1>3. \A x \in Writers : op'[x] = op[x] \/ (x = w /\ op'[x].does \in {"nothing", "save"})
  BY <1>1, <1>2 DEF Rests
<1>4. \A f \in files : f \notin files' => f[1] = op[w].in /\ f[2] \in op[w].from..op[w].to
  BY <1>0, FilesOfVersions
<1>5. \A v \in op[w].from..op[w].to : v <= row[op[w].in].pruned
  BY <1>0
<1>6. Shapes'
  BY <1>0, <1>2 DEF ArtifactsInv, Shapes
<1>7. Marked' /\ ToldOnce'
  BY <1>0, RowsSame DEF ArtifactsInv
<1>8. FilesThere'
  BY <1>0, <1>4, <1>5, FilesGo
<1>9. OneWriter'
  BY <1>3 DEF ArtifactsInv, OneWriter, HoldsLock
<1>10. \A x \in Writers : op[x].does = "commit" =>
         <<op[x].in, op[x].version, op[x].name, Saving(x).text>> \in files'
  BY <1>0, <1>4, <1>5, CommitFileStays
<1>11. Decided'
  <2>1. \A x \in Writers : HoldsLock(x)' => op'[x] = op[x] /\ HoldsLock(x)
    BY <1>3 DEF HoldsLock
  <2>2. \A x \in Writers : op'[x].does = "commit" =>
          <<op'[x].in, op'[x].version, op'[x].name, Head(op'[x].queue).text>> \in files'
    BY <1>3, <1>10 DEF Saving
  <2> QED
    BY <1>0, <2>1, <2>2, DecidedStays DEF ArtifactsInv
<1>12. Leftovers'
  BY <1>0, <1>3 DEF ArtifactsInv, Leftovers, Stored
<1> QED
  BY <1>6, <1>7, <1>8, <1>9, <1>11, <1>12 DEF ArtifactsInv

LEMMA StoreFailsInv ==
  ASSUME ArtifactsInv, NEW w \in Writers, StoreFails(w)
  PROVE  ArtifactsInv'
<1>0. /\ HoldsLock(w) /\ UNCHANGED <<row, told>>
      /\ op[w].in \in Artifact /\ op[w].version \in Nat \ {0}
      /\ op[w].version = Len(row[op[w].in].versions) + 1
  BY OpOf, HolderFacts DEF StoreFails, HoldsLock, ArtifactsInv
<1>1. PICK o : Rests(o) /\ op' = [op EXCEPT ![w] = o]
  <2>1. Rests(NoOp)
    BY DEF Rests, OpState, NoOp
  <2>2. Continue(w) \/ op' = [op EXCEPT ![w] = NoOp]
    BY DEF StoreFails
  <2> QED
    BY <1>0, <2>1, <2>2, Continues DEF ArtifactsInv, HoldsLock
<1>2. /\ op' \in [Writers -> OpState] /\ op'[w] = o
      /\ \A x \in Writers : x # w => op'[x] = op[x]
  BY <1>1, OpUpdate DEF ArtifactsInv, Rests
<1>3. \A x \in Writers : x # w => op[x].does \notin {"write", "commit"}
  BY <1>0 DEF ArtifactsInv, OneWriter, HoldsLock
<1>4. \A x \in Writers : op'[x].does \notin {"write", "commit"}
  BY <1>1, <1>2, <1>3 DEF Rests
<1>5. files' \subseteq files
  BY DEF StoreFails
<1>6. \A f \in files : f \notin files' => f[1] = op[w].in /\ f[2] \in {op[w].version}
  BY DEF StoreFails
<1>7. \A v \in {op[w].version} : v \notin 1..Len(row[op[w].in].versions)
  <2>1. Len(row[op[w].in].versions) \in Nat
    BY <1>0, RowOf DEF ArtifactsInv
  <2> QED
    BY <1>0, <2>1
<1>8. Shapes'
  BY <1>0, <1>2, <1>5, ArtifactsAssumption DEF ArtifactsInv, Shapes, StoreFails, Fault
<1>9. Marked' /\ ToldOnce'
  BY <1>0, RowsSame DEF ArtifactsInv
<1>10. FilesThere'
  <2> DEFINE V == {op[w].version}
  <2>1. (\A f \in files : f \notin files' => f[1] = op[w].in /\ f[2] \in V)
        /\ \A v \in V : v \in 1..Len(row[op[w].in].versions) => v <= row[op[w].in].pruned
    BY <1>6, <1>7
  <2> HIDE DEF V
  <2> QED
    BY <1>0, <1>5, <2>1, FilesGo
<1>11. OneWriter' /\ Decided'
  BY <1>4 DEF OneWriter, Decided, HoldsLock
<1>12. Leftovers'
  <2>1. \A x \in Writers : op'[x] = op[x] \/ op'[x].does \in {"nothing", "save"}
    BY <1>1, <1>2 DEF Rests
  <2> QED
    BY <1>0, <2>1 DEF ArtifactsInv, Leftovers, Stored
<1> QED
  BY <1>8, <1>9, <1>10, <1>11, <1>12 DEF ArtifactsInv

-----------------------------------------------------------------------------
(* Deletion *)

MarkOp == [does : {"mark", "erase"}, queue : {<<>>}, edits : {0}, in : Artifact]

LEMMA MarkRow ==
  ASSUME ArtifactsInv, NEW w \in Writers, MarkDeleted(w)
  PROVE  /\ op[w] \in MarkOp /\ Stored(op[w].in)
         /\ row' \in [Artifact -> RowState]
         /\ \A b \in Artifact : b # op[w].in => row'[b] = row[b] /\ told'[b] = told[b]
         /\ row'[op[w].in] \in RowOfKind
         /\ row'[op[w].in].state = "deleted"
         /\ row'[op[w].in].key = row[op[w].in].key
         /\ row'[op[w].in].versions = row[op[w].in].versions
         /\ row'[op[w].in].pruned = row[op[w].in].pruned
         /\ row'[op[w].in] # NoArtifact
         /\ told' \in [Artifact -> Seq({"created", "versioned", "deleted"})]
         /\ told'[op[w].in] = IF Live(op[w].in) THEN Append(told[op[w].in], "deleted") ELSE told[op[w].in]
<1> DEFINE a == op[w].in
           old == row[a]
           new == [old EXCEPT !.state = "deleted"]
<1>1. op[w] \in MarkOp /\ a \in Artifact /\ Stored(a)
  BY OpOf DEF MarkDeleted, MarkOp, ArtifactsInv, Leftovers
<1>2. old \in RowOfKind
  BY <1>1, RowOf DEF ArtifactsInv
<1>3. row' = [row EXCEPT ![a] = new]
  BY DEF MarkDeleted
<1> HIDE DEF old
<1>4. /\ new \in RowOfKind /\ new.state = "deleted" /\ new.key = old.key
      /\ new.versions = old.versions /\ new.pruned = old.pruned
  BY <1>2 DEF RowOfKind
<1> HIDE DEF new
<1>5. new \in RowState /\ new # NoArtifact
  <2>1. new \in RowState
    BY <1>4 DEF RowState, RowOfKind
  <2>2. NoArtifact.state # "deleted"
    BY DEF NoArtifact
  <2> QED
    BY <1>4, <2>1, <2>2
<1>6. row \in [Artifact -> RowState] /\ told \in [Artifact -> Seq({"created", "versioned", "deleted"})]
  BY DEF ArtifactsInv, Shapes
<1>7. row' \in [Artifact -> RowState] /\ row'[a] = new /\ \A b \in Artifact : b # a => row'[b] = row[b]
  BY <1>1, <1>3, <1>5, <1>6
<1>8. /\ told' \in [Artifact -> Seq({"created", "versioned", "deleted"})]
      /\ told'[a] = IF Live(a) THEN Append(told[a], "deleted") ELSE told[a]
      /\ \A b \in Artifact : b # a => told'[b] = told[b]
  <2>1. Append(told[a], "deleted") \in Seq({"created", "versioned", "deleted"})
    BY <1>1, <1>6
  <2>2. told' = IF Live(a) THEN [told EXCEPT ![a] = Append(told[a], "deleted")] ELSE told
    BY DEF MarkDeleted
  <2> QED
    BY <1>1, <1>6, <2>1, <2>2
<1> QED
  BY <1>1, <1>4, <1>5, <1>7, <1>8 DEF old

LEMMA MarkInv ==
  ASSUME ArtifactsInv, NEW w \in Writers, MarkDeleted(w)
  PROVE  ArtifactsInv'
<1> DEFINE a == op[w].in
<1>1. /\ op[w] \in MarkOp /\ Stored(a)
      /\ row' \in [Artifact -> RowState]
      /\ \A b \in Artifact : b # a => row'[b] = row[b] /\ told'[b] = told[b]
      /\ row'[a] \in RowOfKind
      /\ row'[a].state = "deleted"
      /\ row'[a].key = row[a].key
      /\ row'[a].versions = row[a].versions
      /\ row'[a].pruned = row[a].pruned
      /\ row'[a] # NoArtifact
      /\ told' \in [Artifact -> Seq({"created", "versioned", "deleted"})]
      /\ told'[a] = IF Live(a) THEN Append(told[a], "deleted") ELSE told[a]
  BY MarkRow
<1>2. a \in Artifact
  BY <1>1 DEF MarkOp
<1> DEFINE o == [op[w] EXCEPT !.does = "erase"]
<1>3. op' = [op EXCEPT ![w] = o]
  BY DEF MarkDeleted
<1>4. o \in MarkOp /\ o.does = "erase" /\ o.in = a
  BY <1>1 DEF MarkOp
<1>5. o \in OpState
  BY <1>4 DEF MarkOp, OpState
<1> HIDE DEF o
<1>6. /\ op' \in [Writers -> OpState] /\ op'[w] = o
      /\ \A x \in Writers : x # w => op'[x] = op[x]
  BY <1>3, <1>5, OpUpdate DEF ArtifactsInv
<1>7. \A x \in Writers : op'[x].does \notin {"write", "commit"}
  BY <1>4, <1>6 DEF MarkDeleted, Locked
<1>8. files' = files /\ faults' = faults
  BY DEF MarkDeleted
<1> HIDE DEF a
<1>9. Shapes'
  BY <1>1, <1>6, <1>8 DEF ArtifactsInv, Shapes
<1>10. Marked'
  BY <1>1 DEF ArtifactsInv, Marked, Stored
<1>11. FilesThere'
  BY <1>1, <1>8 DEF ArtifactsInv, FilesThere, Live, VersionFile
<1>12. OneWriter' /\ Decided'
  BY <1>7 DEF OneWriter, Decided, HoldsLock
<1>13. Leftovers'
  <2> SUFFICES ASSUME NEW x \in Writers
               PROVE  /\ op'[x].does = "prune" => row'[op'[x].in] # NoArtifact /\ op'[x].to <= row'[op'[x].in].pruned
                      /\ op'[x].does = "mark" => row'[op'[x].in] # NoArtifact
                      /\ op'[x].does = "erase" => row'[op'[x].in].state = "deleted"
    BY DEF Leftovers, Stored
  <2>1. CASE x = w
    BY <1>1, <1>4, <1>6, <2>1
  <2>2. CASE x # w
    <3>1. op[x].does \in {"prune", "mark", "erase"} => op[x].in \in Artifact
      BY OpOf DEF ArtifactsInv
    <3> QED
      BY <1>1, <1>6, <2>2, <3>1, SMTT(20) DEF ArtifactsInv, Leftovers, Stored
  <2> QED
    BY <2>1, <2>2
<1>14. ToldOnce'
  <2> SUFFICES ASSUME NEW b \in Artifact
               PROVE  /\ row'[b] = NoArtifact => told'[b] = <<>>
                      /\ row'[b] # NoArtifact /\ row'[b].state = "live" => told'[b] = Life(Len(row'[b].versions), TRUE)
                      /\ row'[b] # NoArtifact /\ row'[b].state # "live" => told'[b] = Life(Len(row'[b].versions), FALSE)
    BY DEF ToldOnce, Life, Live
  <2>0. \A c \in Artifact : /\ ~Stored(c) => told[c] = <<>>
                            /\ Stored(c) /\ Live(c) => told[c] = Life(Len(row[c].versions), TRUE)
                            /\ Stored(c) /\ ~Live(c) => told[c] = Life(Len(row[c].versions), FALSE)
    BY ToldLife DEF ArtifactsInv
  <2>1. CASE b # a
    BY <1>1, <2>0, <2>1 DEF Stored, Live
  <2>2. CASE b = a /\ Live(a)
    <3>0. told[a] = Life(Len(row[a].versions), TRUE)
      BY <1>1, <1>2, <2>0, <2>2
    <3>1. told'[a] = Append(Life(Len(row[a].versions), TRUE), "deleted") /\ Len(row[a].versions) \in Nat \ {0}
      <4>0. told'[a] = Append(told[a], "deleted")
        BY <1>1, <2>2
      <4>1. Len(row[a].versions) \in 1..MaxVersions
        BY <1>1, <1>2 DEF ArtifactsInv, Marked
      <4> QED
        BY <3>0, <4>0, <4>1, ArtifactsAssumption
    <3>2. told'[a] = Life(Len(row[a].versions), FALSE)
      BY <3>1, LifeGrows
    <3>3. row'[a].state # "live"
      BY <1>1
    <3> QED
      BY <1>1, <2>2, <3>2, <3>3
  <2>3. CASE b = a /\ ~Live(a)
    <3>0. told[a] = Life(Len(row[a].versions), FALSE)
      BY <1>1, <1>2, <2>0, <2>3
    <3>1. row'[a].state # "live" /\ told'[a] = told[a]
      BY <1>1, <2>3
    <3> QED
      BY <1>1, <2>3, <3>0, <3>1
  <2> QED
    BY <2>1, <2>2, <2>3
<1> QED
  BY <1>9, <1>10, <1>11, <1>12, <1>13, <1>14 DEF ArtifactsInv

LEMMA EraseInv ==
  ASSUME ArtifactsInv, NEW w \in Writers, EraseFiles(w)
  PROVE  ArtifactsInv'
<1>0. /\ op[w].does = "erase" /\ op[w].in \in Artifact /\ row[op[w].in].state = "deleted"
      /\ files' = {f \in files : f[1] # op[w].in} /\ op' = [op EXCEPT ![w] = NoOp]
      /\ UNCHANGED <<row, told, faults>>
  BY OpOf DEF EraseFiles, ArtifactsInv, Leftovers, MarkOp
<1>1. NoOp \in OpState /\ NoOp.does = "nothing"
  BY DEF OpState, NoOp
<1>2. /\ op' \in [Writers -> OpState] /\ op'[w] = NoOp
      /\ \A x \in Writers : x # w => op'[x] = op[x]
  BY <1>0, <1>1, OpUpdate DEF ArtifactsInv
<1>3. \A x \in Writers : op'[x] = op[x] \/ (x = w /\ op'[x].does = "nothing")
  BY <1>1, <1>2
<1>4. files' \subseteq files /\ \A f \in files : f \notin files' => f[1] = op[w].in /\ f[2] \in 1..MaxVersions
  BY <1>0 DEF ArtifactsInv, Shapes
<1>5. Shapes'
  BY <1>0, <1>2 DEF ArtifactsInv, Shapes
<1>6. Marked' /\ ToldOnce'
  BY <1>0, RowsSame DEF ArtifactsInv
<1>7. ~Live(op[w].in) /\ Stored(op[w].in)
  <2>1. NoArtifact.state # "deleted"
    BY DEF NoArtifact
  <2> QED
    BY <1>0, <2>1 DEF Live, Stored
<1>8. FilesThere'
  BY <1>0, <1>4, <1>7, FilesGo
<1>9. OneWriter'
  BY <1>3 DEF ArtifactsInv, OneWriter, HoldsLock
<1>10. \A x \in Writers : op[x].does = "commit" =>
         <<op[x].in, op[x].version, op[x].name, Saving(x).text>> \in files'
  BY <1>0, <1>4, <1>7, CommitFileStays
<1>11. Decided'
  <2>1. \A x \in Writers : HoldsLock(x)' => op'[x] = op[x] /\ HoldsLock(x)
    BY <1>3 DEF HoldsLock
  <2>2. \A x \in Writers : op'[x].does = "commit" =>
          <<op'[x].in, op'[x].version, op'[x].name, Head(op'[x].queue).text>> \in files'
    BY <1>3, <1>10 DEF Saving
  <2> QED
    BY <1>0, <2>1, <2>2, DecidedStays DEF ArtifactsInv
<1>12. Leftovers'
  BY <1>0, <1>3 DEF ArtifactsInv, Leftovers, Stored
<1> QED
  BY <1>5, <1>6, <1>8, <1>9, <1>11, <1>12 DEF ArtifactsInv

-----------------------------------------------------------------------------
(* The invariant *)

LEMMA ArtifactsNextInv ==
  ASSUME ArtifactsInv, [ArtifactsNext]_artifactVars
  PROVE  ArtifactsInv'
<1>0. faults \in 0..MaxFaults
  BY DEF ArtifactsInv, Shapes
<1>1. ASSUME NEW w \in Writers, NEW queue \in Queue,
             op' = [op EXCEPT ![w] = [NoOp EXCEPT !.does = "save", !.queue = queue]],
             UNCHANGED <<row, files, told, faults>>
      PROVE  ArtifactsInv'
  <2> DEFINE saving == [NoOp EXCEPT !.does = "save"]
  <2>1. saving = [does |-> "save", queue |-> <<>>, edits |-> 0]
    BY DEF NoOp
  <2> HIDE DEF saving
  <2>2. [saving EXCEPT !.queue = queue] = [does |-> "save", queue |-> queue, edits |-> 0]
    BY <2>1
  <2>3. Rests([does |-> "save", queue |-> queue, edits |-> 0])
    BY DEF Rests, OpState
  <2>4. op' = [op EXCEPT ![w] = [does |-> "save", queue |-> queue, edits |-> 0]]
    BY <1>1, <2>2 DEF saving
  <2> QED
    BY <1>0, <1>1, <2>3, <2>4, QuietWriter
<1>2. \A s \in Saves : <<s>> \in Queue
  BY DEF Queue
<1>3. ASSUME NEW w \in Writers, NEW s \in Saves, ToolSaves(w, s) PROVE ArtifactsInv'
  BY <1>1, <1>2, <1>3 DEF ToolSaves
<1>4. ASSUME NEW w \in Writers, NEW queue \in Turns, TurnEnds(w, queue) PROVE ArtifactsInv'
  BY <1>1, <1>4, ArtifactsAssumption DEF TurnEnds, Queue
<1>5. ASSUME NEW w \in Writers, NEW s \in Saves, NEW a \in Artifact, PersonEdits(w, a, s) PROVE ArtifactsInv'
  <2>1. Rests([does |-> "save", queue |-> <<s>>, edits |-> a])
    BY <1>2 DEF Rests, OpState
  <2>2. op' = [op EXCEPT ![w] = [does |-> "save", queue |-> <<s>>, edits |-> a]]
        /\ UNCHANGED <<row, files, told, faults>>
    BY <1>5 DEF PersonEdits
  <2> QED
    BY <1>0, <2>1, <2>2, QuietWriter
<1>6. ASSUME NEW w \in Writers, NEW a \in Artifact, PersonErases(w, a) PROVE ArtifactsInv'
  <2> DEFINE o == [does |-> "mark", queue |-> <<>>, edits |-> 0, in |-> a]
  <2>1. o \in OpState /\ o.does = "mark" /\ o.in = a
    BY DEF OpState
  <2>2. op' = [op EXCEPT ![w] = o] /\ UNCHANGED <<row, files, told, faults>> /\ Stored(a)
    BY <1>6, RowOf DEF PersonErases, ArtifactsInv
  <2> HIDE DEF o
  <2>3. /\ op' \in [Writers -> OpState] /\ op'[w] = o
        /\ \A x \in Writers : x # w => op'[x] = op[x]
    BY <2>1, <2>2, OpUpdate DEF ArtifactsInv
  <2>4. \A x \in Writers : op'[x] = op[x] \/ (x = w /\ op'[x].does = "mark" /\ op'[x].in = a)
    BY <2>1, <2>3
  <2>5. Shapes'
    BY <2>2, <2>3 DEF ArtifactsInv, Shapes
  <2>6. Marked' /\ FilesThere' /\ ToldOnce'
    BY <2>2, RowsKept DEF ArtifactsInv
  <2>7. OneWriter'
    BY <2>4 DEF ArtifactsInv, OneWriter, HoldsLock
  <2>8. Decided'
    <3>1. \A x \in Writers : HoldsLock(x)' => op'[x] = op[x] /\ HoldsLock(x)
      BY <2>4 DEF HoldsLock
    <3>2. \A x \in Writers : op'[x].does = "commit" =>
            <<op'[x].in, op'[x].version, op'[x].name, Head(op'[x].queue).text>> \in files'
      BY <2>2, <2>4 DEF ArtifactsInv, Decided, HoldsLock
    <3> QED
      BY <2>2, <3>1, <3>2, DecidedStays DEF ArtifactsInv
  <2>9. Leftovers'
    BY <2>2, <2>4 DEF ArtifactsInv, Leftovers, Stored
  <2> QED
    BY <2>5, <2>6, <2>7, <2>8, <2>9 DEF ArtifactsInv
<1>7. ASSUME NEW w \in Writers, WriterStops(w) PROVE ArtifactsInv'
  <2>1. Rests(NoOp)
    BY DEF Rests, OpState, NoOp
  <2>2. faults' \in 0..MaxFaults
    BY <1>0, <1>7, ArtifactsAssumption DEF WriterStops, Fault
  <2> QED
    BY <1>7, <2>1, <2>2, QuietWriter DEF WriterStops
<1>8. CASE UNCHANGED artifactVars
  <2> row' = row /\ files' = files /\ told' = told /\ op' = op /\ faults' = faults
    BY <1>8 DEF artifactVars
  <2>1. Shapes'
    BY DEF ArtifactsInv, Shapes
  <2>2. Marked' /\ FilesThere' /\ ToldOnce'
    BY RowsKept DEF ArtifactsInv
  <2>3. OneWriter' /\ Decided'
    BY DEF ArtifactsInv, OneWriter, Decided, HoldsLock, Stored, Live, LatestOf, Keyed
  <2>4. Leftovers'
    BY DEF ArtifactsInv, Leftovers, Stored
  <2> QED
    BY <2>1, <2>2, <2>3, <2>4 DEF ArtifactsInv
<1> QED
  BY <1>3, <1>4, <1>5, <1>6, <1>7, <1>8, DecideInv, WriteBlobInv, CommitInv, RemoveBlobsInv, StoreFailsInv,
     MarkInv, EraseInv DEF ArtifactsNext

LEMMA ArtifactsInvariant == ArtifactsSpec => []ArtifactsInv
<1>1. ArtifactsInv /\ [ArtifactsNext]_artifactVars => ArtifactsInv'
  BY ArtifactsNextInv
<1> QED
  BY ArtifactsInitInv, <1>1, PTL DEF ArtifactsSpec

\* Rows, files and events have their types; one writer at a time is between its
\* decision and its commit.
THEOREM ArtifactTypes == ArtifactsSpec => []ArtifactsTypeOK
<1>1. ArtifactsInv => ArtifactsTypeOK
  <2> SUFFICES ASSUME ArtifactsInv PROVE ArtifactsTypeOK
    OBVIOUS
  <2>1. \A a \in Artifact : Stored(a) => Len(row[a].versions) \in 1..MaxVersions /\ row[a].pruned < Len(row[a].versions)
    BY BeyondBelow, ArtifactsAssumption DEF ArtifactsInv, Marked
  <2>2. \A a \in Artifact : Stored(a) => row[a].state \in {"live", "deleted"} /\ row[a].key \in Titles \cup Url
    BY RowOf DEF ArtifactsInv, RowOfKind, Keys
  <2>3. files \subseteq Artifact \X (1..MaxVersions) \X Names \X (Texts \cup Url) /\ faults \in 0..MaxFaults
    BY DEF ArtifactsInv, Shapes, Contents
  <2>4. \A w, x \in Writers : {op[w].does, op[x].does} \subseteq {"write", "commit"} => w = x
    BY DEF ArtifactsInv, OneWriter, HoldsLock
  <2> QED
    BY <2>1, <2>2, <2>3, <2>4 DEF ArtifactsTypeOK, Stored
<1> QED
  BY <1>1, ArtifactsInvariant, PTL

\* Threads that save, edit and delete at once, stop or fail never let an event
\* be told twice, out of order, or without its change.
THEOREM EventsToldOnce == ArtifactsSpec => []ToldOnce
<1>1. ArtifactsInv => ToldOnce
  BY DEF ArtifactsInv
<1> QED
  BY <1>1, ArtifactsInvariant, PTL

-----------------------------------------------------------------------------
(* The refinement *)

\* What a reader is shown, as the rows alone have it: no file is missing.
Shown(a) ==
  [v \in 1..Len(row[a].versions) |->
     IF ~Live(a) \/ v <= row[a].pruned THEN "gone" ELSE row[a].versions[v].text]

TextAsShown == TextOf = [a \in Artifact |-> Shown(a)]

LEMMA ReadersSeeRows == ArtifactsInv => TextAsShown
<1> SUFFICES ASSUME ArtifactsInv PROVE TextAsShown
  OBVIOUS
<1>1. ASSUME NEW a \in Artifact
      PROVE  [v \in DOMAIN row[a].versions |-> Reads(a, v)] = Shown(a)
  <2>1. DOMAIN row[a].versions = 1..Len(row[a].versions)
    BY RowOf DEF ArtifactsInv
  <2>2. \A v \in 1..Len(row[a].versions) :
          Reads(a, v) = IF ~Live(a) \/ v <= row[a].pruned THEN "gone" ELSE row[a].versions[v].text
    <3> TAKE v \in 1..Len(row[a].versions)
    <3>1. Live(a) /\ ~(v <= row[a].pruned) => <<a, v, row[a].versions[v].name, row[a].versions[v].text>> \in files
      <4>1. row[a].pruned \in Nat /\ Len(row[a].versions) \in Nat
        BY RowOf DEF ArtifactsInv
      <4> QED
        BY <4>1 DEF ArtifactsInv, FilesThere, VersionFile
    <3> QED
      BY <3>1 DEF Reads
  <2> QED
    BY <2>1, <2>2 DEF Shown
<1> QED
  BY <1>1 DEF TextAsShown, TextOf

LEMMA ShownSeq ==
  ASSUME ArtifactsInv, NEW a \in Artifact
  PROVE  /\ Len(Shown(a)) = Len(row[a].versions) /\ DOMAIN Shown(a) = 1..Len(row[a].versions)
         /\ Len(row[a].versions) \in Nat
<1>1. Len(row[a].versions) \in Nat
  BY RowOf DEF ArtifactsInv
<1> QED
  BY <1>1 DEF Shown

LEMMA RefineInit == ArtifactsInit => Shelf!ShelfInit
<1> SUFFICES ASSUME ArtifactsInit PROVE Shelf!ShelfInit
  OBVIOUS
<1>1. \A a \in Artifact : row[a] = NoArtifact
  BY DEF ArtifactsInit
<1>2. NoArtifact.state = "unused" /\ NoArtifact.key = "" /\ NoArtifact.versions = <<>>
  BY DEF NoArtifact
<1>3. \A a \in Artifact : row[a].state = "unused" /\ row[a].key = "" /\ row[a].versions = <<>>
  BY <1>1, <1>2
<1>4. Shelved = [a \in Artifact |-> "unused"]
  BY <1>3 DEF Shelved
<1>5. TitleOf = [a \in Artifact |-> ""]
  BY <1>3 DEF TitleOf
<1>6. TextOf = [a \in Artifact |-> <<>>]
  <2>1. \A a \in Artifact : DOMAIN row[a].versions = {}
    <3>1. \A e : e = <<>> => DOMAIN e = {}
      <4>1. <<>> \in Seq({}) /\ Len(<<>>) = 0
        OBVIOUS
      <4> QED
        BY <4>1, LenProperties
    <3> QED
      BY <1>3, <3>1
  <2>2. \A a \in Artifact : [v \in DOMAIN row[a].versions |-> Reads(a, v)] = <<>>
    BY <2>1
  <2> QED
    BY <2>2 DEF TextOf
<1> QED
  BY <1>4, <1>5, <1>6 DEF Shelf!ShelfInit

\* While the rows stay, what is read stays.
LEMMA RowsStayStutter ==
  ASSUME TextAsShown, TextAsShown', row' = row
  PROVE  UNCHANGED Shelf!shelfVars
<1>1. Shelved' = Shelved
  BY DEF Shelved
<1>2. TitleOf' = TitleOf
  BY DEF TitleOf
<1>3. TextOf' = TextOf
  BY DEF TextAsShown, Shown, Live
<1> QED
  BY <1>1, <1>2, <1>3 DEF Shelf!shelfVars

LEMMA CommitRefines ==
  ASSUME ArtifactsInv, TextAsShown, TextAsShown', NEW w \in Writers, CommitVersion(w)
  PROVE  Shelf!ShelfNext
<1> DEFINE a == op[w].in
           c == Saving(w).text
           v == op[w].version
<1>1. /\ HoldsLock(w) /\ a \in Artifact /\ v \in Nat \ {0} /\ v = Len(row[a].versions) + 1
      /\ row' \in [Artifact -> RowState]
      /\ \A b \in Artifact : b # a => row'[b] = row[b]
      /\ row'[a].state = "live"
      /\ row'[a].key = IF ~Stored(a) \/ IsLink(Saving(w).key) THEN Saving(w).key ELSE row[a].key
      /\ row'[a].versions = Append(row[a].versions, [text |-> c, name |-> op[w].name])
      /\ Len(row'[a].versions) = v
      /\ row'[a].pruned = Beyond(v)
  BY CommitRow
<1>2. /\ ~Stored(a) \/ Live(a)
      /\ Stored(a) => LatestOf(a).text # c /\ (IsLink(Saving(w).key) <=> IsLink(row[a].key))
      /\ ~Stored(a) => Keyed(Saving(w).key) = {}
  BY <1>1, HolderFacts
<1>3. Saving(w).key \in Keys /\ c \in Texts \cup Url /\ op[w].name \in Names
  BY <1>1, OpOf, SaveIn DEF ArtifactsInv, HoldsLock, CommitVersion, Contents
<1> HIDE DEF a, c, v
<1>4. /\ row[a].versions \in Seq([text : Contents, name : Names]) /\ row[a].pruned \in Nat
      /\ Len(row[a].versions) \in Nat
      /\ ~Stored(a) => row[a].state = "unused"
  <2>1. a \in Artifact /\ Shapes
    BY <1>1 DEF ArtifactsInv
  <2>2. row[a].versions \in Seq([text : Contents, name : Names]) /\ row[a].pruned \in Nat
    BY <2>1, RowOf
  <2>3. ~Stored(a) => row[a].state = "unused"
    BY <2>1, RowOf
  <2>4. Len(row[a].versions) \in Nat
    BY <2>2, LenProperties
  <2> QED
    BY <2>2, <2>3, <2>4
<1>5. /\ \A n \in 1..v : row'[a].versions[n] = IF n = v THEN [text |-> c, name |-> op[w].name] ELSE row[a].versions[n]
  <2>1. [text |-> c, name |-> op[w].name] \in [text : Contents, name : Names]
    BY <1>3 DEF Contents
  <2> QED
    BY <1>1, <1>4, <2>1, AppendAt
<1>6. \A n \in 1..v : n < v => n \in 1..Len(row[a].versions) /\ Live(a) /\ row[a].pruned <= Beyond(v)
  <2> TAKE n \in 1..v
  <2> HAVE n < v
  <2>1. n \in 1..Len(row[a].versions) /\ Len(row[a].versions) \in Nat \ {0}
    BY <1>1, <1>4
  <2>2. Stored(a)
    BY <1>1, <2>1, RowOf, EmptySeq DEF ArtifactsInv
  <2>3. row[a].pruned = Beyond(Len(row[a].versions))
    BY <1>1, <2>2 DEF ArtifactsInv, Marked
  <2> QED
    BY <1>1, <1>2, <2>1, <2>2, <2>3, BeyondBelow
<1>7. /\ TextOf = [b \in Artifact |-> Shown(b)]
      /\ TextOf[a] = Shown(a) /\ Len(TextOf[a]) = Len(row[a].versions)
  BY <1>1, ShownSeq DEF TextAsShown
<1> DEFINE W == [n \in 1..v |-> IF Keep > 0 /\ n + Keep <= v THEN "gone" ELSE IF n = v THEN c ELSE TextOf[a][n]]
<1>8. TextOf' = [TextOf EXCEPT ![a] = W]
  <2> DEFINE S == [n \in 1..Len(row'[a].versions) |->
                     IF row'[a].state # "live" \/ n <= row'[a].pruned THEN "gone" ELSE row'[a].versions[n].text]
  <2>1. S = W
    <3>1. \A n \in 1..v : S[n] = W[n]
      <4> TAKE n \in 1..v
      <4>1. S[n] = IF n <= Beyond(v) THEN "gone" ELSE row'[a].versions[n].text
        BY <1>1
      <4>2. n <= Beyond(v) <=> Keep > 0 /\ n + Keep <= v
        BY <1>1, BeyondBelow
      <4>3. CASE n <= Beyond(v)
        BY <4>1, <4>2, <4>3
      <4>4. CASE ~(n <= Beyond(v)) /\ n = v
        <5>1. row'[a].versions[n].text = c
          BY <1>5, <4>4
        <5> QED
          BY <4>1, <4>2, <4>4, <5>1
      <4>5. CASE ~(n <= Beyond(v)) /\ n # v
        <5>1. n \in 1..Len(row[a].versions) /\ Live(a) /\ row[a].pruned <= Beyond(v) /\ Beyond(v) \in Nat
          BY <1>1, <1>6, <4>5, BeyondBelow
        <5>2. TextOf[a][n] = row[a].versions[n].text
          BY <1>4, <1>7, <4>5, <5>1 DEF Shown
        <5>3. row'[a].versions[n] = row[a].versions[n]
          BY <1>5, <4>5
        <5> QED
          BY <4>1, <4>2, <4>5, <5>2, <5>3
      <4> QED
        BY <4>3, <4>4, <4>5
    <3>2. S = [n \in 1..v |-> S[n]] /\ W = [n \in 1..v |-> W[n]]
      BY <1>1
    <3> HIDE DEF S, W
    <3> QED
      BY <3>1, <3>2
  <2>2. TextOf' = [b \in Artifact |-> IF b = a THEN S ELSE Shown(b)]
    <3>1. TextOf' = [b \in Artifact |->
                       [n \in 1..Len(row'[b].versions) |->
                          IF row'[b].state # "live" \/ n <= row'[b].pruned THEN "gone" ELSE row'[b].versions[n].text]]
      BY DEF TextAsShown, Shown, Live
    <3>2. \A b \in Artifact : b # a =>
             [n \in 1..Len(row'[b].versions) |->
                IF row'[b].state # "live" \/ n <= row'[b].pruned THEN "gone" ELSE row'[b].versions[n].text] = Shown(b)
      BY <1>1 DEF Shown, Live
    <3> QED
      BY <3>1, <3>2
  <2> HIDE DEF S, W
  <2> QED
    BY <1>7, <2>1, <2>2
<1>9. Shelf!WithText(a, c) = W
  BY <1>1, <1>7 DEF Shelf!WithText
<1> HIDE DEF W
<1>10. CASE Stored(a)
  <2>1. Shelved' = Shelved
    <3>1. \A b \in Artifact : row'[b].state = row[b].state
      BY <1>1, <1>2, <1>10 DEF Live
    <3> QED
      BY <3>1 DEF Shelved
  <2>2. TitleOf' = TitleOf
    <3>1. \A b \in Artifact : (IF IsLink(row'[b].key) THEN "" ELSE row'[b].key) = (IF IsLink(row[b].key) THEN "" ELSE row[b].key)
      BY <1>1, <1>2, <1>10
    <3> QED
      BY <3>1 DEF TitleOf, IsLink
  <2>3. Shelved[a] = "live"
    BY <1>1, <1>2, <1>10 DEF Shelved, Live
  <2>4. TextOf[a][Len(TextOf[a])] # c
    <3>1. Len(row[a].versions) \in Nat \ {0} /\ row[a].pruned < Len(row[a].versions)
      <4>1. Len(row[a].versions) \in 1..MaxVersions /\ row[a].pruned = Beyond(Len(row[a].versions))
        BY <1>1, <1>10 DEF ArtifactsInv, Marked
      <4>2. Len(row[a].versions) \in Nat \ {0}
        BY <4>1, ArtifactsAssumption
      <4> QED
        BY <4>1, <4>2, BeyondBelow
    <3>2. TextOf[a][Len(row[a].versions)] = LatestOf(a).text
      BY <1>2, <1>4, <1>7, <1>10, <3>1 DEF Shown, LatestOf
    <3> QED
      BY <1>2, <1>7, <1>10, <3>2
  <2>5. Shelf!AddVersion(a, c)
    BY <1>8, <1>9, <2>1, <2>2, <2>3, <2>4 DEF Shelf!AddVersion
  <2> QED
    BY <1>1, <1>3, <2>5 DEF Shelf!ShelfNext
<1>11. CASE ~Stored(a)
  <2> DEFINE k == IF IsLink(Saving(w).key) THEN "" ELSE Saving(w).key
  <2>1. Shelved' = [Shelved EXCEPT ![a] = "live"]
    BY <1>1 DEF Shelved
  <2>2. TitleOf' = [TitleOf EXCEPT ![a] = k]
    BY <1>1, <1>11 DEF TitleOf, IsLink
  <2>3. Shelved[a] = "unused"
    BY <1>1, <1>4, <1>11 DEF Shelved
  <2>4. k \in Titles \cup {""}
    BY <1>3 DEF Keys, IsLink
  <2>5. k = "" \/ ~ \E b \in Artifact : Shelved[b] = "live" /\ TitleOf[b] = k
    BY <1>2, <1>11 DEF Shelved, TitleOf, Keyed, Live
  <2>6. Shelf!Create(a, k, c)
    <3> HIDE DEF k
    <3> QED
      BY <1>8, <1>9, <2>1, <2>2, <2>3, <2>5 DEF Shelf!Create
  <2> QED
    BY <1>1, <1>3, <2>4, <2>6 DEF Shelf!ShelfNext
<1> QED
  BY <1>10, <1>11

LEMMA MarkRefines ==
  ASSUME ArtifactsInv, TextAsShown, TextAsShown', NEW w \in Writers, MarkDeleted(w)
  PROVE  [Shelf!ShelfNext]_(Shelf!shelfVars)
<1> DEFINE a == op[w].in
<1>1. /\ a \in Artifact /\ Stored(a)
      /\ row' \in [Artifact -> RowState]
      /\ \A b \in Artifact : b # a => row'[b] = row[b]
      /\ row'[a].state = "deleted" /\ row'[a].key = row[a].key
      /\ row'[a].versions = row[a].versions /\ row'[a].pruned = row[a].pruned
  BY MarkRow DEF MarkOp
<1> HIDE DEF a
<1>2. TextOf = [b \in Artifact |-> Shown(b)] /\ TextOf[a] = Shown(a) /\ DOMAIN Shown(a) = 1..Len(row[a].versions)
  BY <1>1, ShownSeq DEF TextAsShown
<1>3. TextOf' = [b \in Artifact |-> IF b = a THEN [n \in 1..Len(row[a].versions) |-> "gone"] ELSE Shown(b)]
  <2>1. TextOf' = [b \in Artifact |->
                     [n \in 1..Len(row'[b].versions) |->
                        IF row'[b].state # "live" \/ n <= row'[b].pruned THEN "gone" ELSE row'[b].versions[n].text]]
    BY DEF TextAsShown, Shown, Live
  <2>2. \A b \in Artifact : b # a =>
           [n \in 1..Len(row'[b].versions) |->
              IF row'[b].state # "live" \/ n <= row'[b].pruned THEN "gone" ELSE row'[b].versions[n].text] = Shown(b)
    BY <1>1 DEF Shown, Live
  <2>3. [n \in 1..Len(row'[a].versions) |->
           IF row'[a].state # "live" \/ n <= row'[a].pruned THEN "gone" ELSE row'[a].versions[n].text]
        = [n \in 1..Len(row[a].versions) |-> "gone"]
    BY <1>1
  <2> QED
    BY <2>1, <2>2, <2>3, ZenonT(60)
<1>4. TitleOf' = TitleOf
  <2>1. \A b \in Artifact : row'[b].key = row[b].key
    BY <1>1
  <2> QED
    BY <2>1 DEF TitleOf, IsLink
<1>5. CASE Live(a)
  <2>1. Shelved[a] = "live"
    BY <1>1, <1>5 DEF Shelved, Live
  <2>2. Shelved' = [Shelved EXCEPT ![a] = "deleted"]
    BY <1>1 DEF Shelved
  <2>3. TextOf' = [TextOf EXCEPT ![a] = [n \in DOMAIN @ |-> "gone"]]
    BY <1>1, <1>2, <1>3
  <2>4. Shelf!PutAway(a)
    BY <1>4, <2>1, <2>2, <2>3 DEF Shelf!PutAway
  <2> QED
    BY <1>1, <2>4 DEF Shelf!ShelfNext
<1>6. CASE ~Live(a)
  <2>1. row[a].state = "deleted"
    BY <1>1, <1>6, RowOf DEF ArtifactsInv, Live
  <2>2. Shelved' = Shelved
    <3>1. \A b \in Artifact : row'[b].state = row[b].state
      BY <1>1, <2>1
    <3> QED
      BY <3>1 DEF Shelved
  <2>3. Shown(a) = [n \in 1..Len(row[a].versions) |-> "gone"]
    BY <1>6 DEF Shown
  <2>4. TextOf' = TextOf
    BY <1>2, <1>3, <2>3
  <2> QED
    BY <1>4, <2>2, <2>4 DEF Shelf!shelfVars
<1> QED
  BY <1>5, <1>6

LEMMA StepRefines ==
  ASSUME ArtifactsInv, TextAsShown, TextAsShown', [ArtifactsNext]_artifactVars
  PROVE  [Shelf!ShelfNext]_(Shelf!shelfVars)
<1>1. CASE row' = row
  BY <1>1, RowsStayStutter
<1>2. CASE \E w \in Writers : CommitVersion(w)
  BY <1>2, CommitRefines
<1>3. CASE \E w \in Writers : MarkDeleted(w)
  BY <1>3, MarkRefines
<1>4. row' = row \/ (\E w \in Writers : CommitVersion(w)) \/ (\E w \in Writers : MarkDeleted(w))
  BY DEF artifactVars, ArtifactsNext, ToolSaves, TurnEnds, PersonEdits, PersonErases, Decide, WriteBlob,
         RemoveBlobs, StoreFails, EraseFiles, WriterStops
<1> QED
  BY <1>1, <1>2, <1>3, <1>4

\* The store implements ArtifactShelf: a commit is the creation of an artifact or
\* of its next version, the mark of a deletion puts it away, and whatever else a
\* writer does, at whatever point it stops or fails, no reader notices.
THEOREM StoreKeepsShelf == ArtifactsSpec => KeepsShelf
<1>1. ArtifactsInv /\ TextAsShown /\ TextAsShown' /\ [ArtifactsNext]_artifactVars
        => [Shelf!ShelfNext]_(Shelf!shelfVars)
  BY StepRefines
<1> QED
  BY RefineInit, ArtifactsInvariant, ReadersSeeRows, <1>1, PTL DEF ArtifactsSpec, KeepsShelf, Shelf!ShelfSpec

=============================================================================
