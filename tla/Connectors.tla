----------------------------- MODULE Connectors -----------------------------
(***************************************************************************)
(* The MCP servers of a profile: their entries in config.yaml, the lines   *)
(* of .env they refer to, the results of the last connection tests and the *)
(* stored tokens.                                                          *)
(*                                                                         *)
(* A request runs in a worker thread.  It reads config.yaml without a      *)
(* lock, judges what it has read, and writes one file after the other:     *)
(* the entry under CONFIG_LOCK, the checks under a lock of their own, .env *)
(* by reading all lines and replacing the file, without a lock.  Other     *)
(* routes (provider keys, tool providers) write .env in the same way.  A   *)
(* request may fail, or the gateway stop, before any of these writes.      *)
(***************************************************************************)
EXTENDS Naturals, FiniteSets

CONSTANTS Servers,  \* names of servers
          OwnKey,   \* OwnKey[n]: the key of .env derived from the name
          RefSets,  \* RefSets[n]: the sets of keys an entry of n may refer to
          Foreign,  \* keys of .env that other routes write
          Workers,  \* requests that may be in flight together
          MaxBegun  \* bound on requests

NoServer == "no server"

ASSUME ConnAssumption == MaxBegun \in Nat /\ NoServer \notin Servers

VARIABLES
  entry,       \* entry[n]: what config.yaml says of server n
  line,        \* keys that have a line in .env
  check,       \* check[n]: the record of mcp-checks.json
  tokens,      \* servers with files in mcp-tokens
  authorizing, \* servers with an OAuth worker that may store tokens
  work,        \* work[w]: what the request of w has read, and what it does next
  begun,       \* requests so far
  order        \* order[n]: how the requests about n have come: see below

\* "calm": one after the other, none left half done; "mixed": the ones at work
\* have overlapped; "alone": the one at work is the only one.  A deletion that
\* is alone from its first read to its last write makes things calm again.

connVars == <<entry, line, check, tokens, authorizing, work, begun, order>>
connFiles == <<entry, line, check, tokens>>

EnvKeys == {OwnKey[n] : n \in Servers} \cup (UNION {UNION RefSets[n] : n \in Servers}) \cup Foreign
NoCheck == [ok |-> FALSE, tools |-> "unknown"]

\* An entry refers to keys, is enabled or not, and has all tools on or few;
\* its revision is a hash of all that.
NoEntry == [there |-> FALSE, refs |-> {}, enabled |-> FALSE, tools |-> "all"]
Entries(n) == [there : {TRUE}, refs : RefSets[n], enabled : BOOLEAN, tools : {"all", "few"}]

\* A request: what it does next, about which server, the keys it puts and
\* drops, and what it has read or will write of .env, an entry, a record.
NoWork == [does |-> "nothing", kind |-> "none", of |-> NoServer, put |-> {}, drop |-> {},
           lines |-> {}, entry |-> NoEntry, record |-> NoCheck]

WorkDoes(w, what) == work' = [work EXCEPT ![w].does = what]
WorkEnds(w) == work' = [work EXCEPT ![w] = NoWork]

InHand(n) == \E v \in Workers : work[v].of = n

WorkBegins(w, job) ==
  /\ work[w] = NoWork /\ begun < MaxBegun
  /\ work' = [work EXCEPT ![w] = job]
  /\ begun' = begun + 1
  /\ order' = [n \in Servers |->
       IF n # job.of THEN order[n]
       ELSE IF InHand(n) \/ (job.kind = "remove" /\ n \in authorizing) THEN "mixed"
       ELSE IF order[n] = "mixed" THEN "alone" ELSE order[n]]
  /\ UNCHANGED <<connFiles, authorizing>>

-----------------------------------------------------------------------------
(* What a request reads first *)

SaveJob(n, e, keys) ==
  [NoWork EXCEPT !.does = "save", !.kind = "save", !.of = n, !.entry = e, !.put = keys]

\* create, and the installation of a catalog entry, which are refused when the
\* name is taken
CreateServer(w, n, e) ==
  /\ entry[n] = NoEntry
  /\ \E keys \in {{}, e.refs} : WorkBegins(w, SaveJob(n, e, keys))

\* An update, or a choice of tools: the client names the revision it has seen,
\* which has to be that of the entry read now.
UpdateServer(w, n, e) ==
  /\ entry[n].there /\ e # entry[n] /\ e.enabled = entry[n].enabled
  /\ \E keys \in {{}, e.refs \ entry[n].refs} : WorkBegins(w, SaveJob(n, e, keys))

\* enabled and trust: no revision
PatchServer(w, n) ==
  /\ entry[n].there
  /\ WorkBegins(w, SaveJob(n, [entry[n] EXCEPT !.enabled = ~@], {}))

\* The keys of MCP_ that only this server refers to.
DropOf(n) == (entry[n].refs \cup {OwnKey[n]}) \ UNION {entry[m].refs : m \in Servers \ {n}}

DeleteServer(w, n) ==
  /\ entry[n].there
  /\ WorkBegins(w, [NoWork EXCEPT !.does = "remove", !.kind = "remove", !.of = n, !.drop = DropOf(n)])

\* A value is put for a key the server refers to, or taken away.
Secret(w, n, k) ==
  /\ k \in entry[n].refs
  /\ \E put \in {{}, {k}} :
       WorkBegins(w, [NoWork EXCEPT !.does = "read env", !.kind = "secret", !.of = n,
                                    !.put = put, !.drop = {k} \ put])

\* A key of a provider or of a tool provider is put or taken away.
ForeignKey(w, k) ==
  \E put \in {{}, {k}} :
    WorkBegins(w, [NoWork EXCEPT !.does = "read env", !.kind = "secret", !.put = put, !.drop = {k} \ put])

\* One test of a server at a time.
Test(w, n) ==
  /\ entry[n].there
  /\ \A v \in Workers : work[v].of = n => work[v].kind # "test"
  /\ WorkBegins(w, [NoWork EXCEPT !.does = "probe", !.kind = "test", !.of = n, !.entry = entry[n]])

-----------------------------------------------------------------------------
(* config.yaml, under CONFIG_LOCK *)

SaveEntry(w) ==
  /\ work[w].does = "save"
  /\ entry' = [entry EXCEPT ![work[w].of] = work[w].entry]
  /\ WorkDoes(w, "read flags")
  /\ UNCHANGED <<line, check, tokens, authorizing, begun, order>>

RemoveEntry(w) ==
  /\ work[w].does = "remove"
  /\ entry' = [entry EXCEPT ![work[w].of] = NoEntry]
  /\ WorkDoes(w, "read env")
  /\ UNCHANGED <<line, check, tokens, authorizing, begun, order>>

-----------------------------------------------------------------------------
(* .env: all lines are read, and the file replaced *)

ReadEnv(w) ==
  /\ work[w].does = "read env"
  /\ work' = [work EXCEPT ![w].does = "write env", ![w].lines = line]
  /\ UNCHANGED <<connFiles, authorizing, begun, order>>

NewLines(w) == (work[w].lines \cup work[w].put) \ work[w].drop

\* Nothing is written when there is nothing to put and nothing to take away.
WriteEnv(w) ==
  /\ work[w].does = "write env"
  /\ line' = IF work[w].put # {} \/ work[w].drop \cap work[w].lines # {} THEN NewLines(w) ELSE line
  /\ IF work[w].kind = "remove" THEN WorkDoes(w, "drop tokens") ELSE WorkEnds(w)
  /\ UNCHANGED <<entry, check, tokens, authorizing, begun, order>>

-----------------------------------------------------------------------------
(* The checks and the tokens *)

\* refresh_tool_flags: the record is read, and written later under the lock
ReadFlags(w) ==
  /\ work[w].does = "read flags"
  /\ LET read == check[work[w].of] IN
     work' = IF read.tools = "unknown" THEN [work EXCEPT ![w].does = "read env"]
             ELSE [work EXCEPT ![w].does = "write flags",
                               ![w].record = [read EXCEPT !.tools = work[w].entry.tools]]
  /\ UNCHANGED <<connFiles, authorizing, begun, order>>

WriteFlags(w) ==
  /\ work[w].does = "write flags"
  /\ check' = [check EXCEPT ![work[w].of] = work[w].record]
  /\ WorkDoes(w, "read env")
  /\ UNCHANGED <<entry, line, tokens, authorizing, begun, order>>

\* The test is over.  A server that is gone gets no record; tools once known
\* are kept when the test fails, as far as the record that is read says.
Probe(w) ==
  /\ work[w].does = "probe"
  /\ \E ok \in BOOLEAN :
       LET n == work[w].of
           tools == IF ok THEN work[w].entry.tools ELSE check[n].tools
       IN work' = IF entry[n].there
                  THEN [work EXCEPT ![w].does = "write check", ![w].record = [ok |-> ok, tools |-> tools]]
                  ELSE [work EXCEPT ![w] = NoWork]
  /\ UNCHANGED <<connFiles, authorizing, begun, order>>

WriteCheck(w) ==
  /\ work[w].does = "write check"
  /\ check' = [check EXCEPT ![work[w].of] = work[w].record]
  /\ WorkEnds(w)
  /\ UNCHANGED <<entry, line, tokens, authorizing, begun, order>>

DropTokens(w) ==
  /\ work[w].does = "drop tokens"
  /\ tokens' = tokens \ {work[w].of}
  /\ WorkDoes(w, "drop check")
  /\ UNCHANGED <<entry, line, check, authorizing, begun, order>>

\* A deletion that was alone has settled its server.
Calmed(w) == [order EXCEPT ![work[w].of] = IF @ = "mixed" THEN @ ELSE "calm"]

\* (slip) the record of a deleted server stays
KeepCheck(w) ==
  /\ work[w].does = "drop check"
  /\ WorkEnds(w)
  /\ order' = Calmed(w)
  /\ UNCHANGED <<connFiles, authorizing, begun>>

DropCheck(w) ==
  /\ work[w].does = "drop check"
  /\ check' = [check EXCEPT ![work[w].of] = NoCheck]
  /\ WorkEnds(w)
  /\ order' = Calmed(w)
  /\ UNCHANGED <<entry, line, tokens, authorizing, begun>>

\* What a request leaves half done when it ends here: an entry whose tools the
\* record does not show yet, a deletion that has taken the entry only.
Half(q) ==
  \/ q.does \in {"read flags", "write flags"}
  \/ q.kind = "remove" /\ q.does # "remove"

\* The request fails (Hermes refuses the entry, a file cannot be written), or
\* the gateway stops.
BreaksOff(w) ==
  /\ work[w] # NoWork
  /\ WorkEnds(w)
  /\ order' = [n \in Servers |->
       IF n = work[w].of /\ order[n] = "calm" /\ Half(work[w]) THEN "alone" ELSE order[n]]
  /\ UNCHANGED <<connFiles, authorizing, begun>>

\* An OAuth attempt starts while the entry is there.  Its worker looks at the
\* entry no more and may store tokens at any time, before it ends.
AuthBegins(n) ==
  /\ entry[n].there /\ n \notin authorizing
  /\ authorizing' = authorizing \cup {n}
  /\ order' = [order EXCEPT ![n] =
       IF \E w \in Workers : work[w].of = n /\ work[w].kind = "remove" THEN "mixed" ELSE @]
  /\ UNCHANGED <<connFiles, work, begun>>

TokensStored(n) ==
  /\ n \in authorizing
  /\ tokens' = tokens \cup {n}
  /\ UNCHANGED <<entry, line, check, authorizing, work, begun, order>>

AuthEnds(n) ==
  /\ n \in authorizing
  /\ authorizing' = authorizing \ {n}
  /\ UNCHANGED <<connFiles, work, begun, order>>

-----------------------------------------------------------------------------

ConnInit ==
  /\ entry = [n \in Servers |-> NoEntry] /\ line = {} /\ check = [n \in Servers |-> NoCheck]
  /\ tokens = {} /\ authorizing = {} /\ work = [w \in Workers |-> NoWork] /\ begun = 0
  /\ order = [n \in Servers |-> "calm"]

WorkGoes(w) ==
  \/ SaveEntry(w) \/ RemoveEntry(w) \/ ReadEnv(w) \/ WriteEnv(w) \/ ReadFlags(w) \/ WriteFlags(w)
  \/ Probe(w) \/ WriteCheck(w) \/ DropTokens(w) \/ DropCheck(w) \/ BreaksOff(w)

ConnNext ==
  \/ \E w \in Workers, n \in Servers :
       \/ \E e \in Entries(n) : CreateServer(w, n, e) \/ UpdateServer(w, n, e)
       \/ PatchServer(w, n) \/ DeleteServer(w, n) \/ Test(w, n)
       \/ \E k \in EnvKeys : Secret(w, n, k)
  \/ \E w \in Workers, k \in Foreign : ForeignKey(w, k)
  \/ \E w \in Workers : WorkGoes(w)
  \/ \E n \in Servers : AuthBegins(n) \/ TokensStored(n) \/ AuthEnds(n)

-----------------------------------------------------------------------------

Steps == {"nothing", "save", "remove", "read env", "write env", "read flags", "write flags",
          "probe", "write check", "drop tokens", "drop check"}

ConnTypeOK ==
  /\ \A n \in Servers : entry[n] = NoEntry \/ entry[n] \in Entries(n)
  /\ line \subseteq EnvKeys
  /\ check \in [Servers -> [ok : BOOLEAN, tools : {"unknown", "all", "few"}]]
  /\ tokens \subseteq Servers /\ authorizing \subseteq Servers /\ begun \in 0..MaxBegun
  /\ order \in [Servers -> {"calm", "alone", "mixed"}]
  /\ \A w \in Workers : work[w].does \in Steps /\ work[w].of \in Servers \cup {NoServer}

\* A record, a token and an OAuth worker are of a server that exists, and the
\* tools of the record are shown as the entry chooses them.
Settled(n) ==
  /\ check[n] # NoCheck => entry[n].there
  /\ check[n].tools # "unknown" => check[n].tools = entry[n].tools
  /\ n \in tokens \cup authorizing => entry[n].there

\* Whatever the requests of other servers do at the same time, and wherever
\* requests fail, a server is settled when nobody works on it and its own
\* requests came one after the other; and a deletion that is alone settles a
\* server whatever was left of it ("so that N/M of the tools is right at once",
\* mcp_admin.py:69; delete_handler, mcp_admin.py:284).
TidyCalm == \A n \in Servers : order[n] = "calm" /\ ~InHand(n) => Settled(n)

\* A step that writes .env.
Rewrites(w) == work[w].does = "write env" /\ work'[w].does # "write env"

\* A request takes no line from .env but those of the keys it drops.
\* ("not one of the existing lines is lost", envfile.py:3)
LinesKept == [][\A w \in Workers : Rewrites(w) => line \ line' \subseteq work[w].drop]_connVars

\* A deletion drops no key that another server refers to.
\* ("a key another server refers to is left", mcp_admin.py:298)
KeysLeft ==
  [][\A w \in Workers, n \in Servers :
       Rewrites(w) /\ work[w].kind = "remove" /\ n # work[w].of
         => (work[w].drop \ line') \cap line \cap entry[n].refs = {}]_connVars

=============================================================================
