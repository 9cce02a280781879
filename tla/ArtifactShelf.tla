--------------------------- MODULE ArtifactShelf ---------------------------
(***************************************************************************)
(* What the artifact registry promises to who reads it.  A shelf holds     *)
(* artifacts.  Versions are only ever added to one; the last Keep of them  *)
(* can be read (all, when Keep is 0).  An artifact is put away as a whole, *)
(* for good.  Saving the text of the latest version again adds nothing,    *)
(* and two artifacts of one title are never on the shelf together; a link  *)
(* has no title.                                                           *)
(***************************************************************************)
EXTENDS Naturals, Sequences

CONSTANTS Artifacts, Titles, Untitled, Texts, Gone, Keep

VARIABLES
  shelf,  \* shelf[a]: "unused", "live" or "deleted"
  title,  \* title[a]: the title of a, which decides what a save belongs to
  text    \* text[a]: what reading each version of a gives, Gone when it cannot be read

shelfVars == <<shelf, title, text>>

\* The versions of a after c is added.
WithText(a, c) ==
  LET v == Len(text[a]) + 1
  IN [n \in 1..v |-> IF Keep > 0 /\ n + Keep <= v THEN Gone ELSE IF n = v THEN c ELSE text[a][n]]

Create(a, k, c) ==
  /\ shelf[a] = "unused"
  /\ k = Untitled \/ ~ \E b \in Artifacts : shelf[b] = "live" /\ title[b] = k
  /\ shelf' = [shelf EXCEPT ![a] = "live"]
  /\ title' = [title EXCEPT ![a] = k]
  /\ text' = [text EXCEPT ![a] = WithText(a, c)]

AddVersion(a, c) ==
  /\ shelf[a] = "live" /\ text[a][Len(text[a])] # c
  /\ text' = [text EXCEPT ![a] = WithText(a, c)]
  /\ UNCHANGED <<shelf, title>>

PutAway(a) ==
  /\ shelf[a] = "live"
  /\ shelf' = [shelf EXCEPT ![a] = "deleted"]
  /\ text' = [text EXCEPT ![a] = [n \in DOMAIN @ |-> Gone]]
  /\ UNCHANGED title

ShelfInit == /\ shelf = [a \in Artifacts |-> "unused"]
             /\ title = [a \in Artifacts |-> Untitled]
             /\ text = [a \in Artifacts |-> << >>]

ShelfNext == \E a \in Artifacts :
  \/ \E k \in Titles \cup {Untitled}, c \in Texts : Create(a, k, c)
  \/ \E c \in Texts : AddVersion(a, c)
  \/ PutAway(a)

ShelfSpec == ShelfInit /\ [][ShelfNext]_shelfVars

=============================================================================
