------------------------------ MODULE AfcPaths ------------------------------
(***************************************************************************)
(* The requests of src/lib/afc that name a path, and walkDir, which asks   *)
(* for a listing and then for each item in it, directory by directory,     *)
(* while the same service or another one changes what it walks over.       *)
(*                                                                         *)
(* Whose response is whose is the matter of module Afc.  Here a request    *)
(* happens when the device serves it, in one step with what runs when the  *)
(* response has come: nothing the one reads is changed by what comes       *)
(* between the two.  The device is external: it keeps a tree of files,     *)
(* each at a path of names from the root <<>>, serves a request late or    *)
(* never, may refuse it, and lists a directory in any order, with "." and  *)
(* "..".                                                                   *)
(***************************************************************************)
EXTENDS Naturals, Sequences, FiniteSets, SequencesExt, FiniteSetsExt

CONSTANTS Items,       \* names of files and directories
          MaxDepth,    \* bound: names in a path
          MaxChanges   \* bound: requests that change the tree

\* No file has one of the names by which a listing has the directory and its parent.
ASSUME AfcPathsAssumption ==
  /\ IsFiniteSet(Items) /\ {".", ".."} \cap Items = {}
  /\ MaxDepth \in Nat /\ MaxChanges \in Nat

VARIABLES
  tree,       \* what is on the device: kinds of files, by path
  walk,       \* walkDir: its phase, whether recursive, the directory whose listing
              \* it awaits, and what is left of the listings it is in
  visited,    \* what onPath was called with
  changes,    \* requests that changed the tree
  lasting,    \* history: what was there, unchanged, ever since the walk began
  present,    \* history: what was there at some time of the walk
  troubled    \* history: something was removed, or a request or onPath failed

pathsVars == <<tree, walk, visited, changes, lasting, present, troubled>>

FileKinds == {"S_IFDIR", "S_IFREG"}
Paths == UNION {[1 .. n -> Items] : n \in 1 .. MaxDepth}
Root == <<>>

IsDirectory(t, p) == p = Root \/ (p \in DOMAIN t /\ t[p] = "S_IFDIR")
Children(t, dir) == {Last(p) : p \in {q \in DOMAIN t : Front(q) = dir}}
FilesOf(t) == {[path |-> p, kind |-> t[p]] : p \in DOMAIN t}

PathsInit ==
  /\ tree \in {t \in UNION {[S -> FileKinds] : S \in SUBSET Paths} :
                 \A p \in DOMAIN t : IsDirectory(t, Front(p))}
  /\ walk = [phase |-> "uncalled", recursive |-> FALSE, dir |-> Root, listings |-> <<>>]
  /\ visited = <<>> /\ changes = 0
  /\ lasting = {} /\ present = {} /\ troubled = FALSE

---------------------------------------------------------------------------
\* The device serves a request that leaves the tree at t.
Changes(t) ==
  /\ changes < MaxChanges /\ t # tree
  /\ changes' = changes + 1
  /\ tree' = t
  /\ lasting' = lasting \cap FilesOf(t)
  /\ present' = IF walk.phase = "uncalled" THEN {} ELSE present \cup FilesOf(t)
  /\ troubled' = (troubled \/ ~(FilesOf(tree) \subseteq FilesOf(t)))
  /\ UNCHANGED <<walk, visited>>

\* MAKE_DIR, and FILE_OPEN for writing, where nothing is yet.
Makes(p, kind) ==
  /\ p \notin DOMAIN tree /\ IsDirectory(tree, Front(p))
  /\ Changes([q \in DOMAIN tree \cup {p} |-> IF q = p THEN kind ELSE tree[q]])

CreateDirectory(p) == Makes(p, "S_IFDIR")
OpenFileToWrite(p) == Makes(p, "S_IFREG")

\* REMOVE_PATH_AND_CONTENTS
DeleteDirectory(p) ==
  /\ p \in DOMAIN tree
  /\ Changes([q \in {o \in DOMAIN tree : ~IsPrefix(p, o)} |-> tree[q]])

---------------------------------------------------------------------------
WalkDir(recursive) ==
  /\ walk.phase = "uncalled"
  /\ walk' = [walk EXCEPT !.phase = "listing", !.recursive = recursive]
  /\ lasting' = FilesOf(tree) /\ present' = FilesOf(tree)
  /\ troubled' = FALSE
  /\ UNCHANGED <<tree, visited, changes>>

\* Mutant: when a directory is done, so is the one it is in.
UnfinishedInnermost(listings) ==
  IF listings = <<>> \/ Last(listings).names = <<>> THEN <<>> ELSE listings

\* The loops that are not over: those around the innermost that has a name left.
Unfinished(listings) ==
  SubSeq(listings, 1, Max({0} \cup {i \in DOMAIN listings : listings[i].names # <<>>}))

\* walkDir goes on with the next name, or returns.
WalkGoesOn(listings) ==
  walk' = [walk EXCEPT !.listings = Unfinished(listings),
                       !.phase = IF Unfinished(listings) = <<>> THEN "returned" ELSE "asking"]

\* The names of a listing that walkDir does not pass over: IGNORED_PATHS are.
NotIgnored(order) ==
  LET kept[i \in 0 .. Len(order)] ==
        IF i = 0 THEN <<>>
        ELSE IF order[i] \in {".", ".."} THEN kept[i - 1] ELSE Append(kept[i - 1], order[i])
  IN  kept[Len(order)]

\* listDirectory: READ_DIR, and the loop over what it lists begins.
DirectoryListed ==
  /\ walk.phase = "listing" /\ IsDirectory(tree, walk.dir)
  /\ \E order \in SetToSeqs(Children(tree, walk.dir) \cup {".", ".."}) :
       WalkGoesOn(Append(walk.listings, [dir |-> walk.dir, names |-> NotIgnored(order)]))
  /\ UNCHANGED <<tree, visited, changes, lasting, present, troubled>>

AskedFor == Append(Last(walk.listings).dir, Head(Last(walk.listings).names))

\* getFileInfo, and what follows up to the next request: onPath, and a walk of the
\* directory, if it is one.
GotFileInfo ==
  LET inner == Last(walk.listings)
      rest == Append(Front(walk.listings), [inner EXCEPT !.names = Tail(@)])
  IN  /\ walk.phase = "asking" /\ AskedFor \in DOMAIN tree
      /\ visited' = Append(visited, [path |-> AskedFor, kind |-> tree[AskedFor]])
      /\ IF IsDirectory(tree, AskedFor) /\ walk.recursive
           THEN walk' = [walk EXCEPT !.phase = "listing", !.dir = AskedFor, !.listings = rest]
           ELSE WalkGoesOn(rest)
      /\ UNCHANGED <<tree, changes, lasting, present, troubled>>

\* The device refuses what is not there or is no directory, and what it likes; a
\* request times out; or onPath throws.
WalkFails ==
  LET there == \/ walk.phase = "listing" /\ IsDirectory(tree, walk.dir)
               \/ walk.phase = "asking" /\ AskedFor \in DOMAIN tree
  IN  /\ walk.phase \in {"listing", "asking"}
      /\ walk' = [walk EXCEPT !.phase = "threw", !.listings = <<>>]
      /\ troubled' = (troubled \/ there)
      /\ UNCHANGED <<tree, visited, changes, lasting, present>>

PathsNext ==
  \/ \E p \in Paths : CreateDirectory(p) \/ OpenFileToWrite(p) \/ DeleteDirectory(p)
  \/ \E recursive \in BOOLEAN : WalkDir(recursive)
  \/ DirectoryListed \/ GotFileInfo \/ WalkFails

PathsSpec == PathsInit /\ [][PathsNext]_pathsVars

---------------------------------------------------------------------------
(* Properties.                                                             *)

\* However the tree changes under a walk: when it returns, it has called onPath for
\* all that was there all the time, with what it is, down to the bottom if it is
\* recursive; never for what was not there, nor twice for a path, and for a
\* directory before what is in it.  It throws only if something was removed, or a
\* request or onPath failed by itself.
WalkMeetsAll ==
  /\ walk.phase = "returned" =>
       \A file \in lasting : walk.recursive \/ Len(file.path) = 1 => file \in ToSet(visited)
  /\ ToSet(visited) \subseteq present
  /\ \A i, j \in DOMAIN visited : visited[i].path = visited[j].path => i = j
  /\ \A i \in DOMAIN visited : LET dir == Front(visited[i].path) IN
       dir # Root => \E j \in 1 .. i - 1 : visited[j] = [path |-> dir, kind |-> "S_IFDIR"]
  /\ walk.phase = "threw" => troubled
=============================================================================
