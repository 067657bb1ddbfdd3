------------------------------- MODULE Resolve --------------------------------
(***************************************************************************)
(* How the reader of an image finds the inode of a path (resolve,          *)
(* src/erofs.go): the name is cleaned lexically and walked from the root,  *)
(* one directory lookup at a time; a symbolic link restarts the walk at    *)
(* the root, with the path of the directory it was found in, its target    *)
(* and the rest of the name cleaned together.  Open, Stat, ReadFile,       *)
(* ReadDir, ReadLink and Lstat are resolve and a look at what it found.    *)
(*                                                                         *)
(* A path is [abs, comps]; directories hold "..", as their blocks do.      *)
(***************************************************************************)
EXTENDS Integers, Sequences, SequencesExt

CONSTANTS
    Trees,       \* images: [root, kind, entry, target]; kind: node -> "dir",
                 \* "file" or "link", entry: directory -> its names -> node,
                 \* target: link -> path
    Paths,       \* the names asked for
    MaxLinks,    \* maxSymlinks, 255 in the code
    WalkSteps    \* steps within which the reference walk ends

Ops == {"open", "stat", "readfile", "readdir", "readlink", "lstat"}

(* Every directory has its entries, ".." among them, and they lead to      *)
(* nodes of the image.                                                     *)
WellFormed(t) ==
    /\ DOMAIN t.entry = {d \in DOMAIN t.kind : t.kind[d] = "dir"}
    /\ t.root \in DOMAIN t.entry /\ t.entry[t.root][".."] = t.root
    /\ \A d \in DOMAIN t.entry :
         /\ ".." \in DOMAIN t.entry[d]
         /\ \A n \in DOMAIN t.entry[d] : t.entry[d][n] \in DOMAIN t.kind

ASSUME ResolveAssumption ==
    /\ MaxLinks \in Nat /\ WalkSteps \in Nat
    /\ \A t \in Trees : WellFormed(t)

VARIABLES
    tree, op, asked,   \* the image and the call
    todo,              \* the components left: name
    at,                \* nid
    curPath,           \* the components that led to at
    links,             \* linksFollowed
    out                \* "walking", then "found" or the error

resolveVars == <<tree, op, asked, todo, at, curPath, links, out>>

IsDir(n) == tree.kind[n] = "dir"
IsLink(n) == tree.kind[n] = "link"

(* path.Clean of a rooted or unrooted path.                                *)
Clean(rooted, comps) ==
    LET add(done, c) ==
          CASE c = "." -> done
            [] c = ".." /\ done # <<>> /\ Last(done) # ".." -> Front(done)
            [] c = ".." /\ done = <<>> /\ rooted -> done
            [] OTHER -> Append(done, c)
    IN  FoldLeft(add, <<>>, comps)

(* Only the last component of lstat and readlink may be a link.            *)
Follow == op \notin {"lstat", "readlink"}

(* The leading slash is cut off before the name is cleaned.                *)
ResolveInit ==
    /\ tree \in Trees /\ op \in Ops /\ asked \in Paths
    /\ todo = Clean(FALSE, asked.comps)
    /\ at = tree.root /\ curPath = <<>> /\ links = 0 /\ out = "walking"

Walking == out = "walking" /\ todo # <<>>

Fail(error) ==
    /\ out' = error
    /\ UNCHANGED <<tree, op, asked, todo, at, curPath, links>>

NotADir == Walking /\ ~IsDir(at) /\ Fail("ErrNotDirectory")

Missing == Walking /\ IsDir(at) /\ Head(todo) \notin DOMAIN tree.entry[at] /\ Fail("ErrNotExist")

(* lookup finds an entry that is followed or is the place to go on from.   *)
Found == IF Walking /\ IsDir(at) /\ Head(todo) \in DOMAIN tree.entry[at]
         THEN {tree.entry[at][Head(todo)]} ELSE {}
ToFollow(n) == IsLink(n) /\ (Follow \/ Tail(todo) # <<>>)

Step(n) ==
    /\ ~ToFollow(n)
    /\ at' = n /\ curPath' = Append(curPath, Head(todo)) /\ todo' = Tail(todo)
    /\ UNCHANGED <<tree, op, asked, links, out>>

TooMany(n) == ToFollow(n) /\ links >= MaxLinks /\ Fail("ErrLoop")

(* Mutant of Restarted: the directory of the link is forgotten.            *)
RestartedAtRoot(n) == Clean(TRUE, tree.target[n].comps \o Tail(todo))

(* The name after a link: its target behind curPath, which makes a rooted  *)
(* path exactly when curPath is empty.                                     *)
Restarted(n) ==
    LET t == tree.target[n]
    IN  IF t.abs THEN Clean(TRUE, t.comps \o Tail(todo))
        ELSE Clean(curPath = <<>>, curPath \o t.comps \o Tail(todo))

(* Mutant of FollowLink: the path of the link's directory is kept.         *)
FollowLinkKeepsPath(n) ==
    /\ ToFollow(n) /\ links < MaxLinks
    /\ links' = links + 1
    /\ todo' = Restarted(n) /\ at' = tree.root
    /\ UNCHANGED <<tree, op, asked, out, curPath>>

(* Mutant of FollowLink: links are not counted.                            *)
FollowLinkUncounted(n) ==
    /\ ToFollow(n) /\ links < MaxLinks
    /\ todo' = Restarted(n) /\ at' = tree.root /\ curPath' = <<>>
    /\ UNCHANGED <<tree, op, asked, out, links>>

FollowLink(n) ==
    /\ ToFollow(n) /\ links < MaxLinks
    /\ links' = links + 1
    /\ todo' = Restarted(n) /\ at' = tree.root /\ curPath' = <<>>
    /\ UNCHANGED <<tree, op, asked, out>>

(* The call looks at what resolve found.                                   *)
Answer ==
    CASE op = "readfile" /\ IsDir(at) -> "ErrIsDirectory"
      [] op = "readdir" /\ ~IsDir(at) -> "ErrNotDirectory"
      [] op = "readlink" /\ ~IsLink(at) -> "ErrInvalid"
      [] OTHER -> "found"

Finish ==
    /\ out = "walking" /\ todo = <<>>
    /\ out' = Answer
    /\ UNCHANGED <<tree, op, asked, todo, at, curPath, links>>

ResolveNext ==
    \/ NotADir \/ Missing \/ Finish
    \/ \E n \in Found : Step(n) \/ FollowLink(n) \/ TooMany(n)

(* resolve is a loop of its caller's goroutine.                            *)
ResolveSpec == ResolveInit /\ [][ResolveNext]_resolveVars /\ WF_resolveVars(ResolveNext)
-----------------------------------------------------------------------------
ResolveTypeOK ==
    /\ tree \in Trees /\ op \in Ops /\ asked \in Paths
    /\ at \in DOMAIN tree.kind /\ links \in 0..MaxLinks
    /\ out \in {"walking", "found", "ErrNotDirectory", "ErrIsDirectory", "ErrNotExist",
                "ErrLoop", "ErrInvalid"}

(* The walk the kernel makes: a link is replaced by its target where it    *)
(* was found, and ".." is looked up where it is met.                       *)
WalkStart == [at |-> tree.root, todo |-> asked.comps, links |-> 0, out |-> "walking"]
WalkStep(w) ==
    LET c == Head(w.todo)
        rest == Tail(w.todo)
        n == tree.entry[w.at][c]
    IN  CASE w.out # "walking" -> w
          [] w.todo = <<>> -> [w EXCEPT !.out = "found"]
          [] w.todo # <<>> /\ ~IsDir(w.at) -> [w EXCEPT !.out = "ErrNotDirectory"]
          [] OTHER ->
             CASE c = "." -> [w EXCEPT !.todo = rest]
               [] c # "." /\ c \notin DOMAIN tree.entry[w.at] -> [w EXCEPT !.out = "ErrNotExist"]
               [] OTHER ->
                  IF ~IsLink(n) \/ (~Follow /\ rest = <<>>)
                  THEN [w EXCEPT !.at = n, !.todo = rest]
                  ELSE IF w.links >= MaxLinks THEN [w EXCEPT !.out = "ErrLoop"]
                  ELSE [at |-> IF tree.target[n].abs THEN tree.root ELSE w.at,
                        todo |-> tree.target[n].comps \o rest,
                        links |-> w.links + 1, out |-> "walking"]
Walk == FoldLeft(LAMBDA w, k : WalkStep(w), WalkStart, [k \in 1..WalkSteps |-> k])

(* erofs.go:764-805: the inode found, or the error, is that of the walk    *)
(* component by component: no restart at the root loses its way, skips a   *)
(* link or counts one twice.                                               *)
AgreesWithWalk ==
    /\ out \in {"found", "ErrIsDirectory", "ErrInvalid"} => Walk.out = "found" /\ Walk.at = at
    /\ out \in {"ErrNotExist", "ErrLoop"} => Walk.out = out
    /\ out = "ErrNotDirectory" =>
         IF todo = <<>> THEN Walk.out = "found" /\ Walk.at = at ELSE Walk.out = out

(* erofs.go:734: "curPath tracks the full resolved path of the current     *)
(* directory": plain lookups along it lead from the root to at, over no    *)
(* link but the last of a call that does not follow it.                    *)
CurPathTracks ==
    LET along[k \in 0..Len(curPath)] ==
          IF k = 0 THEN tree.root ELSE tree.entry[along[k - 1]][curPath[k]]
    IN  /\ along[Len(curPath)] = at
        /\ \A k \in 0..(Len(curPath) - 1) : IsDir(along[k])

(* A cycle of links ends in ErrLoop, everything else in an answer.         *)
Resolves == <>(out # "walking")
=============================================================================
