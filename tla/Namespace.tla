------------------------------ MODULE Namespace ------------------------------
(***************************************************************************)
(* The names the Writer works on: absolute cleaned paths (cleanPath), their *)
(* parents (path.Dir), and the AUFS whiteout markers that CopyFrom with     *)
(* Merge interprets.  A layer is one source file system given to CopyFrom:  *)
(* which paths it holds and of which kind.  The real strings are abstracted *)
(* to a set of paths with a parent function; what a marker names is a       *)
(* function of the marker.                                                  *)
(***************************************************************************)
EXTENDS Naturals

CONSTANTS
    Path,         \* absolute cleaned paths, markers included
    Root,         \* "/"
    Dir,          \* path.Dir, on every path but the root
    Anc,          \* the proper ancestors of a path, the root included
    Opaque,       \* the paths whose base is ".wh..wh..opq"
    WhiteoutOf,   \* a path whose base is ".wh.<name>" -> its sibling <name>
    Layers        \* the source file systems: partial functions Path -> Kind

Kind == {"dir", "file"}                  \* "file" is every non-directory

Whiteouts == DOMAIN WhiteoutOf
Markers == Opaque \cup Whiteouts

(* Paths form a tree under Root.                                           *)
ASSUME PathAssumption ==
    /\ Root \in Path
    /\ Dir \in [Path \ {Root} -> Path]
    /\ Anc \in [Path -> SUBSET Path]
    /\ Anc[Root] = {}
    /\ \A p \in Path \ {Root} :
         /\ Anc[p] = Anc[Dir[p]] \cup {Dir[p]}
         /\ Root \in Anc[p]
         /\ p \notin Anc[p]
    /\ \A p \in Path : \A q \in Anc[p] : Anc[q] \subseteq Anc[p]
    /\ \A p \in Path : \A q, r \in Anc[p] : q = r \/ q \in Anc[r] \/ r \in Anc[q]

(* A marker is never the root, and names a sibling.                        *)
ASSUME MarkerAssumption ==
    /\ Opaque \subseteq Path \ {Root}
    /\ WhiteoutOf \in [Whiteouts -> Path \ {Root}]
    /\ Whiteouts \subseteq Path \ {Root}
    /\ Opaque \cap Whiteouts = {}
    /\ \A m \in Whiteouts : Dir[WhiteoutOf[m]] = Dir[m]

(* A source is a tree: it holds its root and every parent, as directories; *)
(* its markers are plain files.                                            *)
ASSUME LayerAssumption ==
    \A L \in Layers :
      /\ DOMAIN L \subseteq Path
      /\ \A p \in DOMAIN L : L[p] \in Kind
      /\ Root \in DOMAIN L /\ L[Root] = "dir"
      /\ \A p \in DOMAIN L \ {Root} : Dir[p] \in DOMAIN L /\ L[Dir[p]] = "dir"
      /\ \A m \in DOMAIN L \cap Markers : L[m] = "file"

(* p is q or lies under it.                                                *)
Under(p, q) == p = q \/ q \in Anc[p]

(* The paths that the marker m takes away from the layers below: every     *)
(* descendant of its directory, or the named sibling with its descendants. *)
HiddenBy(m) ==
    IF m \in Opaque THEN {p \in Path : Dir[m] \in Anc[p]}
                    ELSE {p \in Path : Under(p, WhiteoutOf[m])}

Hidden(L) == UNION {HiddenBy(m) : m \in DOMAIN L \cap Markers}
=============================================================================
