--------------------------- MODULE WriterTreeProofs ---------------------------
(***************************************************************************)
(* What holds of the Writer's tree for every name space, every set of      *)
(* layers and every bound.                                                 *)
(***************************************************************************)
EXTENDS WriterTree, TLAPS

treeVars == <<byPath, gens, ent, live>>

LEMMA RootIdIsId == RootId \in Id
BY BoundAssumption, PathAssumption DEF RootId, Id

LEMMA RegIsId ==
    ASSUME TreeType, NEW p \in Path, Registered(p)
    PROVE  Reg(p) \in Id
BY BoundAssumption DEF TreeType, Registered, Reg, Id

-----------------------------------------------------------------------------
(* Types.  Every change of the tree is one of Attach, Overwrite, Discard.  *)

LEMMA AttachType ==
    ASSUME TreeType,
           NEW p \in Path, NEW new \in SUBSET Path, NEW b \in Id,
           NEW k \in Kind, NEW src \in Nat,
           Attach(p, new, b, k, src)
    PROVE  TreeType'
<1> DEFINE made(q) == <<q, gens[q] + 1>>
           rec(e) == [kind  |-> IF e[1] = p THEN k ELSE "dir",
                      from  |-> IF e[1] = p THEN src ELSE 0,
                      above |-> ent[b].above \cup {b} \cup {made(a) : a \in new \cap Anc[e[1]]}]
<1>1. \A q \in new : made(q) \in Id
  BY BoundAssumption DEF TreeType, Attach, Id
<1>2. \A e \in Id : rec(e) \in Entry
  <2> SUFFICES ASSUME NEW e \in Id PROVE rec(e) \in Entry
    OBVIOUS
  <2>1. ent[b].above \subseteq Id
    BY DEF TreeType, Entry
  <2>2. {made(a) : a \in new \cap Anc[e[1]]} \subseteq Id
    BY <1>1
  <2>3. (IF e[1] = p THEN k ELSE "dir") \in Kind
    BY DEF Kind
  <2>4. (IF e[1] = p THEN src ELSE 0) \in Nat
    OBVIOUS
  <2> HIDE DEF made
  <2> QED BY <2>1, <2>2, <2>3, <2>4 DEF Entry
<1>3. ent' = [e \in Id |-> IF e[1] \in new /\ e = made(e[1]) THEN rec(e) ELSE ent[e]]
  BY DEF Attach
<1>4. ent' \in [Id -> Entry]
  <2> HIDE DEF rec, made
  <2> QED BY <1>2, <1>3 DEF TreeType
<1>5. gens' \in [Path -> 0..MaxGen] /\ \A q \in Path : gens'[q] >= gens[q]
  BY BoundAssumption DEF TreeType, Attach
<1>6. byPath' \in [Path -> 0..MaxGen] /\ \A q \in Path : byPath'[q] <= gens'[q]
  BY BoundAssumption DEF TreeType, Attach
<1>7. live' \subseteq Id
  BY <1>1 DEF TreeType, Attach
<1>8. \A e \in live' : e[2] <= gens'[e[1]]
  <2> SUFFICES ASSUME NEW e \in live' PROVE e[2] <= gens'[e[1]]
    OBVIOUS
  <2>1. CASE e \in live
    BY <2>1, <1>5, BoundAssumption DEF TreeType, Id
  <2>2. CASE \E q \in new : e = made(q)
    BY <2>2 DEF TreeType, Attach
  <2> QED BY <2>1, <2>2 DEF Attach
<1> QED BY <1>4, <1>5, <1>6, <1>7, <1>8 DEF TreeType

LEMMA OverwriteType ==
    ASSUME TreeType, NEW e \in Id, NEW k \in Kind, NEW src \in Nat,
           Overwrite(e, k, src)
    PROVE  TreeType'
<1>1. [ent[e] EXCEPT !.kind = k, !.from = src] \in Entry
  BY DEF TreeType, Entry
<1>2. ent' \in [Id -> Entry]
  BY <1>1 DEF TreeType, Overwrite
<1> QED BY <1>2 DEF TreeType, Overwrite

LEMMA DiscardType ==
    ASSUME TreeType, NEW gone, Discard(gone)
    PROVE  TreeType'
BY BoundAssumption DEF TreeType, Discard

LEMMA AddWithParentsType ==
    ASSUME TreeType, NEW p \in Path, NEW k \in Kind, NEW src \in Nat,
           AddWithParents(p, k, src)
    PROVE  TreeType'
<1>1. PICK a \in Anc[p] :
        /\ Nearest(a, p)
        /\ Attach(p, {p} \cup {d \in Anc[p] : a \in Anc[d]}, Reg(a), k, src)
  BY DEF AddWithParents
<1>2. a \in Path /\ {p} \cup {d \in Anc[p] : a \in Anc[d]} \in SUBSET Path
  BY PathAssumption
<1>3. Reg(a) \in Id
  BY <1>1, <1>2, RegIsId DEF Nearest
<1> QED BY <1>1, <1>2, <1>3, AttachType

LEMMA AddInPlaceType ==
    ASSUME TreeType, NEW p \in Path, NEW k \in Kind, NEW src \in Nat,
           p # Root, AddInPlace(p, k, src)
    PROVE  TreeType'
<1>1. Dir[p] \in Path
  BY PathAssumption
<1>2. (IF Registered(Dir[p]) THEN Reg(Dir[p]) ELSE RootId) \in Id
  BY <1>1, RegIsId, RootIdIsId
<1> QED BY <1>2, AttachType DEF AddInPlace

LEMMA RemoveType ==
    ASSUME TreeType, NEW p, Remove(p) \/ RemoveChildren(p)
    PROVE  TreeType'
<1>1. CASE \E gone : Discard(gone)
  BY <1>1, DiscardType
<1>2. CASE UNCHANGED treeVars
  BY <1>2 DEF TreeType, treeVars
<1> QED BY <1>1, <1>2 DEF Remove, RemoveChildren, treeVars

LEMMA CopyFromType ==
    ASSUME TypeOK, NEW L \in Layers, NEW merge \in BOOLEAN, NEW fast \in BOOLEAN,
           CopyFrom(L, merge, fast)
    PROVE  TypeOK'
<1>1. DOMAIN L \subseteq Path
  BY LayerAssumption
<1>2. ops + 1 \in Nat /\ ops' \in 0..MaxOps
  BY BoundAssumption DEF TypeOK, CopyFrom
<1>3. copy' \in Copying /\ copy'.todo = DOMAIN L /\ copy'.layer = L
  BY <1>1, <1>2 DEF CopyFrom, Copying
<1>4. TreeType'
  BY DEF TypeOK, TreeType, CopyFrom
<1> QED BY <1>2, <1>3, <1>4 DEF TypeOK, CopyFrom

LEMMA VisitType ==
    ASSUME TypeOK, NEW p \in Path, Visit(p)
    PROVE  TypeOK'
<1>1. copy \in Copying /\ p \in copy.todo /\ p \in DOMAIN copy.layer
  BY DEF TypeOK, Visit, NextItem
<1>2. copy.layer[p] \in Kind /\ copy.n \in Nat
  BY <1>1, LayerAssumption DEF Copying
<1>3. copy' \in Copying /\ copy'.todo \subseteq DOMAIN copy'.layer
  <2>1. copy' = [copy EXCEPT !.todo = copy.todo \ {p}]
    BY DEF Visit
  <2> QED BY <1>1, <2>1 DEF TypeOK, Visit, Copying
<1>4. TreeType'
  <2>1. CASE Marker(p)
    BY <2>1, RemoveType DEF Marker, TypeOK
  <2>2. CASE Item(p)
    <3>1. CASE p = Root
      BY <2>2, <3>1, <1>2, RootIdIsId, OverwriteType DEF Item, TypeOK
    <3>2. CASE p # Root /\ Registered(p)
      BY <2>2, <3>2, <1>2, RegIsId, OverwriteType DEF Item, TypeOK
    <3>3. CASE p # Root /\ ~Registered(p) /\ copy.fast
      BY <2>2, <3>3, <1>2, AddInPlaceType DEF Item, TypeOK
    <3>4. CASE p # Root /\ ~Registered(p) /\ ~copy.fast
      BY <2>2, <3>4, <1>2, AddWithParentsType DEF Item, TypeOK
    <3> QED BY <3>1, <3>2, <3>3, <3>4
  <2> QED BY <2>1, <2>2 DEF Visit
<1> QED BY <1>3, <1>4 DEF TypeOK, Visit

LEMMA NewNodeType ==
    ASSUME TypeOK, NEW c \in Calls, NewNode(c[1], c[2])
    PROVE  TypeOK'
<1>1. c[1] \in Path /\ c[2] \in Kind
  BY CallAssumption
<1>2. ops + 1 \in Nat /\ ops' \in 0..MaxOps
  BY BoundAssumption DEF TypeOK, NewNode
<1>3. TreeType'
  BY <1>1, <1>2, AddWithParentsType DEF NewNode, TypeOK
<1> QED BY <1>2, <1>3 DEF TypeOK, NewNode

LEMMA TypesHoldInitially == Init => TypeOK
<1> SUFFICES ASSUME Init PROVE TypeOK
  OBVIOUS
<1>1. RootId \in Id
  BY RootIdIsId
<1>2. TreeType
  <2>1. ent \in [Id -> Entry]
    BY DEF Init, Entry, Blank, Kind
  <2>2. byPath \in [Path -> 0..MaxGen] /\ gens \in [Path -> 0..MaxGen]
    BY BoundAssumption DEF Init
  <2>3. \A p \in Path : byPath[p] <= gens[p]
    <3>1. byPath = gens
      BY DEF Init
    <3> QED BY <2>2, <3>1, BoundAssumption
  <2>4. \A e \in live : e[2] <= gens[e[1]]
    BY PathAssumption DEF Init, RootId
  <2> QED BY <1>1, <2>1, <2>2, <2>3, <2>4 DEF TreeType, Init
<1>3. 0 \in 0..MaxOps
  BY BoundAssumption
<1> QED BY <1>2, <1>3 DEF Init, TypeOK

LEMMA TypesHoldStep ==
    ASSUME TypeOK, [Next]_vars
    PROVE  TypeOK'
<1>1. CASE \E c \in Calls : NewNode(c[1], c[2])
  BY <1>1, NewNodeType
<1>2. CASE \E L \in Layers, merge, fast \in BOOLEAN : CopyFrom(L, merge, fast)
  BY <1>2, CopyFromType
<1>3. CASE \E p \in Path : Visit(p)
  BY <1>3, VisitType
<1>4. CASE CopyReturn
  BY <1>4 DEF CopyReturn, TypeOK, TreeType
<1>5. CASE Close
  BY <1>5 DEF Close, TypeOK, TreeType
<1>6. CASE UNCHANGED vars
  BY <1>6 DEF vars, TypeOK, TreeType
<1> QED BY <1>1, <1>2, <1>3, <1>4, <1>5, <1>6 DEF Next

(* The tree, the map and the running copy have their types in every        *)
(* reachable state, whatever is created, copied or removed.                *)
THEOREM TypesHold == Spec => []TypeOK
<1>1. TypeOK /\ [Next]_vars => TypeOK'
  BY TypesHoldStep
<1> QED BY <1>1, TypesHoldInitially, PTL DEF Spec


-----------------------------------------------------------------------------
(* The map and the removed marks.                                          *)

LEMMA AttachSync ==
    ASSUME TreeType, LiveIffRegistered,
           NEW p \in Path, NEW new \in SUBSET Path, NEW b \in Id,
           NEW k \in Kind, NEW src \in Nat,
           Attach(p, new, b, k, src),
           \A q \in new : ~Registered(q)
    PROVE  LiveIffRegistered'
<1> SUFFICES ASSUME NEW e \in Id
             PROVE  e \in live' <=> byPath'[e[1]] = e[2]
  BY DEF LiveIffRegistered
<1>1. e[1] \in Path /\ e[2] \in 1..MaxGen /\ e = <<e[1], e[2]>>
  BY DEF Id
<1>2. e \in live <=> byPath[e[1]] = e[2]
  BY DEF LiveIffRegistered
<1>3. CASE e[1] \in new
  <2>1. e \notin live
    BY <1>1, <1>2, <1>3, BoundAssumption DEF Registered
  <2>2. e \in live' <=> e[2] = gens[e[1]] + 1
    BY <2>1, <1>1, <1>3 DEF Attach
  <2>3. byPath'[e[1]] = gens[e[1]] + 1
    BY <1>1, <1>3 DEF Attach
  <2> QED BY <2>2, <2>3
<1>4. CASE e[1] \notin new
  <2>1. e \in live' <=> e \in live
    BY <1>4 DEF Attach
  <2>2. byPath'[e[1]] = byPath[e[1]]
    BY <1>1, <1>4 DEF Attach
  <2> QED BY <2>1, <2>2, <1>2
<1> QED BY <1>3, <1>4

LEMMA DiscardSync ==
    ASSUME TreeType, LiveIffRegistered, NEW gone \in SUBSET live, Discard(gone)
    PROVE  LiveIffRegistered'
<1> SUFFICES ASSUME NEW e \in Id
             PROVE  e \in live' <=> byPath'[e[1]] = e[2]
  BY DEF LiveIffRegistered
<1>1. e[1] \in Path /\ e[2] \in 1..MaxGen /\ e = <<e[1], e[2]>>
  BY DEF Id
<1>2. e \in live <=> byPath[e[1]] = e[2]
  BY DEF LiveIffRegistered
<1>3. CASE \E g \in gone : g[1] = e[1]
  <2>1. byPath'[e[1]] = 0
    BY <1>1, <1>3 DEF Discard
  <2>2. PICK g \in gone : g[1] = e[1]
    BY <1>3
  <2>3. g \in Id /\ g = <<g[1], g[2]>> /\ byPath[g[1]] = g[2]
    BY <2>2 DEF TreeType, LiveIffRegistered, Id
  <2>4. e \in live => e = g
    BY <1>1, <1>2, <2>2, <2>3
  <2> QED BY <1>1, <2>1, <2>2, <2>4, BoundAssumption DEF Discard
<1>4. CASE ~\E g \in gone : g[1] = e[1]
  BY <1>1, <1>2, <1>4 DEF Discard
<1> QED BY <1>3, <1>4

LEMMA RegIsLive ==
    ASSUME TreeType, LiveIffRegistered, NEW p \in Path, Registered(p)
    PROVE  Reg(p) \in live
BY RegIsId DEF LiveIffRegistered, Reg

LEMMA OverwriteSync ==
    ASSUME LiveIffRegistered, NEW e, NEW k, NEW src, Overwrite(e, k, src)
    PROVE  LiveIffRegistered'
BY DEF Overwrite, LiveIffRegistered

LEMMA AddWithParentsSync ==
    ASSUME TreeType, LiveIffRegistered,
           NEW p \in Path, NEW k \in Kind, NEW src \in Nat,
           ~Registered(p), AddWithParents(p, k, src)
    PROVE  LiveIffRegistered'
<1>1. PICK a \in Anc[p] :
        /\ Nearest(a, p)
        /\ Attach(p, {p} \cup {d \in Anc[p] : a \in Anc[d]}, Reg(a), k, src)
  BY DEF AddWithParents
<1>2. a \in Path /\ {p} \cup {d \in Anc[p] : a \in Anc[d]} \in SUBSET Path
  BY PathAssumption
<1>3. Reg(a) \in Id
  BY <1>1, <1>2, RegIsId DEF Nearest
<1>4. \A q \in {p} \cup {d \in Anc[p] : a \in Anc[d]} : ~Registered(q)
  BY <1>1 DEF Nearest
<1> QED BY <1>1, <1>2, <1>3, <1>4, AttachSync

LEMMA AddInPlaceSync ==
    ASSUME TreeType, LiveIffRegistered,
           NEW p \in Path, NEW k \in Kind, NEW src \in Nat,
           p # Root, ~Registered(p), AddInPlace(p, k, src)
    PROVE  LiveIffRegistered'
<1>1. Dir[p] \in Path
  BY PathAssumption
<1>2. (IF Registered(Dir[p]) THEN Reg(Dir[p]) ELSE RootId) \in Id
  BY <1>1, RegIsId, RootIdIsId
<1> QED BY <1>2, AttachSync DEF AddInPlace

LEMMA RemoveSync ==
    ASSUME TreeType, LiveIffRegistered, NEW p \in Path, Remove(p) \/ RemoveChildren(p)
    PROVE  LiveIffRegistered'
<1>1. CASE \E gone \in SUBSET live : Discard(gone)
  BY <1>1, DiscardSync
<1>2. CASE UNCHANGED treeVars
  BY <1>2 DEF LiveIffRegistered, treeVars
<1>3. \A e \in Id : Subtree(e) \in SUBSET live
  BY DEF Subtree
<1>4. Remove(p) => (\E gone \in SUBSET live : Discard(gone)) \/ UNCHANGED treeVars
  BY <1>3, RegIsLive, RegIsId DEF Remove, treeVars
<1>5. RemoveChildren(p) => (\E gone \in SUBSET live : Discard(gone)) \/ UNCHANGED treeVars
  BY <1>3, RegIsId DEF RemoveChildren, treeVars
<1> QED BY <1>1, <1>2, <1>4, <1>5

LEMMA MarkerPaths ==
    ASSUME NEW p \in Path, p \in Markers
    PROVE  Dir[p] \in Path /\ (p \notin Opaque => WhiteoutOf[p] \in Path \ {Root})
BY PathAssumption, MarkerAssumption DEF Markers, Whiteouts

LEMMA VisitSync ==
    ASSUME TypeOK, LiveIffRegistered, NEW p \in Path, Visit(p)
    PROVE  LiveIffRegistered'
<1>1. TreeType /\ copy.layer[p] \in Kind /\ copy.n \in Nat
  BY LayerAssumption DEF TypeOK, Visit, NextItem, Copying
<1>2. CASE Marker(p)
  BY <1>1, <1>2, MarkerPaths, RemoveSync DEF Marker
<1>3. CASE Item(p)
  <2>1. CASE p = Root \/ Registered(p)
    BY <1>3, <2>1, OverwriteSync DEF Item
  <2>2. CASE p # Root /\ ~Registered(p) /\ copy.fast
    BY <1>1, <1>3, <2>2, AddInPlaceSync DEF Item
  <2>3. CASE p # Root /\ ~Registered(p) /\ ~copy.fast
    BY <1>1, <1>3, <2>3, AddWithParentsSync DEF Item
  <2> QED BY <2>1, <2>2, <2>3
<1> QED BY <1>2, <1>3 DEF Visit

LEMMA MapAndMarksAgreeInitially == Init => LiveIffRegistered
<1> SUFFICES ASSUME Init, NEW e \in Id
             PROVE  e \in live <=> byPath[e[1]] = e[2]
  BY DEF LiveIffRegistered
<1>1. e[1] \in Path /\ e[2] \in 1..MaxGen /\ e = <<e[1], e[2]>>
  BY DEF Id
<1> QED BY <1>1, BoundAssumption DEF Init, RootId

LEMMA MapAndMarksAgreeStep ==
    ASSUME TypeOK, LiveIffRegistered, [Next]_vars
    PROVE  LiveIffRegistered'
<1>1. CASE \E c \in Calls : NewNode(c[1], c[2])
  <2>1. PICK c \in Calls : NewNode(c[1], c[2])
    BY <1>1
  <2>2. c[1] \in Path /\ c[2] \in Kind /\ ops + 1 \in Nat /\ TreeType
    BY CallAssumption, BoundAssumption DEF TypeOK
  <2> QED BY <2>1, <2>2, AddWithParentsSync DEF NewNode
<1>2. CASE \E p \in Path : Visit(p)
  BY <1>2, VisitSync
<1>3. CASE UNCHANGED treeVars
  BY <1>3 DEF treeVars, LiveIffRegistered
<1> QED BY <1>1, <1>2, <1>3
        DEF Next, CopyFrom, CopyReturn, Close, vars, treeVars

(* The byPath map and the removed marks never disagree: remove,            *)
(* removeSubtree, ensureParent and addChild keep them in step.             *)
THEOREM MapAndMarksAgree == Spec => []LiveIffRegistered
<1>1. TypeOK /\ LiveIffRegistered /\ [Next]_vars => LiveIffRegistered'
  BY MapAndMarksAgreeStep
<1> QED BY <1>1, MapAndMarksAgreeInitially, TypesHold, PTL DEF Spec
-----------------------------------------------------------------------------
(* The tree stays linked by path, for callers that keep inner names        *)
(* directories and whose layers name their markers first.  The invariant:  *)
(* what has something below it is a directory; what the running copy is    *)
(* done with is still there and precedes what it has left to visit; and    *)
(* only that carries the number of the copy.                               *)
RootKept == byPath[Root] = 1

InnerKinds == \A e \in live : e[1] \in Parents => ent[e].kind = "dir"

Copied(p) == /\ p \in DOMAIN copy.layer \ copy.todo
             /\ ~(copy.merge /\ p \in Markers)

DoneKept == copy # NoCopy => \A p \in Path : Copied(p) => Registered(p)

DoneFirst == copy # NoCopy =>
    \A p \in DOMAIN copy.layer \ copy.todo : \A q \in copy.todo : <<p, q>> \in Order

Stamps ==
    /\ \A e \in live : ent[e].from <= ops
    /\ copy # NoCopy => copy.n = ops /\ ops > 0
    /\ copy # NoCopy => \A e \in live : ent[e].from = copy.n => Copied(e[1])

LinkInv == RootKept /\ InnerKinds /\ TreeLinked
CopyInv == DoneKept /\ DoneFirst /\ Stamps
IInv == TypeOK /\ LiveIffRegistered /\ LinkInv /\ CopyInv

LEMMA OrderFacts ==
    ASSUME TypeOK, copy # NoCopy, NEW p \in Path, NextItem(p), DoneFirst
    PROVE  /\ \A q \in Anc[p] : q \notin copy.todo
           /\ \A q \in DOMAIN copy.layer \ copy.todo : q \in Path => <<p, q>> \notin Order
           /\ \A q \in copy.todo \ {p} : <<p, q>> \in Order
<1>1. StrictOrder(Order)
  BY OrderAssumption DEF Order
<1>2. copy.todo \subseteq Path
  BY DEF TypeOK, Copying
<1>3. \A q, r \in Path : <<q, r>> \in Order => <<r, q>> \notin Order
  BY <1>1 DEF StrictOrder
<1>4. \A q \in Anc[p] : q \in Path /\ <<q, p>> \in Order /\ q # p
  BY <1>1, PathAssumption DEF StrictOrder
<1> QED BY <1>2, <1>3, <1>4 DEF NextItem, DoneFirst

(* New objects hung from the registered object of a, each below the new    *)
(* objects of its ancestors under a, keep the tree linked.                 *)
LEMMA AttachLinked ==
    ASSUME TreeType, LiveIffRegistered, LinkInv,
           NEW p \in Path, NEW new \in SUBSET Path, NEW a \in Path,
           NEW k \in Kind, NEW src \in Nat,
           Registered(a), p \in new, p \in Parents => k = "dir",
           \A q \in new : ~Registered(q),
           \A q \in new : Anc[q] = Anc[a] \cup {a} \cup (new \cap Anc[q]),
           Attach(p, new, Reg(a), k, src)
    PROVE  LinkInv'
<1> DEFINE made(q) == <<q, gens[q] + 1>>
           rec(e) == [kind  |-> IF e[1] = p THEN k ELSE "dir",
                      from  |-> IF e[1] = p THEN src ELSE 0,
                      above |-> ent[Reg(a)].above \cup {Reg(a)} \cup {made(b) : b \in new \cap Anc[e[1]]}]
<1>1. ent' = [e \in Id |-> IF e[1] \in new /\ e = made(e[1]) THEN rec(e) ELSE ent[e]]
  BY DEF Attach
<1>2. \A q \in Path \ new : byPath'[q] = byPath[q]
  BY DEF Attach
<1>3. \A q \in new : byPath'[q] = gens[q] + 1 /\ made(q) \in Id
  BY BoundAssumption DEF Attach, TreeType, Id
<1>4. \A q \in Path \ new : Registered(q) => Reg(q) \in Id /\ ent'[Reg(q)] = ent[Reg(q)]
  <2> HIDE DEF rec
  <2> QED BY <1>1, RegIsId DEF Reg
<1>5. \A q \in new : ent'[made(q)] = rec(made(q))
  <2> HIDE DEF rec
  <2>1. \A q \in new : made(q)[1] = q
    OBVIOUS
  <2> HIDE DEF made
  <2> QED BY <1>1, <1>3, <2>1
<1>51. \A q \in new : /\ ent'[made(q)].kind = IF q = p THEN k ELSE "dir"
                      /\ ent'[made(q)].above = ent[Reg(a)].above \cup {Reg(a)}
                                                \cup {made(b) : b \in new \cap Anc[q]}
  <2> SUFFICES ASSUME NEW q \in new
               PROVE  /\ ent'[made(q)].kind = IF q = p THEN k ELSE "dir"
                      /\ ent'[made(q)].above = ent[Reg(a)].above \cup {Reg(a)}
                                                \cup {made(b) : b \in new \cap Anc[q]}
    OBVIOUS
  <2>1. made(q)[1] = q
    OBVIOUS
  <2>2. ent'[made(q)] = rec(made(q))
    BY <1>5
  <2>3. rec(made(q)).kind = IF q = p THEN k ELSE "dir"
    BY <2>1
  <2>4. rec(made(q)).above = ent[Reg(a)].above \cup {Reg(a)} \cup {made(b) : b \in new \cap Anc[made(q)[1]]}
    <3> HIDE DEF made
    <3> QED OBVIOUS
  <2> HIDE DEF made, rec
  <2> QED BY <2>1, <2>2, <2>3, <2>4
<1>6. RootKept'
  BY <1>2, PathAssumption DEF LinkInv, RootKept, Registered
<1>7. InnerKinds'
  <2> SUFFICES ASSUME NEW e \in live', e[1] \in Parents PROVE ent'[e].kind = "dir"
    BY DEF InnerKinds
  <2>1. CASE e \in live
    <3>1. e \in Id /\ e[1] \in Path /\ byPath[e[1]] = e[2] /\ e = <<e[1], e[2]>> /\ e[2] # 0
      BY <2>1, BoundAssumption DEF TreeType, LiveIffRegistered, Id
    <3>2. e[1] \notin new
      BY <3>1 DEF Registered
    <3> HIDE DEF rec
    <3> QED BY <2>1, <3>1, <3>2, <1>1 DEF LinkInv, InnerKinds
  <2>2. CASE \E q \in new : e = made(q)
    <3>1. PICK q \in new : e = made(q)
      BY <2>2
    <3>2. q \in Parents
      BY <3>1
    <3> HIDE DEF made, rec
    <3> QED BY <3>1, <3>2, <1>51
  <2> QED BY <2>1, <2>2 DEF Attach
<1>8. TreeLinked'
  <2> SUFFICES ASSUME NEW q \in Path, Registered(q)'
               PROVE  /\ \A b \in Anc[q] : Registered(b)' /\ ent'[Reg(b)'].kind = "dir"
                      /\ ent'[Reg(q)'].above = {Reg(b)' : b \in Anc[q]}
    BY DEF TreeLinked
  <2>0. Anc[q] \subseteq Path /\ Anc[a] \subseteq Path
    BY PathAssumption
  <2>1. \A b \in new : Registered(b)' /\ Reg(b)' = made(b)
    <3>1. \A b \in new : gens[b] + 1 # 0
      BY BoundAssumption DEF TreeType
    <3> QED BY <1>3, <3>1 DEF Registered, Reg
  <2>2. \A b \in Path \ new : Registered(b) => Registered(b)' /\ Reg(b)' = Reg(b)
    BY <1>2 DEF Registered, Reg
  <2>3. \A b \in Path \ new : Registered(b) => ent'[Reg(b)'] = ent[Reg(b)]
    BY <1>4, <2>2
  <2>4. a \notin new /\ \A b \in Anc[a] : Registered(b) /\ b \notin new
    BY DEF LinkInv, TreeLinked
  <2>5. ent[Reg(a)].above = {Reg(b) : b \in Anc[a]}
    BY DEF LinkInv, TreeLinked
  <2>6. a \in Parents => ent[Reg(a)].kind = "dir"
    BY RegIsLive DEF LinkInv, InnerKinds, Reg
  <2>7. \A b \in Anc[a] : ent[Reg(b)].kind = "dir"
    BY DEF LinkInv, TreeLinked
  <2>8. \A b \in new : b \in Parents => ent'[Reg(b)'].kind = "dir"
    <3> HIDE DEF made, rec
    <3> QED BY <1>51, <2>1
  <2>9. Anc[q] \subseteq Parents
    BY DEF Parents
  <2>10. CASE q \in new
    <3>1. Anc[q] = Anc[a] \cup {a} \cup (new \cap Anc[q])
      BY <2>10
    <3>2. \A b \in Anc[q] : Registered(b)' /\ ent'[Reg(b)'].kind = "dir"
      <4> HIDE DEF made, rec
      <4> QED BY <3>1, <2>0, <2>1, <2>2, <2>3, <2>4, <2>6, <2>7, <2>8, <2>9
    <3>3. ent'[Reg(q)'].above = {Reg(b) : b \in Anc[a]} \cup {Reg(a)} \cup {made(b) : b \in new \cap Anc[q]}
      <4> HIDE DEF made, rec
      <4> QED BY <2>10, <2>1, <2>5, <1>51
    <3>4. {Reg(b)' : b \in Anc[q]} = {Reg(b) : b \in Anc[a]} \cup {Reg(a)} \cup {made(b) : b \in new \cap Anc[q]}
      <4>1. \A b \in Anc[a] \cup {a} : Reg(b)' = Reg(b)
        BY <2>0, <2>2, <2>4
      <4>2. \A b \in new : Reg(b)' = made(b)
        BY <2>1
      <4> HIDE DEF made
      <4> QED BY <3>1, <4>1, <4>2
    <3> QED BY <3>2, <3>3, <3>4
  <2>11. CASE q \notin new
    <3>1. Registered(q)
      BY <1>2, <2>11 DEF Registered
    <3>2. \A b \in Anc[q] : Registered(b) /\ b \notin new /\ ent[Reg(b)].kind = "dir"
      BY <3>1 DEF LinkInv, TreeLinked
    <3>3. \A b \in Anc[q] : Registered(b)' /\ ent'[Reg(b)'].kind = "dir" /\ Reg(b)' = Reg(b)
      BY <3>2, <2>0, <2>2, <2>3
    <3>4. ent'[Reg(q)'].above = {Reg(b) : b \in Anc[q]}
      BY <3>1, <2>3, <2>11 DEF LinkInv, TreeLinked
    <3> QED BY <3>3, <3>4
  <2> QED BY <2>10, <2>11
<1> QED BY <1>6, <1>7, <1>8 DEF LinkInv

(* Removing a set of live objects with everything below them keeps the     *)
(* rest linked.                                                            *)
LEMMA DiscardLinked ==
    ASSUME TreeType, LiveIffRegistered, LinkInv,
           NEW gone \in SUBSET live, Discard(gone), RootId \notin gone,
           \A p, q \in Path : /\ Registered(p) /\ Registered(q) /\ p \in Anc[q]
                             /\ Reg(p) \in gone => Reg(q) \in gone
    PROVE  LinkInv'
<1>1. \A p \in Path : byPath'[p] = IF Registered(p) /\ Reg(p) \in gone THEN 0 ELSE byPath[p]
  <2>1. \A e \in gone : e = Reg(e[1]) /\ e[1] \in Path /\ Registered(e[1])
    BY BoundAssumption DEF TreeType, LiveIffRegistered, Id, Reg, Registered
  <2>2. \A p \in Path : (\E e \in gone : e[1] = p) <=> (Registered(p) /\ Reg(p) \in gone)
    BY <2>1 DEF Reg
  <2> QED BY <2>2 DEF Discard
<1>2. ent' = ent
  BY DEF Discard
<1>3. RootKept'
  BY <1>1, PathAssumption DEF LinkInv, RootKept, Reg, RootId
<1>4. InnerKinds'
  BY <1>2 DEF LinkInv, InnerKinds, Discard
<1>5. TreeLinked'
  <2> SUFFICES ASSUME NEW q \in Path, Registered(q)'
               PROVE  /\ \A b \in Anc[q] : Registered(b)' /\ ent'[Reg(b)'].kind = "dir"
                      /\ ent'[Reg(q)'].above = {Reg(b)' : b \in Anc[q]}
    BY DEF TreeLinked
  <2>1. Registered(q) /\ Reg(q) \notin gone /\ Reg(q)' = Reg(q)
    BY <1>1 DEF Registered, Reg
  <2>2. \A b \in Anc[q] : b \in Path /\ Registered(b) /\ ent[Reg(b)].kind = "dir"
    BY <2>1, PathAssumption DEF LinkInv, TreeLinked
  <2>3. \A b \in Anc[q] : Reg(b) \notin gone
    BY <2>1, <2>2
  <2>4. \A b \in Anc[q] : Registered(b)' /\ Reg(b)' = Reg(b)
    BY <1>1, <2>2, <2>3 DEF Registered, Reg
  <2>5. ent[Reg(q)].above = {Reg(b) : b \in Anc[q]}
    BY <2>1 DEF LinkInv, TreeLinked
  <2> QED BY <1>2, <2>1, <2>2, <2>4, <2>5
<1> QED BY <1>3, <1>4, <1>5 DEF LinkInv

(* What an addition leaves alone: the map of every other path, and the     *)
(* stamp of every other object.                                            *)
Grows(p, src) ==
    /\ \A q \in Path : Registered(q) => byPath'[q] = byPath[q]
    /\ Registered(p)'
    /\ \A e \in live' : \/ e \in live /\ ent'[e].from = ent[e].from
                        \/ ent'[e].from = 0
                        \/ ent'[e].from = src /\ e[1] = p

LEMMA AttachGrows ==
    ASSUME TreeType, NEW p \in Path, NEW new \in SUBSET Path, NEW b, NEW k, NEW src,
           p \in new, \A q \in new : ~Registered(q), Attach(p, new, b, k, src)
    PROVE  Grows(p, src)
<1> DEFINE made(q) == <<q, gens[q] + 1>>
           up(e) == ent[b].above \cup {b} \cup {made(a) : a \in new \cap Anc[e[1]]}
           rec(e) == [kind  |-> IF e[1] = p THEN k ELSE "dir",
                      from  |-> IF e[1] = p THEN src ELSE 0,
                      above |-> up(e)]
<1>1. ent' = [e \in Id |-> IF e[1] \in new /\ e = made(e[1]) THEN rec(e) ELSE ent[e]]
  BY DEF Attach
<1>2. \A e : rec(e).from = IF e[1] = p THEN src ELSE 0
  <2> HIDE DEF up
  <2> QED OBVIOUS
<1>3. live' \subseteq Id
  BY BoundAssumption DEF Attach, TreeType, Id
<1>4. \A q \in Path : Registered(q) => byPath'[q] = byPath[q]
  BY DEF Attach
<1>5. Registered(p)'
  BY BoundAssumption DEF Attach, Registered, TreeType
<1>6. \A e \in live' : \/ e \in live /\ ent'[e].from = ent[e].from
                       \/ ent'[e].from = 0
                       \/ ent'[e].from = src /\ e[1] = p
  <2> TAKE e \in live'
  <2>1. CASE e[1] \in new /\ e = made(e[1])
    <3> HIDE DEF rec, made
    <3> QED BY <2>1, <1>1, <1>2, <1>3
  <2>2. CASE ~(e[1] \in new /\ e = made(e[1]))
    <3>1. e \in live
      BY <2>2 DEF Attach
    <3>2. ent'[e] = ent[e]
      <4> HIDE DEF rec, made
      <4> QED BY <2>2, <1>1, <1>3
    <3> QED BY <3>1, <3>2
  <2> QED BY <2>1, <2>2
<1> QED BY <1>4, <1>5, <1>6 DEF Grows

LEMMA AddWithParentsLinked ==
    ASSUME TreeType, LiveIffRegistered, LinkInv,
           NEW p \in Path, NEW k \in Kind, NEW src \in Nat,
           ~Registered(p), p \in Parents => k = "dir",
           AddWithParents(p, k, src)
    PROVE  LinkInv' /\ Grows(p, src)
<1>1. PICK a \in Anc[p] :
        /\ Nearest(a, p)
        /\ Attach(p, {p} \cup {d \in Anc[p] : a \in Anc[d]}, Reg(a), k, src)
  BY DEF AddWithParents
<1> DEFINE new == {p} \cup {d \in Anc[p] : a \in Anc[d]}
<1>2. a \in Path /\ new \in SUBSET Path /\ p \in new
  BY PathAssumption
<1>3. \A q \in new : ~Registered(q)
  BY <1>1 DEF Nearest
<1>4. \A q \in new : Anc[q] = Anc[a] \cup {a} \cup (new \cap Anc[q])
  <2> SUFFICES ASSUME NEW q \in new
               PROVE  Anc[q] = Anc[a] \cup {a} \cup (new \cap Anc[q])
    OBVIOUS
  <2>1. a \in Anc[q] /\ q \in Path
    BY <1>2
  <2>2. Anc[a] \subseteq Anc[q] /\ Anc[q] \subseteq Anc[p] \cup {p}
    BY <2>1, PathAssumption
  <2>3. \A x \in Anc[q] : x = a \/ x \in Anc[a] \/ a \in Anc[x]
    BY <2>1, PathAssumption
  <2>4. \A x \in Anc[q] : x \in Anc[p]
    BY <1>2, PathAssumption
  <2> QED BY <2>1, <2>2, <2>3, <2>4
<1>5. Reg(a) \in Id /\ Registered(a)
  BY <1>1, <1>2, RegIsId DEF Nearest
<1>6. Attach(p, new, Reg(a), k, src)
  BY <1>1
<1> HIDE DEF new
<1>7. LinkInv'
  BY <1>2, <1>3, <1>4, <1>5, <1>6, AttachLinked
<1>8. Grows(p, src)
  BY <1>2, <1>3, <1>6, AttachGrows
<1> QED BY <1>7, <1>8

LEMMA AddInPlaceLinked ==
    ASSUME TreeType, LiveIffRegistered, LinkInv,
           NEW p \in Path, NEW k \in Kind, NEW src \in Nat,
           p # Root, ~Registered(p), Registered(Dir[p]), p \in Parents => k = "dir",
           AddInPlace(p, k, src)
    PROVE  LinkInv' /\ Grows(p, src)
<1>1. Dir[p] \in Path /\ Anc[p] = Anc[Dir[p]] \cup {Dir[p]} /\ p \notin Anc[p]
  BY PathAssumption
<1>2. Attach(p, {p}, Reg(Dir[p]), k, src)
  BY DEF AddInPlace
<1>3. \A q \in {p} : Anc[q] = Anc[Dir[p]] \cup {Dir[p]} \cup ({p} \cap Anc[q])
  BY <1>1
<1>4. LinkInv'
  BY <1>1, <1>2, <1>3, AttachLinked
<1>5. Grows(p, src)
  BY <1>2, AttachGrows
<1> QED BY <1>4, <1>5

LEMMA OverwriteLinked ==
    ASSUME TreeType, LiveIffRegistered, LinkInv,
           NEW p \in Path, Registered(p), NEW k \in Kind, NEW src \in Nat,
           p \in Parents => k = "dir", Overwrite(Reg(p), k, src)
    PROVE  LinkInv' /\ Grows(p, src)
<1>1. Reg(p) \in Id /\ Reg(p)[1] = p
  BY RegIsId DEF Reg
<1>2. /\ ent'[Reg(p)].kind = k
      /\ ent'[Reg(p)].from = src
      /\ ent'[Reg(p)].above = ent[Reg(p)].above
      /\ \A e \in Id : e # Reg(p) => ent'[e] = ent[e]
  BY <1>1 DEF Overwrite, TreeType, Entry
<1>3. byPath' = byPath /\ live' = live /\ live \subseteq Id
  BY DEF Overwrite, TreeType
<1>4. InnerKinds'
  BY <1>1, <1>2, <1>3 DEF LinkInv, InnerKinds
<1>5. \A q \in Path : Registered(q) => Reg(q) \in Id
  BY RegIsId
<1>6. \A q \in Path : Registered(q)' = Registered(q) /\ Reg(q)' = Reg(q)
  BY <1>3 DEF Registered, Reg
<1>7. TreeLinked'
  <2> SUFFICES ASSUME NEW q \in Path, Registered(q)
               PROVE  /\ \A b \in Anc[q] : Registered(b)' /\ ent'[Reg(b)'].kind = "dir"
                      /\ ent'[Reg(q)'].above = {Reg(b)' : b \in Anc[q]}
    BY <1>6 DEF TreeLinked
  <2>1. \A b \in Anc[q] : b \in Path /\ Registered(b) /\ ent[Reg(b)].kind = "dir" /\ b \in Parents
    BY PathAssumption DEF LinkInv, TreeLinked, Parents
  <2>2. \A b \in Anc[q] : ent'[Reg(b)].kind = "dir"
    BY <1>1, <1>2, <1>5, <2>1 DEF Reg
  <2>3. ent'[Reg(q)].above = ent[Reg(q)].above
    BY <1>1, <1>2, <1>5
  <2> QED BY <1>6, <2>1, <2>2, <2>3 DEF LinkInv, TreeLinked
<1>8. RootKept'
  BY <1>3 DEF LinkInv, RootKept
<1>9. Grows(p, src)
  BY <1>1, <1>2, <1>3, <1>6 DEF Grows
<1> QED BY <1>4, <1>7, <1>8, <1>9 DEF LinkInv

(* The subtree of a registered directory is what is registered below it.   *)
LEMMA SubtreeIs ==
    ASSUME TreeType, LiveIffRegistered, LinkInv, NEW d \in Path, Registered(d),
           NEW q \in Path, Registered(q)
    PROVE  Reg(q) \in Subtree(Reg(d)) <=> d \in Anc[q]
<1>1. ent[Reg(q)].above = {Reg(b) : b \in Anc[q]}
  BY DEF LinkInv, TreeLinked
<1>2. \A b \in Anc[q] : b \in Path /\ Registered(b) /\ ent[Reg(b)].kind = "dir"
  BY PathAssumption DEF LinkInv, TreeLinked
<1>3. \A b \in Anc[q] : Reg(b) \in live
  BY <1>2, RegIsLive
<1>4. Reg(d) \in ent[Reg(q)].above <=> d \in Anc[q]
  BY <1>1 DEF Reg
<1>5. Reg(q) \in live
  BY RegIsLive
<1> QED BY <1>1, <1>2, <1>3, <1>4, <1>5 DEF Subtree

(* What a marker may take away: only paths it hides.                       *)
Shrinks(m) ==
    /\ live' \subseteq live /\ ent' = ent
    /\ \A q \in Path \ HiddenBy(m) : byPath'[q] = byPath[q]

LEMMA DiscardKeeps ==
    ASSUME TreeType, LiveIffRegistered, NEW gone \in SUBSET live, Discard(gone),
           NEW m, \A q \in Path : Registered(q) /\ Reg(q) \in gone => q \in HiddenBy(m)
    PROVE  Shrinks(m)
<1>1. \A e \in gone : e[1] \in Path /\ Registered(e[1]) /\ e = Reg(e[1])
  BY BoundAssumption DEF TreeType, LiveIffRegistered, Id, Reg, Registered
<1>2. \A q \in Path \ HiddenBy(m) : byPath'[q] = byPath[q]
  BY <1>1 DEF Discard
<1> QED BY <1>2 DEF Discard, Shrinks

LEMMA RemoveLinked ==
    ASSUME TreeType, LiveIffRegistered, LinkInv,
           NEW m \in Path, m \in Markers, m \notin Opaque, Remove(WhiteoutOf[m])
    PROVE  LinkInv' /\ Shrinks(m)
<1> DEFINE p == WhiteoutOf[m]
<1>1. p \in Path /\ p # Root
  BY MarkerPaths
<1>2. CASE ~Registered(p)
  <2>1. UNCHANGED treeVars
    BY <1>2 DEF Remove, treeVars
  <2>2. LinkInv'
    BY <2>1 DEF treeVars, LinkInv, RootKept, InnerKinds, TreeLinked, Registered, Reg
  <2> QED BY <2>1, <2>2 DEF Shrinks, treeVars
<1>3. CASE Registered(p)
  <2> DEFINE gone == {Reg(p)} \cup IF ent[Reg(p)].kind = "dir" THEN Subtree(Reg(p)) ELSE {}
  <2>1. Discard(gone)
    BY <1>3 DEF Remove
  <2>2. gone \in SUBSET live
    BY <1>1, <1>3, RegIsLive DEF Subtree
  <2>3. \A q \in Path : Registered(q) => (Reg(q) \in gone <=> q = p \/ p \in Anc[q])
    <3> TAKE q \in Path
    <3> HAVE Registered(q)
    <3>1. p \in Anc[q] => ent[Reg(p)].kind = "dir"
      BY DEF LinkInv, TreeLinked
    <3>2. Reg(q) \in Subtree(Reg(p)) <=> p \in Anc[q]
      BY <1>1, <1>3, SubtreeIs
    <3>3. Reg(q) = Reg(p) <=> q = p
      BY DEF Reg
    <3> HIDE DEF p
    <3> QED BY <3>1, <3>2, <3>3
  <2>4. Registered(Root) /\ Reg(Root) = RootId
    BY DEF LinkInv, RootKept, Registered, Reg, RootId
  <2>5. RootId \notin gone
    BY <1>1, <2>3, <2>4, PathAssumption
  <2>6. \A q, r \in Path : /\ Registered(q) /\ Registered(r) /\ q \in Anc[r]
                          /\ Reg(q) \in gone => Reg(r) \in gone
    <3> HIDE DEF gone, p
    <3> QED BY <1>1, <2>3, PathAssumption
  <2>7. \A q \in Path : Registered(q) /\ Reg(q) \in gone => q \in HiddenBy(m)
    <3> HIDE DEF gone
    <3> QED BY <2>3 DEF HiddenBy, Under
  <2> HIDE DEF gone, p
  <2>8. LinkInv'
    BY <2>1, <2>2, <2>5, <2>6, DiscardLinked
  <2> QED BY <2>1, <2>2, <2>7, <2>8, DiscardKeeps
<1> QED BY <1>2, <1>3

LEMMA RemoveChildrenLinked ==
    ASSUME TreeType, LiveIffRegistered, LinkInv,
           NEW m \in Path, m \in Opaque, RemoveChildren(Dir[m])
    PROVE  LinkInv' /\ Shrinks(m)
<1> DEFINE d == Dir[m]
<1>1. d \in Path
  BY PathAssumption, MarkerAssumption
<1>2. CASE ~Registered(d)
  <2>1. UNCHANGED treeVars
    BY <1>2 DEF RemoveChildren, treeVars
  <2>2. LinkInv'
    BY <2>1 DEF treeVars, LinkInv, RootKept, InnerKinds, TreeLinked, Registered, Reg
  <2> QED BY <2>1, <2>2 DEF Shrinks, treeVars
<1>3. CASE Registered(d)
  <2> DEFINE gone == Subtree(Reg(d))
  <2>1. Discard(gone)
    BY <1>3 DEF RemoveChildren
  <2>2. gone \in SUBSET live
    BY DEF Subtree
  <2>3. \A q \in Path : Registered(q) => (Reg(q) \in gone <=> d \in Anc[q])
    BY <1>1, <1>3, SubtreeIs
  <2>4. Registered(Root) /\ Reg(Root) = RootId
    BY DEF LinkInv, RootKept, Registered, Reg, RootId
  <2>5. RootId \notin gone
    BY <1>1, <2>3, <2>4, PathAssumption
  <2> HIDE DEF gone
  <2>6. \A q, r \in Path : /\ Registered(q) /\ Registered(r) /\ q \in Anc[r]
                          /\ Reg(q) \in gone => Reg(r) \in gone
    <3> HIDE DEF d
    <3> QED BY <1>1, <2>3, PathAssumption
  <2>7. \A q \in Path : Registered(q) /\ Reg(q) \in gone => q \in HiddenBy(m)
    BY <2>3 DEF HiddenBy
  <2>8. LinkInv'
    BY <2>1, <2>2, <2>5, <2>6, DiscardLinked
  <2> QED BY <2>1, <2>2, <2>7, <2>8, DiscardKeeps
<1> QED BY <1>2, <1>3

-----------------------------------------------------------------------------
(* A visit of the running copy.                                            *)

LEMMA VisitFacts ==
    ASSUME TypeOK, NEW p \in Path, Visit(p)
    PROVE  /\ copy \in Copying /\ copy.layer \in Layers
           /\ p \in copy.todo /\ p \in DOMAIN copy.layer
           /\ copy.layer[p] \in Kind /\ copy.n \in Nat
           /\ copy' # NoCopy /\ ops' = ops
           /\ copy'.layer = copy.layer /\ copy'.merge = copy.merge
           /\ copy'.fast = copy.fast /\ copy'.n = copy.n
           /\ copy'.todo = copy.todo \ {p}
<1>1. copy \in Copying /\ p \in copy.todo /\ p \in DOMAIN copy.layer
  BY DEF TypeOK, Visit, NextItem
<1>2. copy.layer \in Layers /\ copy.layer[p] \in Kind /\ copy.n \in Nat
  BY <1>1, LayerAssumption DEF Copying
<1>3. copy' = [copy EXCEPT !.todo = copy.todo \ {p}] /\ ops' = ops
  BY DEF Visit
<1>4. copy' \in Copying
  BY <1>1, <1>3 DEF Copying
<1> QED BY <1>1, <1>2, <1>3, <1>4, NoCopyAssumption DEF Copying

LEMMA ItemLinked ==
    ASSUME InnerAreDirs, IInv, NEW p \in Path, Visit(p), Item(p)
    PROVE  LinkInv' /\ Grows(p, copy.n)
<1>1. /\ TreeType /\ LiveIffRegistered /\ LinkInv /\ copy # NoCopy /\ NextItem(p)
      /\ DoneFirst /\ DoneKept
  BY DEF IInv, TypeOK, CopyInv, Visit
<1>2. /\ copy.layer[p] \in Kind /\ copy.n \in Nat /\ copy.layer \in Layers
      /\ p \in DOMAIN copy.layer
  BY VisitFacts DEF IInv
<1>3. p \in Parents => copy.layer[p] = "dir"
  BY <1>2 DEF InnerAreDirs
<1>4. CASE p = Root
  <2>1. Reg(p) = RootId /\ Registered(p)
    BY <1>1, <1>4 DEF LinkInv, RootKept, Reg, RootId, Registered
  <2> QED BY <1>1, <1>2, <1>3, <1>4, <2>1, OverwriteLinked DEF Item
<1>5. CASE p # Root /\ Registered(p)
  BY <1>1, <1>2, <1>3, <1>5, OverwriteLinked DEF Item
<1>6. CASE p # Root /\ ~Registered(p) /\ ~copy.fast
  BY <1>1, <1>2, <1>3, <1>6, AddWithParentsLinked DEF Item
<1>7. CASE p # Root /\ ~Registered(p) /\ copy.fast
  <2>1. Dir[p] \in Path /\ Dir[p] \in Anc[p]
    BY <1>7, PathAssumption
  <2>2. Dir[p] \in DOMAIN copy.layer /\ copy.layer[Dir[p]] = "dir"
    BY <1>2, <1>7, LayerAssumption
  <2>3. Dir[p] \notin Markers
    BY <1>2, <2>2, LayerAssumption
  <2>4. Dir[p] \notin copy.todo
    BY <1>1, <2>1, OrderFacts DEF IInv
  <2>5. Registered(Dir[p])
    BY <1>1, <2>1, <2>2, <2>3, <2>4 DEF DoneKept, Copied
  <2> QED BY <1>1, <1>2, <1>3, <1>7, <2>5, AddInPlaceLinked DEF Item
<1> QED BY <1>4, <1>5, <1>6, <1>7

LEMMA MarkerLinked ==
    ASSUME IInv, NEW p \in Path, Visit(p), Marker(p)
    PROVE  LinkInv' /\ Shrinks(p)
BY RemoveLinked, RemoveChildrenLinked DEF Marker, IInv, TypeOK

(* What the copy is done with is not hidden by the marker it meets now.    *)
LEMMA DoneNotHidden ==
    ASSUME MarkersLead, IInv, NEW p \in Path, Visit(p), Marker(p),
           NEW q \in Path, Copied(q)
    PROVE  q \notin HiddenBy(p)
<1>1. copy # NoCopy /\ NextItem(p) /\ copy.merge /\ p \in Markers
  BY DEF Visit, Marker
<1>2. copy.layer \in Layers /\ p \in DOMAIN copy.layer
  BY VisitFacts DEF IInv
<1>3. <<p, q>> \notin Order
  BY <1>1, OrderFacts DEF IInv, CopyInv, Copied
<1>4. q \in DOMAIN copy.layer \ Markers
  BY <1>1 DEF Copied
<1> QED BY <1>1, <1>2, <1>3, <1>4 DEF MarkersLead, Order

LEMMA VisitCopyInv ==
    ASSUME InnerAreDirs, MarkersLead, IInv, NEW p \in Path, Visit(p)
    PROVE  CopyInv'
<1>1. /\ copy # NoCopy /\ NextItem(p) /\ p \in copy.todo /\ p \in DOMAIN copy.layer
      /\ copy' # NoCopy /\ ops' = ops /\ copy'.layer = copy.layer
      /\ copy'.merge = copy.merge /\ copy'.fast = copy.fast /\ copy'.n = copy.n
      /\ copy'.todo = copy.todo \ {p}
  BY VisitFacts DEF IInv, Visit
<1>2. TypeOK /\ DoneKept /\ DoneFirst /\ Stamps
  BY DEF IInv, CopyInv
<1>3. \A q : Copied(q)' <=> Copied(q) \/ (q = p /\ ~(copy.merge /\ p \in Markers))
  BY <1>1 DEF Copied
<1>4. DoneFirst'
  <2>1. Order' = Order
    BY <1>1 DEF Order
  <2> QED BY <1>1, <1>2, <2>1, OrderFacts DEF DoneFirst
<1>5. copy.n = ops /\ ops > 0 /\ ops \in Nat
  BY <1>1, <1>2, BoundAssumption DEF Stamps, TypeOK
<1>6. CASE Item(p)
  <2>1. Grows(p, copy.n) /\ ~(copy.merge /\ p \in Markers)
    BY <1>6, ItemLinked DEF Item
  <2>2. DoneKept'
    BY <1>2, <1>1, <1>3, <2>1 DEF DoneKept, Grows, Registered
  <2>3. \A e \in live' : ent'[e].from <= ops
    BY <1>2, <1>5, <2>1 DEF Grows, Stamps
  <2>4. \A e \in live' : ent'[e].from = copy.n => Copied(e[1])'
    BY <1>1, <1>2, <1>3, <1>5, <2>1 DEF Grows, Stamps
  <2>5. Stamps'
    BY <1>1, <1>5, <2>3, <2>4 DEF Stamps
  <2> QED BY <1>4, <2>2, <2>5 DEF CopyInv
<1>7. CASE Marker(p)
  <2>1. Shrinks(p) /\ copy.merge /\ p \in Markers
    BY <1>7, MarkerLinked DEF Marker
  <2>2. \A q \in Path : Copied(q) => q \notin HiddenBy(p)
    BY <1>7, DoneNotHidden
  <2>3. DoneKept'
    BY <1>1, <1>2, <1>3, <2>1, <2>2 DEF DoneKept, Shrinks, Registered
  <2>4. Stamps'
    BY <1>1, <1>2, <1>3, <2>1 DEF Stamps, Shrinks
  <2> QED BY <1>4, <2>3, <2>4 DEF CopyInv
<1> QED BY <1>6, <1>7 DEF Visit

LEMMA NewNodeLinked ==
    ASSUME InnerAreDirs, IInv, NEW c \in Calls, NewNode(c[1], c[2])
    PROVE  LinkInv' /\ CopyInv'
<1>1. c[1] \in Path /\ c[2] \in Kind /\ (c[1] \in Parents => c[2] = "dir")
  BY CallAssumption DEF InnerAreDirs
<1>2. ops \in Nat /\ ops + 1 \in Nat /\ ops' = ops + 1 /\ copy = NoCopy /\ copy' = NoCopy
  BY BoundAssumption DEF IInv, TypeOK, NewNode
<1>3. LinkInv' /\ Grows(c[1], ops + 1)
  BY <1>1, <1>2, AddWithParentsLinked DEF IInv, TypeOK, NewNode
<1>4. \A e \in live' : ent'[e].from <= ops'
  <2>1. \A e \in live : ent[e].from \in Nat /\ ent[e].from <= ops
    BY DEF IInv, TypeOK, TreeType, Entry, CopyInv, Stamps
  <2> QED BY <1>2, <1>3, <2>1 DEF Grows
<1> QED BY <1>2, <1>3, <1>4 DEF CopyInv, DoneKept, DoneFirst, Stamps

LEMMA CopyFromLinked ==
    ASSUME IInv, NEW L \in Layers, NEW merge \in BOOLEAN, NEW fast \in BOOLEAN,
           CopyFrom(L, merge, fast)
    PROVE  LinkInv' /\ CopyInv'
<1>1. LinkInv'
  BY DEF IInv, CopyFrom, LinkInv, RootKept, InnerKinds, TreeLinked, Registered, Reg
<1>2. /\ copy'.layer = L /\ copy'.todo = DOMAIN L /\ copy'.n = ops + 1 /\ ops' = ops + 1
      /\ ops \in Nat
  BY BoundAssumption DEF CopyFrom, IInv, TypeOK
<1>3. \A e \in live : ent[e].from \in Nat /\ ent[e].from <= ops
  BY DEF IInv, TypeOK, TreeType, Entry, CopyInv, Stamps
<1>4. live' = live /\ ent' = ent
  BY DEF CopyFrom
<1>5. DoneKept' /\ DoneFirst'
  BY <1>2 DEF DoneKept, DoneFirst, Copied
<1>6. Stamps'
  BY <1>2, <1>3, <1>4 DEF Stamps
<1> QED BY <1>1, <1>5, <1>6 DEF CopyInv

LEMMA IInvInit == Init => IInv
<1> SUFFICES ASSUME Init PROVE IInv
  OBVIOUS
<1>1. TypeOK /\ LiveIffRegistered
  BY TypesHoldInitially, MapAndMarksAgreeInitially
<1>2. RootKept /\ InnerKinds /\ CopyInv
  BY RootIdIsId, PathAssumption
     DEF Init, RootKept, InnerKinds, CopyInv, DoneKept, DoneFirst, Stamps
<1>3. TreeLinked
  <2>1. \A p \in Path : Registered(p) => p = Root
    BY DEF Init, Registered
  <2>2. ent[Reg(Root)].above = {} /\ Anc[Root] = {}
    BY RootIdIsId, PathAssumption DEF Init, Reg, RootId
  <2> QED BY <2>1, <2>2 DEF TreeLinked
<1> QED BY <1>1, <1>2, <1>3 DEF IInv, LinkInv

LEMMA IInvStep ==
    ASSUME InnerAreDirs, MarkersLead, IInv, [Next]_vars
    PROVE  IInv'
<1>1. TypeOK' /\ LiveIffRegistered'
  BY TypesHoldStep, MapAndMarksAgreeStep DEF IInv
<1>2. CASE \E c \in Calls : NewNode(c[1], c[2])
  BY <1>1, <1>2, NewNodeLinked DEF IInv
<1>3. CASE \E L \in Layers, merge, fast \in BOOLEAN : CopyFrom(L, merge, fast)
  BY <1>1, <1>3, CopyFromLinked DEF IInv
<1>4. CASE \E p \in Path : Visit(p)
  <2>1. PICK p \in Path : Visit(p)
    BY <1>4
  <2>2. LinkInv'
    BY <2>1, ItemLinked, MarkerLinked DEF Visit
  <2>3. CopyInv'
    BY <2>1, VisitCopyInv
  <2> QED BY <1>1, <2>2, <2>3 DEF IInv
<1>5. CASE UNCHANGED <<byPath, gens, ent, live, ops>> /\ (copy' = copy \/ copy' = NoCopy)
  <2>1. LinkInv'
    BY <1>5 DEF IInv, LinkInv, RootKept, InnerKinds, TreeLinked, Registered, Reg
  <2>2. CopyInv'
    BY <1>5 DEF IInv, CopyInv, DoneKept, DoneFirst, Stamps, Copied, Registered, Order
  <2> QED BY <1>1, <2>1, <2>2 DEF IInv
<1> QED BY <1>2, <1>3, <1>4, <1>5 DEF Next, CopyReturn, Close, vars

(* Every registered path hangs from the registered directories of its own  *)
(* path, so Close serialises it in its place: through both kinds of copy,  *)
(* merges that remove and re-create directories, failed copies, and calls  *)
(* between them.                                                           *)
THEOREM RegisteredIsLinked ==
    ASSUME InnerAreDirs, MarkersLead
    PROVE  Spec => []TreeLinked
<1>1. Init => IInv
  BY IInvInit
<1>2. IInv /\ [Next]_vars => IInv'
  BY IInvStep
<1>3. IInv => TreeLinked
  BY DEF IInv, LinkInv
<1> QED BY <1>1, <1>2, <1>3, PTL DEF Spec

(* A merge removes nothing that the same copy has added.                   *)
THEOREM MergeKeepsOwnLayer ==
    ASSUME InnerAreDirs, MarkersLead
    PROVE  Spec => SameLayerKept
<1> DEFINE Kept == copy # NoCopy => \A p \in Path : Wrote(p) => byPath'[p] = byPath[p]
<1>1. Init => IInv
  BY IInvInit
<1>2. IInv /\ [Next]_vars => IInv'
  BY IInvStep
<1>3. IInv /\ [Next]_vars => [Kept]_vars
  <2> SUFFICES ASSUME IInv, Next, copy # NoCopy, NEW p \in Path, Wrote(p)
               PROVE  byPath'[p] = byPath[p]
    OBVIOUS
  <2>1. CASE \E q \in Path : Visit(q)
    <3>1. PICK q \in Path : Visit(q)
      BY <2>1
    <3>2. Registered(p) /\ Copied(p)
      <4>1. Registered(p) /\ Reg(p) \in live /\ ent[Reg(p)].from = copy.n /\ Reg(p)[1] = p
        BY RegIsLive DEF Wrote, IInv, TypeOK, Reg
      <4> QED BY <4>1 DEF IInv, CopyInv, Stamps
    <3>3. CASE Item(q)
      BY <3>1, <3>2, <3>3, ItemLinked DEF Grows
    <3>4. CASE Marker(q)
      BY <3>1, <3>2, <3>4, MarkerLinked, DoneNotHidden DEF Shrinks
    <3> QED BY <3>1, <3>3, <3>4 DEF Visit
  <2>2. CASE UNCHANGED byPath
    BY <2>2
  <2> QED BY <2>1, <2>2 DEF Next, NewNode, CopyFrom, CopyReturn, Close
<1> QED BY <1>1, <1>2, <1>3, PTL DEF Spec, SameLayerKept

-----------------------------------------------------------------------------
(* WriterTree implements Overlay.  What Close would write is what the map  *)
(* answers for (TreeIs); a step changes it in one place, in what a marker  *)
(* hides, or not at all; and while a copy runs, what is there is the tree  *)
(* of before, under what the copy is done with (Shape).                    *)
Held(p) == IF Registered(p) THEN [kind |-> ent[Reg(p)].kind, from |-> ent[Reg(p)].from]
                            ELSE Nothing

Passed == DOMAIN copy.layer \ copy.todo
HiddenSoFar(p) == copy.merge /\ \E m \in Passed \cap Markers : p \in HiddenBy(m)
Shape == copy # NoCopy =>
    \A p \in Path : Held(p) = IF Copied(p) THEN [kind |-> copy.layer[p], from |-> copy.n]
                              ELSE IF HiddenSoFar(p) THEN Nothing ELSE base[p]

LEMMA TreeIs == IInv => TreeOf(Serialised) = [p \in Path |-> Held(p)]
<1> SUFFICES ASSUME IInv
             PROVE  TreeOf(Serialised) = [p \in Path |-> Held(p)]
  OBVIOUS
<1>0. TreeType /\ LiveIffRegistered /\ TreeLinked
  BY DEF IInv, TypeOK, LinkInv
<1> DEFINE rec(e) == [path |-> e[1], under |-> {a[1] : a \in ent[e].above},
                      kind |-> ent[e].kind, from |-> ent[e].from]
           at(p) == [path |-> p, under |-> Anc[p],
                     kind |-> ent[Reg(p)].kind, from |-> ent[Reg(p)].from]
           S == Serialised
<1>1. ASSUME NEW p \in Path, Registered(p)
      PROVE  Reg(p) \in live /\ Reached(Reg(p)) /\ rec(Reg(p)) = at(p)
  <2>1. Reg(p) \in live
    BY <1>0, <1>1, RegIsLive
  <2>2. ent[Reg(p)].above = {Reg(b) : b \in Anc[p]} /\ Anc[p] \subseteq Path
    BY <1>0, <1>1, PathAssumption DEF TreeLinked
  <2>3. \A b \in Anc[p] : Registered(b) /\ Reg(b) \in live /\ ent[Reg(b)].kind = "dir"
    BY <1>0, <1>1, <2>2, RegIsLive DEF TreeLinked
  <2>4. Reached(Reg(p))
    BY <2>1, <2>2, <2>3 DEF Reached
  <2>5. {x[1] : x \in ent[Reg(p)].above} = Anc[p]
    <3> DEFINE X == ent[Reg(p)].above
    <3>1. \A b : Reg(b)[1] = b
      BY DEF Reg
    <3>2. \A x \in X : x[1] \in Anc[p]
      BY <2>2, <3>1
    <3>3. \A b \in Anc[p] : Reg(b) \in X
      BY <2>2
    <3> HIDE DEF X
    <3>4. \A b \in Anc[p] : \E x \in X : b = x[1]
      BY <3>1, <3>3
    <3>5. {x[1] : x \in X} = Anc[p]
      BY <3>2, <3>4
    <3> QED BY <3>5 DEF X
  <2> QED BY <2>1, <2>4, <2>5 DEF Reg
<1>2. ASSUME NEW e \in live
      PROVE  e[1] \in Path /\ Registered(e[1]) /\ e = Reg(e[1])
  BY <1>0, <1>2, BoundAssumption DEF TreeType, LiveIffRegistered, Id, Reg, Registered
<1>3. S = {rec(e) : e \in {l \in live : Reached(l)}}
  BY DEF Serialised
<1>4. \A p \in Path : Registered(p) => at(p) \in S
  <2> TAKE p \in Path
  <2> HAVE Registered(p)
  <2>1. Reg(p) \in {l \in live : Reached(l)} /\ rec(Reg(p)) = at(p)
    BY <1>1
  <2> HIDE DEF rec, at
  <2> QED BY <1>3, <2>1
<1>5. \A r \in S : \E p \in Path : Registered(p) /\ r = at(p)
  <2> TAKE r \in S
  <2>1. PICK e \in live : r = rec(e)
    <3> HIDE DEF rec
    <3> QED BY <1>3
  <2>2. e[1] \in Path /\ Registered(e[1]) /\ e = Reg(e[1])
    BY <1>2
  <2>3. rec(Reg(e[1])) = at(e[1])
    BY <1>1, <2>2
  <2> HIDE DEF rec, at
  <2> QED BY <2>1, <2>2, <2>3
<1>6. \A p : at(p).path = p /\ at(p).under = Anc[p]
  OBVIOUS
<1>7. ASSUME NEW p \in Path
      PROVE  TreeOf(S)[p] = Held(p)
  <2> DEFINE fits(r) == r.path = p /\ r.under = Anc[p]
             c == CHOOSE r \in S : fits(r)
  <2>1. TreeOf(S)[p] = IF \E r \in S : fits(r) THEN [kind |-> c.kind, from |-> c.from] ELSE Nothing
    <3> HIDE DEF S
    <3> QED BY DEF TreeOf
  <2>2. CASE Registered(p)
    <3>1. at(p) \in S /\ fits(at(p))
      BY <1>4, <1>6, <2>2
    <3>2. c \in S /\ fits(c)
      <4> HIDE DEF S, fits, at
      <4> QED BY <3>1
    <3>3. c = at(p)
      <4>1. PICK q \in Path : c = at(q)
        <5> HIDE DEF c, at, S
        <5> QED BY <1>5, <3>2
      <4>2. c.path = p /\ at(q).path = q
        <5> HIDE DEF c, at
        <5> QED BY <1>6, <3>2
      <4> HIDE DEF c, at
      <4> QED BY <4>1, <4>2
    <3>4. at(p).kind = ent[Reg(p)].kind /\ at(p).from = ent[Reg(p)].from
      OBVIOUS
    <3>5. \E r \in S : fits(r)
      <4> HIDE DEF S, fits, at
      <4> QED BY <3>1
    <3> HIDE DEF S, c, fits, at
    <3> QED BY <2>1, <2>2, <3>3, <3>4, <3>5 DEF Held
  <2>3. CASE ~Registered(p)
    <3>1. ~ \E r \in S : fits(r)
      <4> SUFFICES ASSUME NEW r \in S, fits(r)
                   PROVE  FALSE
        OBVIOUS
      <4>1. PICK q \in Path : Registered(q) /\ r = at(q)
        <5> HIDE DEF at, S, fits
        <5> QED BY <1>5
      <4> QED BY <2>3, <4>1
    <3> HIDE DEF S, c, fits
    <3> QED BY <2>1, <2>3, <3>1 DEF Held
  <2> QED BY <2>2, <2>3
<1>8. TreeOf(S) = [p \in Path |-> TreeOf(S)[p]]
  <2> HIDE DEF S
  <2> QED BY DEF TreeOf
<1> HIDE DEF S, rec, at
<1>9. TreeOf(S) = [p \in Path |-> Held(p)]
  BY <1>7, <1>8
<1> QED BY <1>9 DEF S

LEMMA HeldKinds ==
    ASSUME TreeType, NEW p \in Path
    PROVE  Held(p) = Nothing <=> ~Registered(p)
<1>1. Registered(p) => ent[Reg(p)].kind \in Kind
  BY RegIsId DEF TreeType, Entry
<1> QED BY <1>1 DEF Held, Nothing, Kind

LEMMA AttachHeld ==
    ASSUME TreeType, NEW p \in Path, NEW new \in SUBSET Path, NEW b, NEW k, NEW src,
           p \in new, Attach(p, new, b, k, src), NEW q \in Path
    PROVE  Held(q)' = IF q = p THEN [kind |-> k, from |-> src]
                      ELSE IF q \in new THEN [kind |-> "dir", from |-> 0] ELSE Held(q)
<1> DEFINE made(x) == <<x, gens[x] + 1>>
           up(e) == ent[b].above \cup {b} \cup {made(a) : a \in new \cap Anc[e[1]]}
           rec(e) == [kind  |-> IF e[1] = p THEN k ELSE "dir",
                      from  |-> IF e[1] = p THEN src ELSE 0,
                      above |-> up(e)]
<1>1. ent' = [e \in Id |-> IF e[1] \in new /\ e = made(e[1]) THEN rec(e) ELSE ent[e]]
  BY DEF Attach
<1>2. \A e : /\ rec(e).kind = IF e[1] = p THEN k ELSE "dir"
             /\ rec(e).from = IF e[1] = p THEN src ELSE 0
  <2> HIDE DEF up
  <2> QED OBVIOUS
<1>3. CASE q \in new
  <2>1. byPath'[q] = gens[q] + 1 /\ gens[q] \in Nat /\ gens[q] < MaxGen
    BY <1>3 DEF Attach, TreeType
  <2>2. Registered(q)' /\ Reg(q)' = made(q) /\ made(q) \in Id /\ made(q)[1] = q
    BY <2>1, BoundAssumption DEF Registered, Reg, Id
  <2> HIDE DEF rec, made
  <2>3. ent'[Reg(q)'] = rec(made(q))
    BY <1>1, <1>3, <2>2
  <2> QED BY <1>2, <1>3, <2>2, <2>3 DEF Held
<1>4. CASE q \notin new
  <2>1. byPath'[q] = byPath[q] /\ Reg(q)[1] = q
    BY <1>4 DEF Attach, Reg
  <2>2. Registered(q)' = Registered(q) /\ Reg(q)' = Reg(q)
    BY <2>1 DEF Registered, Reg
  <2>3. Registered(q) => Reg(q) \in Id
    BY RegIsId
  <2>4. Registered(q) => ent'[Reg(q)] = ent[Reg(q)]
    <3> HIDE DEF rec, made
    <3> QED BY <1>1, <1>4, <2>1, <2>3
  <2> QED BY <1>4, <2>2, <2>4 DEF Held
<1> QED BY <1>3, <1>4

LEMMA OverwriteHeld ==
    ASSUME TreeType, NEW p \in Path, Registered(p), NEW k, NEW src, Overwrite(Reg(p), k, src),
           NEW q \in Path
    PROVE  Held(q)' = IF q = p THEN [kind |-> k, from |-> src] ELSE Held(q)
<1>1. Reg(p) \in Id /\ Reg(p)[1] = p /\ Reg(q)[1] = q
  BY RegIsId DEF Reg
<1>2. /\ ent'[Reg(p)].kind = k /\ ent'[Reg(p)].from = src
      /\ \A e \in Id : e # Reg(p) => ent'[e] = ent[e]
  BY <1>1 DEF Overwrite, TreeType, Entry
<1>3. Registered(q)' = Registered(q) /\ Reg(q)' = Reg(q)
  BY DEF Overwrite, Registered, Reg
<1>4. Registered(q) => Reg(q) \in Id
  BY RegIsId
<1> QED BY <1>1, <1>2, <1>3, <1>4 DEF Held

LEMMA DiscardHeld ==
    ASSUME TreeType, LiveIffRegistered, NEW gone \in SUBSET live, Discard(gone), NEW q \in Path
    PROVE  Held(q)' = IF Registered(q) /\ Reg(q) \in gone THEN Nothing ELSE Held(q)
<1>1. \A e \in gone : e[1] \in Path /\ Registered(e[1]) /\ e = Reg(e[1])
  BY BoundAssumption DEF TreeType, LiveIffRegistered, Id, Reg, Registered
<1>2. byPath'[q] = IF \E e \in gone : e[1] = q THEN 0 ELSE byPath[q]
  BY DEF Discard
<1>3. (\E e \in gone : e[1] = q) <=> Registered(q) /\ Reg(q) \in gone
  BY <1>1 DEF Reg
<1>4. ent' = ent
  BY DEF Discard
<1>5. CASE \E e \in gone : e[1] = q
  BY <1>2, <1>3, <1>5 DEF Held, Registered
<1>6. CASE ~ \E e \in gone : e[1] = q
  <2>1. byPath'[q] = byPath[q]
    BY <1>2, <1>6
  <2> QED BY <1>3, <1>4, <1>6, <2>1 DEF Held, Registered, Reg
<1> QED BY <1>5, <1>6

(* A marker hides what its layer says, and nothing else.                   *)
LEMMA MarkerHeld ==
    ASSUME IInv, NEW p \in Path, Visit(p), Marker(p), NEW q \in Path
    PROVE  Held(q)' = IF q \in HiddenBy(p) THEN Nothing ELSE Held(q)
<1>0. TreeType /\ LiveIffRegistered /\ LinkInv /\ TreeLinked /\ p \in Markers
  BY DEF IInv, TypeOK, LinkInv, Marker
<1>1. ASSUME UNCHANGED treeVars
      PROVE  Held(q)' = Held(q)
  BY <1>1 DEF treeVars, Held, Registered, Reg
<1>2. CASE p \in Opaque
  <2> DEFINE d == Dir[p]
             gone == Subtree(Reg(d))
  <2>1. d \in Path /\ RemoveChildren(d)
    BY <1>0, <1>2, MarkerPaths DEF Marker
  <2>2. q \in HiddenBy(p) <=> d \in Anc[q]
    BY <1>2 DEF HiddenBy
  <2>3. CASE Registered(d)
    <3>1. Discard(gone)
      BY <2>1, <2>3 DEF RemoveChildren
    <3>2. gone \in SUBSET live
      BY DEF Subtree
    <3>3. Registered(q) => (Reg(q) \in gone <=> d \in Anc[q])
      BY <1>0, <2>1, <2>3, SubtreeIs
    <3> HIDE DEF gone, d
    <3>4. Held(q)' = IF Registered(q) /\ Reg(q) \in gone THEN Nothing ELSE Held(q)
      BY <1>0, <3>1, <3>2, DiscardHeld
    <3> QED BY <2>2, <3>3, <3>4 DEF Held
  <2>4. CASE ~Registered(d)
    <3>1. UNCHANGED treeVars
      BY <2>1, <2>4 DEF RemoveChildren, treeVars
    <3>2. d \in Anc[q] => ~Registered(q)
      BY <1>0, <2>4 DEF TreeLinked
    <3> QED BY <1>1, <2>2, <3>1, <3>2 DEF Held
  <2> QED BY <2>3, <2>4
<1>3. CASE p \notin Opaque
  <2> DEFINE w == WhiteoutOf[p]
             gone == {Reg(w)} \cup IF ent[Reg(w)].kind = "dir" THEN Subtree(Reg(w)) ELSE {}
  <2>1. w \in Path /\ Remove(w)
    BY <1>0, <1>3, MarkerPaths DEF Marker
  <2>2. q \in HiddenBy(p) <=> q = w \/ w \in Anc[q]
    BY <1>3 DEF HiddenBy, Under
  <2>3. CASE Registered(w)
    <3>1. Discard(gone)
      BY <2>1, <2>3 DEF Remove
    <3>2. gone \in SUBSET live
      BY <1>0, <2>1, <2>3, RegIsLive DEF Subtree
    <3>3. Registered(q) => (Reg(q) \in gone <=> q = w \/ w \in Anc[q])
      <4> HAVE Registered(q)
      <4>1. w \in Anc[q] => ent[Reg(w)].kind = "dir"
        BY <1>0 DEF TreeLinked
      <4>2. Reg(q) \in Subtree(Reg(w)) <=> w \in Anc[q]
        BY <1>0, <2>1, <2>3, SubtreeIs
      <4>3. Reg(q) = Reg(w) <=> q = w
        BY DEF Reg
      <4> HIDE DEF w
      <4> QED BY <4>1, <4>2, <4>3
    <3> HIDE DEF gone, w
    <3>4. Held(q)' = IF Registered(q) /\ Reg(q) \in gone THEN Nothing ELSE Held(q)
      BY <1>0, <3>1, <3>2, DiscardHeld
    <3> QED BY <2>2, <3>3, <3>4 DEF Held
  <2>4. CASE ~Registered(w)
    <3>1. UNCHANGED treeVars
      BY <2>1, <2>4 DEF Remove, treeVars
    <3>2. q = w \/ w \in Anc[q] => ~Registered(q)
      BY <1>0, <2>4 DEF TreeLinked
    <3> QED BY <1>1, <2>2, <3>1, <3>2 DEF Held
  <2> QED BY <2>3, <2>4
<1> QED BY <1>2, <1>3

(* An item changes its own path only: its parent has been copied before.   *)
LEMMA ItemHeld ==
    ASSUME IInv, NEW p \in Path, Visit(p), Item(p), NEW q \in Path
    PROVE  Held(q)' = IF q = p THEN [kind |-> copy.layer[p], from |-> copy.n] ELSE Held(q)
<1>1. /\ TreeType /\ LiveIffRegistered /\ LinkInv /\ copy # NoCopy /\ NextItem(p)
      /\ DoneFirst /\ DoneKept
  BY DEF IInv, TypeOK, CopyInv, Visit
<1>2. copy.layer \in Layers /\ p \in DOMAIN copy.layer
  BY VisitFacts DEF IInv
<1>3. CASE p = Root
  <2>1. Reg(p) = RootId /\ Registered(p)
    BY <1>1, <1>3 DEF LinkInv, RootKept, Reg, RootId, Registered
  <2>2. Overwrite(Reg(p), copy.layer[p], copy.n)
    BY <1>3, <2>1 DEF Item
  <2> QED BY <1>1, <2>1, <2>2, OverwriteHeld
<1>4. CASE p # Root /\ Registered(p)
  <2>1. Overwrite(Reg(p), copy.layer[p], copy.n)
    BY <1>4 DEF Item
  <2> QED BY <1>1, <1>4, <2>1, OverwriteHeld
<1>5. CASE p # Root /\ ~Registered(p)
  <2> DEFINE d == Dir[p]
  <2>1. d \in Path /\ d \in Anc[p] /\ Anc[p] = Anc[d] \cup {d} /\ d \notin Anc[d]
    <3>1. d \in Path /\ Anc[p] = Anc[d] \cup {d}
      BY <1>5, PathAssumption
    <3>2. d \notin Anc[d]
      BY <3>1, PathAssumption
    <3> QED BY <3>1, <3>2
  <2>2. d \in DOMAIN copy.layer /\ copy.layer[d] = "dir" /\ d \notin Markers
    BY <1>2, <1>5, LayerAssumption
  <2>3. Registered(d)
    <3>1. d \notin copy.todo
      BY <1>1, <2>1, OrderFacts DEF IInv
    <3> QED BY <1>1, <2>1, <2>2, <3>1 DEF DoneKept, Copied
  <2>4. Attach(p, {p}, Reg(d), copy.layer[p], copy.n)
    <3>1. CASE copy.fast
      BY <1>5, <2>3, <3>1 DEF Item, AddInPlace
    <3>2. CASE ~copy.fast
      <4>1. PICK a \in Anc[p] :
              /\ Nearest(a, p)
              /\ Attach(p, {p} \cup {x \in Anc[p] : a \in Anc[x]}, Reg(a), copy.layer[p], copy.n)
        BY <1>5, <3>2 DEF Item, AddWithParents
      <4> HIDE DEF d
      <4>2. a \notin Anc[d]
        BY <2>1, <2>3, <4>1 DEF Nearest
      <4>3. a = d
        BY <2>1, <4>2
      <4>4. {x \in Anc[p] : d \in Anc[x]} = {}
        <5> SUFFICES ASSUME NEW x \in Anc[p], d \in Anc[x]
                     PROVE  FALSE
          OBVIOUS
        <5>1. x # d
          BY <2>1
        <5>2. x \in Anc[d]
          BY <2>1, <5>1
        <5>3. Anc[x] \subseteq Anc[d]
          BY <2>1, <5>2, PathAssumption
        <5> QED BY <2>1, <5>3
      <4>5. {p} \cup {x \in Anc[p] : a \in Anc[x]} = {p}
        BY <4>3, <4>4
      <4> QED BY <4>1, <4>3, <4>5
    <3> QED BY <3>1, <3>2
  <2>5. Held(q)' = IF q = p THEN [kind |-> copy.layer[p], from |-> copy.n]
                   ELSE IF q \in {p} THEN [kind |-> "dir", from |-> 0] ELSE Held(q)
    BY <1>1, <2>4, AttachHeld
  <2> QED BY <2>5
<1> QED BY <1>3, <1>4, <1>5

LEMMA VisitShape ==
    ASSUME MarkersLead, IInv, Shape, NEW p \in Path, Visit(p)
    PROVE  Shape'
<1>1. /\ copy # NoCopy /\ p \in copy.todo /\ p \in DOMAIN copy.layer
      /\ copy' # NoCopy /\ copy'.layer = copy.layer /\ copy'.merge = copy.merge /\ copy'.n = copy.n
      /\ copy'.todo = copy.todo \ {p} /\ base' = base
  BY VisitFacts DEF IInv, Visit
<1>2. Passed' = Passed \cup {p}
  BY <1>1 DEF Passed
<1>3. \A q : Copied(q)' <=> Copied(q) \/ (q = p /\ ~(copy.merge /\ p \in Markers))
  BY <1>1 DEF Copied
<1>4. \A q : HiddenSoFar(q)' <=> HiddenSoFar(q) \/ (copy.merge /\ p \in Markers /\ q \in HiddenBy(p))
  BY <1>1, <1>2 DEF HiddenSoFar
<1> DEFINE Is(q) == IF Copied(q) THEN [kind |-> copy.layer[q], from |-> copy.n]
                    ELSE IF HiddenSoFar(q) THEN Nothing ELSE base[q]
<1>5. \A q \in Path : Held(q) = Is(q)
  BY <1>1 DEF Shape
<1>6. ASSUME NEW q \in Path
      PROVE  Held(q)' = IF Copied(q)' THEN [kind |-> copy.layer[q], from |-> copy.n]
                        ELSE IF HiddenSoFar(q)' THEN Nothing ELSE base[q]
  <2>1. CASE Item(p)
    <3>1. Held(q)' = IF q = p THEN [kind |-> copy.layer[p], from |-> copy.n] ELSE Held(q)
      BY <2>1, ItemHeld
    <3>2. ~(copy.merge /\ p \in Markers)
      BY <2>1 DEF Item
    <3>3. CASE q = p
      BY <1>3, <3>1, <3>2, <3>3
    <3>4. CASE q # p
      <4>1. (Copied(q)' <=> Copied(q)) /\ (HiddenSoFar(q)' <=> HiddenSoFar(q)) /\ Held(q)' = Held(q)
        BY <1>3, <1>4, <3>1, <3>2, <3>4
      <4> QED BY <1>5, <4>1
    <3> QED BY <3>3, <3>4
  <2>2. CASE Marker(p)
    <3>1. Held(q)' = IF q \in HiddenBy(p) THEN Nothing ELSE Held(q)
      BY <2>2, MarkerHeld
    <3>2. copy.merge /\ p \in Markers
      BY <2>2 DEF Marker
    <3>3. Copied(q)' <=> Copied(q)
      BY <1>3, <3>2
    <3>4. CASE q \in HiddenBy(p)
      <4>1. ~Copied(q)
        BY <2>2, <3>4, DoneNotHidden
      <4>2. HiddenSoFar(q)'
        BY <1>4, <3>2, <3>4
      <4> QED BY <3>1, <3>3, <3>4, <4>1, <4>2
    <3>5. CASE q \notin HiddenBy(p)
      <4>1. HiddenSoFar(q)' <=> HiddenSoFar(q)
        BY <1>4, <3>5
      <4> QED BY <1>5, <3>1, <3>3, <3>5, <4>1
    <3> QED BY <3>4, <3>5
  <2> QED BY <2>1, <2>2 DEF Visit
<1> QED BY <1>1, <1>6 DEF Shape

LEMMA TreeIsNext == IInv' => TreeOf(Serialised)' = [p \in Path |-> Held(p)']
<1> DEFINE Same == TreeOf(Serialised) = [p \in Path |-> Held(p)]
<1>1. IInv => Same
  BY TreeIs
<1>2. IInv' => Same'
  <2> HIDE DEF Same
  <2> QED BY <1>1, PTL
<1> QED BY <1>2

LEMMA ShapeInit == Init => Shape
BY DEF Init, Shape

LEMMA ShapeStep ==
    ASSUME MarkersLead, IInv, Shape, [Next]_vars
    PROVE  Shape'
<1>1. CASE \E p \in Path : Visit(p)
  BY <1>1, VisitShape
<1>2. CASE \E L \in Layers, merge, fast \in BOOLEAN : CopyFrom(L, merge, fast)
  <2>1. PICK L \in Layers, merge \in BOOLEAN, fast \in BOOLEAN : CopyFrom(L, merge, fast)
    BY <1>2
  <2>2. /\ copy'.layer = L /\ copy'.todo = DOMAIN L
        /\ base' = TreeOf(Serialised) /\ UNCHANGED treeVars
    BY <2>1 DEF CopyFrom, treeVars
  <2>3. \A q \in Path : Held(q)' = Held(q) /\ base'[q] = Held(q)
    BY <2>2, TreeIs DEF treeVars, Held, Registered, Reg
  <2>4. \A q : ~Copied(q)' /\ ~HiddenSoFar(q)'
    BY <2>2 DEF Copied, HiddenSoFar, Passed
  <2> QED BY <2>3, <2>4 DEF Shape
<1>3. CASE copy' = NoCopy
  BY <1>3 DEF Shape
<1>4. CASE UNCHANGED <<treeVars, copy, base>>
  <2>1. \A q : /\ Held(q)' = Held(q) /\ Copied(q)' = Copied(q)
               /\ HiddenSoFar(q)' = HiddenSoFar(q)
    BY <1>4 DEF treeVars, Held, Registered, Reg, Copied, HiddenSoFar, Passed
  <2> QED BY <1>4, <2>1 DEF Shape
<1> QED BY <1>1, <1>2, <1>3, <1>4 DEF Next, NewNode, CopyReturn, Close, vars, treeVars

-----------------------------------------------------------------------------
(* The abstract tree of a state, and its number of calls.                  *)
Tree == IF copy = NoCopy THEN TreeOf(Serialised) ELSE base
Calls0 == IF copy = NoCopy THEN ops ELSE ops - 1

LEMMA PromiseInit == Init => Promise!Init
<1> SUFFICES ASSUME Init
             PROVE  Promise!Init
  OBVIOUS
<1>1. TreeOf(Serialised) = [p \in Path |-> Held(p)]
  BY IInvInit, TreeIs
<1>2. ASSUME NEW p \in Path
      PROVE  Held(p) = IF p = Root THEN [kind |-> "dir", from |-> 0] ELSE Nothing
  <2>1. CASE p = Root
    <3>1. byPath[p] = 1 /\ Reg(p) = RootId /\ RootId \in Id
      BY <2>1, RootIdIsId DEF Init, Reg, RootId
    <3>2. ent[RootId] = [kind |-> "dir", from |-> 0, above |-> {}]
      BY <3>1 DEF Init
    <3> QED BY <2>1, <3>1, <3>2 DEF Held, Registered
  <2>2. CASE p # Root
    BY <2>2 DEF Init, Held, Registered
  <2> QED BY <2>1, <2>2
<1>3. TreeOf(Serialised) = Promise!EmptyTree
  BY <1>1, <1>2 DEF Promise!EmptyTree, Promise!Absent, Nothing
<1>4. TreeOf({}) = [p \in Path |-> Nothing]
  BY DEF TreeOf
<1> QED BY <1>3, <1>4 DEF Init, Promise!Init, Promise!Absent, Nothing

(* A call: the missing parents are those the map does not answer for.      *)
LEMMA NewNodeSimulates ==
    ASSUME IInv, IInv', NEW c \in Calls, NewNode(c[1], c[2])
    PROVE  Promise!Node(c[1], c[2])
<1> DEFINE p == c[1]
           k == c[2]
<1>1. p \in Path /\ k \in Kind
  BY CallAssumption
<1>2. /\ TreeType /\ TreeLinked /\ copy = NoCopy /\ copy' = NoCopy /\ ~closed /\ ~Registered(p)
      /\ ops' = ops + 1 /\ ok' = TRUE /\ closed' = closed /\ image' = image
  BY DEF IInv, TypeOK, LinkInv, NewNode
<1>3. PICK a \in Anc[p] :
        /\ Nearest(a, p)
        /\ Attach(p, {p} \cup {d \in Anc[p] : a \in Anc[d]}, Reg(a), k, ops + 1)
  BY DEF NewNode, AddWithParents
<1> DEFINE new == {p} \cup {d \in Anc[p] : a \in Anc[d]}
<1> HIDE DEF p, k
<1>4. new \in SUBSET Path /\ p \in new /\ Anc[p] \subseteq Path /\ a \in Path
  BY <1>1, PathAssumption
<1>5. \A q \in Path : q # p => (q \in new <=> q \in Anc[p] /\ ~Registered(q))
  <2> SUFFICES ASSUME NEW q \in Anc[p], q # p
               PROVE  a \in Anc[q] <=> ~Registered(q)
    BY <1>4
  <2>1. a \in Anc[q] => ~Registered(q)
    BY <1>3 DEF Nearest
  <2>2. q = a \/ q \in Anc[a] \/ a \in Anc[q]
    BY <1>1, PathAssumption
  <2>3. q = a \/ q \in Anc[a] => Registered(q)
    BY <1>2, <1>3, <1>4 DEF Nearest, TreeLinked
  <2> QED BY <2>1, <2>2, <2>3
<1>6. \A q \in Path : Held(q)' = IF q = p THEN [kind |-> k, from |-> ops + 1]
                                 ELSE IF q \in new THEN [kind |-> "dir", from |-> 0] ELSE Held(q)
  <2> HIDE DEF new
  <2> QED BY <1>1, <1>2, <1>3, <1>4, AttachHeld DEF new
<1>7. \A q \in Path : Held(q) = Nothing <=> ~Registered(q)
  BY <1>2, HeldKinds
<1> HIDE DEF new
<1>8. TreeOf(Serialised) = [q \in Path |-> Held(q)] /\ TreeOf(Serialised)' = [q \in Path |-> Held(q)']
  BY TreeIs, TreeIsNext
<1>9. \A q \in Path : Held(q)' = IF q = p THEN [kind |-> k, from |-> ops + 1]
                                 ELSE IF q \in Anc[p] /\ Held(q) = Nothing
                                      THEN [kind |-> "dir", from |-> 0] ELSE Held(q)
  BY <1>5, <1>6, <1>7
<1> DEFINE T == TreeOf(Serialised)
<1>10. T[p] = Nothing
  BY <1>1, <1>2, <1>7, <1>8
<1>11. TreeOf(Serialised)' = [q \in Path |->
            IF q = p THEN [kind |-> k, from |-> ops + 1]
            ELSE IF q \in Anc[p] /\ T[q] = Nothing THEN [kind |-> "dir", from |-> 0] ELSE T[q]]
  BY <1>8, <1>9
<1> HIDE DEF T
<1>12. Tree = T /\ Tree' = TreeOf(Serialised)' /\ Calls0 = ops /\ Calls0' = ops'
  BY <1>2 DEF Tree, Calls0, T
<1>13. /\ ~closed /\ Tree[p] = Nothing /\ Calls0' = Calls0 + 1 /\ ok' = TRUE
       /\ Tree' = [q \in Path |->
                     IF q = p THEN [kind |-> k, from |-> Calls0 + 1]
                     ELSE IF q \in Anc[p] /\ Tree[q] = Nothing
                          THEN [kind |-> "dir", from |-> 0] ELSE Tree[q]]
       /\ closed' = closed /\ TreeOf(image)' = TreeOf(image)
  BY <1>2, <1>10, <1>11, <1>12 DEF TreeOf
<1> QED BY <1>13 DEF Promise!Node, Promise!Absent, Nothing, Tree, Calls0, p, k

(* The instance reads the layers as the module does.                       *)
LEMMA PromiseNames ==
    ASSUME NEW L, NEW merge
    PROVE  /\ Promise!Hidden(L) = Hidden(L)
           /\ Promise!Brings(L, merge) = IF merge THEN DOMAIN L \ Markers ELSE DOMAIN L
           /\ Promise!Absent = Nothing
<1>1. Promise!Markers = Markers
  BY DEF Promise!Markers, Promise!Whiteouts, Markers, Whiteouts
<1>2. \A m : Promise!HiddenBy(m) = HiddenBy(m)
  BY DEF Promise!HiddenBy, Promise!Under, HiddenBy, Under
<1>3. Promise!Hidden(L) = Hidden(L)
  BY <1>1, <1>2 DEF Promise!Hidden, Hidden
<1> QED BY <1>1, <1>3 DEF Promise!Brings, Promise!Absent, Nothing

(* The copy returns: all of the layer has been laid over, or a part.       *)
LEMMA CopyReturnSimulates ==
    ASSUME IInv, IInv', Shape, CopyReturn
    PROVE  \E L \in Layers, merge \in BOOLEAN : Promise!Apply(L, merge) \/ Promise!Fail(L, merge)
<1> DEFINE L == copy.layer
           merge == copy.merge
           n == ops
<1>1. /\ copy # NoCopy /\ copy' = NoCopy /\ ok' = (copy.todo = {}) /\ UNCHANGED <<treeVars, closed, image, ops>>
  BY DEF CopyReturn, treeVars
<1>2. /\ copy \in Copying /\ L \in Layers /\ merge \in BOOLEAN /\ copy.n = n /\ ops \in Nat
  <2>1. copy \in Copying /\ copy.n = n /\ ops \in Nat
    BY <1>1, BoundAssumption DEF IInv, TypeOK, CopyInv, Stamps
  <2> QED BY <2>1 DEF Copying
<1>3. Tree = base /\ Calls0 = ops - 1 /\ Calls0' = ops /\ ok' \in BOOLEAN
  BY <1>1 DEF Tree, Calls0
<1>4. Tree' = [p \in Path |-> Held(p)]
  <2>1. Tree' = TreeOf(Serialised)'
    BY <1>1 DEF Tree
  <2>2. \A p \in Path : Held(p)' = Held(p)
    BY <1>1 DEF treeVars, Held, Registered, Reg
  <2> QED BY <2>1, <2>2, TreeIsNext
<1>5. \A p \in Path : Held(p) = IF Copied(p) THEN [kind |-> L[p], from |-> n]
                                ELSE IF HiddenSoFar(p) THEN Nothing ELSE base[p]
  BY <1>1, <1>2 DEF Shape
<1> DEFINE Brings == IF merge THEN DOMAIN L \ Markers ELSE DOMAIN L
           Over(p) == IF p \in Brings THEN [kind |-> L[p], from |-> n]
                      ELSE IF merge /\ p \in Hidden(L) THEN Nothing ELSE base[p]
<1>6. \A p : Copied(p) <=> p \in Brings /\ p \notin copy.todo
  BY <1>2 DEF Copied
<1>7. \A p : HiddenSoFar(p) => merge /\ p \in Hidden(L)
  BY DEF HiddenSoFar, Passed, Hidden
<1>8. ops = Calls0 + 1 /\ Calls0' = Calls0 + 1 /\ UNCHANGED closed /\ TreeOf(image)' = TreeOf(image)
  BY <1>1, <1>2, <1>3 DEF TreeOf
<1>9. Promise!Over(L, merge, ops) = [p \in Path |-> Over(p)]
  <2> HIDE DEF L, merge
  <2> QED BY <1>3, PromiseNames DEF Promise!Over, Brings, n, Tree
<1>10. CASE copy.todo = {}
  <2>1. \A p : HiddenSoFar(p) <=> merge /\ p \in Hidden(L)
    BY <1>10 DEF HiddenSoFar, Passed, Hidden
  <2>2. \A p : Copied(p) <=> p \in Brings
    BY <1>6, <1>10
  <2> HIDE DEF L, merge, n, Brings
  <2>3. \A p \in Path : Held(p) = Over(p)
    BY <1>5, <2>1, <2>2
  <2>4. Tree' = [p \in Path |-> Over(p)] /\ ok' = TRUE
    BY <1>1, <1>4, <1>10, <2>3
  <2>5. Promise!Apply(L, merge)
    BY <1>3, <1>8, <1>9, <2>4 DEF Promise!Apply, Tree, Calls0
  <2> QED BY <1>2, <2>5
<1>11. CASE copy.todo # {}
  <2> HIDE DEF L, merge, n, Brings
  <2>1. \A p \in Path : \/ Held(p) \in {base[p], Over(p)}
                        \/ Held(p) = Nothing /\ merge /\ p \in Hidden(L)
    BY <1>5, <1>6, <1>7
  <2>2. ok' = FALSE /\ Tree' = [p \in Path |-> Tree'[p]]
    BY <1>1, <1>4, <1>11
  <2>3. \A p \in Path : \/ Tree'[p] \in {Tree[p], Over(p)}
                        \/ Tree'[p] = Nothing /\ merge /\ p \in Hidden(L)
    BY <1>3, <1>4, <2>1
  <2>5. \A p \in Path : Promise!Over(L, merge, ops)[p] = Over(p)
    BY <1>9
  <2> HIDE DEF Over
  <2>6. Promise!Fail(L, merge)
    BY <1>8, <2>2, <2>3, <2>5, PromiseNames DEF Promise!Fail, Tree, Calls0
  <2> QED BY <1>2, <2>6
<1> QED BY <1>10, <1>11

(* Every step is a step of the promise, or leaves what it speaks of alone. *)
LEMMA PromiseStep ==
    ASSUME IInv, IInv', Shape, [Next]_vars
    PROVE  [Promise!Next]_(Promise!vars)
<1>1. ASSUME Tree' = Tree, Calls0' = Calls0, UNCHANGED <<closed, image, ok>>
      PROVE  UNCHANGED Promise!vars
  BY <1>1 DEF Promise!vars, Tree, Calls0, TreeOf
<1>2. CASE \E c \in Calls : NewNode(c[1], c[2])
  BY <1>2, NewNodeSimulates DEF Promise!Next
<1>3. CASE \E L \in Layers, merge, fast \in BOOLEAN : CopyFrom(L, merge, fast)
  <2>1. PICK L \in Layers, merge \in BOOLEAN, fast \in BOOLEAN : CopyFrom(L, merge, fast)
    BY <1>3
  <2>2. /\ copy = NoCopy /\ base' = TreeOf(Serialised) /\ ops' = ops + 1
        /\ UNCHANGED <<closed, image, ok>>
        /\ copy' = [layer |-> L, merge |-> merge, fast |-> fast,
                    todo |-> DOMAIN L, n |-> ops + 1]
    BY <2>1 DEF CopyFrom
  <2>3. ops \in Nat
    BY BoundAssumption DEF IInv, TypeOK
  <2>4. copy' # NoCopy
    <3>1. DOMAIN L \subseteq Path
      BY LayerAssumption
    <3>2. copy' \in Copying
      BY <2>2, <2>3, <3>1 DEF Copying
    <3> QED BY <3>2, NoCopyAssumption
  <2>5. Tree' = Tree /\ Calls0' = Calls0
    BY <2>2, <2>3, <2>4 DEF Tree, Calls0
  <2> QED BY <1>1, <2>2, <2>5
<1>4. CASE \E p \in Path : Visit(p)
  <2>1. PICK p \in Path : Visit(p)
    BY <1>4
  <2>2. copy # NoCopy /\ copy' # NoCopy /\ UNCHANGED <<closed, image, ops, ok, base>>
    BY <2>1, VisitFacts DEF IInv, Visit
  <2>3. Tree' = Tree /\ Calls0' = Calls0
    BY <2>2 DEF Tree, Calls0
  <2> QED BY <1>1, <2>2, <2>3
<1>5. CASE CopyReturn
  BY <1>5, CopyReturnSimulates DEF Promise!Next
<1>6. CASE Close
  <2>1. /\ copy = NoCopy /\ copy' = NoCopy /\ ~closed /\ closed' = TRUE /\ image' = Serialised
        /\ UNCHANGED <<treeVars, ops, ok>>
    BY <1>6 DEF Close, treeVars
  <2>2. TreeOf(Serialised)' = TreeOf(Serialised)
    BY <2>1 DEF treeVars, TreeOf, Serialised, Reached
  <2>3. Tree' = Tree /\ Calls0' = Calls0 /\ TreeOf(image)' = Tree
    BY <2>1, <2>2 DEF Tree, Calls0, TreeOf
  <2>4. Promise!Close
    BY <2>1, <2>3 DEF Promise!Close, Tree, Calls0
  <2> QED BY <2>4 DEF Promise!Next
<1>7. CASE UNCHANGED vars
  <2>1. UNCHANGED <<treeVars, copy, closed, image, ops, ok, base>>
    BY <1>7 DEF vars, treeVars
  <2>2. TreeOf(Serialised)' = TreeOf(Serialised)
    BY <2>1 DEF treeVars, TreeOf, Serialised, Reached
  <2> QED BY <1>1, <2>1, <2>2 DEF Tree, Calls0
<1> QED BY <1>2, <1>3, <1>4, <1>5, <1>6, <1>7 DEF Next

(* mkfs.go:122-124 and :374: the caller sees one step per call.  Create    *)
(* and its like add the name with its missing parents; CopyFrom lays the   *)
(* whole layer over the tree, markers hiding what was there before, or     *)
(* fails part way with every name old, new or hidden; Close writes exactly *)
(* that tree.  Walk, fast path, objects and child lists are invisible, for *)
(* callers that keep inner names directories and layers that name their    *)
(* markers first.                                                          *)
THEOREM ImplementsOverlay ==
    ASSUME InnerAreDirs, MarkersLead
    PROVE  Spec => OverlayPromise
<1>1. Init => IInv /\ Shape /\ Promise!Init
  BY IInvInit, ShapeInit, PromiseInit
<1>2. IInv /\ [Next]_vars => IInv'
  BY IInvStep
<1>3. IInv /\ Shape /\ [Next]_vars => Shape'
  BY ShapeStep
<1>4. IInv /\ IInv' /\ Shape /\ [Next]_vars => [Promise!Next]_(Promise!vars)
  BY PromiseStep
<1> QED BY <1>1, <1>2, <1>3, <1>4, PTL DEF Spec, OverlayPromise, Promise!Spec
=============================================================================
