----------------------------- MODULE PanesProofs -----------------------------
(***************************************************************************)
(* Proofs about Panes, for every bound: whatever is split, swapped, moved, *)
(* closed and restored, a pane tree stays a tree, the focus stays in its   *)
(* tab, no session outlives its panes, and the panes of a tab tile the     *)
(* window.                                                                 *)
(***************************************************************************)
EXTENDS Panes, FiniteSetTheorems, SequenceTheorems, WellFoundedInduction, TLAPS

(* There is room for a workspace with a pane.                              *)
Bounds ==
    /\ MaxWorkspaces \in Nat \ {0} /\ MaxIds \in Nat \ {0} /\ MaxSplits \in Nat

-----------------------------------------------------------------------------
(* The inductive invariant.                                                *)

Paths == Seq({0, 1})

(* The leaves and the splits of a tree: every split has its two sides,     *)
(* whatever is above a node is a split, and there is one leaf more than    *)
(* there are splits.                                                       *)
Shape(leaves, splits) ==
    /\ leaves \subseteq Paths /\ splits \subseteq Paths
    /\ IsFiniteSet(leaves) /\ IsFiniteSet(splits)
    /\ leaves \cap splits = {} /\ <<>> \in leaves \cup splits
    /\ \A p \in splits : \A side \in {0, 1} : Append(p, side) \in leaves \cup splits
    /\ \A x \in leaves \cup splits : \A k \in 0..(Len(x) - 1) : SubSeq(x, 1, k) \in splits
    /\ Cardinality(leaves) = Cardinality(splits) + 1

(* What a split says: how it divides its part of the window.               *)
Divisions == [direction : Directions, ratio : Int]

(* The panes of a tree were made before, and no two of them have an id.    *)
PaneTree(root, n) ==
    /\ root = [leaves |-> root.leaves, splits |-> root.splits]
    /\ Shape(DOMAIN root.leaves, DOMAIN root.splits)
    /\ \A p \in DOMAIN root.splits : root.splits[p] \in Divisions
    /\ Cardinality(DOMAIN root.splits) <= MaxSplits
    /\ \A q \in DOMAIN root.leaves : root.leaves[q].id \in 1..n
    /\ \A q, r \in DOMAIN root.leaves : root.leaves[q].id = root.leaves[r].id => q = r

TabOK(tab, n) ==
    /\ tab = [id |-> tab.id, root |-> tab.root, active_pane |-> tab.active_pane,
              zoom |-> tab.zoom]
    /\ PaneTree(tab.root, n)
    /\ tab.active_pane \in pane_ids(tab.root) \cup {None}

IsSeq(s) == s \in Seq({s[i] : i \in DOMAIN s})

WorkspaceOK(ws, n) ==
    /\ ws = [id |-> ws.id, tabs |-> ws.tabs, active_tab |-> ws.active_tab]
    /\ IsSeq(ws.tabs)
    /\ \A j \in DOMAIN ws.tabs : TabOK(ws.tabs[j], n)
    /\ ws.active_tab \in TabIds(ws) \/ (ws.active_tab = None /\ ws.tabs = <<>>)

PanesInv ==
    /\ made \in Nat /\ made <= MaxIds /\ IsSeq(workspaces) /\ Len(workspaces) <= MaxWorkspaces
    /\ active \in DOMAIN workspaces
    /\ \A i \in DOMAIN workspaces : WorkspaceOK(workspaces[i], made)
    /\ headless \subseteq sessions /\ NoSessionLeaks

-----------------------------------------------------------------------------
(* Paths: what is above a node has its length below the node's, and is     *)
(* where the node's path leads through.                                    *)

Above(p, x) == Len(p) < Len(x) /\ \A i \in 1..Len(p) : p[i] = x[i]

LEMMA PathFacts ==
    ASSUME NEW x \in Paths
    PROVE  /\ Len(x) \in Nat /\ DOMAIN x = 1..Len(x)
           /\ \A i \in 1..Len(x) : x[i] \in {0, 1}
           /\ Len(x) = 0 <=> x = <<>>
  BY DEF Paths

LEMMA EmptyPath == <<>> \in Paths /\ Len(<<>>) = 0
  BY DEF Paths

LEMMA SamePath ==
    ASSUME NEW x \in Paths, NEW y \in Paths, Len(x) = Len(y),
           \A i \in 1..Len(x) : x[i] = y[i]
    PROVE  x = y
  BY SeqEqual DEF Paths

LEMMA SidePath ==
    ASSUME NEW x \in Paths, NEW side \in {0, 1}
    PROVE  /\ Append(x, side) \in Paths /\ Len(Append(x, side)) = Len(x) + 1
           /\ \A i \in 1..Len(x) : Append(x, side)[i] = x[i]
           /\ Append(x, side)[Len(x) + 1] = side
           /\ Above(x, Append(x, side))
  BY DEF Paths, Above

LEMMA PrefixPath ==
    ASSUME NEW x \in Paths, NEW k \in 0..(Len(x) - 1)
    PROVE  /\ SubSeq(x, 1, k) \in Paths /\ Len(SubSeq(x, 1, k)) = k
           /\ \A i \in 1..k : SubSeq(x, 1, k)[i] = x[i]
           /\ Above(SubSeq(x, 1, k), x)
<1>1. /\ SubSeq(x, 1, k) \in Seq({0, 1}) /\ Len(SubSeq(x, 1, k)) = k
      /\ \A i \in 1..k : SubSeq(x, 1, k)[i] = x[i]
  BY PathFacts, SubSeqProperties DEF Paths
<1> QED BY <1>1, PathFacts DEF Paths, Above

LEMMA AbovePrefix ==
    ASSUME NEW x \in Paths, NEW p \in Paths, Above(p, x)
    PROVE  Len(p) \in 0..(Len(x) - 1) /\ p = SubSeq(x, 1, Len(p))
<1>1. Len(p) \in 0..(Len(x) - 1)
  BY PathFacts DEF Above
<1>2. /\ SubSeq(x, 1, Len(p)) \in Paths /\ Len(SubSeq(x, 1, Len(p))) = Len(p)
      /\ \A i \in 1..Len(p) : SubSeq(x, 1, Len(p))[i] = x[i]
  BY <1>1, PrefixPath
<1>3. p = SubSeq(x, 1, Len(p))
  BY <1>2, SamePath DEF Above
<1> QED BY <1>1, <1>3

(* A path that is not empty is one of the two sides of its front.          *)
LEMMA FrontPath ==
    ASSUME NEW x \in Paths, x # <<>>
    PROVE  /\ Front(x) \in Paths /\ Len(Front(x)) = Len(x) - 1 /\ Len(x) \in Nat \ {0}
           /\ Last(x) \in {0, 1} /\ Last(x) = x[Len(x)] /\ Above(Front(x), x)
           /\ x = Append(Front(x), Last(x))
           /\ \A i \in 1..(Len(x) - 1) : Front(x)[i] = x[i]
<1>1. Len(x) \in Nat \ {0} /\ Last(x) \in {0, 1} /\ Last(x) = x[Len(x)]
  BY PathFacts DEF Last
<1>2. /\ Front(x) \in Paths /\ Len(Front(x)) = Len(x) - 1
      /\ \A i \in 1..(Len(x) - 1) : Front(x)[i] = x[i]
      /\ Above(Front(x), x)
  <2>1. Len(x) - 1 \in 0..(Len(x) - 1)
    BY <1>1
  <2>2. /\ SubSeq(x, 1, Len(x) - 1) \in Paths /\ Len(SubSeq(x, 1, Len(x) - 1)) = Len(x) - 1
        /\ \A i \in 1..(Len(x) - 1) : SubSeq(x, 1, Len(x) - 1)[i] = x[i]
        /\ Above(SubSeq(x, 1, Len(x) - 1), x)
    BY <2>1, PrefixPath
  <2> QED BY <2>2 DEF Front
<1>3. /\ Append(Front(x), Last(x)) \in Paths
      /\ Len(Append(Front(x), Last(x))) = Len(x)
      /\ \A i \in 1..(Len(x) - 1) : Append(Front(x), Last(x))[i] = x[i]
      /\ Append(Front(x), Last(x))[Len(x)] = x[Len(x)]
  BY <1>1, <1>2, SidePath
<1>4. \A i \in 1..Len(x) : x[i] = Append(Front(x), Last(x))[i]
  BY <1>1, <1>3
<1>5. x = Append(Front(x), Last(x))
  BY <1>3, <1>4, SamePath
<1> QED BY <1>1, <1>2, <1>5

(* What is above what is above is above.                                   *)
LEMMA AboveAbove ==
    ASSUME NEW x \in Paths, NEW y \in Paths, NEW z \in Paths, Above(x, y), Above(y, z)
    PROVE  Above(x, z)
  BY PathFacts DEF Above

-----------------------------------------------------------------------------
(* The shape of a tree.                                                    *)

LEMMA AboveIsASplit ==
    ASSUME NEW leaves, NEW splits, Shape(leaves, splits),
           NEW x \in leaves \cup splits, NEW p \in Paths, Above(p, x)
    PROVE  p \in splits
<1>1. x \in Paths
  BY DEF Shape
<1>2. Len(p) \in 0..(Len(x) - 1) /\ p = SubSeq(x, 1, Len(p))
  BY <1>1, AbovePrefix
<1> QED BY <1>2 DEF Shape

LEMMA ShapeFrom ==
    ASSUME NEW leaves, NEW splits, leaves \subseteq Paths, splits \subseteq Paths,
           IsFiniteSet(leaves), IsFiniteSet(splits), leaves \cap splits = {},
           <<>> \in leaves \cup splits,
           \A p \in splits : \A side \in {0, 1} : Append(p, side) \in leaves \cup splits,
           \A x \in leaves \cup splits : \A p \in Paths : Above(p, x) => p \in splits,
           Cardinality(leaves) = Cardinality(splits) + 1
    PROVE  Shape(leaves, splits)
<1>1. \A x \in leaves \cup splits : \A k \in 0..(Len(x) - 1) : SubSeq(x, 1, k) \in splits
  BY PrefixPath
<1> QED BY <1>1 DEF Shape

(* A tree with one leaf is that leaf, and another is split at its root.    *)
LEMMA RootOfATree ==
    ASSUME NEW leaves, NEW splits, Shape(leaves, splits)
    PROVE  /\ Cardinality(leaves) \in Nat \ {0}
           /\ Cardinality(leaves) = 1 => <<>> \in leaves
           /\ Cardinality(leaves) > 1 => <<>> \notin leaves
<1>1. /\ Cardinality(splits) \in Nat /\ Cardinality(leaves) = Cardinality(splits) + 1
      /\ (Cardinality(splits) = 0 <=> splits = {})
  BY FS_CardinalityType, FS_EmptySet DEF Shape
<1>2. ASSUME Cardinality(leaves) = 1 PROVE <<>> \in leaves
  <2>1. splits = {}
    BY <1>1, <1>2
  <2> QED BY <2>1 DEF Shape
<1>3. ASSUME Cardinality(leaves) > 1 PROVE <<>> \notin leaves
  <2> SUFFICES ASSUME <<>> \in leaves PROVE FALSE
    OBVIOUS
  <2>1. splits # {}
    BY <1>1, <1>3
  <2>2. PICK p \in splits : TRUE
    BY <2>1
  <2>3. p # <<>> /\ p \in Paths
    BY DEF Shape
  <2>4. Above(<<>>, p)
    BY <2>3, PathFacts, EmptyPath DEF Above
  <2>5. <<>> \in splits
    BY <2>2, <2>4, EmptyPath, AboveIsASplit
  <2> QED BY <2>5 DEF Shape
<1> QED BY <1>1, <1>2, <1>3

(* Every node is the root or a side of a split, and nothing else is one.   *)
LEMMA NodesAreSides ==
    ASSUME NEW leaves, NEW splits, Shape(leaves, splits)
    PROVE  leaves \cup splits
             = {<<>>} \cup {Append(q, side) : q \in splits, side \in {0, 1}}
<1>1. {<<>>} \cup {Append(q, side) : q \in splits, side \in {0, 1}} \subseteq leaves \cup splits
  <2>1. \A p \in splits : \A side \in {0, 1} : Append(p, side) \in leaves \cup splits
    BY DEF Shape
  <2>2. <<>> \in leaves \cup splits
    BY DEF Shape
  <2>3. ASSUME NEW x \in {Append(q, side) : q \in splits, side \in {0, 1}}
        PROVE  x \in leaves \cup splits
    <3>1. \E q \in splits : \E side \in {0, 1} : x = Append(q, side)
      BY <2>3
    <3> QED BY <2>1, <3>1
  <2> QED BY <2>2, <2>3
<1>2. ASSUME NEW x \in leaves \cup splits, x # <<>>
      PROVE  \E q \in splits : \E side \in {0, 1} : x = Append(q, side)
  <2>1. x \in Paths
    BY DEF Shape
  <2>2. Front(x) \in Paths /\ Above(Front(x), x) /\ Last(x) \in {0, 1}
        /\ x = Append(Front(x), Last(x))
    BY <1>2, <2>1, FrontPath
  <2>3. Front(x) \in splits
    BY <2>2, AboveIsASplit
  <2> QED BY <2>2, <2>3
<1> QED BY <1>1, <1>2

-----------------------------------------------------------------------------
(* The operations on trees.                                                *)

LEMMA PathOfIs ==
    ASSUME NEW root, NEW id \in pane_ids(root)
    PROVE  PathOf(root, id) \in DOMAIN root.leaves /\ root.leaves[PathOf(root, id)].id = id
<1>1. \E q \in DOMAIN root.leaves : root.leaves[q].id = id
  BY DEF pane_ids, panes
<1> QED BY <1>1 DEF PathOf

LEMMA LeafTree ==
    ASSUME Bounds, NEW n \in Nat, NEW id \in 1..n, NEW eid
    PROVE  /\ PaneTree(leaf(PaneOf(id, eid)), n)
           /\ panes(leaf(PaneOf(id, eid))) = {PaneOf(id, eid)}
<1> DEFINE root == leaf(PaneOf(id, eid))
           l == DOMAIN root.leaves
           s == DOMAIN root.splits
<1>1. l = {<<>>} /\ s = {} /\ root.leaves[<<>>] = PaneOf(id, eid) /\ PaneOf(id, eid).id = id
  BY DEF leaf, PaneOf
<1>2. root = [leaves |-> root.leaves, splits |-> root.splits]
  BY DEF leaf
<1>3. IsFiniteSet(l) /\ IsFiniteSet(s) /\ Cardinality(l) = 1 /\ Cardinality(s) = 0
  <2> HIDE DEF l, s
  <2>1. IsFiniteSet(l) /\ Cardinality(l) = 1
    BY <1>1, FS_Singleton
  <2>2. IsFiniteSet(s) /\ Cardinality(s) = 0
    BY <1>1, FS_EmptySet
  <2> QED BY <2>1, <2>2
<1> HIDE DEF root
<1>4. \A x \in l \cup s : \A p \in Paths : Above(p, x) => p \in s
  <2> SUFFICES ASSUME NEW p \in Paths, Above(p, <<>>) PROVE FALSE
    BY <1>1
  <2> QED BY EmptyPath, PathFacts DEF Above
<1>5. Shape(l, s)
  <2> HIDE DEF l, s
  <2> QED BY <1>1, <1>3, <1>4, EmptyPath, ShapeFrom
<1>6. panes(root) = {PaneOf(id, eid)}
  BY <1>1 DEF panes
<1>7. Cardinality(s) <= MaxSplits
  BY <1>3 DEF Bounds
<1>8. PaneTree(root, n)
  BY <1>1, <1>2, <1>5, <1>7 DEF PaneTree
<1> QED BY <1>6, <1>8 DEF root

(* A leaf becomes a split of two.                                          *)
LEMMA SplitShape ==
    ASSUME NEW leaves, NEW splits, Shape(leaves, splits), NEW q \in leaves
    PROVE  /\ Append(q, 0) \notin leaves \cup splits /\ Append(q, 1) \notin leaves \cup splits
           /\ Append(q, 0) # Append(q, 1)
           /\ Shape((leaves \ {q}) \cup {Append(q, 0), Append(q, 1)}, splits \cup {q})
<1> DEFINE a == Append(q, 0)
           b == Append(q, 1)
           l == (leaves \ {q}) \cup {a, b}
           s == splits \cup {q}
<1>1. leaves \subseteq Paths /\ splits \subseteq Paths /\ q \in Paths /\ q \notin splits
  BY DEF Shape
<1>2. /\ a \in Paths /\ b \in Paths /\ Above(q, a) /\ Above(q, b)
      /\ Len(a) = Len(q) + 1 /\ Len(b) = Len(q) + 1
      /\ a[Len(q) + 1] = 0 /\ b[Len(q) + 1] = 1
      /\ \A i \in 1..Len(q) : a[i] = q[i] /\ b[i] = q[i]
  BY <1>1, SidePath
<1>3. a # b
  BY <1>2
<1> HIDE DEF a, b
<1>4. a \notin leaves \cup splits /\ b \notin leaves \cup splits
  BY <1>1, <1>2, AboveIsASplit
<1>5. l \subseteq Paths /\ s \subseteq Paths /\ l \cap s = {} /\ <<>> \in l \cup s
  BY <1>1, <1>2, <1>4 DEF Shape
<1>6. IsFiniteSet(l) /\ IsFiniteSet(s) /\ Cardinality(l) = Cardinality(s) + 1
  <2>1. /\ IsFiniteSet(leaves) /\ IsFiniteSet(splits)
        /\ Cardinality(leaves) = Cardinality(splits) + 1
    BY DEF Shape
  <2>2. /\ IsFiniteSet(leaves \ {q}) /\ Cardinality(leaves \ {q}) = Cardinality(leaves) - 1
    BY <2>1, FS_RemoveElement
  <2>3. /\ IsFiniteSet((leaves \ {q}) \cup {a})
        /\ Cardinality((leaves \ {q}) \cup {a}) = Cardinality(leaves \ {q}) + 1
    BY <1>4, <2>2, FS_AddElement
  <2>4. /\ IsFiniteSet(((leaves \ {q}) \cup {a}) \cup {b})
        /\ Cardinality(((leaves \ {q}) \cup {a}) \cup {b})
             = Cardinality((leaves \ {q}) \cup {a}) + 1
    BY <1>3, <1>4, <2>3, FS_AddElement
  <2>5. IsFiniteSet(l) /\ Cardinality(l) = Cardinality((leaves \ {q}) \cup {a}) + 1
    <3>1. ((leaves \ {q}) \cup {a}) \cup {b} = l
      OBVIOUS
    <3> QED BY <2>4, <3>1
  <2>6. IsFiniteSet(s) /\ Cardinality(s) = Cardinality(splits) + 1
    BY <1>1, <2>1, FS_AddElement
  <2>7. Cardinality(leaves) \in Nat /\ Cardinality(splits) \in Nat
    BY <2>1, FS_CardinalityType
  <2> HIDE DEF l, s
  <2> QED BY <2>1, <2>2, <2>3, <2>5, <2>6, <2>7
<1>7. \A p \in s : \A side \in {0, 1} : Append(p, side) \in l \cup s
  <2> SUFFICES ASSUME NEW p \in s, NEW side \in {0, 1} PROVE Append(p, side) \in l \cup s
    OBVIOUS
  <2>1. CASE p = q
    BY <2>1 DEF a, b
  <2>2. CASE p \in splits
    <3>1. Append(p, side) \in leaves \cup splits
      BY <2>2 DEF Shape
    <3> QED BY <3>1
  <2> QED BY <2>1, <2>2
<1>8. \A x \in l \cup s : \A p \in Paths : Above(p, x) => p \in s
  <2> SUFFICES ASSUME NEW x \in l \cup s, NEW p \in Paths, Above(p, x) PROVE p \in s
    OBVIOUS
  <2>1. CASE x \in leaves \cup splits
    BY <2>1, AboveIsASplit
  <2>2. CASE x \in {a, b}
    <3>1. Len(x) = Len(q) + 1 /\ \A i \in 1..Len(q) : x[i] = q[i]
      BY <1>2, <2>2
    <3>2. Len(p) \in Nat /\ Len(q) \in Nat
      BY <1>1, PathFacts
    <3>3. Len(p) <= Len(q) /\ \A i \in 1..Len(p) : p[i] = q[i]
      BY <3>1, <3>2 DEF Above
    <3>4. CASE Len(p) = Len(q)
      BY <1>1, <3>3, <3>4, SamePath
    <3>5. CASE Len(p) < Len(q)
      <4>1. Above(p, q)
        BY <3>3, <3>5 DEF Above
      <4> QED BY <4>1, AboveIsASplit
    <3> QED BY <3>2, <3>3, <3>4, <3>5
  <2> QED BY <2>1, <2>2
<1>9. Shape(l, s)
  <2> HIDE DEF l, s
  <2> QED BY <1>5, <1>6, <1>7, <1>8, ShapeFrom
<1> QED BY <1>3, <1>4, <1>9 DEF a, b

LEMMA SplitTree ==
    ASSUME NEW n \in Nat, NEW root, PaneTree(root, n), NEW id \in pane_ids(root),
           pane_count(root) <= MaxSplits, MaxSplits \in Nat,
           NEW direction \in Directions, NEW eid
    PROVE  LET r == split_by_id(root, id, direction, PaneOf(n + 1, eid))
           IN /\ PaneTree(r, n + 1)
              /\ panes(r) = panes(root) \cup {PaneOf(n + 1, eid)}
<1> DEFINE r == split_by_id(root, id, direction, PaneOf(n + 1, eid))
           q == PathOf(root, id)
           a == Append(q, 0)
           b == Append(q, 1)
           leaves == DOMAIN root.leaves
           splits == DOMAIN root.splits
           new == PaneOf(n + 1, eid)
<1>1. q \in leaves /\ Shape(leaves, splits)
  BY PathOfIs DEF PaneTree
<1>2. /\ a \notin leaves \cup splits /\ b \notin leaves \cup splits /\ a # b
      /\ Shape((leaves \ {q}) \cup {a, b}, splits \cup {q})
  <2> HIDE DEF q, leaves, splits
  <2> QED BY <1>1, SplitShape
<1>3. /\ r = [leaves |-> r.leaves, splits |-> r.splits]
      /\ r.leaves = [x \in (leaves \ {q}) \cup {a, b} |->
                       IF x = a THEN root.leaves[q] ELSE IF x = b THEN new ELSE root.leaves[x]]
      /\ r.splits = [x \in splits \cup {q} |->
                       IF x = q THEN [direction |-> direction, ratio |-> 50]
                       ELSE root.splits[x]]
  BY DEF split_by_id
<1>4. new.id = n + 1 /\ \A x \in leaves : root.leaves[x].id \in 1..n
  BY DEF PaneOf, PaneTree
<1>5. \A x, y \in leaves : root.leaves[x].id = root.leaves[y].id => x = y
  BY DEF PaneTree
<1> HIDE DEF r, q, a, b, leaves, splits, new
<1>6. DOMAIN r.leaves = (leaves \ {q}) \cup {a, b}
  BY <1>3
<1>7. /\ r.leaves[a] = root.leaves[q] /\ r.leaves[b] = new
      /\ \A x \in leaves \ {q} : r.leaves[x] = root.leaves[x]
  BY <1>2, <1>3
<1>8. \A x \in DOMAIN r.leaves : r.leaves[x].id \in 1..(n + 1)
  BY <1>1, <1>4, <1>6, <1>7
<1>9. \A x, y \in DOMAIN r.leaves : r.leaves[x].id = r.leaves[y].id => x = y
  <2> DEFINE from(x) == IF x = a THEN q ELSE x
  <2>1. \A x \in DOMAIN r.leaves : x # b => from(x) \in leaves /\ r.leaves[x] = root.leaves[from(x)]
    BY <1>1, <1>6, <1>7
  <2>2. \A x \in DOMAIN r.leaves : x # b => r.leaves[x].id # n + 1
    BY <1>4, <2>1
  <2>3. \A x, y \in DOMAIN r.leaves : x # b /\ y # b /\ from(x) = from(y) => x = y
    BY <1>2, <1>6
  <2> HIDE DEF from
  <2> QED BY <1>4, <1>5, <1>7, <2>1, <2>2, <2>3
<1>10. panes(r) = panes(root) \cup {new}
  <2>1. panes(r) \subseteq panes(root) \cup {new}
    BY <1>1, <1>6, <1>7 DEF panes, leaves
  <2>2. panes(root) \cup {new} \subseteq panes(r)
    BY <1>1, <1>6, <1>7 DEF panes, leaves
  <2> QED BY <2>1, <2>2
<1>11. \A x \in DOMAIN r.splits : r.splits[x] \in Divisions
  <2>1. /\ [direction |-> direction, ratio |-> 50] \in Divisions
        /\ \A x \in splits : root.splits[x] \in Divisions
    BY DEF Divisions, PaneTree, splits
  <2> QED BY <1>3, <2>1
<1>12. Cardinality(DOMAIN r.splits) <= MaxSplits
  <2>1. DOMAIN r.splits = splits \cup {q} /\ q \notin splits
    BY <1>1, <1>3 DEF Shape
  <2>2. /\ IsFiniteSet(splits) /\ Cardinality(leaves) = Cardinality(splits) + 1
        /\ Cardinality(leaves) <= MaxSplits
    BY <1>1 DEF Shape, pane_count, leaves
  <2>3. Cardinality(splits \cup {q}) = Cardinality(splits) + 1 /\ Cardinality(splits) \in Nat
    BY <2>1, <2>2, FS_AddElement, FS_CardinalityType
  <2> QED BY <2>1, <2>2, <2>3
<1>13. PaneTree(r, n + 1)
  BY <1>2, <1>3, <1>6, <1>8, <1>9, <1>11, <1>12 DEF PaneTree
<1> QED BY <1>10, <1>13 DEF r, new

-----------------------------------------------------------------------------
(* A pane and its sibling change places: the paths through their parent    *)
(* take the other side.                                                    *)

LEMMA PrefixMeans ==
    ASSUME NEW p \in Paths, NEW x \in Paths
    PROVE  IsPrefix(p, x) <=> Len(p) <= Len(x) /\ \A i \in 1..Len(p) : p[i] = x[i]
<1>1. Len(p) \in Nat /\ Len(x) \in Nat
  BY PathFacts
<1>2. CASE ~(Len(p) <= Len(x))
  BY <1>2 DEF IsPrefix
<1>3. CASE Len(p) <= Len(x)
  <2> DEFINE a == SubSeq(p, 1, Len(p))
             b == SubSeq(x, 1, Len(p))
  <2>1. \A i \in 1..Len(p) : p[i] \in {0, 1} /\ x[i] \in {0, 1}
    BY <1>1, <1>3, PathFacts
  <2>2. a \in Paths /\ Len(a) = Len(p) /\ \A i \in 1..Len(p) : a[i] = p[i]
    BY <1>1, <2>1, SubSeqProperties DEF Paths
  <2>3. b \in Paths /\ Len(b) = Len(p) /\ \A i \in 1..Len(p) : b[i] = x[i]
    BY <1>1, <2>1, SubSeqProperties DEF Paths
  <2>4. a = b <=> \A i \in 1..Len(p) : p[i] = x[i]
    <3> HIDE DEF a, b
    <3>1. ASSUME a = b PROVE \A i \in 1..Len(p) : p[i] = x[i]
      BY <2>2, <2>3, <3>1
    <3>2. ASSUME \A i \in 1..Len(p) : p[i] = x[i] PROVE a = b
      BY <2>2, <2>3, <3>2, SamePath
    <3> QED BY <3>1, <3>2
  <2> QED BY <1>3, <2>4 DEF IsPrefix
<1> QED BY <1>2, <1>3

Flip(parent, x) ==
    IF Len(x) >= Len(parent) + 1 /\ IsPrefix(parent, x)
    THEN [x EXCEPT ![Len(parent) + 1] = 1 - @] ELSE x

LEMMA FlipIs ==
    ASSUME NEW parent \in Paths, NEW x \in Paths
    PROVE  /\ Flip(parent, x) \in Paths /\ Len(Flip(parent, x)) = Len(x)
           /\ \A i \in 1..Len(x) :
                 Flip(parent, x)[i] =
                   IF Above(parent, x) /\ i = Len(parent) + 1 THEN 1 - x[i] ELSE x[i]
<1>1. Len(parent) \in Nat /\ Len(x) \in Nat /\ \A i \in 1..Len(x) : x[i] \in {0, 1}
  BY PathFacts
<1>2. Len(x) >= Len(parent) + 1 /\ IsPrefix(parent, x) <=> Above(parent, x)
  BY <1>1, PrefixMeans DEF Above
<1>3. CASE Above(parent, x)
  <2>1. Len(parent) + 1 \in 1..Len(x)
    BY <1>1, <1>3 DEF Above
  <2>2. 1 - x[Len(parent) + 1] \in {0, 1}
    BY <1>1, <2>1
  <2>3. Flip(parent, x) = [x EXCEPT ![Len(parent) + 1] = 1 - x[Len(parent) + 1]]
    BY <1>2, <1>3 DEF Flip
  <2>4. /\ Flip(parent, x) \in Paths /\ Len(Flip(parent, x)) = Len(x)
        /\ \A i \in 1..Len(x) : Flip(parent, x)[i] =
             IF i = Len(parent) + 1 THEN 1 - x[Len(parent) + 1] ELSE x[i]
    BY <2>1, <2>2, <2>3, ExceptSeq DEF Paths
  <2> QED BY <1>3, <2>4
<1>4. CASE ~Above(parent, x)
  BY <1>2, <1>4 DEF Flip
<1> QED BY <1>3, <1>4

(* Whether a path leads through the parent does not depend on the side it  *)
(* takes there.                                                            *)
LEMMA FlipBack ==
    ASSUME NEW parent \in Paths, NEW x \in Paths
    PROVE  /\ Above(parent, Flip(parent, x)) <=> Above(parent, x)
           /\ Flip(parent, Flip(parent, x)) = x
<1> DEFINE y == Flip(parent, x)
           z == Flip(parent, y)
<1>1. /\ y \in Paths /\ Len(y) = Len(x)
      /\ \A i \in 1..Len(x) :
            y[i] = IF Above(parent, x) /\ i = Len(parent) + 1 THEN 1 - x[i] ELSE x[i]
  BY FlipIs
<1> HIDE DEF y
<1>2. /\ z \in Paths /\ Len(z) = Len(y)
      /\ \A i \in 1..Len(y) :
            z[i] = IF Above(parent, y) /\ i = Len(parent) + 1 THEN 1 - y[i] ELSE y[i]
  BY <1>1, FlipIs
<1> HIDE DEF z
<1>3. Len(parent) \in Nat /\ Len(x) \in Nat /\ \A i \in 1..Len(x) : x[i] \in {0, 1}
  BY PathFacts
<1>4. Above(parent, y) <=> Above(parent, x)
  BY <1>1, <1>3 DEF Above
<1>5. \A i \in 1..Len(x) : z[i] = x[i]
  <2> SUFFICES ASSUME NEW i \in 1..Len(x) PROVE z[i] = x[i]
    OBVIOUS
  <2>1. x[i] \in {0, 1}
    BY <1>3
  <2> QED BY <1>1, <1>2, <1>4, <2>1
<1>6. z = x
  BY <1>1, <1>2, <1>5, SamePath
<1> QED BY <1>4, <1>6 DEF y, z

LEMMA FlipAbove ==
    ASSUME NEW parent \in Paths, NEW p \in Paths, NEW x \in Paths, Above(p, x)
    PROVE  Above(Flip(parent, p), Flip(parent, x))
<1> DEFINE fp == Flip(parent, p)
           fx == Flip(parent, x)
<1>1. /\ Len(fp) = Len(p)
      /\ \A i \in 1..Len(p) :
            fp[i] = IF Above(parent, p) /\ i = Len(parent) + 1 THEN 1 - p[i] ELSE p[i]
  BY FlipIs
<1>2. /\ Len(fx) = Len(x)
      /\ \A i \in 1..Len(x) :
            fx[i] = IF Above(parent, x) /\ i = Len(parent) + 1 THEN 1 - x[i] ELSE x[i]
  BY FlipIs
<1> HIDE DEF fp, fx
<1>3. Len(parent) \in Nat /\ Len(x) \in Nat /\ Len(p) \in Nat
  BY PathFacts
<1>4. Len(p) < Len(x) /\ \A i \in 1..Len(p) : p[i] = x[i]
  BY DEF Above
<1>5. ASSUME NEW i \in 1..Len(p) PROVE fp[i] = fx[i]
  <2>1. i \in 1..Len(x) /\ p[i] = x[i]
    BY <1>3, <1>4
  <2>2. CASE i = Len(parent) + 1
    <3>1. Above(parent, p) <=> Above(parent, x)
      BY <1>3, <1>4, <2>2 DEF Above
    <3> QED BY <1>1, <1>2, <2>1, <3>1
  <2>3. CASE i # Len(parent) + 1
    BY <1>1, <1>2, <2>1, <2>3
  <2> QED BY <2>2, <2>3
<1>6. Above(fp, fx)
  BY <1>1, <1>2, <1>4, <1>5 DEF Above
<1> QED BY <1>6 DEF fp, fx

(* A set has as many elements as its image under an injection.             *)
LEMMA SameSize ==
    ASSUME NEW S, NEW T, NEW f, IsFiniteSet(S), f = [x \in S |-> f[x]],
           T = {f[x] : x \in S},
           \A x, y \in S : f[x] = f[y] => x = y
    PROVE  IsFiniteSet(T) /\ Cardinality(T) = Cardinality(S)
<1>1. f \in [S -> T]
  <2>1. \A x \in S : f[x] \in T
    OBVIOUS
  <2> QED BY <2>1
<1>2. f \in Bijection(S, T)
  <2>1. \A t \in T : \E x \in S : f[x] = t
    OBVIOUS
  <2> QED BY <1>1, <2>1 DEF Bijection, Injection, Surjection, IsInjective
<1>3. ExistsBijection(S, T)
  BY <1>2 DEF ExistsBijection
<1> QED BY <1>3, FS_Bijection

LEMMA ImageSize ==
    ASSUME NEW S, NEW T, NEW f, IsFiniteSet(S), f = [x \in S |-> f[x]],
           T = {f[x] : x \in S}
    PROVE  Cardinality(T) <= Cardinality(S)
<1>1. f \in [S -> T]
  <2>1. \A x \in S : f[x] \in T
    OBVIOUS
  <2> QED BY <2>1
<1>2. f \in Surjection(S, T)
  <2>1. \A t \in T : \E x \in S : f[x] = t
    OBVIOUS
  <2> QED BY <1>1, <2>1 DEF Surjection
<1> QED BY <1>2, FS_Surjection

Flipped(parent, nodes) == {Flip(parent, x) : x \in nodes}

LEMMA FlippedShape ==
    ASSUME NEW leaves, NEW splits, Shape(leaves, splits), NEW parent \in Paths
    PROVE  Shape(Flipped(parent, leaves), Flipped(parent, splits))
<1> DEFINE F(x) == Flip(parent, x)
           l == Flipped(parent, leaves)
           s == Flipped(parent, splits)
<1>1. leaves \subseteq Paths /\ splits \subseteq Paths
  BY DEF Shape
<1>2. \A x \in Paths : F(x) \in Paths /\ Len(F(x)) = Len(x) /\ F(F(x)) = x
  BY FlipIs, FlipBack
<1>3. \A p, x \in Paths : Above(p, x) => Above(F(p), F(x))
  BY FlipAbove
<1>4. /\ \A x : x \in leaves => F(x) \in l
      /\ \A x : x \in splits => F(x) \in s
  BY DEF Flipped
<1>5. /\ \A y \in l : \E x \in leaves : y = F(x)
      /\ \A y \in s : \E x \in splits : y = F(x)
  BY DEF Flipped
<1> HIDE DEF F, l, s
<1>6. \A x, y \in leaves \cup splits : F(x) = F(y) => x = y
  BY <1>1, <1>2
<1>7. l \subseteq Paths /\ s \subseteq Paths
  BY <1>1, <1>2, <1>5
<1>8. l \cap s = {}
  <2> SUFFICES ASSUME NEW y \in l, y \in s PROVE FALSE
    OBVIOUS
  <2>1. PICK x \in leaves : y = F(x)
    BY <1>5
  <2>2. PICK z \in splits : y = F(z)
    BY <1>5
  <2>3. x = z
    BY <1>6, <2>1, <2>2
  <2> QED BY <2>3 DEF Shape
<1>9. <<>> \in l \cup s
  <2>1. <<>> \in leaves \cup splits
    BY DEF Shape
  <2>2. F(<<>>) = <<>>
    BY <1>2, EmptyPath, PathFacts
  <2> QED BY <1>4, <2>1, <2>2
<1>10. \A p \in s : \A side \in {0, 1} : Append(p, side) \in l \cup s
  <2> SUFFICES ASSUME NEW p \in s, NEW side \in {0, 1} PROVE Append(p, side) \in l \cup s
    OBVIOUS
  <2>1. PICK x \in splits : p = F(x)
    BY <1>5
  <2>2. p \in Paths /\ x \in Paths /\ F(p) = x /\ Len(p) = Len(x)
    BY <1>1, <1>2, <1>7, <2>1
  <2>3. /\ Append(p, side) \in Paths /\ Len(Append(p, side)) = Len(p) + 1
        /\ Above(p, Append(p, side))
    BY <2>2, SidePath
  <2> DEFINE y == F(Append(p, side))
  <2>4. y \in Paths /\ Len(y) = Len(x) + 1 /\ Above(x, y) /\ F(y) = Append(p, side)
    BY <1>2, <1>3, <2>2, <2>3
  <2> HIDE DEF y
  <2>5. Len(x) \in Nat
    BY <2>2, PathFacts
  <2>6. y # <<>>
    BY <2>4, <2>5, EmptyPath
  <2>7. /\ Front(y) \in Paths /\ Len(Front(y)) = Len(x) /\ Last(y) \in {0, 1}
        /\ y = Append(Front(y), Last(y)) /\ \A i \in 1..Len(x) : Front(y)[i] = y[i]
    BY <2>4, <2>5, <2>6, FrontPath
  <2>8. \A i \in 1..Len(x) : x[i] = y[i]
    BY <2>4 DEF Above
  <2>9. Front(y) = x
    BY <2>2, <2>7, <2>8, SamePath
  <2>10. y \in leaves \cup splits
    BY <2>7, <2>9 DEF Shape
  <2> QED BY <1>4, <2>4, <2>10
<1>11. \A x \in l \cup s : \A p \in Paths : Above(p, x) => p \in s
  <2> SUFFICES ASSUME NEW x \in l \cup s, NEW p \in Paths, Above(p, x) PROVE p \in s
    OBVIOUS
  <2>1. PICK z \in leaves \cup splits : x = F(z)
    BY <1>5
  <2>2. z \in Paths /\ F(x) = z /\ x \in Paths
    BY <1>1, <1>2, <2>1
  <2>3. F(p) \in Paths /\ Above(F(p), z) /\ F(F(p)) = p
    BY <1>2, <1>3, <2>2
  <2>4. F(p) \in splits
    BY <2>3, AboveIsASplit
  <2> QED BY <1>4, <2>3, <2>4
<1>12. IsFiniteSet(l) /\ IsFiniteSet(s) /\ Cardinality(l) = Cardinality(s) + 1
  <2>1. IsFiniteSet(l) /\ Cardinality(l) = Cardinality(leaves)
    <3> DEFINE f == [x \in leaves |-> F(x)]
    <3>1. l = {f[x] : x \in leaves} /\ \A x, y \in leaves : f[x] = f[y] => x = y
      <4>1. \A x \in leaves : f[x] = F(x)
        OBVIOUS
      <4> HIDE DEF f
      <4> QED BY <1>4, <1>5, <1>6, <4>1
    <3>2. IsFiniteSet(leaves)
      BY DEF Shape
    <3>3. f = [x \in leaves |-> f[x]]
      OBVIOUS
    <3> HIDE DEF f
    <3> QED BY <3>1, <3>2, <3>3, SameSize
  <2>2. IsFiniteSet(s) /\ Cardinality(s) = Cardinality(splits)
    <3> DEFINE f == [x \in splits |-> F(x)]
    <3>1. s = {f[x] : x \in splits} /\ \A x, y \in splits : f[x] = f[y] => x = y
      <4>1. \A x \in splits : f[x] = F(x)
        OBVIOUS
      <4> HIDE DEF f
      <4> QED BY <1>4, <1>5, <1>6, <4>1
    <3>2. IsFiniteSet(splits)
      BY DEF Shape
    <3>3. f = [x \in splits |-> f[x]]
      OBVIOUS
    <3> HIDE DEF f
    <3> QED BY <3>1, <3>2, <3>3, SameSize
  <2> QED BY <2>1, <2>2 DEF Shape
<1>13. Shape(l, s)
  BY <1>7, <1>8, <1>9, <1>10, <1>11, <1>12, ShapeFrom
<1> QED BY <1>13 DEF l, s

LEMMA MoveTree ==
    ASSUME Bounds, NEW n \in Nat, NEW root, PaneTree(root, n), NEW id \in pane_ids(root),
           PathOf(root, id) # <<>>
    PROVE  /\ PaneTree(move_in_parent(root, id), n)
           /\ panes(move_in_parent(root, id)) = panes(root)
<1> DEFINE r == move_in_parent(root, id)
           parent == Front(PathOf(root, id))
           leaves == DOMAIN root.leaves
           splits == DOMAIN root.splits
           F(x) == Flip(parent, x)
<1>1. Shape(leaves, splits) /\ parent \in Paths
  <2>1. PathOf(root, id) \in Paths
    BY PathOfIs DEF PaneTree, Shape
  <2> QED BY <2>1, FrontPath DEF PaneTree
<1>2. /\ r = [leaves |-> r.leaves, splits |-> r.splits]
      /\ r.leaves = [x \in Flipped(parent, leaves) |-> root.leaves[F(x)]]
      /\ r.splits = [x \in Flipped(parent, splits) |-> root.splits[F(x)]]
  BY DEF move_in_parent, Flipped, Flip
<1>3. Shape(Flipped(parent, leaves), Flipped(parent, splits))
  <2> HIDE DEF leaves, splits, parent
  <2> QED BY <1>1, FlippedShape
<1>4. \A x \in leaves : F(F(x)) = x
  BY <1>1, FlipBack DEF Shape
<1>5. /\ \A x \in leaves : F(x) \in Flipped(parent, leaves)
      /\ \A y \in Flipped(parent, leaves) : F(y) \in leaves /\ y = F(F(y))
  <2> HIDE DEF F, leaves, splits
  <2>1. Flipped(parent, leaves) = {F(x) : x \in leaves}
    BY DEF Flipped, F
  <2> QED BY <1>4, <2>1
<1>6. /\ \A x \in leaves : root.leaves[x].id \in 1..n
      /\ \A x, y \in leaves : root.leaves[x].id = root.leaves[y].id => x = y
      /\ \A x \in splits : root.splits[x] \in Divisions
      /\ Cardinality(splits) <= MaxSplits /\ IsFiniteSet(splits)
  BY DEF PaneTree, Shape
<1>a. \A x \in splits : F(F(x)) = x
  BY <1>1, FlipBack DEF Shape
<1>b. Flipped(parent, splits) = {F(x) : x \in splits}
  BY DEF Flipped
<1> HIDE DEF r, parent, leaves, splits, F
<1>7. DOMAIN r.leaves = Flipped(parent, leaves)
      /\ \A y \in Flipped(parent, leaves) : r.leaves[y] = root.leaves[F(y)]
  BY <1>2
<1>8. panes(r) = panes(root)
  <2>1. panes(r) \subseteq panes(root)
    BY <1>5, <1>7 DEF panes, leaves
  <2>2. panes(root) \subseteq panes(r)
    <3> SUFFICES ASSUME NEW x \in leaves PROVE root.leaves[x] \in panes(r)
      BY DEF panes, leaves
    <3>1. F(x) \in DOMAIN r.leaves /\ r.leaves[F(x)] = root.leaves[x]
      BY <1>4, <1>5, <1>7
    <3> QED BY <3>1 DEF panes
  <2> QED BY <2>1, <2>2
<1>9. \A x \in DOMAIN r.leaves : r.leaves[x].id \in 1..n
  BY <1>5, <1>6, <1>7
<1>10. \A x, y \in DOMAIN r.leaves : r.leaves[x].id = r.leaves[y].id => x = y
  BY <1>5, <1>6, <1>7
<1>11. \A x \in DOMAIN r.splits : r.splits[x] \in Divisions
  BY <1>2, <1>6, <1>a, <1>b
<1>12. Cardinality(DOMAIN r.splits) <= MaxSplits
  <2> DEFINE f == [x \in splits |-> F(x)]
  <2>1. f = [x \in splits |-> f[x]] /\ Flipped(parent, splits) = {f[x] : x \in splits}
    BY <1>b
  <2> HIDE DEF f
  <2>2. Cardinality(Flipped(parent, splits)) <= Cardinality(splits)
    BY <1>6, <2>1, ImageSize
  <2>3. /\ DOMAIN r.splits = Flipped(parent, splits)
        /\ Cardinality(Flipped(parent, splits)) \in Nat /\ Cardinality(splits) \in Nat
    BY <1>2, <1>3, <1>6, FS_CardinalityType DEF Shape
  <2> QED BY <1>6, <2>2, <2>3 DEF Bounds
<1>13. PaneTree(r, n)
  BY <1>2, <1>3, <1>7, <1>9, <1>10, <1>11, <1>12 DEF PaneTree
<1> QED BY <1>8, <1>13 DEF r

-----------------------------------------------------------------------------
(* A pane goes: what is on the other side of its parent is lifted into the *)
(* parent's place.                                                         *)

Lift(parent, side, x) ==
    IF IsPrefix(Append(parent, side), x)
    THEN parent \o SubSeq(x, Len(Append(parent, side)) + 1, Len(x)) ELSE x

OnSide(parent, side, x) == Above(parent, x) /\ x[Len(parent) + 1] = side

LEMMA LiftIs ==
    ASSUME NEW parent \in Paths, NEW side \in {0, 1}, NEW x \in Paths
    PROVE  /\ OnSide(parent, side, x) =>
                /\ Lift(parent, side, x) \in Paths
                /\ Len(Lift(parent, side, x)) = Len(x) - 1 /\ Len(x) > Len(parent)
                /\ \A i \in 1..(Len(x) - 1) :
                      Lift(parent, side, x)[i] = IF i <= Len(parent) THEN x[i] ELSE x[i + 1]
           /\ ~OnSide(parent, side, x) => Lift(parent, side, x) = x
<1> DEFINE sib == Append(parent, side)
           n == Len(parent)
<1>1. n \in Nat /\ Len(x) \in Nat /\ \A i \in 1..Len(x) : x[i] \in {0, 1}
  BY PathFacts
<1>2. /\ sib \in Paths /\ Len(sib) = n + 1 /\ sib[n + 1] = side
      /\ \A i \in 1..n : sib[i] = parent[i]
  BY SidePath
<1>3. IsPrefix(sib, x) <=> Len(sib) <= Len(x) /\ \A i \in 1..Len(sib) : sib[i] = x[i]
  BY <1>2, PrefixMeans
<1> HIDE DEF sib
<1>4. IsPrefix(sib, x) <=> OnSide(parent, side, x)
  <2>1. ASSUME OnSide(parent, side, x) PROVE IsPrefix(sib, x)
    BY <1>1, <1>2, <1>3, <2>1 DEF OnSide, Above
  <2>2. ASSUME IsPrefix(sib, x) PROVE OnSide(parent, side, x)
    <3>1. Len(sib) <= Len(x) /\ \A i \in 1..Len(sib) : sib[i] = x[i]
      BY <1>3, <2>2
    <3>2. n < Len(x) /\ x[n + 1] = side
      BY <1>1, <1>2, <3>1
    <3>3. \A i \in 1..n : parent[i] = x[i]
      BY <1>1, <1>2, <3>1
    <3> QED BY <3>2, <3>3 DEF OnSide, Above
  <2> QED BY <2>1, <2>2
<1>5. ASSUME ~OnSide(parent, side, x) PROVE Lift(parent, side, x) = x
  BY <1>4, <1>5 DEF Lift, sib
<1>6. ASSUME OnSide(parent, side, x)
      PROVE  /\ Lift(parent, side, x) \in Paths
             /\ Len(Lift(parent, side, x)) = Len(x) - 1 /\ Len(x) > n
             /\ \A i \in 1..(Len(x) - 1) :
                   Lift(parent, side, x)[i] = IF i <= n THEN x[i] ELSE x[i + 1]
  <2> DEFINE rest == SubSeq(x, n + 2, Len(x))
             y == parent \o rest
  <2>1. Lift(parent, side, x) = y
    <3>1. Len(sib) + 1 = n + 2
      BY <1>1, <1>2
    <3> QED BY <1>4, <1>6, <3>1 DEF Lift, sib
  <2>2. n < Len(x) /\ \A i \in 1..n : parent[i] = x[i]
    BY <1>6 DEF OnSide, Above
  <2>3. \A i \in (n + 2)..Len(x) : x[i] \in {0, 1}
    BY <1>1
  <2>4. /\ rest \in Seq({0, 1})
        /\ Len(rest) = IF n + 2 <= Len(x) THEN Len(x) - (n + 2) + 1 ELSE 0
        /\ \A i \in 1..(Len(x) - (n + 2) + 1) : rest[i] = x[(n + 2) + i - 1]
    BY <1>1, <2>3, SubSeqProperties
  <2> HIDE DEF rest
  <2>5. /\ y \in Seq({0, 1}) /\ Len(y) = n + Len(rest)
        /\ \A i \in 1..(n + Len(rest)) : y[i] = IF i <= n THEN parent[i] ELSE rest[i - n]
    BY <2>4, ConcatProperties DEF Paths
  <2> HIDE DEF y
  <2>6. Len(rest) = Len(x) - (n + 1)
    BY <1>1, <2>2, <2>4
  <2>7. Len(y) = Len(x) - 1
    BY <1>1, <2>5, <2>6
  <2>8. ASSUME NEW i \in 1..(Len(x) - 1) PROVE y[i] = IF i <= n THEN x[i] ELSE x[i + 1]
    <3>1. y[i] = IF i <= n THEN parent[i] ELSE rest[i - n]
      BY <1>1, <2>5, <2>6
    <3>2. CASE i <= n
      BY <1>1, <2>2, <3>1, <3>2
    <3>3. CASE ~(i <= n)
      <4>1. i - n \in 1..(Len(x) - (n + 2) + 1) /\ (n + 2) + (i - n) - 1 = i + 1
        BY <1>1, <3>3
      <4>2. rest[i - n] = x[(n + 2) + (i - n) - 1]
        BY <2>4, <4>1
      <4> QED BY <3>1, <3>3, <4>1, <4>2
    <3> QED BY <3>2, <3>3
  <2> QED BY <2>1, <2>2, <2>5, <2>7, <2>8 DEF Paths
<1> QED BY <1>5, <1>6

Lifted(parent, side, nodes) == {Lift(parent, side, x) : x \in nodes}

LEMMA LiftedShape ==
    ASSUME NEW leaves, NEW splits, Shape(leaves, splits), NEW q \in leaves, q # <<>>
    PROVE  LET parent == Front(q)
               side == 1 - Last(q)
               kl == leaves \ {q, parent}
               ks == splits \ {q, parent}
           IN /\ Shape(Lifted(parent, side, kl), Lifted(parent, side, ks))
              /\ \A x, y \in kl : Lift(parent, side, x) = Lift(parent, side, y) => x = y
              /\ kl = leaves \ {q}
<1> DEFINE parent == Front(q)
           side == 1 - Last(q)
           n == Len(parent)
           sib == Append(parent, side)
           kl == leaves \ {q, parent}
           ks == splits \ {q, parent}
           nodes == leaves \cup splits
           kept == kl \cup ks
           U(x) == Lift(parent, side, x)
           On(x) == OnSide(parent, side, x)
           l == Lifted(parent, side, kl)
           s == Lifted(parent, side, ks)
<1>1. /\ leaves \subseteq Paths /\ splits \subseteq Paths /\ q \in Paths /\ q \notin splits
      /\ leaves \cap splits = {} /\ nodes \subseteq Paths
  BY DEF Shape
<1>2. /\ parent \in Paths /\ Len(q) = n + 1 /\ n \in Nat /\ Above(parent, q)
      /\ Last(q) \in {0, 1} /\ Last(q) = q[n + 1] /\ q = Append(parent, Last(q))
  <2>1. /\ Front(q) \in Paths /\ Len(Front(q)) = Len(q) - 1 /\ Len(q) \in Nat \ {0}
        /\ Last(q) \in {0, 1} /\ Last(q) = q[Len(q)] /\ Above(Front(q), q)
        /\ q = Append(Front(q), Last(q))
    BY <1>1, FrontPath
  <2>2. Len(Front(q)) \in Nat /\ Len(q) = Len(Front(q)) + 1
    BY <2>1
  <2> QED BY <2>1, <2>2
<1>3. parent \in splits /\ parent \notin leaves
  BY <1>1, <1>2, AboveIsASplit
<1>4. side \in {0, 1} /\ side # Last(q)
  BY <1>2
<1>5. sib \in nodes /\ sib \in Paths /\ Len(sib) = n + 1 /\ sib[n + 1] = side /\ Above(parent, sib)
  BY <1>1, <1>2, <1>3, <1>4, SidePath DEF Shape
<1>6. /\ \A x : x \in kl => U(x) \in l
      /\ \A x : x \in ks => U(x) \in s
      /\ \A y \in l : \E x \in kl : y = U(x)
      /\ \A y \in s : \E x \in ks : y = U(x)
  BY DEF Lifted
<1>7. /\ \A x \in Paths : On(x) =>
            /\ U(x) \in Paths /\ Len(U(x)) = Len(x) - 1 /\ Len(x) > n
            /\ \A i \in 1..(Len(x) - 1) : U(x)[i] = IF i <= n THEN x[i] ELSE x[i + 1]
      /\ \A x \in Paths : ~On(x) => U(x) = x
  BY <1>2, <1>4, LiftIs
<1>8. \A x : On(x) <=> Above(parent, x) /\ x[n + 1] = side
  BY DEF OnSide
<1>9. \A x \in Paths : Len(x) \in Nat /\ (\A i \in 1..Len(x) : x[i] \in {0, 1})
  BY PathFacts
<1>10. \A x : Above(parent, x) <=> n < Len(x) /\ \A i \in 1..n : parent[i] = x[i]
  BY DEF Above
<1>kept. kl \subseteq leaves /\ ks \subseteq splits /\ kept = nodes \ {q, parent} /\ kl = leaves \ {q}
  BY <1>3
<1> HIDE DEF parent, side, n, sib, U, On, kl, ks, l, s
<1>11. ASSUME NEW x \in nodes, x # q, Above(parent, x) PROVE On(x)
  <2>1. x \in Paths /\ n < Len(x) /\ Len(x) \in Nat /\ x[n + 1] \in {0, 1}
    BY <1>1, <1>2, <1>9, <1>10, <1>11
  <2>2. CASE x[n + 1] = side
    BY <1>8, <1>11, <2>2
  <2>3. CASE x[n + 1] # side
    <3>1. x[n + 1] = q[n + 1]
      BY <1>2, <1>4, <2>1, <2>3
    <3>2. \A i \in 1..n : parent[i] = x[i] /\ parent[i] = q[i]
      BY <1>2, <1>10, <1>11
    <3>3. \A i \in 1..(n + 1) : q[i] = x[i]
      BY <1>2, <3>1, <3>2
    <3>4. CASE Len(x) = n + 1
      BY <1>1, <1>2, <1>11, <2>1, <3>3, <3>4, SamePath
    <3>5. CASE Len(x) # n + 1
      <4>1. Above(q, x)
        BY <1>2, <2>1, <3>3, <3>5 DEF Above
      <4> QED BY <1>1, <4>1, AboveIsASplit
    <3> QED BY <3>4, <3>5
  <2> QED BY <2>2, <2>3
<1>12. ASSUME NEW x \in kept, NEW y \in kept, U(x) = U(y) PROVE x = y
  <2>1. /\ x \in nodes /\ y \in nodes /\ x # q /\ y # q /\ x # parent /\ y # parent
        /\ x \in Paths /\ y \in Paths
    BY <1>1, <1>kept
  <2>2. ASSUME NEW v \in nodes, v # q, v # parent, NEW w \in nodes, w # q, w # parent,
               On(v), ~On(w), U(v) = U(w)
        PROVE  FALSE
    <3>1. v \in Paths /\ w \in Paths /\ U(w) = w
      BY <1>1, <1>7, <2>2
    <3>2. Len(w) = Len(v) - 1 /\ Len(v) > n /\ Len(v) \in Nat
      BY <1>7, <1>9, <2>2, <3>1
    <3>a. \A i \in 1..(Len(v) - 1) : U(v)[i] = IF i <= n THEN v[i] ELSE v[i + 1]
      BY <1>7, <2>2, <3>1
    <3>b. \A i \in 1..n : i \in 1..(Len(v) - 1) /\ i <= n
      BY <1>2, <3>2
    <3>c. \A i \in 1..n : parent[i] = v[i]
      BY <1>8, <1>10, <2>2
    <3>3. \A i \in 1..n : w[i] = v[i] /\ parent[i] = v[i]
      BY <2>2, <3>1, <3>a, <3>b, <3>c
    <3>4. CASE Len(w) = n
      BY <1>2, <2>2, <3>1, <3>3, <3>4, SamePath DEF n
    <3>5. CASE Len(w) # n
      <4>1. n < Len(w)
        BY <1>2, <3>2, <3>5
      <4>2. Above(parent, w)
        BY <1>10, <3>3, <4>1
      <4> QED BY <1>11, <2>2, <4>2
    <3> QED BY <3>4, <3>5
  <2>3. CASE On(x) /\ On(y)
    <3>1. /\ Len(x) - 1 = Len(y) - 1 /\ Len(x) \in Nat /\ Len(y) \in Nat
          /\ Len(x) > n
      BY <1>7, <1>9, <1>12, <2>1, <2>3
    <3>2. Len(x) = Len(y)
      BY <3>1
    <3>3. ASSUME NEW i \in 1..Len(x) PROVE x[i] = y[i]
      <4>1. CASE i <= n
        BY <1>8, <1>10, <2>3, <4>1
      <4>2. CASE i = n + 1
        BY <1>8, <2>3, <4>2
      <4>3. CASE i > n + 1
        <5>1. i - 1 \in 1..(Len(x) - 1) /\ i - 1 \in 1..(Len(y) - 1) /\ ~(i - 1 <= n)
          BY <1>2, <3>1, <3>2, <4>3
        <5>2. U(x)[i - 1] = x[(i - 1) + 1] /\ U(y)[i - 1] = y[(i - 1) + 1]
          BY <1>7, <2>1, <2>3, <5>1
        <5> QED BY <1>12, <5>2
      <4> QED BY <1>2, <4>1, <4>2, <4>3
    <3> QED BY <2>1, <3>2, <3>3, SamePath
  <2>4. CASE ~On(x) /\ ~On(y)
    BY <1>7, <1>12, <2>1, <2>4
  <2>5. CASE On(x) /\ ~On(y)
    BY <1>12, <2>1, <2>2, <2>5
  <2>6. CASE ~On(x) /\ On(y)
    BY <1>12, <2>1, <2>2, <2>6
  <2> QED BY <2>3, <2>4, <2>5, <2>6
<1>13. l \subseteq Paths /\ s \subseteq Paths
  BY <1>1, <1>6, <1>7, <1>kept
<1>14. l \cap s = {}
  <2> SUFFICES ASSUME NEW y \in l, y \in s PROVE FALSE
    OBVIOUS
  <2>1. PICK x \in kl : y = U(x)
    BY <1>6
  <2>2. PICK z \in ks : y = U(z)
    BY <1>6
  <2>3. x = z
    BY <1>12, <2>1, <2>2
  <2> QED BY <1>1, <1>kept, <2>3
<1>15. U(sib) = parent /\ U(sib) \in l \cup s
  <2>1. On(sib) /\ sib # q /\ sib # parent
    BY <1>2, <1>4, <1>5, <1>8
  <2>2. U(sib) \in Paths /\ Len(U(sib)) = n /\ \A i \in 1..n : U(sib)[i] = sib[i]
    BY <1>2, <1>5, <1>7, <2>1
  <2>3. \A i \in 1..n : parent[i] = sib[i]
    BY <1>5, <1>10
  <2>4. U(sib) = parent
    BY <1>2, <2>2, <2>3, SamePath DEF n
  <2>5. sib \in kept
    BY <1>5, <1>kept, <2>1
  <2> QED BY <1>6, <2>4, <2>5
<1>16. <<>> \in l \cup s
  <2>1. CASE parent = <<>>
    BY <1>15, <2>1
  <2>2. CASE parent # <<>>
    <3>1. <<>> \in kept
      BY <1>kept, <2>2 DEF Shape
    <3>2. ~On(<<>>)
      BY <1>2, <1>10, <1>8, EmptyPath
    <3>3. U(<<>>) = <<>>
      BY <1>7, <3>2, EmptyPath
    <3> QED BY <1>6, <3>1, <3>3
  <2> QED BY <2>1, <2>2
<1>17. \A y \in s : \A c \in {0, 1} : Append(y, c) \in l \cup s
  <2> SUFFICES ASSUME NEW y \in s, NEW c \in {0, 1} PROVE Append(y, c) \in l \cup s
    OBVIOUS
  <2>1. PICK x \in ks : y = U(x)
    BY <1>6
  <2>2. x \in splits /\ x \in Paths /\ x # q /\ x # parent /\ y \in Paths
    BY <1>1, <1>13, <1>kept, <2>1
  <2> DEFINE xc == Append(x, c)
             yc == Append(y, c)
  <2>3. /\ xc \in Paths /\ Len(xc) = Len(x) + 1 /\ xc[Len(x) + 1] = c
        /\ (\A i \in 1..Len(x) : xc[i] = x[i]) /\ xc \in nodes
    BY <2>2, SidePath DEF Shape
  <2>4. /\ yc \in Paths /\ Len(yc) = Len(y) + 1 /\ yc[Len(y) + 1] = c
        /\ \A i \in 1..Len(y) : yc[i] = y[i]
    BY <2>2, SidePath
  <2>5. Len(x) \in Nat /\ Len(y) \in Nat
    BY <1>9, <2>2
  <2>6. CASE On(x)
    <3>1. n < Len(x) /\ (\A i \in 1..n : parent[i] = x[i]) /\ x[n + 1] = side
      BY <1>8, <1>10, <2>6
    <3>2. n < Len(xc) /\ (\A i \in 1..n : parent[i] = xc[i]) /\ xc[n + 1] = side
      <4> HIDE DEF xc
      <4> QED BY <1>2, <2>3, <2>5, <3>1
    <3>3. On(xc)
      BY <1>8, <1>10, <3>2
    <3>4. xc # q /\ xc # parent
      <4>1. Len(xc) # n + 1 /\ Len(xc) # n
        BY <1>2, <2>3, <2>5, <3>1
      <4> QED BY <1>2, <4>1 DEF n
    <3>5. xc \in kept
      BY <1>kept, <2>3, <3>4
    <3>6. /\ Len(y) = Len(x) - 1
          /\ \A i \in 1..(Len(x) - 1) : y[i] = IF i <= n THEN x[i] ELSE x[i + 1]
      BY <1>7, <2>1, <2>2, <2>6
    <3>7. /\ U(xc) \in Paths /\ Len(U(xc)) = Len(x)
          /\ \A i \in 1..Len(x) : U(xc)[i] = IF i <= n THEN xc[i] ELSE xc[i + 1]
      <4>1. Len(xc) - 1 = Len(x)
        BY <2>3, <2>5
      <4>2. /\ U(xc) \in Paths /\ Len(U(xc)) = Len(xc) - 1
            /\ \A i \in 1..(Len(xc) - 1) : U(xc)[i] = IF i <= n THEN xc[i] ELSE xc[i + 1]
        BY <1>7, <2>3, <3>3
      <4> QED BY <4>1, <4>2
    <3> HIDE DEF xc, yc
    <3>8. ASSUME NEW i \in 1..Len(x) PROVE U(xc)[i] = yc[i]
      <4>1. CASE i = Len(x)
        <5>1. ~(i <= n) /\ i = Len(y) + 1
          BY <1>2, <2>5, <3>1, <3>6, <4>1
        <5> QED BY <2>3, <2>4, <3>7, <4>1, <5>1
      <4>2. CASE i < Len(x)
        <5>1. i \in 1..Len(y) /\ i \in 1..(Len(x) - 1) /\ i + 1 \in 1..Len(x)
          BY <2>5, <3>6, <4>2
        <5>2. yc[i] = IF i <= n THEN x[i] ELSE x[i + 1]
          BY <2>4, <3>6, <5>1
        <5>3. U(xc)[i] = IF i <= n THEN x[i] ELSE x[i + 1]
          BY <2>3, <3>7, <5>1
        <5> QED BY <5>2, <5>3
      <4> QED BY <2>5, <4>1, <4>2
    <3>9. Len(yc) = Len(x)
      BY <2>4, <2>5, <3>6
    <3>10. U(xc) = yc
      BY <2>4, <3>7, <3>8, <3>9, SamePath
    <3>11. yc \in l \cup s
      BY <1>6, <3>5, <3>10
    <3> QED BY <3>11 DEF yc
  <2>7. CASE ~On(x)
    <3>1. y = x
      BY <1>7, <2>1, <2>2, <2>7
    <3>2. xc # q
      <4> SUFFICES ASSUME xc = q PROVE FALSE
        OBVIOUS
      <4>1. Len(x) = n
        BY <1>2, <2>3, <2>5
      <4>2. \A i \in 1..n : x[i] = q[i] /\ parent[i] = q[i]
        BY <1>2, <1>10, <2>3, <4>1
      <4>3. x = parent
        BY <1>2, <2>2, <4>1, <4>2, SamePath DEF n
      <4> QED BY <2>2, <4>3
    <3>3. CASE xc = parent
      BY <1>15, <3>1, <3>3
    <3>4. CASE xc # parent
      <4>1. xc \in kept
        BY <1>kept, <2>3, <3>2, <3>4
      <4>2. ~On(xc)
        <5> SUFFICES ASSUME On(xc) PROVE FALSE
          OBVIOUS
        <5>1. n < Len(x) + 1 /\ (\A i \in 1..n : parent[i] = xc[i]) /\ xc[n + 1] = side
          BY <1>8, <1>10, <2>3
        <5>2. CASE Len(x) = n
          <6>1. \A i \in 1..n : x[i] = parent[i]
            BY <2>3, <5>1, <5>2
          <6>2. x = parent
            BY <1>2, <2>2, <5>2, <6>1, SamePath DEF n
          <6> QED BY <2>2, <6>2
        <5>3. CASE Len(x) # n
          <6> HIDE DEF xc
          <6>1. n < Len(x) /\ (\A i \in 1..n : parent[i] = x[i]) /\ x[n + 1] = side
            BY <1>2, <2>3, <2>5, <5>1, <5>3
          <6>2. On(x)
            BY <1>8, <1>10, <6>1
          <6> QED BY <2>7, <6>2
        <5> QED BY <5>2, <5>3
      <4>3. U(xc) = xc
        BY <1>7, <2>3, <4>2
      <4> QED BY <1>6, <3>1, <4>1, <4>3
    <3> QED BY <3>3, <3>4
  <2> QED BY <2>6, <2>7
<1>18. \A y \in l \cup s : \A p \in Paths : Above(p, y) => p \in s
  <2> SUFFICES ASSUME NEW y \in l \cup s, NEW p \in Paths, Above(p, y) PROVE p \in s
    OBVIOUS
  <2>1. PICK x \in kept : y = U(x)
    BY <1>6
  <2>2. x \in nodes /\ x \in Paths /\ x # q /\ x # parent /\ y \in Paths
    BY <1>1, <1>13, <1>kept, <2>1
  <2>3. /\ Len(p) \in Nat /\ Len(x) \in Nat /\ Len(y) \in Nat
        /\ Len(p) < Len(y) /\ \A i \in 1..Len(p) : p[i] = y[i]
    BY <1>9, <2>2 DEF Above
  <2>4. ASSUME p \in splits, p # parent, ~On(p) PROVE p \in s
    <3>1. p \in ks /\ U(p) = p
      BY <1>1, <1>7, <2>4 DEF ks
    <3> QED BY <1>6, <3>1
  <2>5. CASE ~On(x)
    <3>1. y = x
      BY <1>7, <2>1, <2>2, <2>5
    <3>2. p \in splits
      BY <2>2, <3>1, AboveIsASplit
    <3>3. p # parent
      <4> SUFFICES ASSUME p = parent PROVE FALSE
        OBVIOUS
      <4>1. Above(parent, x)
        BY <3>1
      <4> QED BY <1>11, <2>2, <2>5, <4>1
    <3>4. ~On(p)
      <4> SUFFICES ASSUME On(p) PROVE FALSE
        OBVIOUS
      <4>1. n < Len(p) /\ (\A i \in 1..n : parent[i] = p[i]) /\ p[n + 1] = side
        BY <1>8, <1>10
      <4>2. n < Len(x) /\ (\A i \in 1..n : parent[i] = x[i]) /\ x[n + 1] = side
        BY <1>2, <2>3, <3>1, <4>1
      <4>3. On(x)
        BY <1>8, <1>10, <4>2
      <4> QED BY <2>5, <4>3
    <3> QED BY <2>4, <3>2, <3>3, <3>4
  <2>6. CASE On(x)
    <3>1. /\ Len(y) = Len(x) - 1 /\ Len(x) > n
          /\ \A i \in 1..(Len(x) - 1) : y[i] = IF i <= n THEN x[i] ELSE x[i + 1]
      BY <1>7, <2>1, <2>2, <2>6
    <3>2. n < Len(x) /\ (\A i \in 1..n : parent[i] = x[i]) /\ x[n + 1] = side
      BY <1>8, <1>10, <2>6
    <3>3. CASE Len(p) < n
      <4>1. \A i \in 1..Len(p) : p[i] = x[i] /\ p[i] = parent[i]
        BY <1>2, <2>3, <3>1, <3>2, <3>3
      <4>2. Above(p, x)
        BY <2>3, <3>1, <4>1 DEF Above
      <4>3. p \in splits
        BY <2>2, <4>2, AboveIsASplit
      <4>4. p # parent /\ ~On(p)
        BY <1>2, <1>8, <1>10, <2>3, <3>3 DEF n
      <4> QED BY <2>4, <4>3, <4>4
    <3>4. CASE ~(Len(p) < n)
      <4> DEFINE z == SubSeq(x, 1, Len(p) + 1)
      <4>1. Len(p) + 1 \in 0..(Len(x) - 1)
        BY <2>3, <3>1
      <4>2. /\ z \in Paths /\ Len(z) = Len(p) + 1 /\ Above(z, x)
            /\ \A i \in 1..(Len(p) + 1) : z[i] = x[i]
        BY <2>2, <4>1, PrefixPath
      <4>3. z \in splits
        BY <2>2, <4>2, AboveIsASplit
      <4> HIDE DEF z
      <4>4. n < Len(z) /\ (\A i \in 1..n : parent[i] = z[i]) /\ z[n + 1] = side
        BY <1>2, <2>3, <3>2, <3>4, <4>2
      <4>5. On(z)
        BY <1>8, <1>10, <4>4
      <4>6. z # q /\ z # parent
        BY <1>1, <1>2, <4>3, <4>4 DEF n
      <4>7. z \in ks
        BY <4>3, <4>6 DEF ks
      <4>8. /\ U(z) \in Paths /\ Len(U(z)) = Len(z) - 1
            /\ \A i \in 1..(Len(z) - 1) : U(z)[i] = IF i <= n THEN z[i] ELSE z[i + 1]
        BY <1>7, <4>2, <4>5
      <4>9. Len(U(z)) = Len(p)
        BY <2>3, <4>2, <4>8
      <4>10. ASSUME NEW i \in 1..Len(p) PROVE U(z)[i] = p[i]
        <5>1. /\ i \in 1..(Len(z) - 1) /\ i \in 1..(Len(p) + 1) /\ i + 1 \in 1..(Len(p) + 1)
              /\ i \in 1..(Len(x) - 1)
          BY <2>3, <3>1, <4>2
        <5>2. U(z)[i] = IF i <= n THEN x[i] ELSE x[i + 1]
          BY <4>2, <4>8, <5>1
        <5>3. p[i] = IF i <= n THEN x[i] ELSE x[i + 1]
          BY <2>3, <3>1, <5>1
        <5> QED BY <5>2, <5>3
      <4>11. U(z) = p
        BY <4>8, <4>9, <4>10, SamePath
      <4> QED BY <1>6, <4>7, <4>11
    <3> QED BY <3>3, <3>4
  <2> QED BY <2>5, <2>6
<1>19. IsFiniteSet(l) /\ IsFiniteSet(s) /\ Cardinality(l) = Cardinality(s) + 1
  <2>1. IsFiniteSet(leaves) /\ IsFiniteSet(splits) /\ Cardinality(leaves) = Cardinality(splits) + 1
    BY DEF Shape
  <2>2. kl = leaves \ {q} /\ ks = splits \ {parent}
    BY <1>1, <1>kept DEF ks
  <2>3. /\ IsFiniteSet(kl) /\ Cardinality(kl) = Cardinality(leaves) - 1
        /\ IsFiniteSet(ks) /\ Cardinality(ks) = Cardinality(splits) - 1
    BY <1>3, <2>1, <2>2, FS_RemoveElement
  <2>4. IsFiniteSet(l) /\ Cardinality(l) = Cardinality(kl)
    <3> DEFINE f == [x \in kl |-> U(x)]
    <3>1. l = {f[x] : x \in kl} /\ \A x, y \in kl : f[x] = f[y] => x = y
      <4>1. \A x \in kl : f[x] = U(x)
        OBVIOUS
      <4> HIDE DEF f
      <4> QED BY <1>6, <1>12, <4>1
    <3>2. f = [x \in kl |-> f[x]]
      OBVIOUS
    <3> HIDE DEF f
    <3> QED BY <2>3, <3>1, <3>2, SameSize
  <2>5. IsFiniteSet(s) /\ Cardinality(s) = Cardinality(ks)
    <3> DEFINE f == [x \in ks |-> U(x)]
    <3>1. s = {f[x] : x \in ks} /\ \A x, y \in ks : f[x] = f[y] => x = y
      <4>1. \A x \in ks : f[x] = U(x)
        OBVIOUS
      <4> HIDE DEF f
      <4> QED BY <1>6, <1>12, <4>1
    <3>2. f = [x \in ks |-> f[x]]
      OBVIOUS
    <3> HIDE DEF f
    <3> QED BY <2>3, <3>1, <3>2, SameSize
  <2>6. Cardinality(leaves) \in Nat /\ Cardinality(splits) \in Nat
    BY <2>1, FS_CardinalityType
  <2> QED BY <2>1, <2>3, <2>4, <2>5, <2>6
<1>20. Shape(l, s)
  BY <1>13, <1>14, <1>16, <1>17, <1>18, <1>19, ShapeFrom
<1>21. \A x, y \in kl : U(x) = U(y) => x = y
  BY <1>12
<1> QED BY <1>20, <1>21, <1>kept DEF l, s, U, parent, side, kl, ks

LEMMA RemoveTree ==
    ASSUME Bounds, NEW n \in Nat, NEW root, PaneTree(root, n), NEW id \in pane_ids(root),
           PathOf(root, id) # <<>>
    PROVE  /\ PaneTree(remove_pane(root, id), n)
           /\ panes(remove_pane(root, id)) = panes(root) \ {root.leaves[PathOf(root, id)]}
<1> DEFINE r == remove_pane(root, id)
           q == PathOf(root, id)
           parent == Front(q)
           side == 1 - Last(q)
           leaves == DOMAIN root.leaves
           splits == DOMAIN root.splits
           kl == leaves \ {q, parent}
           ks == splits \ {q, parent}
           U(x) == Lift(parent, side, x)
           l == Lifted(parent, side, kl)
           s == Lifted(parent, side, ks)
<1>1. q \in leaves /\ Shape(leaves, splits)
  BY PathOfIs DEF PaneTree
<1>2. Shape(l, s) /\ (\A x, y \in kl : U(x) = U(y) => x = y) /\ kl = leaves \ {q}
  <2> HIDE DEF q, leaves, splits
  <2> QED BY <1>1, LiftedShape DEF q
<1>3. /\ r = [leaves |-> r.leaves, splits |-> r.splits]
      /\ r.leaves = [y \in l |-> root.leaves[CHOOSE x \in kl : U(x) = y]]
      /\ r.splits = [y \in s |-> root.splits[CHOOSE x \in ks : U(x) = y]]
  BY DEF remove_pane, Lifted, Lift
<1>4. /\ \A x : x \in kl => U(x) \in l
      /\ \A y \in l : \E x \in kl : y = U(x)
  BY DEF Lifted
<1>5. /\ \A x \in leaves : root.leaves[x].id \in 1..n
      /\ \A x, y \in leaves : root.leaves[x].id = root.leaves[y].id => x = y
      /\ \A x \in ks : root.splits[x] \in Divisions
      /\ Cardinality(splits) <= MaxSplits /\ IsFiniteSet(splits) /\ ks \subseteq splits
  BY DEF PaneTree, Shape
<1>a. s = {U(x) : x \in ks}
  BY DEF Lifted
<1> HIDE DEF r, q, parent, side, leaves, splits, kl, ks, U, l, s
<1>6. DOMAIN r.leaves = l
  BY <1>3
<1>7. ASSUME NEW x \in kl PROVE r.leaves[U(x)] = root.leaves[x]
  <2>1. U(x) \in l /\ (CHOOSE z \in kl : U(z) = U(x)) = x
    BY <1>2, <1>4
  <2> QED BY <1>3, <2>1
<1>8. panes(r) = panes(root) \ {root.leaves[q]}
  <2>1. panes(r) = {root.leaves[x] : x \in kl}
    <3>1. panes(r) = {r.leaves[y] : y \in l}
      BY <1>6 DEF panes
    <3>2. {r.leaves[y] : y \in l} \subseteq {root.leaves[x] : x \in kl}
      BY <1>4, <1>7
    <3>3. {root.leaves[x] : x \in kl} \subseteq {r.leaves[y] : y \in l}
      BY <1>4, <1>7
    <3> QED BY <3>1, <3>2, <3>3
  <2>2. \A x \in leaves : x # q => root.leaves[x] # root.leaves[q]
    BY <1>1, <1>5
  <2>3. panes(root) = {root.leaves[x] : x \in leaves}
    BY DEF panes, leaves
  <2> QED BY <1>1, <1>2, <2>1, <2>2, <2>3
<1>9. \A x \in DOMAIN r.leaves : r.leaves[x].id \in 1..n
  BY <1>2, <1>4, <1>5, <1>6, <1>7
<1>10. \A x, y \in DOMAIN r.leaves : r.leaves[x].id = r.leaves[y].id => x = y
  <2> SUFFICES ASSUME NEW x \in l, NEW y \in l, r.leaves[x].id = r.leaves[y].id PROVE x = y
    BY <1>6
  <2>1. PICK v \in kl : x = U(v)
    BY <1>4
  <2>2. PICK w \in kl : y = U(w)
    BY <1>4
  <2>3. root.leaves[v].id = root.leaves[w].id /\ v \in leaves /\ w \in leaves
    BY <1>2, <1>7, <2>1, <2>2
  <2>4. v = w
    BY <1>5, <2>3
  <2> QED BY <2>1, <2>2, <2>4
<1>11. \A y \in DOMAIN r.splits : r.splits[y] \in Divisions
  BY <1>3, <1>5, <1>a
<1>12. Cardinality(DOMAIN r.splits) <= MaxSplits
  <2> DEFINE f == [x \in ks |-> U(x)]
  <2>1. f = [x \in ks |-> f[x]] /\ s = {f[x] : x \in ks}
    BY <1>a
  <2> HIDE DEF f
  <2>2. IsFiniteSet(ks) /\ Cardinality(ks) <= Cardinality(splits)
    BY <1>5, FS_Subset
  <2>3. Cardinality(s) <= Cardinality(ks)
    BY <2>1, <2>2, ImageSize
  <2>4. /\ DOMAIN r.splits = s /\ Cardinality(s) \in Nat /\ Cardinality(ks) \in Nat
        /\ Cardinality(splits) \in Nat
    BY <1>2, <1>3, <1>5, <2>2, FS_CardinalityType DEF Shape
  <2> QED BY <1>5, <2>2, <2>3, <2>4 DEF Bounds
<1>13. PaneTree(r, n)
  BY <1>2, <1>3, <1>6, <1>9, <1>10, <1>11, <1>12 DEF PaneTree
<1> QED BY <1>8, <1>13 DEF r, q

-----------------------------------------------------------------------------
(* What leaves the shape of a tree alone.                                  *)

(* New contents, under the old ids.                                        *)
LEMMA SameIdsTree ==
    ASSUME NEW n \in Nat, NEW root, PaneTree(root, n), NEW r,
           r = [leaves |-> r.leaves, splits |-> r.splits],
           DOMAIN r.leaves = DOMAIN root.leaves, DOMAIN r.splits = DOMAIN root.splits,
           \A p \in DOMAIN root.splits : r.splits[p] \in Divisions,
           \A q \in DOMAIN root.leaves : r.leaves[q].id = root.leaves[q].id
    PROVE  PaneTree(r, n) /\ pane_ids(r) = pane_ids(root)
<1>1. PaneTree(r, n)
  BY DEF PaneTree
<1>2. /\ \A i \in pane_ids(r) : i \in pane_ids(root)
      /\ \A i \in pane_ids(root) : i \in pane_ids(r)
  <2>1. pane_ids(r) = {r.leaves[q].id : q \in DOMAIN r.leaves}
    BY DEF pane_ids, panes
  <2>2. pane_ids(root) = {root.leaves[q].id : q \in DOMAIN root.leaves}
    BY DEF pane_ids, panes
  <2> QED BY <2>1, <2>2
<1> QED BY <1>1, <1>2

LEMMA SwapTree ==
    ASSUME NEW n \in Nat, NEW root, PaneTree(root, n),
           NEW a \in pane_ids(root), NEW b \in pane_ids(root)
    PROVE  LET r == swap_contents(root, a, b)
           IN /\ PaneTree(r, n) /\ pane_ids(r) = pane_ids(root)
              /\ EidsOf(panes(root)) \subseteq EidsOf(panes(r))
<1> DEFINE r == swap_contents(root, a, b)
           l == DOMAIN root.leaves
           shown(id) == root.leaves[PathOf(root, id)].execution_id
<1>1. /\ PathOf(root, a) \in l /\ root.leaves[PathOf(root, a)].id = a
      /\ PathOf(root, b) \in l /\ root.leaves[PathOf(root, b)].id = b
  BY PathOfIs
<1>2. \A x, y \in l : root.leaves[x].id = root.leaves[y].id => x = y
  BY DEF PaneTree
<1>3. /\ r = [leaves |-> r.leaves, splits |-> r.splits] /\ DOMAIN r.leaves = l
      /\ r.splits = root.splits
      /\ \A q \in l : r.leaves[q] =
            CASE root.leaves[q].id = a -> PaneOf(a, shown(b))
              [] root.leaves[q].id = b -> PaneOf(b, shown(a))
              [] OTHER -> root.leaves[q]
  BY DEF swap_contents, PaneTree
<1> HIDE DEF r, shown, l
<1>4. \A q \in l : /\ root.leaves[q].id = a => r.leaves[q] = PaneOf(a, shown(b))
                   /\ root.leaves[q].id = b /\ a # b => r.leaves[q] = PaneOf(b, shown(a))
                   /\ root.leaves[q].id # a /\ root.leaves[q].id # b
                        => r.leaves[q] = root.leaves[q]
  BY <1>3
<1>5. \A q \in l : r.leaves[q].id = root.leaves[q].id
  BY <1>4 DEF PaneOf
<1>6. PaneTree(r, n) /\ pane_ids(r) = pane_ids(root)
  <2>1. \A p \in DOMAIN root.splits : r.splits[p] \in Divisions
    BY <1>3 DEF PaneTree
  <2> QED BY <1>3, <1>5, <2>1, SameIdsTree DEF l
<1>7. ASSUME NEW q \in l
      PROVE  \E x \in l : r.leaves[x].execution_id = root.leaves[q].execution_id
  <2>1. CASE root.leaves[q].id = a
    <3>1. q = PathOf(root, a)
      BY <1>1, <1>2, <2>1
    <3>2. CASE a = b
      BY <1>1, <1>4, <2>1, <3>1, <3>2 DEF PaneOf, shown
    <3>3. CASE a # b
      BY <1>1, <1>4, <2>1, <3>1, <3>3 DEF PaneOf, shown
    <3> QED BY <3>2, <3>3
  <2>2. CASE root.leaves[q].id = b /\ a # b
    <3>1. q = PathOf(root, b)
      BY <1>1, <1>2, <2>2
    <3> QED BY <1>1, <1>4, <2>2, <3>1 DEF PaneOf, shown
  <2>3. CASE root.leaves[q].id # a /\ root.leaves[q].id # b
    BY <1>4, <2>3
  <2> QED BY <2>1, <2>2, <2>3
<1>8. EidsOf(panes(root)) \subseteq EidsOf(panes(r))
  BY <1>3, <1>7 DEF EidsOf, panes, l
<1> QED BY <1>6, <1>8 DEF r

LEMMA RespawnedTree ==
    ASSUME NEW n \in Nat, NEW root, PaneTree(root, n), NEW gen, NEW failed
    PROVE  LET r == Respawned(root, gen, failed)
           IN /\ PaneTree(r, n) /\ pane_ids(r) = pane_ids(root)
              /\ \A p \in panes(root) : p.id \notin failed =>
                    [of |-> p.id, gen |-> gen] \in EidsOf(panes(r))
<1> DEFINE r == Respawned(root, gen, failed)
           l == DOMAIN root.leaves
<1>1. /\ r = [leaves |-> r.leaves, splits |-> r.splits] /\ DOMAIN r.leaves = l
      /\ r.splits = root.splits
      /\ \A q \in l : r.leaves[q] =
            IF root.leaves[q].id \in failed THEN root.leaves[q]
            ELSE PaneOf(root.leaves[q].id, [of |-> root.leaves[q].id, gen |-> gen])
  BY DEF Respawned
<1> HIDE DEF r, l
<1>2. \A q \in l :
         /\ r.leaves[q].id = root.leaves[q].id
         /\ root.leaves[q].id \notin failed =>
               r.leaves[q].execution_id = [of |-> root.leaves[q].id, gen |-> gen]
  <2> TAKE q \in l
  <2>1. CASE root.leaves[q].id \in failed
    <3>1. r.leaves[q] = root.leaves[q]
      BY <1>1, <2>1
    <3> QED BY <2>1, <3>1
  <2>2. CASE root.leaves[q].id \notin failed
    <3> DEFINE e == [of |-> root.leaves[q].id, gen |-> gen]
    <3>1. r.leaves[q] = PaneOf(root.leaves[q].id, e)
      BY <1>1, <2>2
    <3> HIDE DEF e
    <3>2. r.leaves[q].id = root.leaves[q].id /\ r.leaves[q].execution_id = e
      BY <3>1 DEF PaneOf
    <3> QED BY <3>2 DEF e
  <2> QED BY <2>1, <2>2
<1>3. PaneTree(r, n) /\ pane_ids(r) = pane_ids(root)
  <2>1. \A q \in l : r.leaves[q].id = root.leaves[q].id
    BY <1>2
  <2>2. \A p \in DOMAIN root.splits : r.splits[p] \in Divisions
    BY <1>1 DEF PaneTree
  <2> QED BY <1>1, <2>1, <2>2, SameIdsTree DEF l
<1>4. ASSUME NEW p \in panes(root), p.id \notin failed
      PROVE  [of |-> p.id, gen |-> gen] \in EidsOf(panes(r))
  <2>1. PICK q \in l : p = root.leaves[q]
    BY DEF panes, l
  <2>2. r.leaves[q].execution_id = [of |-> p.id, gen |-> gen] /\ r.leaves[q] \in panes(r)
    <3>1. r.leaves[q].execution_id = [of |-> p.id, gen |-> gen]
      BY <1>2, <1>4, <2>1
    <3>2. r.leaves[q] \in panes(r)
      BY <1>1 DEF panes
    <3> QED BY <3>1, <3>2
  <2> QED BY <2>2 DEF EidsOf
<1> QED BY <1>3, <1>4 DEF r

-----------------------------------------------------------------------------
(* Sequences of tabs and of workspaces.                                    *)

LEMMA SeqFacts ==
    ASSUME NEW s, IsSeq(s)
    PROVE  Len(s) \in Nat /\ DOMAIN s = 1..Len(s) /\ (s = <<>> <=> Len(s) = 0)
  BY DEF IsSeq

LEMMA SeqFrom ==
    ASSUME NEW S, NEW s \in Seq(S)
    PROVE  IsSeq(s)
<1> DEFINE R == {s[i] : i \in DOMAIN s}
<1>1. Len(s) \in Nat /\ DOMAIN s = 1..Len(s)
  OBVIOUS
<1>2. \A i \in 1..Len(s) : s[i] \in R
  BY <1>1
<1>3. SubSeq(s, 1, Len(s)) \in Seq(R)
  <2> HIDE DEF R
  <2> QED BY <1>1, <1>2, SubSeqProperties
<1>4. SubSeq(s, 1, Len(s)) = s
  BY SubSeqFull
<1> QED BY <1>3, <1>4 DEF IsSeq

LEMMA SeqIn ==
    ASSUME NEW s, IsSeq(s)
    PROVE  \E S : s \in Seq(S) /\ \A i \in DOMAIN s : s[i] \in S
<1> DEFINE S == {s[i] : i \in DOMAIN s}
<1>1. s \in Seq(S) /\ \A i \in DOMAIN s : s[i] \in S
  BY DEF IsSeq
<1> HIDE DEF S
<1> QED BY <1>1

LEMMA AppendOf ==
    ASSUME NEW s, IsSeq(s), NEW e
    PROVE  /\ IsSeq(Append(s, e)) /\ Len(Append(s, e)) = Len(s) + 1
           /\ \A i \in DOMAIN s : Append(s, e)[i] = s[i]
           /\ Append(s, e)[Len(s) + 1] = e
<1>1. PICK S : s \in Seq(S)
  BY SeqIn
<1>2. s \in Seq(S \cup {e})
  BY <1>1, SeqMonotonic
<1>3. /\ Append(s, e) \in Seq(S \cup {e}) /\ Len(Append(s, e)) = Len(s) + 1
      /\ \A i \in 1..Len(s) : Append(s, e)[i] = s[i]
      /\ Append(s, e)[Len(s) + 1] = e
  BY <1>2, AppendProperties
<1> QED BY <1>3, SeqFrom, SeqFacts

LEMMA ExceptOf ==
    ASSUME NEW s, IsSeq(s), NEW i \in DOMAIN s, NEW e
    PROVE  LET r == [s EXCEPT ![i] = e]
           IN /\ IsSeq(r) /\ Len(r) = Len(s) /\ DOMAIN r = DOMAIN s /\ r[i] = e
              /\ \A j \in DOMAIN s : j # i => r[j] = s[j]
<1> DEFINE r == [s EXCEPT ![i] = e]
<1>1. PICK S : s \in Seq(S)
  BY SeqIn
<1>2. s \in Seq(S \cup {e}) /\ i \in 1..Len(s) /\ DOMAIN s = 1..Len(s)
  BY <1>1, SeqMonotonic, SeqFacts
<1>3. /\ r \in Seq(S \cup {e}) /\ Len(r) = Len(s)
      /\ \A j \in 1..Len(s) : r[j] = IF j = i THEN e ELSE s[j]
  BY <1>2, ExceptSeq
<1>4. IsSeq(r) /\ DOMAIN r = 1..Len(s)
  BY <1>3, SeqFrom, SeqFacts
<1> HIDE DEF r
<1>5. IsSeq(r) /\ Len(r) = Len(s) /\ DOMAIN r = DOMAIN s /\ r[i] = e
      /\ \A j \in DOMAIN s : j # i => r[j] = s[j]
  BY <1>2, <1>3, <1>4
<1> QED BY <1>5 DEF r

LEMMA PartOf ==
    ASSUME NEW S, NEW s \in Seq(S), NEW m \in Nat, NEW n \in Nat,
           1 <= m, m <= n + 1, n <= Len(s)
    PROVE  /\ SubSeq(s, m, n) \in Seq(S) /\ Len(SubSeq(s, m, n)) = n - m + 1
           /\ \A i \in 1..(n - m + 1) : SubSeq(s, m, n)[i] = s[m + i - 1]
<1>1. \A i \in m..n : s[i] \in S
  BY ElementOfSeq
<1> QED BY <1>1, SubSeqProperties

LEMMA RemoveAtOf ==
    ASSUME NEW s, IsSeq(s), NEW i \in DOMAIN s
    PROVE  LET r == RemoveAt(s, i)
           IN /\ IsSeq(r) /\ Len(r) = Len(s) - 1
              /\ \A j \in DOMAIN r : \E k \in DOMAIN s : k # i /\ r[j] = s[k]
              /\ \A j \in DOMAIN s : j # i => \E k \in DOMAIN r : r[k] = s[j]
<1> DEFINE r == RemoveAt(s, i)
           a == SubSeq(s, 1, i - 1)
           b == SubSeq(s, i + 1, Len(s))
<1>1. PICK S : s \in Seq(S)
  BY SeqIn
<1>2. Len(s) \in Nat /\ DOMAIN s = 1..Len(s) /\ i \in Nat /\ 1 <= i /\ i <= Len(s)
  BY SeqFacts
<1>3. /\ a \in Seq(S) /\ Len(a) = i - 1
      /\ \A j \in 1..(i - 1) : a[j] = s[j]
  <2>1. i - 1 \in Nat
    BY <1>2
  <2>2. /\ a \in Seq(S) /\ Len(a) = (i - 1) - 1 + 1
        /\ \A j \in 1..((i - 1) - 1 + 1) : a[j] = s[1 + j - 1]
    BY <1>1, <1>2, <2>1, PartOf
  <2> HIDE DEF a
  <2> QED BY <1>2, <2>2
<1>4. /\ b \in Seq(S) /\ Len(b) = Len(s) - i
      /\ \A j \in 1..(Len(s) - i) : b[j] = s[i + j]
  <2>1. i + 1 \in Nat
    BY <1>2
  <2>2. /\ b \in Seq(S) /\ Len(b) = Len(s) - (i + 1) + 1
        /\ \A j \in 1..(Len(s) - (i + 1) + 1) : b[j] = s[(i + 1) + j - 1]
    BY <1>1, <1>2, <2>1, PartOf
  <2> HIDE DEF b
  <2> QED BY <1>2, <2>2
<1>5. r = a \o b
  BY DEF RemoveAt
<1> HIDE DEF a, b, r
<1>6. /\ r \in Seq(S) /\ Len(r) = Len(s) - 1
      /\ \A j \in 1..(Len(s) - 1) : r[j] = IF j <= i - 1 THEN a[j] ELSE b[j - (i - 1)]
  <2>1. /\ r \in Seq(S) /\ Len(r) = Len(a) + Len(b)
        /\ \A j \in 1..(Len(a) + Len(b)) : r[j] = IF j <= Len(a) THEN a[j] ELSE b[j - Len(a)]
    BY <1>3, <1>4, <1>5, ConcatProperties
  <2>2. Len(a) + Len(b) = Len(s) - 1
    BY <1>2, <1>3, <1>4
  <2> QED BY <1>2, <1>3, <2>1, <2>2
<1>7. IsSeq(r) /\ DOMAIN r = 1..(Len(s) - 1)
  BY <1>6, SeqFrom, SeqFacts
<1>8. ASSUME NEW j \in DOMAIN r
      PROVE  r[j] = s[IF j < i THEN j ELSE j + 1]
             /\ (IF j < i THEN j ELSE j + 1) \in DOMAIN s \ {i}
  <2>1. j \in 1..(Len(s) - 1)
    BY <1>7
  <2>2. CASE j < i
    BY <1>2, <1>3, <1>6, <2>1, <2>2
  <2>3. CASE ~(j < i)
    <3>1. /\ j - (i - 1) \in 1..(Len(s) - i) /\ i + (j - (i - 1)) = j + 1
          /\ ~(j <= i - 1)
      BY <1>2, <2>1, <2>3
    <3>2. r[j] = b[j - (i - 1)]
      BY <1>6, <2>1, <3>1
    <3>3. r[j] = s[j + 1]
      BY <1>4, <3>1, <3>2
    <3> QED BY <1>2, <2>1, <2>3, <3>3
  <2> QED BY <2>2, <2>3
<1>9. ASSUME NEW j \in DOMAIN s, j # i PROVE \E k \in DOMAIN r : r[k] = s[j]
  <2>1. CASE j < i
    <3>1. j \in DOMAIN r
      BY <1>2, <1>7, <2>1
    <3> QED BY <1>8, <2>1, <3>1
  <2>2. CASE ~(j < i)
    <3>1. j - 1 \in DOMAIN r /\ ~(j - 1 < i) /\ (j - 1) + 1 = j
      BY <1>2, <1>7, <1>9, <2>2
    <3> QED BY <1>8, <3>1
  <2> QED BY <2>1, <2>2
<1>10. IsSeq(r) /\ Len(r) = Len(s) - 1
  BY <1>6, <1>7
<1>11. \A j \in DOMAIN r : \E k \in DOMAIN s : k # i /\ r[j] = s[k]
  BY <1>8
<1> QED BY <1>9, <1>10, <1>11 DEF r

LEMMA InsertAtOf ==
    ASSUME NEW s, IsSeq(s), NEW i \in 1..(Len(s) + 1), NEW e
    PROVE  LET r == InsertAt(s, i, e)
           IN /\ IsSeq(r)
              /\ \A j \in DOMAIN r : r[j] = e \/ \E k \in DOMAIN s : r[j] = s[k]
              /\ \E j \in DOMAIN r : r[j] = e
              /\ \A k \in DOMAIN s : \E j \in DOMAIN r : r[j] = s[k]
<1> DEFINE r == InsertAt(s, i, e)
           a == SubSeq(s, 1, i - 1)
           b == SubSeq(s, i, Len(s))
           n == Len(s)
<1>1. PICK S0 : s \in Seq(S0)
  BY SeqIn
<1> DEFINE S == S0 \cup {e}
<1>2. s \in Seq(S)
  BY <1>1, SeqMonotonic
<1>3. n \in Nat /\ DOMAIN s = 1..n /\ i \in Nat /\ 1 <= i /\ i <= n + 1
  BY SeqFacts
<1>4. <<e>> \in Seq(S) /\ Len(<<e>>) = 1 /\ <<e>>[1] = e
  OBVIOUS
<1> HIDE DEF S
<1>5. /\ a \in Seq(S) /\ Len(a) = i - 1
      /\ \A j \in 1..(i - 1) : a[j] = s[j]
  <2>1. i - 1 \in Nat
    BY <1>3
  <2>2. /\ a \in Seq(S) /\ Len(a) = (i - 1) - 1 + 1
        /\ \A j \in 1..((i - 1) - 1 + 1) : a[j] = s[1 + j - 1]
    BY <1>2, <1>3, <2>1, PartOf
  <2> HIDE DEF a
  <2> QED BY <1>3, <2>2
<1>6. /\ b \in Seq(S) /\ Len(b) = n - i + 1
      /\ \A j \in 1..(n - i + 1) : b[j] = s[i + j - 1]
  BY <1>2, <1>3, PartOf
<1>7. r = (a \o <<e>>) \o b
  BY DEF InsertAt
<1> HIDE DEF a, b, r, n
<1> DEFINE c == a \o <<e>>
<1>8. /\ c \in Seq(S) /\ Len(c) = i /\ c[i] = e
      /\ \A j \in 1..(i - 1) : c[j] = s[j]
  <2>1. /\ c \in Seq(S) /\ Len(c) = Len(a) + Len(<<e>>)
        /\ \A j \in 1..(Len(a) + Len(<<e>>)) : c[j] = IF j <= Len(a) THEN a[j] ELSE <<e>>[j - Len(a)]
    BY <1>4, <1>5, ConcatProperties
  <2>2. Len(a) + Len(<<e>>) = i /\ i - Len(a) = 1 /\ ~(i <= Len(a)) /\ Len(a) = i - 1
    BY <1>3, <1>4, <1>5
  <2> HIDE DEF c
  <2>3. c[i] = <<e>>[i - Len(a)]
    BY <1>3, <2>1, <2>2
  <2>4. c[i] = e
    BY <1>4, <2>2, <2>3
  <2>5. \A j \in 1..(i - 1) : c[j] = s[j]
    BY <1>3, <1>5, <2>1, <2>2
  <2> QED BY <2>1, <2>2, <2>4, <2>5
<1>c. r = c \o b
  BY <1>7
<1> HIDE DEF c
<1>9. /\ r \in Seq(S) /\ Len(r) = n + 1
      /\ \A j \in 1..(n + 1) : r[j] = IF j <= i THEN c[j] ELSE b[j - i]
  <2>1. /\ r \in Seq(S) /\ Len(r) = Len(c) + Len(b)
        /\ \A j \in 1..(Len(c) + Len(b)) : r[j] = IF j <= Len(c) THEN c[j] ELSE b[j - Len(c)]
    <3>1. c \in Seq(S) /\ b \in Seq(S)
      BY <1>6, <1>8
    <3> QED BY <3>1, <1>c, ConcatProperties
  <2>2. Len(c) + Len(b) = n + 1
    BY <1>3, <1>6, <1>8
  <2> QED BY <1>3, <1>8, <2>1, <2>2
<1>10. IsSeq(r) /\ DOMAIN r = 1..(n + 1)
  BY <1>9, SeqFrom, SeqFacts
<1>11. r[i] = e /\ i \in DOMAIN r
  BY <1>3, <1>8, <1>9, <1>10
<1>12. ASSUME NEW j \in DOMAIN r PROVE r[j] = e \/ \E k \in DOMAIN s : r[j] = s[k]
  <2>1. j \in 1..(n + 1)
    BY <1>10
  <2>2. CASE j < i
    <3>1. j \in DOMAIN s /\ r[j] = s[j]
      BY <1>3, <1>8, <1>9, <2>1, <2>2
    <3> QED BY <3>1
  <2>3. CASE j = i
    BY <1>11, <2>3
  <2>4. CASE j > i
    <3>1. j - i \in 1..(n - i + 1) /\ i + (j - i) - 1 = j - 1 /\ j - 1 \in DOMAIN s
      BY <1>3, <2>1, <2>4
    <3>2. r[j] = b[j - i]
      <4>1. ~(j <= i)
        BY <1>3, <2>1, <2>4
      <4> QED BY <1>9, <2>1, <4>1
    <3>3. r[j] = s[j - 1]
      BY <1>6, <3>1, <3>2
    <3> QED BY <3>1, <3>3
  <2> QED BY <1>3, <2>1, <2>2, <2>3, <2>4
<1>13. ASSUME NEW k \in DOMAIN s PROVE \E j \in DOMAIN r : r[j] = s[k]
  <2>1. CASE k < i
    <3>1. k \in DOMAIN r /\ r[k] = s[k]
      BY <1>3, <1>8, <1>9, <1>10, <2>1
    <3> QED BY <3>1
  <2>2. CASE ~(k < i)
    <3>1. /\ k + 1 \in 1..(n + 1) /\ ~(k + 1 <= i)
          /\ (k + 1) - i \in 1..(n - i + 1) /\ i + ((k + 1) - i) - 1 = k
      BY <1>3, <2>2
    <3>2. r[k + 1] = b[(k + 1) - i]
      BY <1>9, <3>1
    <3>3. r[k + 1] = s[k]
      BY <1>6, <3>1, <3>2
    <3> QED BY <1>10, <3>1, <3>3
  <2> QED BY <2>1, <2>2
<1> QED BY <1>10, <1>11, <1>12, <1>13 DEF r

-----------------------------------------------------------------------------
(* The state: a call replaces the active workspace, or its active tab.     *)

LEMMA WorkspaceGrows ==
    ASSUME NEW ws, NEW n \in Nat, NEW m \in Nat, n <= m, WorkspaceOK(ws, n)
    PROVE  WorkspaceOK(ws, m)
<1>1. ASSUME NEW root, PaneTree(root, n) PROVE PaneTree(root, m)
  <2>1. \A q \in DOMAIN root.leaves : root.leaves[q].id \in 1..m
    BY <1>1 DEF PaneTree
  <2> QED BY <1>1, <2>1 DEF PaneTree
<1> QED BY <1>1 DEF WorkspaceOK, TabOK

LEMMA EidsInWorkspace ==
    ASSUME NEW ws, NEW e
    PROVE  e \in EidsOf(PanesIn(ws))
             <=> \E j \in DOMAIN ws.tabs : e \in EidsOf(panes(ws.tabs[j].root))
<1>1. \A p : p \in PanesIn(ws) <=> \E j \in DOMAIN ws.tabs : p \in panes(ws.tabs[j].root)
  BY DEF PanesIn
<1>2. \A ps : e \in EidsOf(ps) <=> \E p \in ps : e = p.execution_id
  BY DEF EidsOf
<1> QED BY <1>1, <1>2

(* The tab a call is about.                                                *)
LEMMA TheTab ==
    ASSUME PanesInv, HasTab
    PROVE  LET i == TabIndex(Workspace, Workspace.active_tab)
           IN /\ i \in DOMAIN Workspace.tabs /\ Tab = Workspace.tabs[i]
              /\ Tab.id = Workspace.active_tab /\ TabOK(Tab, made)
              /\ WorkspaceOK(Workspace, made) /\ active \in DOMAIN workspaces
<1>1. WorkspaceOK(Workspace, made) /\ active \in DOMAIN workspaces
  BY DEF PanesInv, Workspace
<1>2. \E i \in DOMAIN Workspace.tabs : Workspace.tabs[i].id = Workspace.active_tab
  BY DEF HasTab, TabIds
<1> DEFINE i == TabIndex(Workspace, Workspace.active_tab)
<1>3. i \in DOMAIN Workspace.tabs /\ Workspace.tabs[i].id = Workspace.active_tab
  BY <1>2 DEF TabIndex
<1>4. Tab = Workspace.tabs[i]
  BY DEF Tab
<1>5. TabOK(Tab, made)
  BY <1>1, <1>3, <1>4 DEF WorkspaceOK
<1> QED BY <1>1, <1>3, <1>4, <1>5

LEMMA WorkspaceReplaced ==
    ASSUME PanesInv, NEW ws, WorkspaceOK(ws, made'), made' \in Nat, made <= made', made' <= MaxIds,
           workspaces' = [workspaces EXCEPT ![active] = ws], active' = active,
           headless' \subseteq sessions',
           NEW killed, NEW added,
           sessions' \subseteq (sessions \ killed) \cup added,
           headless \ killed \subseteq headless',
           EidsOf(PanesIn(Workspace)) \ killed \subseteq EidsOf(PanesIn(ws)),
           added \subseteq EidsOf(PanesIn(ws)) \cup headless'
    PROVE  PanesInv'
<1>1. IsSeq(workspaces) /\ active \in DOMAIN workspaces /\ made \in Nat
  BY DEF PanesInv
<1>2. /\ IsSeq(workspaces') /\ Len(workspaces') = Len(workspaces)
      /\ DOMAIN workspaces' = DOMAIN workspaces /\ workspaces'[active] = ws
      /\ \A j \in DOMAIN workspaces : j # active => workspaces'[j] = workspaces[j]
  <2> DEFINE r == [workspaces EXCEPT ![active] = ws]
  <2>1. /\ IsSeq(r) /\ Len(r) = Len(workspaces) /\ DOMAIN r = DOMAIN workspaces
        /\ r[active] = ws /\ \A j \in DOMAIN workspaces : j # active => r[j] = workspaces[j]
    BY ONLY <1>1, ExceptOf
  <2>2. workspaces' = r
    OBVIOUS
  <2> HIDE DEF r
  <2> QED BY <2>1, <2>2
<1>3. \A i \in DOMAIN workspaces' : WorkspaceOK(workspaces'[i], made')
  <2> TAKE i \in DOMAIN workspaces'
  <2>1. CASE i = active
    BY <1>2, <2>1
  <2>2. CASE i # active
    <3>1. WorkspaceOK(workspaces[i], made) /\ workspaces'[i] = workspaces[i]
      BY <1>2, <2>2 DEF PanesInv
    <3> QED BY <1>1, <3>1, WorkspaceGrows
  <2> QED BY <2>1, <2>2
<1>4. \A e \in sessions' : e \notin headless' =>
         \E i \in DOMAIN workspaces' : e \in EidsOf(PanesIn(workspaces'[i]))
  <2> SUFFICES ASSUME NEW e \in sessions', e \notin headless'
               PROVE  \E i \in DOMAIN workspaces' : e \in EidsOf(PanesIn(workspaces'[i]))
    OBVIOUS
  <2>1. CASE e \in added
    BY <1>1, <1>2, <2>1
  <2>2. CASE e \notin added
    <3>1. e \in sessions /\ e \notin killed /\ e \notin headless
      BY <2>2
    <3>2. PICK i \in DOMAIN workspaces : e \in EidsOf(PanesIn(workspaces[i]))
      BY <3>1 DEF PanesInv, NoSessionLeaks, AllEids
    <3>3. CASE i = active
      <4>1. e \in EidsOf(PanesIn(Workspace))
        BY <3>2, <3>3 DEF Workspace
      <4> QED BY <1>1, <1>2, <3>1, <4>1
    <3>4. CASE i # active
      BY <1>2, <3>2, <3>4
    <3> QED BY <3>3, <3>4
  <2> QED BY <2>1, <2>2
<1>5. NoSessionLeaks'
  BY <1>4 DEF NoSessionLeaks, AllEids
<1>6. Len(workspaces) <= MaxWorkspaces
  BY DEF PanesInv
<1> QED BY <1>1, <1>2, <1>3, <1>5, <1>6 DEF PanesInv

LEMMA TabReplaced ==
    ASSUME PanesInv, HasTab, NEW t, TabOK(t, made'), t.id = Tab.id, PutTab(t),
           made' \in Nat, made <= made', made' <= MaxIds, active' = active,
           headless' \subseteq sessions',
           NEW killed, NEW added,
           sessions' \subseteq (sessions \ killed) \cup added,
           headless \ killed \subseteq headless',
           EidsOf(panes(Tab.root)) \ killed \subseteq EidsOf(panes(t.root)),
           added \subseteq EidsOf(panes(t.root)) \cup headless'
    PROVE  PanesInv'
<1> DEFINE i == TabIndex(Workspace, Workspace.active_tab)
           ws == [Workspace EXCEPT !.tabs[i] = t]
           tabs == Workspace.tabs
<1>1. /\ i \in DOMAIN tabs /\ Tab = tabs[i] /\ Tab.id = Workspace.active_tab
      /\ TabOK(Tab, made) /\ WorkspaceOK(Workspace, made) /\ active \in DOMAIN workspaces
  BY TheTab
<1>2. workspaces' = [workspaces EXCEPT ![active] = ws]
  BY <1>1 DEF PutTab, Put
<1>3. IsSeq(tabs) /\ made \in Nat
      /\ Workspace = [id |-> Workspace.id, tabs |-> tabs, active_tab |-> Workspace.active_tab]
  BY <1>1 DEF WorkspaceOK, PanesInv
<1>4. /\ ws = [id |-> Workspace.id, tabs |-> ws.tabs, active_tab |-> Workspace.active_tab]
      /\ ws.tabs = [tabs EXCEPT ![i] = t]
  BY <1>3
<1> HIDE DEF ws, i, tabs
<1>5. /\ IsSeq(ws.tabs) /\ DOMAIN ws.tabs = DOMAIN tabs /\ ws.tabs[i] = t
      /\ \A j \in DOMAIN tabs : j # i => ws.tabs[j] = tabs[j]
  <2> DEFINE r == [tabs EXCEPT ![i] = t]
  <2>1. /\ IsSeq(r) /\ DOMAIN r = DOMAIN tabs /\ r[i] = t
        /\ \A j \in DOMAIN tabs : j # i => r[j] = tabs[j]
    BY <1>1, <1>3, ExceptOf
  <2>2. ws.tabs = r
    BY <1>4
  <2> HIDE DEF r
  <2> QED BY <2>1, <2>2
<1>6. WorkspaceOK(ws, made')
  <2>1. WorkspaceOK(Workspace, made')
    BY <1>1, <1>3, WorkspaceGrows
  <2>2. \A j \in DOMAIN ws.tabs : TabOK(ws.tabs[j], made')
    <3> TAKE j \in DOMAIN ws.tabs
    <3>1. CASE j = i
      BY <1>5, <3>1
    <3>2. CASE j # i
      BY <1>5, <2>1, <3>2 DEF WorkspaceOK, tabs
    <3> QED BY <3>1, <3>2
  <2>3. ws.active_tab = t.id /\ ws.id = Workspace.id
    BY <1>1, <1>4
  <2>4. ws.active_tab \in TabIds(ws)
    BY <1>1, <1>5, <2>3 DEF TabIds
  <2>5. ws = [id |-> ws.id, tabs |-> ws.tabs, active_tab |-> ws.active_tab]
    BY <1>4
  <2> QED BY <1>5, <2>2, <2>4, <2>5 DEF WorkspaceOK
<1>7. EidsOf(panes(t.root)) \subseteq EidsOf(PanesIn(ws))
  BY <1>1, <1>5, EidsInWorkspace
<1>8. EidsOf(PanesIn(Workspace)) \ killed \subseteq EidsOf(PanesIn(ws))
  <2> SUFFICES ASSUME NEW e \in EidsOf(PanesIn(Workspace)), e \notin killed
               PROVE  e \in EidsOf(PanesIn(ws))
    OBVIOUS
  <2>1. PICK j \in DOMAIN tabs : e \in EidsOf(panes(tabs[j].root))
    BY EidsInWorkspace DEF tabs
  <2>2. CASE j = i
    BY <1>1, <1>7, <2>1, <2>2
  <2>3. CASE j # i
    <3>1. j \in DOMAIN ws.tabs /\ e \in EidsOf(panes(ws.tabs[j].root))
      BY <1>5, <2>1, <2>3
    <3> QED BY <3>1, EidsInWorkspace
  <2> QED BY <2>2, <2>3
<1>9. added \subseteq EidsOf(PanesIn(ws)) \cup headless'
  BY <1>7
<1> QED BY <1>2, <1>6, <1>8, <1>9, WorkspaceReplaced

(* A call that changes the tab and no session.                             *)
LEMMA TabChanged ==
    ASSUME PanesInv, HasTab, NEW t, TabOK(t, made), t.id = Tab.id, PutTab(t),
           UNCHANGED <<active, sessions, headless, made>>,
           EidsOf(panes(Tab.root)) \subseteq EidsOf(panes(t.root))
    PROVE  PanesInv'
<1>1. /\ made' \in Nat /\ made <= made' /\ made' <= MaxIds
      /\ TabOK(t, made') /\ headless' \subseteq sessions'
  BY DEF PanesInv
<1>2. /\ sessions' \subseteq (sessions \ {}) \cup {} /\ headless \ {} \subseteq headless'
      /\ EidsOf(panes(Tab.root)) \ {} \subseteq EidsOf(panes(t.root))
  OBVIOUS
<1> QED BY <1>1, <1>2, TabReplaced

(* A call that changes the workspace and no session.                       *)
LEMMA WorkspaceChanged ==
    ASSUME PanesInv, NEW ws, WorkspaceOK(ws, made), Put(ws),
           UNCHANGED <<active, sessions, headless, made>>,
           EidsOf(PanesIn(Workspace)) \subseteq EidsOf(PanesIn(ws))
    PROVE  PanesInv'
<1>1. /\ made' \in Nat /\ made <= made' /\ made' <= MaxIds
      /\ WorkspaceOK(ws, made') /\ headless' \subseteq sessions'
  BY DEF PanesInv
<1>2. /\ sessions' \subseteq (sessions \ {}) \cup {} /\ headless \ {} \subseteq headless'
      /\ EidsOf(PanesIn(Workspace)) \ {} \subseteq EidsOf(PanesIn(ws))
      /\ {} \subseteq EidsOf(PanesIn(ws)) \cup headless'
  OBVIOUS
<1>3. workspaces' = [workspaces EXCEPT ![active] = ws]
  BY DEF Put
<1> QED BY <1>1, <1>2, <1>3, WorkspaceReplaced

LEMMA NewTabOK ==
    ASSUME Bounds, NEW n \in Nat, NEW id \in 1..n
    PROVE  /\ TabOK(NewTab(id), n) /\ NewTab(id).id = id
           /\ EidsOf(panes(NewTab(id).root)) = {Eid(id)}
<1> DEFINE root == leaf(PaneOf(id, Eid(id)))
<1>1. PaneTree(root, n) /\ panes(root) = {PaneOf(id, Eid(id))}
  BY LeafTree
<1> HIDE DEF root
<1>2. NewTab(id) = [id |-> id, root |-> root, active_pane |-> id, zoom |-> None]
  BY DEF NewTab, root
<1>3. pane_ids(root) = {id} /\ EidsOf(panes(root)) = {Eid(id)}
  BY <1>1 DEF pane_ids, EidsOf, PaneOf
<1> QED BY <1>1, <1>2, <1>3 DEF TabOK

LEMMA EmptySeqIs == IsSeq(<<>>) /\ Len(<<>>) = 0
  BY SeqFrom, EmptySeq

LEMMA SingletonSeq ==
    ASSUME NEW e
    PROVE  IsSeq(<<e>>) /\ Len(<<e>>) = 1 /\ <<e>>[1] = e /\ DOMAIN <<e>> = {1}
<1>1. <<e>> \in Seq({e}) /\ Len(<<e>>) = 1 /\ <<e>>[1] = e /\ DOMAIN <<e>> = {1}
  OBVIOUS
<1> QED BY <1>1, SeqFrom

(* A workspace with one new tab.                                           *)
LEMMA NewWorkspaceOK ==
    ASSUME Bounds, NEW n \in Nat, NEW id \in 1..n
    PROVE  LET ws == [id |-> id, tabs |-> <<NewTab(id)>>, active_tab |-> id]
           IN WorkspaceOK(ws, n) /\ EidsOf(PanesIn(ws)) = {Eid(id)}
<1> DEFINE ws == [id |-> id, tabs |-> <<NewTab(id)>>, active_tab |-> id]
           t == NewTab(id)
<1>1. TabOK(t, n) /\ t.id = id /\ EidsOf(panes(t.root)) = {Eid(id)}
  BY NewTabOK
<1> HIDE DEF t
<1>2. IsSeq(<<t>>) /\ DOMAIN <<t>> = {1} /\ <<t>>[1] = t
  BY SingletonSeq
<1>3. /\ ws = [id |-> ws.id, tabs |-> ws.tabs, active_tab |-> ws.active_tab]
      /\ ws.tabs = <<t>> /\ ws.active_tab = id
  BY DEF t
<1> HIDE DEF ws
<1>4. id \in TabIds(ws)
  BY <1>1, <1>2, <1>3 DEF TabIds
<1>5. WorkspaceOK(ws, n)
  BY <1>1, <1>2, <1>3, <1>4 DEF WorkspaceOK
<1>6. \A e : e \in EidsOf(PanesIn(ws)) <=> e \in {Eid(id)}
  BY <1>1, <1>2, <1>3, EidsInWorkspace
<1> QED BY <1>5, <1>6 DEF ws

LEMMA InitInv ==
    ASSUME Bounds, Init
    PROVE  PanesInv
<1> DEFINE ws == [id |-> 1, tabs |-> <<NewTab(1)>>, active_tab |-> 1]
<1>1. WorkspaceOK(ws, 1) /\ EidsOf(PanesIn(ws)) = {Eid(1)}
  BY NewWorkspaceOK
<1>2. /\ workspaces = <<ws>> /\ made = 1 /\ active = 1 /\ headless = {} /\ sessions = {Eid(1)}
  BY DEF Init
<1> HIDE DEF ws
<1>3. IsSeq(workspaces) /\ Len(workspaces) = 1 /\ workspaces[1] = ws /\ DOMAIN workspaces = {1}
  BY <1>2, SingletonSeq
<1>4. NoSessionLeaks
  BY <1>1, <1>2, <1>3 DEF NoSessionLeaks, AllEids
<1> QED BY <1>1, <1>2, <1>3, <1>4 DEF PanesInv, Bounds

-----------------------------------------------------------------------------
(* The steps: workspaces.                                                  *)

LEMMA CreateWorkspace ==
    ASSUME PanesInv, create_workspace, Bounds
    PROVE  PanesInv'
<1> DEFINE ws == [id |-> made + 1, tabs |-> <<NewTab(made + 1)>>, active_tab |-> made + 1]
           n == Len(workspaces)
<1>1. /\ made \in Nat /\ made' = made + 1 /\ made' \in Nat /\ made + 1 \in 1..made'
      /\ made <= made' /\ made' <= MaxIds
  BY DEF PanesInv, create_workspace, FreshId, Bounds
<1>2. WorkspaceOK(ws, made') /\ EidsOf(PanesIn(ws)) = {Eid(made + 1)}
  BY <1>1, NewWorkspaceOK
<1>3. /\ workspaces' = Append(workspaces, ws) /\ active' = n + 1 /\ n < MaxWorkspaces
      /\ sessions' = sessions \cup {Eid(made + 1)} /\ headless' = headless
  BY DEF create_workspace
<1>4. IsSeq(workspaces) /\ n \in Nat /\ DOMAIN workspaces = 1..n
  BY SeqFacts DEF PanesInv
<1> HIDE DEF ws, n
<1>5. /\ IsSeq(workspaces') /\ Len(workspaces') = n + 1 /\ workspaces'[n + 1] = ws
      /\ \A i \in 1..n : workspaces'[i] = workspaces[i]
  BY <1>3, <1>4, AppendOf DEF n
<1>6. DOMAIN workspaces' = 1..(n + 1)
  BY <1>5, SeqFacts
<1>7. \A i \in DOMAIN workspaces' : WorkspaceOK(workspaces'[i], made')
  <2> TAKE i \in DOMAIN workspaces'
  <2>1. CASE i = n + 1
    BY <1>2, <1>5, <2>1
  <2>2. CASE i # n + 1
    <3>1. i \in 1..n
      BY <1>4, <1>6, <2>2
    <3>2. WorkspaceOK(workspaces[i], made) /\ workspaces'[i] = workspaces[i]
      BY <1>4, <1>5, <3>1 DEF PanesInv
    <3> QED BY <1>1, <3>2, WorkspaceGrows
  <2> QED BY <2>1, <2>2
<1>8. \A e \in sessions' : e \notin headless' =>
         \E i \in DOMAIN workspaces' : e \in EidsOf(PanesIn(workspaces'[i]))
  <2> SUFFICES ASSUME NEW e \in sessions', e \notin headless'
               PROVE  \E i \in DOMAIN workspaces' : e \in EidsOf(PanesIn(workspaces'[i]))
    OBVIOUS
  <2>1. CASE e = Eid(made + 1)
    <3>1. n + 1 \in DOMAIN workspaces' /\ e \in EidsOf(PanesIn(workspaces'[n + 1]))
      BY <1>2, <1>4, <1>5, <1>6, <2>1
    <3> QED BY <3>1
  <2>2. CASE e # Eid(made + 1)
    <3>1. PICK i \in DOMAIN workspaces : e \in EidsOf(PanesIn(workspaces[i]))
      BY <1>3, <2>2 DEF PanesInv, NoSessionLeaks, AllEids
    <3>2. i \in DOMAIN workspaces' /\ workspaces'[i] = workspaces[i]
      BY <1>4, <1>5, <1>6
    <3> QED BY <3>1, <3>2
  <2> QED BY <2>1, <2>2
<1>9. NoSessionLeaks'
  BY <1>8 DEF NoSessionLeaks, AllEids
<1>10. active' \in DOMAIN workspaces' /\ Len(workspaces') <= MaxWorkspaces
  BY <1>3, <1>4, <1>5, <1>6 DEF Bounds
<1>11. headless' \subseteq sessions'
  BY <1>3 DEF PanesInv
<1> QED BY <1>1, <1>5, <1>7, <1>9, <1>10, <1>11 DEF PanesInv

LEMMA CloseWorkspace ==
    ASSUME PanesInv, Bounds, NEW i, close_workspace(i)
    PROVE  PanesInv'
<1> DEFINE n == Len(workspaces)
           gone == EidsOf(PanesIn(workspaces[i]))
<1>1. IsSeq(workspaces) /\ n \in Nat /\ DOMAIN workspaces = 1..n /\ n <= MaxWorkspaces
      /\ active \in 1..n
  BY SeqFacts DEF PanesInv
<1>2. /\ n > 1 /\ i \in DOMAIN workspaces /\ workspaces' = RemoveAt(workspaces, i)
      /\ active' = Smaller(active, n - 1) /\ made' = made
      /\ sessions' = sessions \ gone /\ headless' = headless \ gone
  BY DEF close_workspace, Terminate
<1> HIDE DEF gone
<1>3. /\ IsSeq(workspaces') /\ Len(workspaces') = n - 1
      /\ \A j \in DOMAIN workspaces' :
            \E k \in DOMAIN workspaces : workspaces'[j] = workspaces[k]
      /\ \A j \in DOMAIN workspaces : j # i =>
            \E k \in DOMAIN workspaces' : workspaces'[k] = workspaces[j]
  <2> DEFINE r == RemoveAt(workspaces, i)
  <2>a. IsSeq(workspaces) /\ i \in DOMAIN workspaces
    BY <1>1, <1>2
  <2>1. /\ IsSeq(r) /\ Len(r) = Len(workspaces) - 1
        /\ \A j \in DOMAIN r : \E k \in DOMAIN workspaces : k # i /\ r[j] = workspaces[k]
        /\ \A j \in DOMAIN workspaces : j # i => \E k \in DOMAIN r : r[k] = workspaces[j]
    BY <2>a, RemoveAtOf
  <2>2. workspaces' = r
    BY <1>2
  <2> HIDE DEF r
  <2> QED BY <2>1, <2>2
<1>4. DOMAIN workspaces' = 1..(n - 1)
  BY <1>3, SeqFacts
<1> HIDE DEF n
<1>5. active' \in DOMAIN workspaces' /\ Len(workspaces') <= MaxWorkspaces
  BY <1>1, <1>2, <1>3, <1>4 DEF Smaller, Bounds
<1>6. \A j \in DOMAIN workspaces' : WorkspaceOK(workspaces'[j], made')
  BY <1>2, <1>3 DEF PanesInv
<1>7. \A e \in sessions' : e \notin headless' =>
         \E j \in DOMAIN workspaces' : e \in EidsOf(PanesIn(workspaces'[j]))
  <2> SUFFICES ASSUME NEW e \in sessions', e \notin headless'
               PROVE  \E j \in DOMAIN workspaces' : e \in EidsOf(PanesIn(workspaces'[j]))
    OBVIOUS
  <2>1. e \in sessions /\ e \notin gone /\ e \notin headless
    BY <1>2
  <2>2. PICK j \in DOMAIN workspaces : e \in EidsOf(PanesIn(workspaces[j]))
    BY <2>1 DEF PanesInv, NoSessionLeaks, AllEids
  <2>3. j # i
    BY <2>1, <2>2 DEF gone
  <2>4. PICK k \in DOMAIN workspaces' : workspaces'[k] = workspaces[j]
    BY <1>3, <2>3
  <2> QED BY <2>2, <2>4
<1>8. NoSessionLeaks'
  BY <1>7 DEF NoSessionLeaks, AllEids
<1>9. headless' \subseteq sessions' /\ made' \in Nat /\ made' <= MaxIds
  BY <1>2 DEF PanesInv
<1> QED BY <1>3, <1>5, <1>6, <1>8, <1>9 DEF PanesInv

LEMMA SwitchWorkspace ==
    ASSUME PanesInv, NEW i, switch_workspace(i)
    PROVE  PanesInv'
<1>1. /\ i \in DOMAIN workspaces /\ active' = i
      /\ UNCHANGED <<workspaces, sessions, headless, made>>
  BY DEF switch_workspace
<1> QED BY <1>1 DEF PanesInv, NoSessionLeaks, AllEids

LEMMA SpawnAgentSession ==
    ASSUME PanesInv, spawn_agent_session
    PROVE  PanesInv'
<1>1. /\ UNCHANGED <<workspaces, active, made>>
      /\ sessions' = sessions \cup {Eid(TaskAgent)} /\ headless' = headless \cup {Eid(TaskAgent)}
  BY DEF spawn_agent_session
<1>2. NoSessionLeaks'
  BY <1>1 DEF PanesInv, NoSessionLeaks, AllEids
<1> QED BY <1>1, <1>2 DEF PanesInv

-----------------------------------------------------------------------------
(* The steps: tabs.                                                        *)

(* The active workspace.                                                   *)
LEMMA TheWorkspace ==
    ASSUME PanesInv
    PROVE  /\ WorkspaceOK(Workspace, made) /\ IsSeq(Workspace.tabs) /\ made \in Nat
           /\ Workspace = [id |-> Workspace.id, tabs |-> Workspace.tabs,
                           active_tab |-> Workspace.active_tab]
           /\ active \in DOMAIN workspaces
  BY DEF PanesInv, Workspace, WorkspaceOK

LEMMA WorkspaceWith ==
    ASSUME NEW w, w = [id |-> w.id, tabs |-> w.tabs, active_tab |-> w.active_tab],
           NEW tabs, NEW now, NEW ws, ws = [w EXCEPT !.tabs = tabs, !.active_tab = now]
    PROVE  /\ ws = [id |-> ws.id, tabs |-> ws.tabs, active_tab |-> ws.active_tab]
           /\ ws.tabs = tabs /\ ws.active_tab = now
<1>1. ws = [id |-> w.id, tabs |-> tabs, active_tab |-> now]
  OBVIOUS
<1> QED BY ONLY <1>1

LEMMA OpenTab ==
    ASSUME Bounds, PanesInv, new_tab
    PROVE  PanesInv'
<1> DEFINE t == NewTab(made + 1)
           ws == [Workspace EXCEPT !.tabs = Append(@, t), !.active_tab = made + 1]
           tabs == Workspace.tabs
           n == Len(tabs)
<1>1. /\ made \in Nat /\ made' = made + 1 /\ made' \in Nat /\ made + 1 \in 1..made'
      /\ made <= made' /\ made' <= MaxIds
  BY DEF PanesInv, new_tab, FreshId, Bounds
<1>2. /\ WorkspaceOK(Workspace, made) /\ IsSeq(tabs)
      /\ Workspace = [id |-> Workspace.id, tabs |-> tabs, active_tab |-> Workspace.active_tab]
  BY TheWorkspace
<1>3. /\ workspaces' = [workspaces EXCEPT ![active] = ws] /\ active' = active
      /\ sessions' = sessions \cup {Eid(made + 1)} /\ headless' = headless
  BY DEF new_tab, Put
<1>4. TabOK(t, made') /\ t.id = made + 1 /\ EidsOf(panes(t.root)) = {Eid(made + 1)}
  BY <1>1, NewTabOK
<1>5. /\ ws = [id |-> ws.id, tabs |-> ws.tabs, active_tab |-> ws.active_tab]
      /\ ws.tabs = Append(tabs, t) /\ ws.active_tab = made + 1
  <2> DEFINE all == Append(tabs, t)
             now == made + 1
  <2>1. ws = [Workspace EXCEPT !.tabs = all, !.active_tab = now]
    OBVIOUS
  <2> HIDE DEF t, ws, all, now, tabs
  <2>2. /\ ws = [id |-> ws.id, tabs |-> ws.tabs, active_tab |-> ws.active_tab]
        /\ ws.tabs = all /\ ws.active_tab = now
    BY <1>2, <2>1, WorkspaceWith
  <2> QED BY <2>2 DEF all, now
<1> HIDE DEF t, ws, tabs, n
<1>6. /\ IsSeq(ws.tabs) /\ Len(ws.tabs) = n + 1 /\ ws.tabs[n + 1] = t
      /\ \A j \in DOMAIN tabs : ws.tabs[j] = tabs[j]
      /\ n \in Nat /\ DOMAIN tabs = 1..n /\ DOMAIN ws.tabs = 1..(n + 1)
  <2>1. /\ IsSeq(ws.tabs) /\ Len(ws.tabs) = n + 1 /\ ws.tabs[n + 1] = t
        /\ \A j \in DOMAIN tabs : ws.tabs[j] = tabs[j]
    BY <1>2, <1>5, AppendOf DEF n
  <2>2. n \in Nat /\ DOMAIN tabs = 1..n
    BY <1>2, SeqFacts DEF n
  <2> QED BY <2>1, <2>2, SeqFacts
<1>7. \A j \in DOMAIN ws.tabs : TabOK(ws.tabs[j], made')
  <2> TAKE j \in DOMAIN ws.tabs
  <2>1. CASE j = n + 1
    BY <1>4, <1>6, <2>1
  <2>2. CASE j # n + 1
    <3>1. j \in DOMAIN tabs /\ ws.tabs[j] = tabs[j]
      BY <1>6, <2>2
    <3>2. WorkspaceOK(Workspace, made')
      BY <1>1, <1>2, WorkspaceGrows
    <3> QED BY <3>1, <3>2 DEF WorkspaceOK, tabs
  <2> QED BY <2>1, <2>2
<1>8. n + 1 \in DOMAIN ws.tabs
  BY <1>6
<1>9. WorkspaceOK(ws, made')
  <2>1. ws.active_tab \in TabIds(ws)
    BY <1>4, <1>5, <1>6, <1>8 DEF TabIds
  <2> QED BY <1>5, <1>6, <1>7, <2>1 DEF WorkspaceOK
<1>10. {Eid(made + 1)} \subseteq EidsOf(PanesIn(ws))
  BY <1>4, <1>6, <1>8, EidsInWorkspace
<1>11. EidsOf(PanesIn(Workspace)) \ {} \subseteq EidsOf(PanesIn(ws))
  <2> SUFFICES ASSUME NEW e \in EidsOf(PanesIn(Workspace)) PROVE e \in EidsOf(PanesIn(ws))
    OBVIOUS
  <2>1. PICK j \in DOMAIN tabs : e \in EidsOf(panes(tabs[j].root))
    BY EidsInWorkspace DEF tabs
  <2>2. j \in DOMAIN ws.tabs /\ ws.tabs[j] = tabs[j]
    BY <1>6
  <2> QED BY <2>1, <2>2, EidsInWorkspace
<1> DEFINE added == {Eid(made + 1)}
<1>12. /\ sessions' \subseteq (sessions \ {}) \cup added
       /\ headless \ {} \subseteq headless' /\ headless' \subseteq sessions'
       /\ added \subseteq EidsOf(PanesIn(ws)) \cup headless'
  BY <1>3, <1>10 DEF PanesInv
<1> HIDE DEF added
<1> QED BY <1>1, <1>3, <1>9, <1>11, <1>12, WorkspaceReplaced

LEMMA CloseTab ==
    ASSUME PanesInv, NEW id \in TabIds(Workspace), ClosedTab(id)
    PROVE  PanesInv'
<1> DEFINE tabs == Workspace.tabs
           i == TabIndex(Workspace, id)
           kept == RemoveAt(tabs, i)
           now == IF Workspace.active_tab # id THEN Workspace.active_tab
                  ELSE IF kept = <<>> THEN None ELSE kept[Len(kept)].id
           ws == [Workspace EXCEPT !.tabs = kept, !.active_tab = now]
           gone == EidsOf(panes(tabs[i].root))
<1>1. /\ WorkspaceOK(Workspace, made) /\ IsSeq(tabs) /\ made \in Nat
      /\ Workspace = [id |-> Workspace.id, tabs |-> tabs, active_tab |-> Workspace.active_tab]
  BY TheWorkspace
<1>2. i \in DOMAIN tabs /\ tabs[i].id = id
  <2>1. \E j \in DOMAIN tabs : tabs[j].id = id
    BY DEF TabIds
  <2> QED BY <2>1 DEF TabIndex
<1>3. /\ workspaces' = [workspaces EXCEPT ![active] = ws] /\ active' = active /\ made' = made
      /\ sessions' = sessions \ gone /\ headless' = headless \ gone
  BY DEF ClosedTab, Put, Terminate
<1>4. /\ ws = [id |-> ws.id, tabs |-> ws.tabs, active_tab |-> ws.active_tab]
      /\ ws.tabs = kept /\ ws.active_tab = now
  <2>1. ws = [Workspace EXCEPT !.tabs = kept, !.active_tab = now]
    OBVIOUS
  <2> HIDE DEF kept, now, ws, tabs
  <2> QED BY <1>1, <2>1, WorkspaceWith
<1> HIDE DEF ws, i, gone
<1>5. /\ IsSeq(kept)
      /\ \A j \in DOMAIN kept : \E k \in DOMAIN tabs : k # i /\ kept[j] = tabs[k]
      /\ \A j \in DOMAIN tabs : j # i => \E k \in DOMAIN kept : kept[k] = tabs[j]
  BY <1>1, <1>2, RemoveAtOf
<1>now. now = IF Workspace.active_tab # id THEN Workspace.active_tab
              ELSE IF kept = <<>> THEN None ELSE kept[Len(kept)].id
  OBVIOUS
<1> HIDE DEF kept, tabs, now
<1>6. \A j \in DOMAIN ws.tabs : TabOK(ws.tabs[j], made)
  BY <1>1, <1>4, <1>5 DEF WorkspaceOK, tabs
<1>7. ws.active_tab \in TabIds(ws) \/ (ws.active_tab = None /\ ws.tabs = <<>>)
  <2>1. CASE Workspace.active_tab # id
    <3>1. Workspace.active_tab \in TabIds(Workspace)
      BY <1>1, <1>2, EmptySeqIs, SeqFacts DEF WorkspaceOK, tabs
    <3>2. PICK j \in DOMAIN tabs : tabs[j].id = Workspace.active_tab
      BY <3>1 DEF TabIds, tabs
    <3>3. PICK k \in DOMAIN kept : kept[k] = tabs[j]
      BY <1>2, <1>5, <2>1, <3>2
    <3>4. ws.active_tab = kept[k].id
      BY <1>4, <1>now, <2>1, <3>2, <3>3
    <3> QED BY <1>4, <3>4 DEF TabIds
  <2>2. CASE Workspace.active_tab = id /\ kept = <<>>
    BY <1>4, <1>now, <2>2
  <2>3. CASE Workspace.active_tab = id /\ kept # <<>>
    <3>1. Len(kept) \in DOMAIN kept
      BY <1>5, <2>3, SeqFacts
    <3>2. ws.active_tab = kept[Len(kept)].id
      BY <1>4, <1>now, <2>3
    <3> QED BY <1>4, <3>1, <3>2 DEF TabIds
  <2> QED BY <2>1, <2>2, <2>3
<1>8. WorkspaceOK(ws, made')
  BY <1>3, <1>4, <1>5, <1>6, <1>7 DEF WorkspaceOK
<1>9. EidsOf(PanesIn(Workspace)) \ gone \subseteq EidsOf(PanesIn(ws))
  <2> SUFFICES ASSUME NEW e \in EidsOf(PanesIn(Workspace)), e \notin gone
               PROVE  e \in EidsOf(PanesIn(ws))
    OBVIOUS
  <2>1. PICK j \in DOMAIN tabs : e \in EidsOf(panes(tabs[j].root))
    BY EidsInWorkspace DEF tabs
  <2>2. j # i
    BY <2>1 DEF gone
  <2>3. PICK k \in DOMAIN kept : kept[k] = tabs[j]
    BY <1>5, <2>2
  <2>4. k \in DOMAIN ws.tabs /\ e \in EidsOf(panes(ws.tabs[k].root))
    BY <1>4, <2>1, <2>3
  <2> QED BY <2>4, EidsInWorkspace
<1>10. /\ sessions' \subseteq (sessions \ gone) \cup {} /\ headless \ gone \subseteq headless'
       /\ headless' \subseteq sessions' /\ made' \in Nat /\ made <= made' /\ made' <= MaxIds
       /\ {} \subseteq EidsOf(PanesIn(ws)) \cup headless'
  BY <1>1, <1>3 DEF PanesInv
<1> QED BY <1>3, <1>8, <1>9, <1>10, WorkspaceReplaced

(* A call that makes another tab of the workspace the active one.          *)
LEMMA ActivateTab ==
    ASSUME PanesInv, NEW id \in TabIds(Workspace),
           Put([Workspace EXCEPT !.active_tab = id]), Same
    PROVE  PanesInv'
<1> DEFINE ws == [Workspace EXCEPT !.active_tab = id]
<1>1. /\ WorkspaceOK(Workspace, made)
      /\ Workspace = [id |-> Workspace.id, tabs |-> Workspace.tabs,
                      active_tab |-> Workspace.active_tab]
  BY TheWorkspace
<1>2. /\ ws = [id |-> ws.id, tabs |-> ws.tabs, active_tab |-> ws.active_tab]
      /\ ws.tabs = Workspace.tabs /\ ws.active_tab = id
  BY <1>1
<1>3. Put(ws)
  OBVIOUS
<1> HIDE DEF ws
<1>4. WorkspaceOK(ws, made)
  BY <1>1, <1>2 DEF WorkspaceOK, TabIds
<1>5. EidsOf(PanesIn(Workspace)) \subseteq EidsOf(PanesIn(ws))
  BY <1>2 DEF PanesIn
<1>6. UNCHANGED <<active, sessions, headless, made>>
  BY DEF Same
<1> QED BY <1>3, <1>4, <1>5, <1>6, WorkspaceChanged

LEMMA StepTab ==
    ASSUME PanesInv, NEW step \in {1, -1}, step_tab(step)
    PROVE  PanesInv'
<1> DEFINE tabs == Workspace.tabs
           n == Len(tabs)
           cur == IF HasTab THEN TabIndex(Workspace, Workspace.active_tab) - 1
                  ELSE IF step = 1 THEN n - 1 ELSE 0
           k == ((cur + n + step) % n) + 1
<1>1. IsSeq(tabs) /\ n \in Nat /\ DOMAIN tabs = 1..n /\ n > 0
  BY TheWorkspace, SeqFacts DEF step_tab
<1>2. cur \in Int
  <2>1. CASE HasTab
    BY <1>1, <2>1, TheTab
  <2>2. CASE ~HasTab
    BY <1>1, <2>2
  <2> QED BY <2>1, <2>2
<1>3. Put([Workspace EXCEPT !.active_tab = tabs[k].id]) /\ Same
  BY DEF step_tab
<1> HIDE DEF cur
<1>4. k \in DOMAIN tabs
  <2> DEFINE x == cur + n + step
  <2>1. x \in Int
    BY <1>1, <1>2
  <2> HIDE DEF x, n
  <2>2. x % n \in 0..(n - 1)
    BY <1>1, <2>1
  <2> QED BY <1>1, <2>2 DEF x
<1>5. tabs[k].id \in TabIds(Workspace)
  BY <1>4 DEF TabIds
<1> QED BY <1>3, <1>5, ActivateTab

LEMMA ReorderTab ==
    ASSUME PanesInv, NEW id, NEW to \in Nat \ {0}, reorder_tab(id, to)
    PROVE  PanesInv'
<1> DEFINE tabs == Workspace.tabs
           i == TabIndex(Workspace, id)
           rest == RemoveAt(tabs, i)
           at == Smaller(to, Len(rest) + 1)
           all == InsertAt(rest, at, tabs[i])
           ws == [Workspace EXCEPT !.tabs = all]
<1>1. /\ WorkspaceOK(Workspace, made) /\ IsSeq(tabs)
      /\ Workspace = [id |-> Workspace.id, tabs |-> tabs, active_tab |-> Workspace.active_tab]
  BY TheWorkspace
<1>2. i \in DOMAIN tabs
  <2>1. \E j \in DOMAIN tabs : tabs[j].id = id
    BY DEF reorder_tab, TabIds
  <2> QED BY <2>1 DEF TabIndex
<1>3. Put(ws) /\ UNCHANGED <<active, sessions, headless, made>>
  BY DEF reorder_tab, Same
<1>4. /\ ws = [id |-> ws.id, tabs |-> ws.tabs, active_tab |-> ws.active_tab]
      /\ ws.tabs = all /\ ws.active_tab = Workspace.active_tab
  BY <1>1
<1> HIDE DEF ws, i
<1>5. /\ IsSeq(rest)
      /\ \A j \in DOMAIN rest : \E k \in DOMAIN tabs : k # i /\ rest[j] = tabs[k]
      /\ \A j \in DOMAIN tabs : j # i => \E k \in DOMAIN rest : rest[k] = tabs[j]
  BY <1>1, <1>2, RemoveAtOf
<1> HIDE DEF rest
<1>6. at \in 1..(Len(rest) + 1)
  BY <1>5, SeqFacts DEF Smaller
<1> HIDE DEF at
<1>7. /\ IsSeq(all)
      /\ \A j \in DOMAIN all : all[j] = tabs[i] \/ \E k \in DOMAIN rest : all[j] = rest[k]
      /\ \E j \in DOMAIN all : all[j] = tabs[i]
      /\ \A k \in DOMAIN rest : \E j \in DOMAIN all : all[j] = rest[k]
  BY <1>5, <1>6, InsertAtOf
<1> HIDE DEF all
<1>8. /\ \A j \in DOMAIN all : \E k \in DOMAIN tabs : all[j] = tabs[k]
      /\ \A k \in DOMAIN tabs : \E j \in DOMAIN all : all[j] = tabs[k]
  <2>1. ASSUME NEW j \in DOMAIN all PROVE \E k \in DOMAIN tabs : all[j] = tabs[k]
    BY <1>2, <1>5, <1>7
  <2>2. ASSUME NEW k \in DOMAIN tabs PROVE \E j \in DOMAIN all : all[j] = tabs[k]
    <3>1. CASE k = i
      BY <1>7, <3>1
    <3>2. CASE k # i
      <4>1. PICK m \in DOMAIN rest : rest[m] = tabs[k]
        BY <1>5, <3>2
      <4> QED BY <1>7, <4>1
    <3> QED BY <3>1, <3>2
  <2> QED BY <2>1, <2>2
<1> HIDE DEF tabs
<1>9. WorkspaceOK(ws, made)
  <2>1. \A j \in DOMAIN ws.tabs : TabOK(ws.tabs[j], made)
    BY <1>1, <1>4, <1>8 DEF WorkspaceOK, tabs
  <2>2. Workspace.active_tab \in TabIds(Workspace)
    BY <1>1, <1>2, EmptySeqIs, SeqFacts DEF WorkspaceOK, tabs
  <2>3. PICK k \in DOMAIN tabs : tabs[k].id = Workspace.active_tab
    BY <2>2 DEF TabIds, tabs
  <2>4. ws.active_tab \in TabIds(ws)
    BY <1>4, <1>8, <2>3 DEF TabIds
  <2> QED BY <1>4, <1>7, <2>1, <2>4 DEF WorkspaceOK
<1>10. EidsOf(PanesIn(Workspace)) \subseteq EidsOf(PanesIn(ws))
  <2> SUFFICES ASSUME NEW e \in EidsOf(PanesIn(Workspace)) PROVE e \in EidsOf(PanesIn(ws))
    OBVIOUS
  <2>1. PICK j \in DOMAIN tabs : e \in EidsOf(panes(tabs[j].root))
    BY EidsInWorkspace DEF tabs
  <2>2. PICK k \in DOMAIN all : all[k] = tabs[j]
    BY <1>8
  <2>3. k \in DOMAIN ws.tabs /\ e \in EidsOf(panes(ws.tabs[k].root))
    BY <1>4, <2>1, <2>2
  <2> QED BY <2>3, EidsInWorkspace
<1> QED BY <1>3, <1>9, <1>10, WorkspaceChanged

-----------------------------------------------------------------------------
(* The steps: panes.                                                       *)

LEMMA TheTabIs ==
    ASSUME PanesInv, HasTab
    PROVE  /\ TabOK(Tab, made) /\ PaneTree(Tab.root, made) /\ made \in Nat
           /\ Tab = [id |-> Tab.id, root |-> Tab.root, active_pane |-> Tab.active_pane,
                     zoom |-> Tab.zoom]
           /\ Tab.active_pane \in pane_ids(Tab.root) \cup {None}
           /\ Tab.id \in TabIds(Workspace)
<1>1. TabOK(Tab, made) /\ Tab.id = Workspace.active_tab
  BY TheTab
<1>2. Tab.id \in TabIds(Workspace)
  BY <1>1 DEF HasTab
<1> QED BY <1>1, <1>2 DEF TabOK, PanesInv

(* A tab with another tree and focus in it.                                *)
LEMMA TabWith ==
    ASSUME PanesInv, HasTab, NEW n \in Nat, NEW t, NEW root, NEW focus, NEW zoom,
           t = [id |-> Tab.id, root |-> root, active_pane |-> focus, zoom |-> zoom],
           PaneTree(root, n), focus \in pane_ids(root) \cup {None}
    PROVE  TabOK(t, n) /\ t.id = Tab.id /\ t.root = root
<1>1. t.id = Tab.id /\ t.root = root /\ t.active_pane = focus /\ t.zoom = zoom
  OBVIOUS
<1> QED BY <1>1 DEF TabOK

LEMMA PaneIds ==
    ASSUME NEW root, NEW id
    PROVE  id \in pane_ids(root) <=> \E p \in panes(root) : p.id = id
  BY DEF pane_ids

LEMMA TabEdited ==
    ASSUME NEW tab, tab = [id |-> tab.id, root |-> tab.root,
                           active_pane |-> tab.active_pane, zoom |-> tab.zoom],
           NEW root, NEW focus, NEW t,
           t = [tab EXCEPT !.root = root, !.active_pane = focus]
    PROVE  t = [id |-> tab.id, root |-> root, active_pane |-> focus, zoom |-> tab.zoom]
  OBVIOUS

LEMMA SplitOf ==
    ASSUME Bounds, PanesInv, HasTab, Tab.active_pane # None,
           NEW direction \in Directions, NEW eid,
           pane_count(Tab.root) <= MaxSplits, made < MaxIds,
           PutTab([Tab EXCEPT
              !.root = split_by_id(@, Tab.active_pane, direction, PaneOf(made + 1, eid)),
              !.active_pane = made + 1]),
           made' = made + 1, active' = active, headless' = headless,
           headless' \subseteq sessions', sessions' \subseteq sessions \cup {eid}
    PROVE  PanesInv'
<1> DEFINE r == split_by_id(Tab.root, Tab.active_pane, direction, PaneOf(made + 1, eid))
           id == made + 1
           t == [Tab EXCEPT !.root = r, !.active_pane = id]
           added == {eid}
<1>1. /\ PaneTree(Tab.root, made) /\ made \in Nat
      /\ Tab = [id |-> Tab.id, root |-> Tab.root, active_pane |-> Tab.active_pane,
                zoom |-> Tab.zoom]
      /\ Tab.active_pane \in pane_ids(Tab.root)
  BY TheTabIs
<1>2. PaneTree(r, made') /\ panes(r) = panes(Tab.root) \cup {PaneOf(id, eid)}
  BY <1>1, SplitTree DEF Bounds
<1>3. PutTab(t)
  OBVIOUS
<1> HIDE DEF r, id
<1>a. t = [Tab EXCEPT !.root = r, !.active_pane = id]
  OBVIOUS
<1> HIDE DEF t
<1>4. t = [id |-> Tab.id, root |-> r, active_pane |-> id, zoom |-> Tab.zoom]
  BY <1>1, <1>a, TabEdited
<1>5. id \in pane_ids(r) /\ EidsOf(panes(r)) = EidsOf(panes(Tab.root)) \cup added
  <2> DEFINE p == PaneOf(id, eid)
  <2>1. p.id = id /\ p.execution_id = eid
    BY DEF PaneOf
  <2> HIDE DEF p
  <2>2. panes(r) = panes(Tab.root) \cup {p}
    BY <1>2 DEF p
  <2>3. id \in pane_ids(r)
    BY <2>1, <2>2, PaneIds
  <2>4. EidsOf(panes(Tab.root) \cup {p}) = EidsOf(panes(Tab.root)) \cup {p.execution_id}
    BY DEF EidsOf
  <2> QED BY <2>1, <2>2, <2>3, <2>4
<1>6. made' \in Nat /\ made <= made' /\ made' <= MaxIds
  BY <1>1 DEF Bounds
<1>7. TabOK(t, made') /\ t.id = Tab.id /\ t.root = r
  BY <1>2, <1>4, <1>5, <1>6, TabWith
<1>8. /\ sessions' \subseteq (sessions \ {}) \cup added
      /\ headless \ {} \subseteq headless'
      /\ EidsOf(panes(Tab.root)) \ {} \subseteq EidsOf(panes(t.root))
      /\ added \subseteq EidsOf(panes(t.root)) \cup headless'
  BY <1>5, <1>7
<1> HIDE DEF added
<1> QED BY <1>3, <1>6, <1>7, <1>8, TabReplaced

LEMMA SplitPane ==
    ASSUME Bounds, PanesInv, NEW direction \in Directions, split_pane(direction)
    PROVE  PanesInv'
<1> DEFINE eid == Eid(made + 1)
<1>1. Split(direction, eid)
  BY DEF split_pane
<1> HIDE DEF eid
<1>2. /\ HasTab /\ Tab.active_pane # None
      /\ pane_count(Tab.root) <= MaxSplits /\ made < MaxIds
      /\ PutTab([Tab EXCEPT
              !.root = split_by_id(@, Tab.active_pane, direction, PaneOf(made + 1, eid)),
              !.active_pane = made + 1])
      /\ made' = made + 1 /\ active' = active /\ headless' = headless
      /\ sessions' = sessions \cup {eid}
  BY <1>1 DEF Split, FreshId
<1>3. headless' \subseteq sessions' /\ sessions' \subseteq sessions \cup {eid}
  BY <1>2 DEF PanesInv
<1> QED BY <1>2, <1>3, SplitOf

LEMMA AttachTaskAgentPane ==
    ASSUME Bounds, PanesInv, attach_task_agent_pane
    PROVE  PanesInv'
<1>1. PICK eid \in headless :
        /\ HasTab /\ Tab.active_pane # None
        /\ FreshId /\ pane_count(Tab.root) <= MaxSplits
        /\ PutTab([Tab EXCEPT
              !.root = split_by_id(@, Tab.active_pane, "Vertical", PaneOf(made + 1, eid)),
              !.active_pane = made + 1])
  BY DEF attach_task_agent_pane
<1>2. active' = active /\ headless' = headless /\ sessions' = sessions /\ made' = made + 1
      /\ made < MaxIds
  BY <1>1 DEF attach_task_agent_pane, FreshId
<1>3. headless' \subseteq sessions' /\ sessions' \subseteq sessions \cup {eid}
  BY <1>2 DEF PanesInv
<1> DEFINE d == "Vertical"
<1>a. d \in Directions
  BY DEF Directions
<1>4. PutTab([Tab EXCEPT
              !.root = split_by_id(@, Tab.active_pane, d, PaneOf(made + 1, eid)),
              !.active_pane = made + 1])
  BY <1>1
<1> HIDE DEF d
<1> QED BY <1>1, <1>2, <1>3, <1>4, <1>a, SplitOf

LEMMA ClosePane ==
    ASSUME Bounds, PanesInv, NEW id, close_pane(id)
    PROVE  PanesInv'
<1>1. HasTab
  BY DEF close_pane
<1>2. /\ PaneTree(Tab.root, made) /\ made \in Nat
      /\ Tab = [id |-> Tab.id, root |-> Tab.root, active_pane |-> Tab.active_pane,
                zoom |-> Tab.zoom]
      /\ Tab.active_pane \in pane_ids(Tab.root) \cup {None}
      /\ Tab.id \in TabIds(Workspace)
  BY <1>1, TheTabIs
<1>3. CASE pane_count(Tab.root) <= 1 /\ ClosedTab(Tab.id)
  BY <1>2, <1>3, CloseTab
<1>4. CASE ~(pane_count(Tab.root) <= 1 /\ ClosedTab(Tab.id))
  <2> DEFINE root == Tab.root
             q == PathOf(root, id)
             r == remove_pane(root, id)
             rest == IF pane_count(r) = 1 THEN r.leaves[<<>>].id ELSE None
             focus == IF Tab.active_pane = id THEN rest ELSE Tab.active_pane
             t == [Tab EXCEPT !.root = r, !.active_pane = focus]
             gone == {root.leaves[q].execution_id}
  <2>1. /\ pane_count(root) > 1 /\ id \in pane_ids(root) /\ PutTab(t)
        /\ sessions' = sessions \ gone /\ headless' = headless \ gone
        /\ UNCHANGED <<active, made>>
    BY <1>4 DEF close_pane, Terminate
  <2>2. q # <<>> /\ q \in DOMAIN root.leaves /\ root.leaves[q].id = id
    <3>1. q \in DOMAIN root.leaves /\ root.leaves[q].id = id
      BY <2>1, PathOfIs
    <3>2. Shape(DOMAIN root.leaves, DOMAIN root.splits) /\ Cardinality(DOMAIN root.leaves) > 1
      BY <1>2, <2>1 DEF PaneTree, pane_count
    <3>3. <<>> \notin DOMAIN root.leaves
      BY <3>2, RootOfATree
    <3> QED BY <3>1, <3>3
  <2>3. PaneTree(r, made) /\ panes(r) = panes(root) \ {root.leaves[q]}
    BY <1>2, <2>1, <2>2, RemoveTree
  <2> HIDE DEF root, r, q, gone, rest, focus
  <2>a. t = [Tab EXCEPT !.root = r, !.active_pane = focus]
    OBVIOUS
  <2> HIDE DEF t
  <2>4. t = [id |-> Tab.id, root |-> r, active_pane |-> focus, zoom |-> Tab.zoom]
    BY <1>2, <2>a, TabEdited
  <2>5. rest \in pane_ids(r) \cup {None}
    <3>1. CASE pane_count(r) = 1
      <4>1. Shape(DOMAIN r.leaves, DOMAIN r.splits) /\ Cardinality(DOMAIN r.leaves) = 1
        BY <2>3, <3>1 DEF PaneTree, pane_count
      <4>2. <<>> \in DOMAIN r.leaves
        BY <4>1, RootOfATree
      <4> QED BY <3>1, <4>2 DEF rest, pane_ids, panes
    <3>2. CASE pane_count(r) # 1
      BY <3>2 DEF rest
    <3> QED BY <3>1, <3>2
  <2>6. focus \in pane_ids(r) \cup {None}
    <3>1. CASE Tab.active_pane = id
      BY <2>5, <3>1 DEF focus
    <3>2. CASE Tab.active_pane # id /\ Tab.active_pane # None
      <4>1. PICK p \in panes(root) : p.id = Tab.active_pane
        BY <1>2, <3>2, PaneIds DEF root
      <4>2. p \in panes(r)
        BY <2>2, <2>3, <3>2, <4>1
      <4> QED BY <3>2, <4>1, <4>2, PaneIds DEF focus
    <3>3. CASE Tab.active_pane # id /\ Tab.active_pane = None
      BY <3>3 DEF focus
    <3> QED BY <3>1, <3>2, <3>3
  <2>7. TabOK(t, made) /\ t.id = Tab.id /\ t.root = r
    BY <1>1, <1>2, <2>3, <2>4, <2>6, TabWith
  <2>8. EidsOf(panes(Tab.root)) \ gone \subseteq EidsOf(panes(t.root))
    <3>1. \A p \in panes(root) : p.execution_id \notin gone => p \in panes(r)
      BY <2>3 DEF gone
    <3> QED BY <2>7, <3>1 DEF EidsOf, root
  <2>9. /\ sessions' \subseteq (sessions \ gone) \cup {} /\ headless \ gone \subseteq headless'
        /\ headless' \subseteq sessions' /\ made' \in Nat /\ made <= made'
        /\ made' <= MaxIds /\ active' = active
        /\ TabOK(t, made') /\ {} \subseteq EidsOf(panes(t.root)) \cup headless'
    BY <1>2, <2>1, <2>7 DEF PanesInv
  <2> QED BY <1>1, <2>1, <2>7, <2>8, <2>9, TabReplaced
<1> QED BY <1>3, <1>4

(* The focus moves within the tab.                                         *)
LEMMA Refocused ==
    ASSUME PanesInv, HasTab, NEW id \in pane_ids(Tab.root),
           PutTab([Tab EXCEPT !.active_pane = id]), Same
    PROVE  PanesInv'
<1> DEFINE t == [Tab EXCEPT !.active_pane = id]
<1>1. /\ PaneTree(Tab.root, made) /\ made \in Nat
      /\ Tab = [id |-> Tab.id, root |-> Tab.root, active_pane |-> Tab.active_pane,
                zoom |-> Tab.zoom]
  BY TheTabIs
<1>2. t = [id |-> Tab.id, root |-> Tab.root, active_pane |-> id, zoom |-> Tab.zoom]
  BY ONLY <1>1
<1>3. PutTab(t) /\ UNCHANGED <<active, sessions, headless, made>>
  BY DEF Same
<1> HIDE DEF t
<1>4. TabOK(t, made) /\ t.id = Tab.id /\ t.root = Tab.root
  BY <1>1, <1>2, TabWith
<1>5. EidsOf(panes(Tab.root)) \subseteq EidsOf(panes(t.root))
  BY <1>4
<1> QED BY <1>3, <1>4, <1>5, TabChanged

LEMMA FocusPane ==
    ASSUME PanesInv, NEW id, focus_pane(id)
    PROVE  PanesInv'
  BY Refocused DEF focus_pane

LEMMA FocusStep ==
    ASSUME PanesInv, NEW step, focus_step(step)
    PROVE  PanesInv'
<1>1. HasTab /\ Same
  BY DEF focus_step
<1>2. PICK q \in DOMAIN Tab.root.leaves :
        PutTab([Tab EXCEPT !.active_pane = Tab.root.leaves[q].id])
  BY DEF focus_step
<1> DEFINE id == Tab.root.leaves[q].id
<1>3. id \in pane_ids(Tab.root)
  BY DEF pane_ids, panes
<1>4. PutTab([Tab EXCEPT !.active_pane = id])
  BY <1>2
<1> HIDE DEF id
<1> QED BY <1>1, <1>3, <1>4, Refocused

LEMMA ZoomPane ==
    ASSUME PanesInv, NEW id, zoom_pane(id)
    PROVE  PanesInv'
<1> DEFINE zoom == IF Tab.zoom = id THEN None ELSE id
           t == [Tab EXCEPT !.zoom = zoom]
<1>1. HasTab /\ PutTab(t) /\ UNCHANGED <<active, sessions, headless, made>>
  BY DEF zoom_pane
<1> HIDE DEF zoom
<1>2. /\ PaneTree(Tab.root, made) /\ made \in Nat
      /\ Tab = [id |-> Tab.id, root |-> Tab.root, active_pane |-> Tab.active_pane,
                zoom |-> Tab.zoom]
      /\ Tab.active_pane \in pane_ids(Tab.root) \cup {None}
  BY <1>1, TheTabIs
<1>3. t = [id |-> Tab.id, root |-> Tab.root, active_pane |-> Tab.active_pane, zoom |-> zoom]
  BY ONLY <1>2
<1> HIDE DEF t
<1>4. TabOK(t, made) /\ t.id = Tab.id /\ t.root = Tab.root
  BY <1>1, <1>2, <1>3, TabWith
<1>5. EidsOf(panes(Tab.root)) \subseteq EidsOf(panes(t.root))
  BY <1>4
<1> QED BY <1>1, <1>4, <1>5, TabChanged

(* Another tree with the same panes' ids.                                  *)
LEMMA Retreed ==
    ASSUME PanesInv, HasTab, NEW r, PaneTree(r, made), pane_ids(r) = pane_ids(Tab.root),
           EidsOf(panes(Tab.root)) \subseteq EidsOf(panes(r)),
           PutTab([Tab EXCEPT !.root = r]), UNCHANGED <<active, sessions, headless, made>>
    PROVE  PanesInv'
<1> DEFINE t == [Tab EXCEPT !.root = r]
<1>1. /\ made \in Nat
      /\ Tab = [id |-> Tab.id, root |-> Tab.root, active_pane |-> Tab.active_pane,
                zoom |-> Tab.zoom]
      /\ Tab.active_pane \in pane_ids(Tab.root) \cup {None}
  BY TheTabIs
<1>2. t = [id |-> Tab.id, root |-> r, active_pane |-> Tab.active_pane, zoom |-> Tab.zoom]
  BY ONLY <1>1
<1>3. PutTab(t)
  OBVIOUS
<1> HIDE DEF t
<1>4. TabOK(t, made) /\ t.id = Tab.id /\ t.root = r
  BY <1>1, <1>2, TabWith
<1>5. EidsOf(panes(Tab.root)) \subseteq EidsOf(panes(t.root))
  BY <1>4
<1> QED BY <1>3, <1>4, <1>5, TabChanged

LEMMA SwapPanes ==
    ASSUME PanesInv, NEW a, NEW b, swap_panes(a, b)
    PROVE  PanesInv'
<1> DEFINE r == swap_contents(Tab.root, a, b)
<1>1. /\ HasTab /\ a \in pane_ids(Tab.root) /\ b \in pane_ids(Tab.root)
      /\ PutTab([Tab EXCEPT !.root = r]) /\ UNCHANGED <<active, sessions, headless, made>>
  BY DEF swap_panes
<1>2. PaneTree(Tab.root, made) /\ made \in Nat
  BY <1>1, TheTabIs
<1>3. /\ PaneTree(r, made) /\ pane_ids(r) = pane_ids(Tab.root)
      /\ EidsOf(panes(Tab.root)) \subseteq EidsOf(panes(r))
  BY <1>1, <1>2, SwapTree
<1> HIDE DEF r
<1> QED BY <1>1, <1>3, Retreed

LEMMA MovePane ==
    ASSUME Bounds, PanesInv, NEW id, NEW forward, move_pane(id, forward)
    PROVE  PanesInv'
<1> DEFINE r == move_in_parent(Tab.root, id)
<1>1. /\ HasTab /\ id \in pane_ids(Tab.root) /\ PathOf(Tab.root, id) # <<>>
      /\ PutTab([Tab EXCEPT !.root = r]) /\ UNCHANGED <<active, sessions, headless, made>>
  BY DEF move_pane, movable
<1>2. PaneTree(Tab.root, made) /\ made \in Nat
  BY <1>1, TheTabIs
<1>3. PaneTree(r, made) /\ panes(r) = panes(Tab.root)
  BY <1>1, <1>2, MoveTree
<1> HIDE DEF r
<1>4. pane_ids(r) = pane_ids(Tab.root) /\ EidsOf(panes(Tab.root)) \subseteq EidsOf(panes(r))
  BY <1>3 DEF pane_ids
<1> QED BY <1>1, <1>3, <1>4, Retreed

LEMMA ResizePane ==
    ASSUME PanesInv, NEW id, NEW grow, resize_pane(id, grow)
    PROVE  PanesInv'
<1> DEFINE ratio == IF grow = (Head(PathOf(Tab.root, id)) = 0) THEN 95 ELSE 5
           r == [Tab.root EXCEPT !.splits[<<>>].ratio = ratio]
<1>1. /\ HasTab /\ PutTab([Tab EXCEPT !.root.splits[<<>>].ratio = ratio])
      /\ UNCHANGED <<active, sessions, headless, made>>
  BY DEF resize_pane
<1>a. ratio \in Int
  OBVIOUS
<1> HIDE DEF ratio
<1>2. PutTab([Tab EXCEPT !.root = r])
  BY <1>1
<1>3. PaneTree(Tab.root, made) /\ made \in Nat
  BY <1>1, TheTabIs
<1>4. /\ r = [leaves |-> r.leaves, splits |-> r.splits] /\ r.leaves = Tab.root.leaves
      /\ DOMAIN r.splits = DOMAIN Tab.root.splits
      /\ \A p \in DOMAIN Tab.root.splits : r.splits[p] \in Divisions
  <2>1. Tab.root = [leaves |-> Tab.root.leaves, splits |-> Tab.root.splits]
    BY <1>3 DEF PaneTree
  <2> DEFINE s == [Tab.root.splits EXCEPT ![<<>>].ratio = ratio]
  <2>2. r = [Tab.root EXCEPT !.splits = s]
    OBVIOUS
  <2>3. /\ DOMAIN s = DOMAIN Tab.root.splits
        /\ \A p \in DOMAIN Tab.root.splits : s[p] \in Divisions
    BY <1>3, <1>a DEF PaneTree, Divisions
  <2> HIDE DEF s, r
  <2>4. r = [leaves |-> Tab.root.leaves, splits |-> s]
    BY <2>1, <2>2
  <2> QED BY <2>3, <2>4
<1> HIDE DEF r
<1>5. PaneTree(r, made) /\ pane_ids(r) = pane_ids(Tab.root)
  BY <1>3, <1>4, SameIdsTree
<1>6. EidsOf(panes(Tab.root)) \subseteq EidsOf(panes(r))
  BY <1>4 DEF panes
<1> QED BY <1>1, <1>2, <1>5, <1>6, Retreed

-----------------------------------------------------------------------------
(* The steps: another process.                                             *)

LEMMA FunctionSeq ==
    ASSUME NEW n \in Nat, NEW f, f = [i \in 1..n |-> f[i]]
    PROVE  IsSeq(f) /\ Len(f) = n /\ DOMAIN f = 1..n
<1> DEFINE S == {f[i] : i \in 1..n}
<1>1. f \in [1..n -> S]
  OBVIOUS
<1> HIDE DEF S
<1>2. f \in Seq(S) /\ Len(f) = n /\ DOMAIN f = 1..n
  BY <1>1
<1> QED BY <1>2, SeqFrom

RestoredTab(tab, gen, failed) == [tab EXCEPT !.root = Respawned(tab.root, gen, failed)]

RestoredWorkspace(ws, gen, failed) ==
    [ws EXCEPT !.tabs = [j \in DOMAIN ws.tabs |-> RestoredTab(ws.tabs[j], gen, failed)]]

LEMMA TabRestored ==
    ASSUME NEW n \in Nat, NEW tab, TabOK(tab, n), NEW gen, NEW failed
    PROVE  LET t == RestoredTab(tab, gen, failed)
           IN /\ TabOK(t, n) /\ t.id = tab.id
              /\ \A p \in panes(tab.root) : p.id \notin failed =>
                    [of |-> p.id, gen |-> gen] \in EidsOf(panes(t.root))
<1> DEFINE r == Respawned(tab.root, gen, failed)
           t == RestoredTab(tab, gen, failed)
<1>1. /\ PaneTree(tab.root, n)
      /\ tab = [id |-> tab.id, root |-> tab.root, active_pane |-> tab.active_pane,
                zoom |-> tab.zoom]
      /\ tab.active_pane \in pane_ids(tab.root) \cup {None}
  BY DEF TabOK
<1>2. /\ PaneTree(r, n) /\ pane_ids(r) = pane_ids(tab.root)
      /\ \A p \in panes(tab.root) : p.id \notin failed =>
            [of |-> p.id, gen |-> gen] \in EidsOf(panes(r))
  BY <1>1, RespawnedTree
<1>3. t = [tab EXCEPT !.root = r]
  BY DEF RestoredTab
<1> HIDE DEF t, r
<1>4. t = [id |-> tab.id, root |-> r, active_pane |-> tab.active_pane, zoom |-> tab.zoom]
  BY ONLY <1>1, <1>3
<1>5. t.id = tab.id /\ t.root = r /\ t.active_pane = tab.active_pane /\ t.zoom = tab.zoom
  BY ONLY <1>4
<1>6. TabOK(t, n)
  BY <1>1, <1>2, <1>4, <1>5 DEF TabOK
<1>7. \A p \in panes(tab.root) : p.id \notin failed =>
            [of |-> p.id, gen |-> gen] \in EidsOf(panes(t.root))
  BY <1>2, <1>5
<1> QED BY <1>5, <1>6, <1>7 DEF t

LEMMA WorkspaceRestored ==
    ASSUME NEW n \in Nat, NEW ws, WorkspaceOK(ws, n), NEW gen, NEW failed
    PROVE  LET w == RestoredWorkspace(ws, gen, failed)
           IN /\ WorkspaceOK(w, n)
              /\ \A p \in PanesIn(ws) : p.id \notin failed =>
                    [of |-> p.id, gen |-> gen] \in EidsOf(PanesIn(w))
<1> DEFINE w == RestoredWorkspace(ws, gen, failed)
           R(tab) == RestoredTab(tab, gen, failed)
           tabs == [j \in DOMAIN ws.tabs |-> R(ws.tabs[j])]
           e(p) == [of |-> p.id, gen |-> gen]
<1>1. /\ ws = [id |-> ws.id, tabs |-> ws.tabs, active_tab |-> ws.active_tab]
      /\ IsSeq(ws.tabs) /\ (\A j \in DOMAIN ws.tabs : TabOK(ws.tabs[j], n))
      /\ ws.active_tab \in TabIds(ws) \/ (ws.active_tab = None /\ ws.tabs = <<>>)
  BY DEF WorkspaceOK
<1>2. \A j \in DOMAIN ws.tabs :
         /\ TabOK(R(ws.tabs[j]), n) /\ R(ws.tabs[j]).id = ws.tabs[j].id
         /\ \A p \in panes(ws.tabs[j].root) : p.id \notin failed =>
               e(p) \in EidsOf(panes(R(ws.tabs[j]).root))
  BY <1>1, TabRestored
<1>3. w = [ws EXCEPT !.tabs = tabs]
  BY DEF RestoredWorkspace
<1>4. Len(ws.tabs) \in Nat /\ DOMAIN ws.tabs = 1..Len(ws.tabs)
      /\ (ws.tabs = <<>> <=> Len(ws.tabs) = 0)
  BY <1>1, SeqFacts
<1> HIDE DEF R, e
<1>5. tabs = [j \in 1..Len(ws.tabs) |-> tabs[j]] /\ \A j \in DOMAIN ws.tabs : tabs[j] = R(ws.tabs[j])
  BY <1>4
<1> HIDE DEF w, tabs
<1>6. w = [id |-> ws.id, tabs |-> tabs, active_tab |-> ws.active_tab]
  BY ONLY <1>1, <1>3
<1>7. w.id = ws.id /\ w.tabs = tabs /\ w.active_tab = ws.active_tab
  BY ONLY <1>6
<1>8. IsSeq(tabs) /\ Len(tabs) = Len(ws.tabs) /\ DOMAIN tabs = DOMAIN ws.tabs
  BY <1>4, <1>5, FunctionSeq
<1>9. w.active_tab \in TabIds(w) \/ (w.active_tab = None /\ w.tabs = <<>>)
  <2>1. CASE ws.active_tab \in TabIds(ws)
    <3>1. PICK j \in DOMAIN ws.tabs : ws.tabs[j].id = ws.active_tab
      BY <2>1 DEF TabIds
    <3>2. j \in DOMAIN w.tabs /\ w.tabs[j].id = w.active_tab
      BY <1>2, <1>5, <1>7, <1>8, <3>1
    <3> QED BY <3>2 DEF TabIds
  <2>2. CASE ws.active_tab = None /\ ws.tabs = <<>>
    <3>1. Len(tabs) = 0
      BY <1>4, <1>8, <2>2
    <3> QED BY <1>7, <1>8, <2>2, <3>1, SeqFacts
  <2> QED BY <1>1, <2>1, <2>2
<1>10. WorkspaceOK(w, n)
  <2>1. \A j \in DOMAIN w.tabs : TabOK(w.tabs[j], n)
    BY <1>2, <1>5, <1>7, <1>8
  <2>2. w = [id |-> w.id, tabs |-> w.tabs, active_tab |-> w.active_tab]
    BY <1>6, <1>7
  <2> QED BY <1>7, <1>8, <1>9, <2>1, <2>2 DEF WorkspaceOK
<1>11. ASSUME NEW p \in PanesIn(ws), p.id \notin failed PROVE e(p) \in EidsOf(PanesIn(w))
  <2>1. PICK j \in DOMAIN ws.tabs : p \in panes(ws.tabs[j].root)
    BY DEF PanesIn
  <2>2. e(p) \in EidsOf(panes(R(ws.tabs[j]).root))
    BY <1>2, <1>11, <2>1
  <2>3. j \in DOMAIN w.tabs /\ w.tabs[j] = R(ws.tabs[j])
    BY <1>5, <1>7, <1>8
  <2> QED BY <2>2, <2>3, EidsInWorkspace
<1> QED BY <1>10, <1>11 DEF w, e

LEMMA Restarted ==
    ASSUME PanesInv, NEW failed, Restart(failed)
    PROVE  PanesInv'
<1> DEFINE gen == restarts + 1
           R(ws) == RestoredWorkspace(ws, gen, failed)
           n == Len(workspaces)
           e(p) == [of |-> p.id, gen |-> gen]
           all == UNION {PanesIn(workspaces[i]) : i \in DOMAIN workspaces}
<1>1. /\ workspaces' = [i \in DOMAIN workspaces |-> R(workspaces[i])]
      /\ active' = 1 /\ headless' = {} /\ made' = made
      /\ sessions' = {e(p) : p \in {q \in all : q.id \notin failed}}
  BY DEF Restart, RestoredWorkspace, RestoredTab
<1>2. /\ IsSeq(workspaces) /\ n \in Nat /\ DOMAIN workspaces = 1..n /\ active \in 1..n
      /\ made \in Nat /\ n <= MaxWorkspaces
  BY SeqFacts DEF PanesInv
<1>3. \A i \in DOMAIN workspaces :
         /\ WorkspaceOK(R(workspaces[i]), made)
         /\ \A p \in PanesIn(workspaces[i]) : p.id \notin failed =>
               e(p) \in EidsOf(PanesIn(R(workspaces[i])))
  <2> TAKE i \in DOMAIN workspaces
  <2>1. WorkspaceOK(workspaces[i], made)
    BY DEF PanesInv
  <2> QED BY <1>2, <2>1, WorkspaceRestored
<1> HIDE DEF R, e, gen, n
<1>4. workspaces' = [i \in 1..n |-> workspaces'[i]]
      /\ \A i \in DOMAIN workspaces : workspaces'[i] = R(workspaces[i])
  BY <1>1, <1>2
<1>5. IsSeq(workspaces') /\ Len(workspaces') = n /\ DOMAIN workspaces' = DOMAIN workspaces
  BY <1>2, <1>4, FunctionSeq
<1>6. ASSUME NEW x \in sessions'
      PROVE  \E i \in DOMAIN workspaces' : x \in EidsOf(PanesIn(workspaces'[i]))
  <2>1. PICK p \in all : p.id \notin failed /\ x = e(p)
    BY <1>1
  <2>2. PICK i \in DOMAIN workspaces : p \in PanesIn(workspaces[i])
    OBVIOUS
  <2>3. x \in EidsOf(PanesIn(workspaces'[i])) /\ i \in DOMAIN workspaces'
    BY <1>3, <1>4, <1>5, <2>1, <2>2
  <2> QED BY <2>3
<1>7. NoSessionLeaks'
  BY <1>6 DEF NoSessionLeaks, AllEids
<1>8. \A i \in DOMAIN workspaces' : WorkspaceOK(workspaces'[i], made')
  BY <1>1, <1>3, <1>4, <1>5
<1>9. active' \in DOMAIN workspaces' /\ Len(workspaces') <= MaxWorkspaces
  BY <1>1, <1>2, <1>5
<1> QED BY <1>1, <1>2, <1>5, <1>7, <1>8, <1>9 DEF PanesInv

-----------------------------------------------------------------------------
(* Every step keeps the invariant.                                         *)
LEMMA StepKeepsPanes ==
    ASSUME Bounds, PanesInv, [Next]_vars
    PROVE  PanesInv'
<1>1. CASE create_workspace
  BY <1>1, CreateWorkspace
<1>2. CASE new_tab
  BY <1>2, OpenTab
<1>3. CASE spawn_agent_session
  BY <1>3, SpawnAgentSession
<1>4. CASE attach_task_agent_pane
  BY <1>4, AttachTaskAgentPane
<1>5. ASSUME NEW i, close_workspace(i) PROVE PanesInv'
  BY <1>5, CloseWorkspace
<1>6. ASSUME NEW i, switch_workspace(i) PROVE PanesInv'
  BY <1>6, SwitchWorkspace
<1>7. ASSUME NEW id, close_tab(id) PROVE PanesInv'
  BY <1>7, CloseTab DEF close_tab
<1>8. ASSUME NEW id, switch_tab(id) PROVE PanesInv'
  BY <1>8, ActivateTab DEF switch_tab
<1>9. ASSUME NEW step \in {1, -1}, step_tab(step) PROVE PanesInv'
  BY <1>9, StepTab
<1>10. ASSUME NEW id, NEW to \in 1..MaxTabs, reorder_tab(id, to) PROVE PanesInv'
  <2>1. to \in Nat \ {0}
    OBVIOUS
  <2> QED BY <1>10, <2>1, ReorderTab
<1>11. ASSUME NEW direction \in Directions, split_pane(direction) PROVE PanesInv'
  BY <1>11, SplitPane
<1>12. ASSUME NEW id, close_pane(id) PROVE PanesInv'
  BY <1>12, ClosePane
<1>13. ASSUME NEW id, focus_pane(id) PROVE PanesInv'
  BY <1>13, FocusPane
<1>14. ASSUME NEW step, focus_step(step) PROVE PanesInv'
  BY <1>14, FocusStep
<1>15. ASSUME NEW id, zoom_pane(id) PROVE PanesInv'
  BY <1>15, ZoomPane
<1>16. ASSUME NEW a, NEW b, swap_panes(a, b) PROVE PanesInv'
  BY <1>16, SwapPanes
<1>17. ASSUME NEW id, NEW forward, move_pane(id, forward) PROVE PanesInv'
  BY <1>17, MovePane
<1>18. ASSUME NEW id, NEW grow, resize_pane(id, grow) PROVE PanesInv'
  BY <1>18, ResizePane
<1>19. ASSUME NEW failed, Restart(failed) PROVE PanesInv'
  BY <1>19, Restarted
<1>20. CASE UNCHANGED vars
  BY <1>20 DEF vars, PanesInv, NoSessionLeaks, AllEids
<1> QED
  BY <1>1, <1>2, <1>3, <1>4, <1>5, <1>6, <1>7, <1>8, <1>9, <1>10, <1>11, <1>12, <1>13,
     <1>14, <1>15, <1>16, <1>17, <1>18, <1>19, <1>20 DEF Next

LEMMA PanesAlways ==
    ASSUME Bounds
    PROVE  Spec => []PanesInv
<1>1. Init => PanesInv
  BY InitInv
<1>2. PanesInv /\ [Next]_vars => PanesInv'
  BY StepKeepsPanes
<1> QED BY <1>1, <1>2, PTL DEF Spec

-----------------------------------------------------------------------------
(* Whatever is split, moved, swapped, resized, closed and restored, a pane *)
(* tree is one: each split has two sides and nothing hangs anywhere else   *)
(* (PaneNode::split_by_id, remove_pane, move_pane, restore).               *)
THEOREM PaneTreesStayTrees ==
    ASSUME Bounds
    PROVE  Spec => []TypeOK
<1>1. PanesInv => TypeOK
  <2> SUFFICES ASSUME PanesInv PROVE TypeOK
    OBVIOUS
  <2>1. ASSUME NEW i \in DOMAIN workspaces, NEW j \in DOMAIN workspaces[i].tabs
        PROVE  LET root == workspaces[i].tabs[j].root
               IN /\ DOMAIN root.leaves \cap DOMAIN root.splits = {}
                  /\ <<>> \in DOMAIN root.leaves \cup DOMAIN root.splits
                  /\ DOMAIN root.leaves \cup DOMAIN root.splits
                       = {<<>>} \cup {Append(q, side) : q \in DOMAIN root.splits, side \in {0, 1}}
    <3> DEFINE root == workspaces[i].tabs[j].root
    <3>1. Shape(DOMAIN root.leaves, DOMAIN root.splits)
      BY DEF PanesInv, WorkspaceOK, TabOK, PaneTree
    <3> HIDE DEF root
    <3>2. DOMAIN root.leaves \cap DOMAIN root.splits = {}
          /\ <<>> \in DOMAIN root.leaves \cup DOMAIN root.splits
      BY <3>1 DEF Shape
    <3> QED BY <3>1, <3>2, NodesAreSides DEF root
  <2>2. active \in DOMAIN workspaces /\ Len(workspaces) <= MaxWorkspaces /\ headless \subseteq sessions
    BY DEF PanesInv
  <2> QED BY <2>1, <2>2 DEF TypeOK, EveryTab
<1> QED BY <1>1, PanesAlways, PTL

(* No session outlives its panes, whatever was split, swapped, attached,   *)
(* closed and restored before (close_pane, close_tab, close_workspace,     *)
(* attach_task_agent_pane, restore).                                       *)
THEOREM SessionsGoWithTheirPanes ==
    ASSUME Bounds
    PROVE  Spec => []NoSessionLeaks
<1>1. PanesInv => NoSessionLeaks
  BY DEF PanesInv
<1> QED BY <1>1, PanesAlways, PTL

(* As many ids as leaves, when no two leaves share one.                    *)
LEMMA AsManyIds ==
    ASSUME NEW leaves, IsFiniteSet(DOMAIN leaves),
           \A q, r \in DOMAIN leaves : leaves[q].id = leaves[r].id => q = r
    PROVE  Cardinality({leaves[q].id : q \in DOMAIN leaves})
             = Cardinality(DOMAIN leaves)
<1>1. \E f : /\ f = [q \in DOMAIN leaves |-> f[q]]
             /\ \A q \in DOMAIN leaves : f[q] = leaves[q].id
  <2>1. LET g == [q \in DOMAIN leaves |-> leaves[q].id]
        IN /\ g = [q \in DOMAIN leaves |-> g[q]]
           /\ \A q \in DOMAIN leaves : g[q] = leaves[q].id
    OBVIOUS
  <2> QED BY <2>1
<1>2. PICK f : /\ f = [q \in DOMAIN leaves |-> f[q]]
               /\ \A q \in DOMAIN leaves : f[q] = leaves[q].id
  BY <1>1
<1>3. \A q, r \in DOMAIN leaves : f[q] = f[r] => q = r
  BY <1>2
<1>4. {leaves[q].id : q \in DOMAIN leaves} = {f[q] : q \in DOMAIN leaves}
  BY <1>2
<1> DEFINE ids == {leaves[q].id : q \in DOMAIN leaves}
           D == DOMAIN leaves
<1>5. /\ IsFiniteSet(D)
      /\ f = [q \in D |-> f[q]]
      /\ ids = {f[q] : q \in D}
      /\ \A q, r \in D : f[q] = f[r] => q = r
  BY <1>2, <1>3, <1>4
<1> HIDE DEF ids, D
<1>6. Cardinality(ids) = Cardinality(D)
  BY ONLY <1>5, SameSize
<1> QED BY <1>6 DEF ids, D

(* The active tab is one of its workspace's, no two panes share an id and  *)
(* the focus is in the tab or nowhere (close_tab, close_pane, move_pane).  *)
THEOREM FocusStaysInside ==
    ASSUME Bounds
    PROVE  Spec => []FocusIsInside
<1>1. PanesInv => FocusIsInside
  <2> SUFFICES ASSUME PanesInv PROVE FocusIsInside
    OBVIOUS
  <2>1. ASSUME NEW i \in DOMAIN workspaces
        PROVE  workspaces[i].active_tab \in TabIds(workspaces[i])
               \/ (workspaces[i].active_tab = None /\ workspaces[i].tabs = <<>>)
    BY DEF PanesInv, WorkspaceOK
  <2>2. ASSUME NEW i \in DOMAIN workspaces, NEW j \in DOMAIN workspaces[i].tabs
        PROVE  LET tab == workspaces[i].tabs[j]
               IN /\ Cardinality(pane_ids(tab.root)) = pane_count(tab.root)
                  /\ tab.active_pane \in pane_ids(tab.root) \cup {None}
    <3> DEFINE tab == workspaces[i].tabs[j]
    <3>1. TabOK(tab, made)
      BY DEF PanesInv, WorkspaceOK
    <3> HIDE DEF tab
    <3>2. /\ IsFiniteSet(DOMAIN tab.root.leaves)
          /\ \A q, r \in DOMAIN tab.root.leaves :
               tab.root.leaves[q].id = tab.root.leaves[r].id => q = r
          /\ tab.active_pane \in pane_ids(tab.root) \cup {None}
      BY <3>1 DEF TabOK, PaneTree, Shape
    <3>3. Cardinality({tab.root.leaves[q].id : q \in DOMAIN tab.root.leaves})
            = Cardinality(DOMAIN tab.root.leaves)
      BY <3>2, AsManyIds
    <3>4. Cardinality(pane_ids(tab.root)) = pane_count(tab.root)
      BY <3>3 DEF pane_ids, panes, pane_count
    <3> QED BY <3>2, <3>4 DEF tab
  <2> QED BY <2>1, <2>2 DEF FocusIsInside, EveryTab
<1> QED BY <1>1, PanesAlways, PTL

-----------------------------------------------------------------------------
(* The layout.  A rectangle with two sides of at least 2 * a, a at most    *)
(* the minimum for a pane, is split into two with sides of at least a.     *)

Rects == [x : Int, y : Int, width : Nat, height : Nat]
Sided(r, a) == r.width >= a /\ r.height >= a

(* Windows with room for MaxSplits nested splits, each of which halves a   *)
(* side at worst.                                                          *)
Room ==
    /\ MinPane \in Int
    /\ \E room \in [0..MaxSplits -> Nat \ {0}] :
         /\ \A d \in 1..MaxSplits : room[d] >= 2 * room[d - 1] /\ room[d - 1] <= MinPane
         /\ \A window \in PaneWindows : window \in Rects /\ Sided(window, room[MaxSplits])

LEMMA TwoParts ==
    ASSUME MinPane \in Int, NEW a \in Nat \ {0}, a <= MinPane,
           NEW size \in Nat, size >= 2 * a, NEW ratio \in Int
    PROVE  FirstPart(size, ratio) \in a..(size - a)
<1> DEFINE m == (size * ratio) \div 100
           half == size \div 2
<1>1. m \in Int
  <2> DEFINE k == size * ratio
  <2>1. k \in Int
    OBVIOUS
  <2> HIDE DEF k
  <2>2. k \div 100 \in Int
    BY <2>1
  <2> QED BY <2>2 DEF k
<1>2. half \in Nat /\ half >= a /\ 2 * half <= size
  OBVIOUS
<1> HIDE DEF m, half
<1> DEFINE min == Larger(1, Smaller(MinPane, half))
           avail == Larger(0, size - min)
<1>3. min \in Nat /\ min >= a /\ min <= half
  BY <1>2 DEF Larger, Smaller
<1> HIDE DEF min
<1>4. avail = size - min /\ avail >= min /\ avail \in Nat
  BY <1>2, <1>3 DEF Larger
<1> HIDE DEF avail
<1>5. Smaller(Larger(m, min), Larger(avail, min)) \in min..avail
  BY <1>1, <1>3, <1>4 DEF Larger, Smaller
<1>6. FirstPart(size, ratio) \in min..avail
  BY <1>5 DEF FirstPart, m, half, min, avail
<1> QED BY <1>3, <1>4, <1>6

(* The sizes of two parts of a side make up the side.                      *)
LEMMA Products ==
    ASSUME NEW w \in Int, NEW v \in Int, NEW h \in Int
    PROVE  /\ w * h + (v - w) * h = v * h
           /\ h * w + h * (v - w) = h * v
  OBVIOUS

LEMMA TwoRects ==
    ASSUME MinPane \in Int, NEW a \in Nat \ {0}, a <= MinPane,
           NEW r \in Rects, Sided(r, 2 * a), NEW split \in Divisions
    PROVE  LET s == split_rect(r, split, 0)
               t == split_rect(r, split, 1)
           IN  /\ s \in Rects /\ t \in Rects /\ Sided(s, a) /\ Sided(t, a)
               /\ Inside(s, r) /\ Inside(t, r) /\ Apart(s, t)
               /\ Area(s) + Area(t) = Area(r)
<1> DEFINE s == split_rect(r, split, 0)
           t == split_rect(r, split, 1)
           w == FirstPart(r.width, split.ratio)
           h == FirstPart(r.height, split.ratio)
<1>1. /\ r.x \in Int /\ r.y \in Int /\ r.width \in Nat /\ r.height \in Nat
      /\ r.width >= 2 * a /\ r.height >= 2 * a
      /\ split.ratio \in Int /\ split.direction \in Directions
  BY DEF Rects, Sided, Divisions
<1>2. w \in a..(r.width - a) /\ h \in a..(r.height - a)
  BY <1>1, TwoParts
<1>3. CASE split.direction = "Horizontal"
  <2>1. /\ s = [r EXCEPT !.width = w]
        /\ t = [r EXCEPT !.x = @ + w, !.width = Larger(0, @ - w)]
    BY <1>3 DEF split_rect
  <2> HIDE DEF s, t, w, h
  <2>2. Larger(0, r.width - w) = r.width - w /\ r.width - w \in Nat /\ w \in Nat
    BY <1>1, <1>2 DEF Larger
  <2>a. /\ s = [x |-> r.x, y |-> r.y, width |-> w, height |-> r.height]
        /\ t = [x |-> r.x + w, y |-> r.y, width |-> r.width - w, height |-> r.height]
    BY <2>1, <2>2 DEF Rects
  <2>3. /\ s \in Rects /\ s.x = r.x /\ s.y = r.y /\ s.width = w /\ s.height = r.height
        /\ t \in Rects /\ t.x = r.x + w /\ t.y = r.y /\ t.width = r.width - w
        /\ t.height = r.height
    BY <1>1, <2>2, <2>a DEF Rects
  <2>4. Area(s) + Area(t) = Area(r)
    BY <1>1, <2>2, <2>3, Products DEF Area
  <2>5. /\ Sided(s, a) /\ Sided(t, a) /\ Inside(s, r) /\ Inside(t, r) /\ Apart(s, t)
    BY <1>1, <1>2, <2>3 DEF Sided, Inside, Apart
  <2> QED BY <2>3, <2>4, <2>5 DEF s, t
<1>4. CASE split.direction # "Horizontal"
  <2>1. /\ s = [r EXCEPT !.height = h]
        /\ t = [r EXCEPT !.y = @ + h, !.height = Larger(0, @ - h)]
    BY <1>4 DEF split_rect
  <2> HIDE DEF s, t, w, h
  <2>2. Larger(0, r.height - h) = r.height - h /\ r.height - h \in Nat /\ h \in Nat
    BY <1>1, <1>2 DEF Larger
  <2>a. /\ s = [x |-> r.x, y |-> r.y, width |-> r.width, height |-> h]
        /\ t = [x |-> r.x, y |-> r.y + h, width |-> r.width, height |-> r.height - h]
    BY <2>1, <2>2 DEF Rects
  <2>3. /\ s \in Rects /\ s.x = r.x /\ s.y = r.y /\ s.width = r.width /\ s.height = h
        /\ t \in Rects /\ t.x = r.x /\ t.y = r.y + h /\ t.width = r.width
        /\ t.height = r.height - h
    BY <1>1, <2>2, <2>a DEF Rects
  <2>4. Area(s) + Area(t) = Area(r)
    BY <1>1, <2>2, <2>3, Products DEF Area
  <2>5. /\ Sided(s, a) /\ Sided(t, a) /\ Inside(s, r) /\ Inside(t, r) /\ Apart(s, t)
    BY <1>1, <1>2, <2>3 DEF Sided, Inside, Apart
  <2> QED BY <2>3, <2>4, <2>5 DEF s, t
<1> QED BY <1>3, <1>4

-----------------------------------------------------------------------------
(* Induction.                                                              *)

LEMMA LeastNat ==
    ASSUME NEW T \in SUBSET Nat, T # {}
    PROVE  \E x \in T : \A y \in T : x <= y
<1> DEFINE R == {ss \in Nat \X Nat : ss[1] < ss[2]}
<1>1. IsWellFoundedOn(R, Nat)
  BY NatLessThanWellFounded DEF OpToRel
<1>2. ASSUME NEW x \in T, NEW y \in T, y < x PROVE <<y, x>> \in R
  <2>1. x \in Nat /\ y \in Nat
    OBVIOUS
  <2>2. <<y, x>> \in Nat \X Nat /\ <<y, x>>[1] = y /\ <<y, x>>[2] = x
    BY <2>1
  <2> DEFINE pair == <<y, x>>
  <2> HIDE DEF pair
  <2>3. pair \in Nat \X Nat /\ pair[1] < pair[2]
    BY <1>2, <2>2 DEF pair
  <2>4. pair \in R
    BY <2>3
  <2> QED BY <2>4 DEF pair
<1> HIDE DEF R
<1>3. PICK x \in T : \A y \in T : ~ (<<y, x>> \in R)
  BY <1>1, WFMin
<1>4. \A y \in T : ~(y < x) /\ x \in Nat /\ y \in Nat
  BY <1>2, <1>3
<1> QED BY <1>4

(* A set that has 0 and the successor of each number it has, has all.      *)
LEMMA Induct ==
    ASSUME NEW P \in SUBSET Nat, 0 \in P, \A i \in P : i + 1 \in P
    PROVE  \A n \in Nat : n \in P
<1> DEFINE T == {n \in Nat : n \notin P}
<1>1. ASSUME T # {} PROVE FALSE
  <2>1. T \in SUBSET Nat
    OBVIOUS
  <2>2. PICK x \in T : \A y \in T : x <= y
    BY <1>1, <2>1, LeastNat
  <2>3. x \in Nat /\ x # 0 /\ x \notin P
    BY <2>2
  <2>4. x - 1 \in Nat /\ ~(x <= x - 1) /\ x - 1 + 1 = x
    BY <2>3
  <2>5. x - 1 \in P
    BY <2>2, <2>4
  <2> QED BY <2>3, <2>4, <2>5
<1> QED BY <1>1

(* The values of a recursive function, up to n.                            *)
Runs(f, F, s, n) == f = [i \in 0..n |-> IF i = 0 THEN s ELSE F[i][f[i - 1]]]
Within(f, S, n) == \A i \in 0..n : f[i] \in S

(* An iterated function whose steps stay in S has a value at each index,   *)

-----------------------------------------------------------------------------
(* The way to a node: every step splits the rectangle of the node above.    *)

Stage(f, root, outer, q, n) ==
    f = [i \in 0..n |->
            IF i = 0 THEN outer
            ELSE split_rect(f[i - 1], root.splits[SubSeq(q, 1, i - 1)], q[i])]

LEMMA StageExists ==
    ASSUME NEW root, NEW outer, NEW q, NEW n \in Nat
    PROVE  \E f : Stage(f, root, outer, q, n)
<1> DEFINE Part(r, i) == split_rect(r, root.splits[SubSeq(q, 1, i - 1)], q[i])
           P == {m \in Nat : \E f : f = [i \in 0..m |->
                                           IF i = 0 THEN outer ELSE Part(f[i - 1], i)]}
<1> HIDE DEF Part
<1>1. 0 \in P
  <2> DEFINE f == [i \in 0..0 |-> outer]
  <2>1. f = [i \in 0..0 |-> IF i = 0 THEN outer ELSE Part(f[i - 1], i)]
    OBVIOUS
  <2> QED BY <2>1
<1>2. ASSUME NEW m \in P PROVE m + 1 \in P
  <2>1. m \in Nat
    OBVIOUS
  <2>2. PICK f : f = [i \in 0..m |-> IF i = 0 THEN outer ELSE Part(f[i - 1], i)]
    OBVIOUS
  <2> DEFINE g == [i \in 0..(m + 1) |-> IF i = m + 1 THEN Part(f[m], i) ELSE f[i]]
             h == [i \in 0..(m + 1) |-> IF i = 0 THEN outer ELSE Part(g[i - 1], i)]
  <2>3. ASSUME NEW i \in 0..(m + 1) PROVE g[i] = h[i]
    <3>1. CASE i = m + 1
      <4>1. i - 1 = m /\ m \in 0..(m + 1) /\ m # m + 1 /\ i # 0
        BY <2>1, <3>1
      <4> QED BY <3>1, <4>1
    <3>2. CASE i = 0
      BY <2>1, <2>2, <3>2
    <3>3. CASE i # m + 1 /\ i # 0
      <4>1. i \in 0..m /\ i - 1 \in 0..(m + 1) /\ i - 1 # m + 1 /\ i - 1 \in 0..m
        BY <2>1, <3>3
      <4>2. f[i] = Part(f[i - 1], i)
        BY <2>2, <3>3, <4>1
      <4> QED BY <3>3, <4>1, <4>2
    <3> QED BY <3>1, <3>2, <3>3
  <2>4. g = h
    <3>1. g = [i \in 0..(m + 1) |-> g[i]] /\ h = [i \in 0..(m + 1) |-> h[i]]
      OBVIOUS
    <3> HIDE DEF g, h
    <3> QED BY <2>3, <3>1
  <2>5. \E k : k = [i \in 0..(m + 1) |-> IF i = 0 THEN outer ELSE Part(k[i - 1], i)]
    <3> HIDE DEF g
    <3> QED BY <2>4
  <2> QED BY <2>1, <2>5
<1>3. P \in SUBSET Nat
  OBVIOUS
<1> HIDE DEF P
<1>4. n \in P
  BY <1>1, <1>2, <1>3, Induct
<1> QED BY <1>4 DEF P, Part, Stage

LEMMA StageStart ==
    ASSUME NEW root, NEW outer, NEW q, NEW n \in Nat, NEW f, Stage(f, root, outer, q, n)
    PROVE  f[0] = outer
<1>1. 0 \in 0..n
  OBVIOUS
<1> QED BY <1>1 DEF Stage

LEMMA StageStep ==
    ASSUME NEW root, NEW outer, NEW q, NEW n \in Nat, NEW f, Stage(f, root, outer, q, n)
    PROVE  \A i \in 1..n :
                f[i] = split_rect(f[i - 1], root.splits[SubSeq(q, 1, i - 1)], q[i])
<1> DEFINE Part(r, i) == split_rect(r, root.splits[SubSeq(q, 1, i - 1)], q[i])
<1>1. f = [i \in 0..n |-> IF i = 0 THEN outer ELSE Part(f[i - 1], i)]
  BY DEF Stage
<1> HIDE DEF Part
<1>2. ASSUME NEW i \in 1..n PROVE f[i] = Part(f[i - 1], i)
  <2>1. i \in 0..n /\ i # 0
    OBVIOUS
  <2> QED BY <1>1, <2>1
<1> QED BY <1>2 DEF Part

(* Two ways that lead through the same splits pass the same rectangles.     *)
LEMMA StagesAgree ==
    ASSUME NEW root, NEW outer, NEW p, NEW q, NEW m \in Nat, NEW n \in Nat, m <= n,
           NEW f, Stage(f, root, outer, p, m), NEW g, Stage(g, root, outer, q, n),
           \A i \in 1..m : p[i] = q[i] /\ SubSeq(p, 1, i - 1) = SubSeq(q, 1, i - 1)
    PROVE  f[m] = g[m]
<1> DEFINE P == {i \in Nat : i <= m => f[i] = g[i]}
<1>a. f[0] = outer /\ g[0] = outer
  BY StageStart
<1>b. \A i \in 1..m :
        f[i] = split_rect(f[i - 1], root.splits[SubSeq(p, 1, i - 1)], p[i])
  BY StageStep
<1>c. \A i \in 1..n :
        g[i] = split_rect(g[i - 1], root.splits[SubSeq(q, 1, i - 1)], q[i])
  BY StageStep
<1>1. 0 \in P
  BY <1>a
<1>2. ASSUME NEW i \in P PROVE i + 1 \in P
  <2>1. i \in Nat
    OBVIOUS
  <2>2. CASE i + 1 <= m
    <3>1. i + 1 \in 1..m /\ i + 1 \in 1..n /\ (i + 1) - 1 = i /\ i <= m
      BY <2>1, <2>2
    <3>2. f[i] = g[i]
      BY <3>1
    <3>3. /\ f[i + 1] = split_rect(f[i], root.splits[SubSeq(p, 1, i)], p[i + 1])
          /\ g[i + 1] = split_rect(g[i], root.splits[SubSeq(q, 1, i)], q[i + 1])
      BY <1>b, <1>c, <3>1
    <3>4. p[i + 1] = q[i + 1] /\ SubSeq(p, 1, i) = SubSeq(q, 1, i)
      BY <3>1
    <3>5. f[i + 1] = g[i + 1]
      BY <3>2, <3>3, <3>4
    <3> QED BY <2>1, <3>5
  <2> QED BY <2>1, <2>2
<1>3. P \in SUBSET Nat
  OBVIOUS
<1> HIDE DEF P
<1>4. m \in P
  BY <1>1, <1>2, <1>3, Induct
<1> QED BY <1>4 DEF P

LEMMA WalkIs ==
    ASSUME NEW root, NEW outer, NEW q \in Paths
    PROVE  \E f : Stage(f, root, outer, q, Len(q)) /\ walk(root, outer, q) = f[Len(q)]
<1>1. Len(q) \in Nat
  BY PathFacts
<1>2. \E f : Stage(f, root, outer, q, Len(q))
  BY <1>1, StageExists
<1> QED BY <1>2 DEF Stage, walk

LEMMA WalkSide ==
    ASSUME NEW root, NEW outer, NEW p \in Paths, NEW side \in {0, 1}
    PROVE  walk(root, outer, Append(p, side))
             = split_rect(walk(root, outer, p), root.splits[p], side)
<1> DEFINE q == Append(p, side)
           n == Len(p)
<1>1. /\ q \in Paths /\ Len(q) = n + 1 /\ n \in Nat /\ q[n + 1] = side
      /\ \A i \in 1..n : q[i] = p[i]
  BY PathFacts, SidePath
<1> HIDE DEF q
<1>2. ASSUME NEW i \in 1..(n + 1) PROVE SubSeq(p, 1, i - 1) = SubSeq(q, 1, i - 1)
  <2>1. i - 1 \in 0..n /\ i - 1 \in 0..(Len(q) - 1)
    BY <1>1
  <2>2. /\ SubSeq(q, 1, i - 1) \in Paths /\ Len(SubSeq(q, 1, i - 1)) = i - 1
        /\ \A j \in 1..(i - 1) : SubSeq(q, 1, i - 1)[j] = q[j]
    BY <1>1, <2>1, PrefixPath
  <2>3. /\ SubSeq(p, 1, i - 1) \in Seq({0, 1}) /\ Len(SubSeq(p, 1, i - 1)) = i - 1
        /\ \A j \in 1..(i - 1) : SubSeq(p, 1, i - 1)[j] = p[j]
    BY <1>1, <2>1, SubSeqProperties DEF Paths
  <2>4. \A j \in 1..(i - 1) : SubSeq(p, 1, i - 1)[j] = SubSeq(q, 1, i - 1)[j]
    BY <1>1, <2>1, <2>2, <2>3
  <2> DEFINE a == SubSeq(p, 1, i - 1)
             b == SubSeq(q, 1, i - 1)
  <2>5. a \in Paths /\ b \in Paths /\ Len(a) = Len(b) /\ \A j \in 1..Len(a) : a[j] = b[j]
    BY <2>2, <2>3, <2>4 DEF Paths
  <2> HIDE DEF a, b
  <2>6. a = b
    BY <2>5, SamePath
  <2> QED BY <2>6 DEF a, b
<1>3. SubSeq(q, 1, n) = p
  <2>1. n \in 0..(Len(q) - 1)
    BY <1>1
  <2>2. /\ SubSeq(q, 1, n) \in Paths /\ Len(SubSeq(q, 1, n)) = n
        /\ \A j \in 1..n : SubSeq(q, 1, n)[j] = q[j]
    BY <1>1, <2>1, PrefixPath
  <2> QED BY <1>1, <2>2, SamePath
<1>4. PICK f : Stage(f, root, outer, p, n) /\ walk(root, outer, p) = f[n]
  BY WalkIs
<1>5. PICK g : Stage(g, root, outer, q, n + 1) /\ walk(root, outer, q) = g[n + 1]
  BY <1>1, WalkIs
<1>6. f[n] = g[n]
  <2>1. n + 1 \in Nat /\ n <= n + 1
    BY <1>1
  <2>2. \A i \in 1..n : p[i] = q[i] /\ SubSeq(p, 1, i - 1) = SubSeq(q, 1, i - 1)
    BY <1>1, <1>2
  <2> HIDE DEF n
  <2> QED BY <1>1, <1>4, <1>5, <2>1, <2>2, StagesAgree
<1>7. g[n + 1] = split_rect(g[n], root.splits[SubSeq(q, 1, n)], q[n + 1])
  <2>1. n + 1 \in Nat /\ n + 1 \in 1..(n + 1) /\ (n + 1) - 1 = n
    BY <1>1
  <2>2. \A i \in 1..(n + 1) :
          g[i] = split_rect(g[i - 1], root.splits[SubSeq(q, 1, i - 1)], q[i])
    BY <1>5, <2>1, StageStep
  <2> QED BY <2>1, <2>2
<1> QED BY <1>1, <1>3, <1>4, <1>5, <1>6, <1>7 DEF q

LEMMA WalkRoot ==
    ASSUME NEW root, NEW outer
    PROVE  walk(root, outer, <<>>) = outer
<1>1. PICK f : Stage(f, root, outer, <<>>, 0) /\ walk(root, outer, <<>>) = f[0]
  BY EmptyPath, WalkIs
<1>2. 0 \in Nat
  OBVIOUS
<1>3. f[0] = outer
  BY <1>1, <1>2, StageStart
<1> QED BY <1>1, <1>3

-----------------------------------------------------------------------------
(* Nodes and their depth.                                                  *)

Below(p, x) == p = x \/ Above(p, x)

(* No node is deeper than there are splits: those above it have different   *)
(* lengths.                                                                *)
LEMMA Depth ==
    ASSUME NEW leaves, NEW splits, Shape(leaves, splits), NEW x \in leaves \cup splits
    PROVE  Len(x) \in Nat /\ Len(x) <= Cardinality(splits)
<1> DEFINE n == Len(x)
           S == 0..(n - 1)
           f == [k \in S |-> SubSeq(x, 1, k)]
           T == {f[k] : k \in S}
<1>1. x \in Paths /\ n \in Nat /\ IsFiniteSet(splits)
  BY PathFacts DEF Shape
<1>2. IsFiniteSet(S) /\ Cardinality(S) = n
  <2>1. 0 \in Int /\ n - 1 \in Int
    BY <1>1
  <2>2. IsFiniteSet(0..(n - 1)) /\ Cardinality(0..(n - 1)) = IF 0 > n - 1 THEN 0 ELSE (n - 1) - 0 + 1
    BY <2>1, FS_Interval
  <2> QED BY <1>1, <2>2
<1>3. \A k \in S : f[k] \in splits /\ Len(f[k]) = k
  BY <1>1, PrefixPath DEF Shape
<1>4. T \subseteq splits
  BY <1>3
<1>5. \A k, j \in S : f[k] = f[j] => k = j
  <2> HIDE DEF f
  <2> QED BY <1>3
<1>6. Cardinality(T) = n
  <2>1. f = [k \in S |-> f[k]]
    OBVIOUS
  <2> HIDE DEF f, S
  <2> QED BY <1>2, <1>5, <2>1, SameSize
<1>7. Cardinality(T) <= Cardinality(splits)
  <2> HIDE DEF T
  <2> QED BY <1>1, <1>4, FS_Subset
<1> QED BY <1>1, <1>6, <1>7

(* Two different leaves part at some split.                                *)
LEMMA Parting ==
    ASSUME NEW leaves, NEW splits, Shape(leaves, splits),
           NEW x \in leaves, NEW y \in leaves, x # y
    PROVE  \E p \in splits : \E side \in {0, 1} :
              Below(Append(p, side), x) /\ Below(Append(p, 1 - side), y)
<1>1. /\ x \in Paths /\ y \in Paths /\ Len(x) \in Nat /\ Len(y) \in Nat
      /\ \A i \in 1..Len(x) : x[i] \in {0, 1}
      /\ \A i \in 1..Len(y) : y[i] \in {0, 1}
  BY PathFacts DEF Shape
<1>2. ~Above(x, y) /\ ~Above(y, x)
  BY <1>1, AboveIsASplit DEF Shape
<1> DEFINE T == {i \in Nat : i \in 1..Len(x) /\ i \in 1..Len(y) /\ x[i] # y[i]}
<1>3. T # {}
  <2> SUFFICES ASSUME \A i \in Nat : i \in 1..Len(x) /\ i \in 1..Len(y) => x[i] = y[i]
               PROVE  FALSE
    OBVIOUS
  <2>1. CASE Len(x) = Len(y)
    <3>1. \A i \in 1..Len(x) : x[i] = y[i]
      BY <1>1, <2>1
    <3> QED BY <1>1, <2>1, <3>1, SamePath
  <2>2. CASE Len(x) < Len(y)
    <3>1. \A i \in 1..Len(x) : x[i] = y[i]
      BY <1>1, <2>2
    <3> QED BY <1>2, <2>2, <3>1 DEF Above
  <2>3. CASE Len(y) < Len(x)
    <3>1. \A i \in 1..Len(y) : y[i] = x[i]
      BY <1>1, <2>3
    <3> QED BY <1>2, <2>3, <3>1 DEF Above
  <2> QED BY <1>1, <2>1, <2>2, <2>3
<1>4. PICK i \in T : \A j \in T : i <= j
  <2>1. T \in SUBSET Nat
    OBVIOUS
  <2> HIDE DEF T
  <2> QED BY <1>3, <2>1, LeastNat
<1>5. /\ i \in Nat \ {0} /\ i \in 1..Len(x) /\ i \in 1..Len(y) /\ x[i] # y[i]
      /\ i - 1 \in 0..(Len(x) - 1)
  BY <1>1
<1>6. ASSUME NEW j \in 1..(i - 1) PROVE x[j] = y[j]
  <2>1. j \in Nat /\ j \in 1..Len(x) /\ j \in 1..Len(y) /\ ~(i <= j)
    BY <1>1, <1>5
  <2> QED BY <1>4, <2>1
<1> DEFINE p == SubSeq(x, 1, i - 1)
<1>7. /\ p \in Paths /\ Len(p) = i - 1 /\ \A j \in 1..(i - 1) : p[j] = x[j]
      /\ p \in splits
  BY <1>1, <1>5, PrefixPath DEF Shape
<1> HIDE DEF p
<1>8. ASSUME NEW z \in Paths, Len(z) \in Nat, i \in 1..Len(z), z[i] \in {0, 1},
             \A j \in 1..(i - 1) : p[j] = z[j]
      PROVE  Below(Append(p, z[i]), z)
  <2>1. /\ Append(p, z[i]) \in Paths /\ Len(Append(p, z[i])) = i
        /\ \A j \in 1..(i - 1) : Append(p, z[i])[j] = p[j]
        /\ Append(p, z[i])[i] = z[i]
    <3>1. Len(p) + 1 = i
      BY <1>5, <1>7
    <3> QED BY <1>7, <1>8, <3>1, SidePath
  <2>2. \A j \in 1..i : Append(p, z[i])[j] = z[j]
    BY <1>5, <1>8, <2>1
  <2>3. CASE Len(z) = i
    BY <1>8, <2>1, <2>2, <2>3, SamePath DEF Below
  <2>4. CASE Len(z) # i
    <3>1. i < Len(z)
      BY <1>5, <1>8, <2>4
    <3> QED BY <2>1, <2>2, <3>1 DEF Above, Below
  <2> QED BY <2>3, <2>4
<1>9. x[i] \in {0, 1} /\ y[i] = 1 - x[i] /\ y[i] \in {0, 1}
  BY <1>1, <1>5
<1>10. Below(Append(p, x[i]), x)
  BY <1>1, <1>5, <1>7, <1>8, <1>9
<1>11. Below(Append(p, y[i]), y)
  BY <1>1, <1>5, <1>6, <1>7, <1>8, <1>9
<1> QED BY <1>7, <1>9, <1>10, <1>11

-----------------------------------------------------------------------------
(* The rectangles of a tree: those of the two sides of a split lie in the   *)
(* split's, apart from each other, and make it up.                         *)

Divided(R, leaves, splits) ==
    /\ \A x \in leaves \cup splits : R[x] \in Rects
    /\ \A p \in splits :
         /\ Inside(R[Append(p, 0)], R[p]) /\ Inside(R[Append(p, 1)], R[p])
         /\ Apart(R[Append(p, 0)], R[Append(p, 1)])
         /\ Area(R[Append(p, 0)]) + Area(R[Append(p, 1)]) = Area(R[p])

Walks(root, window) ==
    [x \in DOMAIN root.leaves \cup DOMAIN root.splits |-> walk(root, window, x)]

LEMMA WalksDivide ==
    ASSUME Bounds, Room, NEW n \in Nat, NEW root, PaneTree(root, n), NEW window \in PaneWindows
    PROVE  /\ Divided(Walks(root, window), DOMAIN root.leaves, DOMAIN root.splits)
           /\ Walks(root, window)[<<>>] = window
<1> DEFINE leaves == DOMAIN root.leaves
           splits == DOMAIN root.splits
           nodes == leaves \cup splits
           R == [x \in nodes |-> walk(root, window, x)]
<1>1. /\ Shape(leaves, splits) /\ (\A p \in splits : root.splits[p] \in Divisions)
      /\ Cardinality(splits) <= MaxSplits /\ MaxSplits \in Nat /\ Cardinality(splits) \in Nat
  BY FS_CardinalityType DEF PaneTree, Bounds, Shape
<1>2. \A x \in nodes : R[x] = walk(root, window, x)
  OBVIOUS
<1> HIDE DEF leaves, splits, R
<1>3. PICK room \in [0..MaxSplits -> Nat \ {0}] :
         /\ \A d \in 1..MaxSplits : room[d] >= 2 * room[d - 1] /\ room[d - 1] <= MinPane
         /\ window \in Rects /\ Sided(window, room[MaxSplits])
  BY DEF Room
<1>4. MinPane \in Int
  BY DEF Room
<1>5. \A x \in nodes : x \in Paths /\ Len(x) \in Nat /\ Len(x) <= MaxSplits
  <2>1. ASSUME NEW x \in nodes PROVE x \in Paths /\ Len(x) \in Nat /\ Len(x) <= MaxSplits
    <3>1. Len(x) \in Nat /\ Len(x) <= Cardinality(splits)
      BY <1>1, Depth
    <3> QED BY <1>1, <3>1 DEF Shape
  <2> QED BY <2>1
<1> DEFINE At(d) == room[MaxSplits - d]
           Good(x) == R[x] \in Rects /\ Sided(R[x], At(Len(x)))
<1>6. ASSUME NEW p \in splits, Good(p)
      PROVE  LET s == R[Append(p, 0)]
                 t == R[Append(p, 1)]
             IN  /\ s \in Rects /\ t \in Rects
                 /\ Sided(s, At(Len(p) + 1)) /\ Sided(t, At(Len(p) + 1))
                 /\ Inside(s, R[p]) /\ Inside(t, R[p]) /\ Apart(s, t)
                 /\ Area(s) + Area(t) = Area(R[p])
  <2>1. p \in Paths /\ Append(p, 0) \in nodes /\ Append(p, 1) \in nodes /\ p \in nodes
    BY <1>1 DEF Shape
  <2>2. Len(p) \in Nat /\ Len(p) + 1 <= MaxSplits
    <3>1. 0 \in {0, 1}
      OBVIOUS
    <3>2. Len(Append(p, 0)) = Len(p) + 1
      BY <2>1, <3>1, SidePath
    <3> QED BY <1>5, <2>1, <3>2
  <2> DEFINE d == MaxSplits - Len(p)
             a == room[d - 1]
  <2>3. d \in 1..MaxSplits /\ d - 1 \in 0..MaxSplits /\ d \in 0..MaxSplits
    BY <1>1, <2>2
  <2>4. d - 1 = MaxSplits - (Len(p) + 1)
    BY <1>1, <2>2
  <2>5. a \in Nat \ {0} /\ a <= MinPane /\ room[d] >= 2 * a /\ room[d] \in Nat
    BY <1>3, <2>3
  <2>6. At(Len(p) + 1) = a /\ At(Len(p)) = room[d]
    BY <2>4
  <2>7. R[p] \in Rects /\ Sided(R[p], 2 * a)
    <3>1. R[p] \in Rects /\ Sided(R[p], room[d])
      BY <1>6, <2>6
    <3>2. R[p].width \in Nat /\ R[p].height \in Nat
      BY <3>1 DEF Rects
    <3> HIDE DEF d, a
    <3> QED BY <2>5, <3>1, <3>2 DEF Sided
  <2>8. /\ R[Append(p, 0)] = split_rect(R[p], root.splits[p], 0)
        /\ R[Append(p, 1)] = split_rect(R[p], root.splits[p], 1)
    BY <1>2, <2>1, WalkSide
  <2>9. root.splits[p] \in Divisions
    BY <1>1
  <2> HIDE DEF d, a, At
  <2>10. LET s == split_rect(R[p], root.splits[p], 0)
             t == split_rect(R[p], root.splits[p], 1)
         IN  /\ s \in Rects /\ t \in Rects /\ Sided(s, a) /\ Sided(t, a)
             /\ Inside(s, R[p]) /\ Inside(t, R[p]) /\ Apart(s, t)
             /\ Area(s) + Area(t) = Area(R[p])
    BY <1>4, <2>5, <2>7, <2>9, TwoRects
  <2> QED BY <2>6, <2>8, <2>10
<1>7. \A x \in nodes : Good(x)
  <2> DEFINE P == {d \in Nat : \A x \in nodes : Len(x) = d => Good(x)}
  <2>1. 0 \in P
    <3> SUFFICES ASSUME NEW x \in nodes, Len(x) = 0 PROVE Good(x)
      OBVIOUS
    <3>1. x = <<>>
      BY <1>5, PathFacts
    <3>2. R[x] = window
      BY <1>2, <3>1, WalkRoot
    <3>3. MaxSplits - Len(x) = MaxSplits
      BY <1>1
    <3> QED BY <1>3, <3>2, <3>3
  <2>2. ASSUME NEW d \in P PROVE d + 1 \in P
    <3>1. d \in Nat
      OBVIOUS
    <3> SUFFICES ASSUME NEW x \in nodes, Len(x) = d + 1 PROVE Good(x)
      BY <3>1
    <3>2. x \in Paths /\ x # <<>>
      BY <1>5, <3>1, EmptyPath
    <3>3. /\ Front(x) \in Paths /\ Len(Front(x)) = d /\ Last(x) \in {0, 1}
          /\ x = Append(Front(x), Last(x)) /\ Above(Front(x), x)
      BY <3>1, <3>2, FrontPath
    <3>4. Front(x) \in splits
      BY <1>1, <3>3, AboveIsASplit
    <3>5. Good(Front(x))
      BY <3>3, <3>4
    <3> QED BY <1>6, <3>3, <3>4, <3>5
  <2>3. P \in SUBSET Nat
    OBVIOUS
  <2> HIDE DEF P
  <2>4. \A d \in Nat : d \in P
    BY <2>1, <2>2, <2>3, Induct
  <2> QED BY <1>5, <2>4 DEF P
<1>8. Divided(R, leaves, splits)
  <2>1. \A p \in splits : Good(p)
    BY <1>7
  <2> QED BY <1>6, <1>7, <2>1 DEF Divided
<1>9. R[<<>>] = window
  BY <1>1, <1>2, WalkRoot DEF Shape
<1> QED BY <1>8, <1>9 DEF leaves, splits, R, Walks

LEMMA InsideInside ==
    ASSUME NEW r \in Rects, NEW s \in Rects, NEW t \in Rects, Inside(r, s), Inside(s, t)
    PROVE  Inside(r, t)
  BY DEF Rects, Inside

(* What is below a node lies in its rectangle.                             *)
LEMMA BelowIsInside ==
    ASSUME NEW leaves, NEW splits, Shape(leaves, splits), NEW R, Divided(R, leaves, splits),
           NEW p \in leaves \cup splits, NEW y \in leaves \cup splits, Below(p, y)
    PROVE  Inside(R[y], R[p])
<1> DEFINE nodes == leaves \cup splits
           P == {n \in Nat : \A x \in nodes : Len(x) = n /\ Below(p, x) => Inside(R[x], R[p])}
<1>1. \A x \in nodes : /\ x \in Paths /\ Len(x) \in Nat /\ R[x].x \in Int /\ R[x].y \in Int
                       /\ R[x].width \in Nat /\ R[x].height \in Nat
  <2>1. \A x \in nodes : x \in Paths /\ Len(x) \in Nat
    BY PathFacts DEF Shape
  <2>2. \A x \in nodes : R[x] \in Rects
    BY DEF Divided
  <2> QED BY <2>1, <2>2 DEF Rects
<1>2. Inside(R[p], R[p])
  BY <1>1 DEF Inside
<1>3. 0 \in P
  <2> SUFFICES ASSUME NEW x \in nodes, Len(x) = 0, Below(p, x) PROVE p = x
    BY <1>2
  <2> QED BY <1>1 DEF Below, Above
<1>4. ASSUME NEW n \in P PROVE n + 1 \in P
  <2>1. n \in Nat
    OBVIOUS
  <2> SUFFICES ASSUME NEW x \in nodes, Len(x) = n + 1, Below(p, x) PROVE Inside(R[x], R[p])
    BY <2>1
  <2>2. CASE p = x
    BY <1>2, <2>2
  <2>3. CASE Above(p, x)
    <3>1. x \in Paths /\ x # <<>> /\ p \in Paths /\ Len(p) \in Nat
      BY <1>1, <2>1, EmptyPath
    <3> DEFINE f == Front(x)
    <3>2. /\ f \in Paths /\ Len(f) = n /\ Last(x) \in {0, 1}
          /\ x = Append(f, Last(x)) /\ Above(f, x)
          /\ \A i \in 1..n : f[i] = x[i]
      <4>1. /\ f \in Paths /\ Len(f) = Len(x) - 1 /\ Last(x) \in {0, 1}
            /\ x = Append(f, Last(x)) /\ Above(f, x)
            /\ \A i \in 1..(Len(x) - 1) : f[i] = x[i]
        BY <3>1, FrontPath
      <4>2. Len(x) - 1 = n
        BY <2>1
      <4> QED BY <4>1, <4>2
    <3> HIDE DEF f
    <3>3. f \in splits
      BY <3>2, AboveIsASplit
    <3>4. Below(p, f)
      <4>1. Len(p) <= n /\ \A i \in 1..Len(p) : p[i] = f[i]
        BY <2>1, <2>3, <3>1, <3>2 DEF Above
      <4>2. CASE Len(p) = n
        BY <3>1, <3>2, <4>1, <4>2, SamePath DEF Below
      <4>3. CASE Len(p) # n
        <5>1. Len(p) < n
          BY <2>1, <3>1, <4>1, <4>3
        <5> QED BY <3>2, <4>1, <5>1 DEF Below, Above
      <4> QED BY <4>2, <4>3
    <3>5. Inside(R[f], R[p])
      BY <3>2, <3>3, <3>4
    <3>6. Inside(R[x], R[f])
      BY <3>2, <3>3 DEF Divided
    <3>7. R[x] \in Rects /\ R[f] \in Rects /\ R[p] \in Rects
      BY <3>3 DEF Divided
    <3> QED BY <3>5, <3>6, <3>7, InsideInside
  <2> QED BY <2>2, <2>3 DEF Below
<1>5. P \in SUBSET Nat
  OBVIOUS
<1> HIDE DEF P
<1>6. \A n \in Nat : n \in P
  BY <1>3, <1>4, <1>5, Induct
<1> QED BY <1>1, <1>6 DEF P

(* No leaf covers a part of another.                                       *)
LEMMA LeavesApart ==
    ASSUME NEW leaves, NEW splits, Shape(leaves, splits), NEW R, Divided(R, leaves, splits),
           NEW x \in leaves, NEW y \in leaves, x # y
    PROVE  Apart(R[x], R[y])
<1>1. PICK p \in splits, side \in {0, 1} :
         Below(Append(p, side), x) /\ Below(Append(p, 1 - side), y)
  BY Parting
<1> DEFINE a == Append(p, side)
           b == Append(p, 1 - side)
<1>2. a \in leaves \cup splits /\ b \in leaves \cup splits
  <2>1. 1 - side \in {0, 1}
    OBVIOUS
  <2> QED BY <2>1 DEF Shape
<1>3. Apart(R[a], R[b])
  <2>1. CASE side = 0
    <3>1. a = Append(p, 0) /\ b = Append(p, 1)
      BY <2>1
    <3> QED BY <3>1 DEF Divided
  <2>2. CASE side = 1
    <3>1. a = Append(p, 1) /\ b = Append(p, 0)
      BY <2>2
    <3>2. Apart(R[b], R[a])
      BY <3>1 DEF Divided
    <3> HIDE DEF a, b
    <3> QED BY <3>2 DEF Apart
  <2> QED BY <2>1, <2>2
<1> HIDE DEF a, b
<1>4. Inside(R[x], R[a]) /\ Inside(R[y], R[b])
  <2>1. Below(a, x) /\ Below(b, y)
    BY <1>1 DEF a, b
  <2> QED BY <1>2, <2>1, BelowIsInside
<1>5. \A z \in {x, y, a, b} : /\ R[z].x \in Int /\ R[z].y \in Int
                              /\ R[z].width \in Nat /\ R[z].height \in Nat
  <2>1. \A z \in {x, y, a, b} : R[z] \in Rects
    BY <1>2 DEF Divided
  <2> QED BY <2>1 DEF Rects
<1> QED BY <1>3, <1>4, <1>5 DEF Inside, Apart

-----------------------------------------------------------------------------
(* Sums over the ids.                                                      *)

Sums(f, w, n) == f = [i \in 0..n |-> IF i = 0 THEN 0 ELSE f[i - 1] + w[i]]
Weights(n) == [1..n -> Int]

LEMMA SumExists ==
    ASSUME NEW n \in Nat, NEW w
    PROVE  \E f : Sums(f, w, n)
<1> DEFINE P == {m \in Nat : \E f : Sums(f, w, m)}
<1>1. 0 \in P
  <2> DEFINE f == [i \in 0..0 |-> 0]
  <2>1. f = [i \in 0..0 |-> IF i = 0 THEN 0 ELSE f[i - 1] + w[i]]
    OBVIOUS
  <2> QED BY <2>1 DEF Sums
<1>2. ASSUME NEW m \in P PROVE m + 1 \in P
  <2>1. m \in Nat
    OBVIOUS
  <2>2. PICK f : f = [i \in 0..m |-> IF i = 0 THEN 0 ELSE f[i - 1] + w[i]]
    BY DEF Sums
  <2> DEFINE g == [i \in 0..(m + 1) |-> IF i = m + 1 THEN f[m] + w[i] ELSE f[i]]
             h == [i \in 0..(m + 1) |-> IF i = 0 THEN 0 ELSE g[i - 1] + w[i]]
  <2>3. ASSUME NEW i \in 0..(m + 1) PROVE g[i] = h[i]
    <3>1. CASE i = m + 1
      <4>1. i - 1 = m /\ m \in 0..(m + 1) /\ m # m + 1 /\ i # 0
        BY <2>1, <3>1
      <4> QED BY <3>1, <4>1
    <3>2. CASE i = 0
      BY <2>1, <2>2, <3>2
    <3>3. CASE i # m + 1 /\ i # 0
      <4>1. i \in 0..m /\ i - 1 \in 0..(m + 1) /\ i - 1 # m + 1 /\ i - 1 \in 0..m
        BY <2>1, <3>3
      <4>2. f[i] = f[i - 1] + w[i]
        BY <2>2, <3>3, <4>1
      <4> QED BY <3>3, <4>1, <4>2
    <3> QED BY <3>1, <3>2, <3>3
  <2>4. g = h
    <3>1. g = [i \in 0..(m + 1) |-> g[i]] /\ h = [i \in 0..(m + 1) |-> h[i]]
      OBVIOUS
    <3> HIDE DEF g, h
    <3> QED BY <2>3, <3>1
  <2>5. Sums(g, w, m + 1)
    <3> HIDE DEF g
    <3> QED BY <2>4 DEF Sums
  <2> QED BY <2>1, <2>5
<1>3. P \in SUBSET Nat
  OBVIOUS
<1> HIDE DEF P
<1>4. n \in P
  BY <1>1, <1>2, <1>3, Induct
<1> QED BY <1>4 DEF P

LEMMA SumStep ==
    ASSUME NEW n \in Nat, NEW w \in Weights(n), NEW f, Sums(f, w, n)
    PROVE  f[0] = 0 /\ \A i \in 0..n : i # 0 => f[i] = f[i - 1] + w[i] /\ w[i] \in Int
<1>1. 0 \in 0..n
  OBVIOUS
<1>2. f[0] = 0
  BY <1>1 DEF Sums
<1>3. ASSUME NEW i \in 0..n, i # 0 PROVE f[i] = f[i - 1] + w[i] /\ w[i] \in Int
  <2>1. i \in 1..n
    BY <1>3
  <2> QED BY <1>3, <2>1 DEF Sums, Weights
<1> QED BY <1>2, <1>3

(* The sum of the sums is the sum.                                         *)
LEMMA SumsAdd ==
    ASSUME NEW n \in Nat, NEW u \in Weights(n), NEW v \in Weights(n), NEW w \in Weights(n),
           \A i \in 1..n : w[i] = u[i] + v[i],
           NEW f, Sums(f, u, n), NEW g, Sums(g, v, n), NEW h, Sums(h, w, n)
    PROVE  h[n] = f[n] + g[n]
<1> DEFINE P == {m \in Nat : m <= n => f[m] \in Int /\ g[m] \in Int /\ h[m] = f[m] + g[m]}
<1>1. /\ f[0] = 0 /\ \A i \in 0..n : i # 0 => f[i] = f[i - 1] + u[i] /\ u[i] \in Int
      /\ g[0] = 0 /\ \A i \in 0..n : i # 0 => g[i] = g[i - 1] + v[i] /\ v[i] \in Int
      /\ h[0] = 0 /\ \A i \in 0..n : i # 0 => h[i] = h[i - 1] + w[i] /\ w[i] \in Int
  BY SumStep
<1>2. 0 \in P
  BY <1>1
<1>3. ASSUME NEW m \in P PROVE m + 1 \in P
  <2>1. m \in Nat
    OBVIOUS
  <2>2. CASE m + 1 <= n
    <3>1. m + 1 \in 0..n /\ m + 1 # 0 /\ (m + 1) - 1 = m /\ m <= n /\ m + 1 \in 1..n
      BY <2>1, <2>2
    <3>2. f[m] \in Int /\ g[m] \in Int /\ h[m] = f[m] + g[m]
      BY <3>1
    <3>3. /\ f[m + 1] = f[m] + u[m + 1] /\ g[m + 1] = g[m] + v[m + 1]
          /\ h[m + 1] = h[m] + w[m + 1] /\ w[m + 1] = u[m + 1] + v[m + 1]
          /\ u[m + 1] \in Int /\ v[m + 1] \in Int
      BY <1>1, <3>1
    <3> QED BY <2>1, <3>2, <3>3
  <2> QED BY <2>1, <2>2
<1>4. P \in SUBSET Nat
  OBVIOUS
<1> HIDE DEF P
<1>5. n \in P
  BY <1>2, <1>3, <1>4, Induct
<1> QED BY <1>5 DEF P

(* With one weight only, that is the sum.                                  *)
LEMMA SumsToOne ==
    ASSUME NEW n \in Nat, NEW w \in Weights(n), NEW k \in 1..n,
           \A i \in 1..n : i # k => w[i] = 0,
           NEW f, Sums(f, w, n)
    PROVE  f[n] = w[k]
<1> DEFINE P == {m \in Nat : m <= n => f[m] = (IF m < k THEN 0 ELSE w[k])}
<1>1. f[0] = 0 /\ \A i \in 0..n : i # 0 => f[i] = f[i - 1] + w[i] /\ w[i] \in Int
  BY SumStep
<1>2. 0 \in P
  BY <1>1
<1>3. ASSUME NEW m \in P PROVE m + 1 \in P
  <2>1. m \in Nat
    OBVIOUS
  <2>2. CASE m + 1 <= n
    <3>1. m + 1 \in 0..n /\ m + 1 # 0 /\ (m + 1) - 1 = m /\ m <= n /\ m + 1 \in 1..n
      BY <2>1, <2>2
    <3>2. f[m] = (IF m < k THEN 0 ELSE w[k])
      BY <3>1
    <3>3. f[m + 1] = f[m] + w[m + 1] /\ w[m + 1] \in Int /\ w[k] \in Int
      BY <1>1, <3>1 DEF Weights
    <3>4. CASE m + 1 = k
      BY <2>1, <3>2, <3>3, <3>4
    <3>5. CASE m + 1 # k
      <4>1. w[m + 1] = 0
        BY <3>1, <3>5
      <4> QED BY <2>1, <3>2, <3>3, <3>5, <4>1
    <3> QED BY <3>4, <3>5
  <2> QED BY <2>1, <2>2
<1>4. P \in SUBSET Nat
  OBVIOUS
<1> HIDE DEF P
<1>5. n \in P
  BY <1>2, <1>3, <1>4, Induct
<1> QED BY <1>5 DEF P

Weight(rects) == [i \in 1..MaxIds |-> IF i \in DOMAIN rects THEN Area(rects[i]) ELSE 0]

LEMMA CoveredIs ==
    ASSUME Bounds, NEW rects
    PROVE  \E f : Sums(f, Weight(rects), MaxIds) /\ Covered(rects) = f[MaxIds]
<1> DEFINE w == Weight(rects)
           Upto(f) == f = [n \in 0..MaxIds |->
                             IF n = 0 THEN 0
                             ELSE f[n - 1] + (IF n \in DOMAIN rects THEN Area(rects[n]) ELSE 0)]
<1>1. ASSUME NEW f PROVE Sums(f, w, MaxIds) <=> Upto(f)
  <2>1. ASSUME NEW n \in 0..MaxIds, n # 0
        PROVE  w[n] = IF n \in DOMAIN rects THEN Area(rects[n]) ELSE 0
    <3>1. n \in 1..MaxIds
      BY <2>1 DEF Bounds
    <3> QED BY <3>1 DEF Weight
  <2> DEFINE g == [n \in 0..MaxIds |-> IF n = 0 THEN 0 ELSE f[n - 1] + w[n]]
             h == [n \in 0..MaxIds |->
                     IF n = 0 THEN 0
                     ELSE f[n - 1] + (IF n \in DOMAIN rects THEN Area(rects[n]) ELSE 0)]
  <2>2. g = h
    <3> HIDE DEF w
    <3>1. ASSUME NEW n \in 0..MaxIds PROVE g[n] = h[n]
      <4>1. CASE n = 0
        BY <4>1
      <4>2. CASE n # 0
        BY <2>1, <4>2
      <4> QED BY <4>1, <4>2
    <3>2. g = [n \in 0..MaxIds |-> g[n]] /\ h = [n \in 0..MaxIds |-> h[n]]
      OBVIOUS
    <3> HIDE DEF g, h
    <3> QED BY <3>1, <3>2
  <2>3. Sums(f, w, MaxIds) <=> f = g
    BY DEF Sums
  <2> QED BY <2>2, <2>3
<1>2. \E f : Sums(f, w, MaxIds)
  BY SumExists DEF Bounds
<1>3. \E f : Upto(f)
  BY <1>1, <1>2
<1> DEFINE upto == CHOOSE f : Upto(f)
<1>4. Upto(upto)
  <2> HIDE DEF Upto
  <2> QED BY <1>3
<1>5. Covered(rects) = upto[MaxIds]
  BY DEF Covered
<1> HIDE DEF upto, Upto, w
<1> QED BY <1>1, <1>4, <1>5 DEF w

-----------------------------------------------------------------------------
(* The areas of the leaves below a node add up to the node's.              *)

(* What is below a node but not the node is below one of its sides.        *)
LEMMA BelowSides ==
    ASSUME NEW p \in Paths, NEW y \in Paths, p # y
    PROVE  /\ Below(p, y) <=> Below(Append(p, 0), y) \/ Below(Append(p, 1), y)
           /\ ~(Below(Append(p, 0), y) /\ Below(Append(p, 1), y))
<1>1. /\ Len(p) \in Nat /\ Len(y) \in Nat
      /\ \A i \in 1..Len(y) : y[i] \in {0, 1}
  BY PathFacts
<1> DEFINE m == Len(p) + 1
<1>2. ASSUME NEW side \in {0, 1}
      PROVE  Below(Append(p, side), y) <=> Above(p, y) /\ y[m] = side
  <2> DEFINE a == Append(p, side)
  <2>1. /\ a \in Paths /\ Len(a) = m /\ a[m] = side
        /\ \A i \in 1..Len(p) : a[i] = p[i]
    BY SidePath
  <2> HIDE DEF a
  <2>2. ASSUME Below(a, y) PROVE Above(p, y) /\ y[m] = side
    <3>1. m <= Len(y) /\ \A i \in 1..m : a[i] = y[i]
      BY <1>1, <2>1, <2>2 DEF Below, Above
    <3>2. Len(p) < Len(y) /\ m \in 1..m /\ \A i \in 1..Len(p) : i \in 1..m
      BY <1>1, <3>1
    <3> QED BY <2>1, <3>1, <3>2 DEF Above
  <2>3. ASSUME Above(p, y), y[m] = side PROVE Below(a, y)
    <3>1. m <= Len(y) /\ \A i \in 1..Len(p) : p[i] = y[i]
      BY <1>1, <2>3 DEF Above
    <3>2. \A i \in 1..m : a[i] = y[i]
      <4>1. ASSUME NEW i \in 1..m PROVE a[i] = y[i]
        <5>1. i = m \/ i \in 1..Len(p)
          BY <1>1
        <5> QED BY <2>1, <2>3, <3>1, <5>1
      <4> QED BY <4>1
    <3>3. CASE m = Len(y)
      <4>1. a = y
        BY <2>1, <3>2, <3>3, SamePath
      <4> QED BY <4>1 DEF Below
    <3>4. CASE m # Len(y)
      <4>1. m < Len(y)
        BY <1>1, <3>1, <3>4
      <4> QED BY <2>1, <3>2, <4>1 DEF Below, Above
    <3> QED BY <3>3, <3>4
  <2> QED BY <2>2, <2>3 DEF a
<1>3. Above(p, y) => y[m] \in {0, 1}
  <2>1. Above(p, y) => m \in 1..Len(y)
    BY <1>1 DEF Above
  <2> QED BY <1>1, <2>1
<1>4. Below(p, y) <=> Above(p, y)
  BY DEF Below
<1>5. /\ Below(Append(p, 0), y) <=> Above(p, y) /\ y[m] = 0
      /\ Below(Append(p, 1), y) <=> Above(p, y) /\ y[m] = 1
  BY <1>2
<1> HIDE DEF m
<1> QED BY <1>3, <1>4, <1>5

(* The weights of the leaves below x.                                      *)
BelowWeight(root, R, x) ==
    [i \in 1..MaxIds |-> IF i \in pane_ids(root) /\ Below(x, PathOf(root, i))
                         THEN Area(R[PathOf(root, i)]) ELSE 0]

LEMMA AreaIsInt ==
    ASSUME NEW r \in Rects
    PROVE  Area(r) \in Int
  BY DEF Rects, Area

LEMMA AreasAddUp ==
    ASSUME Bounds, NEW n \in Nat, n <= MaxIds, NEW root, PaneTree(root, n),
           NEW R, Divided(R, DOMAIN root.leaves, DOMAIN root.splits)
    PROVE  \A x \in DOMAIN root.leaves \cup DOMAIN root.splits :
             \A f : Sums(f, BelowWeight(root, R, x), MaxIds) => f[MaxIds] = Area(R[x])
<1> DEFINE leaves == DOMAIN root.leaves
           splits == DOMAIN root.splits
           nodes == leaves \cup splits
           W(x) == BelowWeight(root, R, x)
           K == Cardinality(splits)
           Claim(x) == \A f : Sums(f, W(x), MaxIds) => f[MaxIds] = Area(R[x])
           P == {m \in Nat : \A x \in nodes : Len(x) + m >= K + 1 => Claim(x)}
<1>1. Shape(leaves, splits) /\ Divided(R, leaves, splits) /\ MaxIds \in Nat /\ K \in Nat
  BY FS_CardinalityType DEF PaneTree, Shape, Bounds
<1>2. \A i \in pane_ids(root) : PathOf(root, i) \in leaves /\ root.leaves[PathOf(root, i)].id = i
  BY PathOfIs
<1>3. \A y \in leaves : /\ root.leaves[y].id \in pane_ids(root) /\ root.leaves[y].id \in 1..MaxIds
                        /\ PathOf(root, root.leaves[y].id) = y
  <2> SUFFICES ASSUME NEW y \in leaves
               PROVE  /\ root.leaves[y].id \in pane_ids(root)
                      /\ root.leaves[y].id \in 1..MaxIds
                      /\ PathOf(root, root.leaves[y].id) = y
    OBVIOUS
  <2>1. root.leaves[y].id \in pane_ids(root)
    BY DEF pane_ids, panes
  <2>2. root.leaves[y].id \in 1..n
    BY DEF PaneTree
  <2>3. root.leaves[y].id \in 1..MaxIds
    BY <1>1, <2>2
  <2>4. PathOf(root, root.leaves[y].id) \in leaves
        /\ root.leaves[PathOf(root, root.leaves[y].id)].id = root.leaves[y].id
    BY <1>2, <2>1
  <2> QED BY <2>1, <2>3, <2>4 DEF PaneTree
<1>4. \A x \in nodes : x \in Paths /\ Len(x) \in Nat /\ Len(x) <= K
  <2>1. ASSUME NEW x \in nodes PROVE x \in Paths /\ Len(x) \in Nat /\ Len(x) <= K
    BY <1>1, Depth DEF Shape
  <2> QED BY <2>1
<1>5. \A x \in nodes : R[x] \in Rects /\ Area(R[x]) \in Int
  <2>1. \A x \in nodes : R[x] \in Rects
    BY <1>1 DEF Divided
  <2> QED BY <2>1, AreaIsInt
<1>6. \A x : /\ W(x) \in Weights(MaxIds)
             /\ \A i \in 1..MaxIds :
                  W(x)[i] = IF i \in pane_ids(root) /\ Below(x, PathOf(root, i))
                            THEN Area(R[PathOf(root, i)]) ELSE 0
  <2> SUFFICES ASSUME NEW x
               PROVE  /\ W(x) \in Weights(MaxIds)
                      /\ \A i \in 1..MaxIds :
                           W(x)[i] = IF i \in pane_ids(root) /\ Below(x, PathOf(root, i))
                                     THEN Area(R[PathOf(root, i)]) ELSE 0
    OBVIOUS
  <2>1. \A i \in pane_ids(root) : Area(R[PathOf(root, i)]) \in Int
    BY <1>2, <1>5
  <2> QED BY <2>1 DEF BelowWeight, Weights
<1> HIDE DEF leaves, splits, K, W
<1>7. ASSUME NEW x \in leaves PROVE Claim(x)
  <2> DEFINE k == root.leaves[x].id
  <2>1. k \in pane_ids(root) /\ k \in 1..MaxIds /\ PathOf(root, k) = x
    BY <1>3
  <2> HIDE DEF k
  <2>2. W(x)[k] = Area(R[x])
    BY <1>6, <2>1 DEF Below
  <2>3. ASSUME NEW i \in 1..MaxIds, i # k PROVE W(x)[i] = 0
    <3> SUFFICES ASSUME i \in pane_ids(root), Below(x, PathOf(root, i)) PROVE FALSE
      BY <1>6
    <3>1. PathOf(root, i) \in leaves /\ PathOf(root, i) # x
      BY <1>2, <2>1, <2>3
    <3>2. Above(x, PathOf(root, i))
      BY <3>1 DEF Below
    <3>3. x \in splits
      BY <1>1, <1>4, <3>1, <3>2, AboveIsASplit
    <3> QED BY <1>1, <3>3 DEF Shape
  <2> SUFFICES ASSUME NEW f, Sums(f, W(x), MaxIds) PROVE f[MaxIds] = Area(R[x])
    OBVIOUS
  <2> QED BY <1>1, <1>6, <2>1, <2>2, <2>3, SumsToOne
<1>8. ASSUME NEW x \in splits, Claim(Append(x, 0)), Claim(Append(x, 1)) PROVE Claim(x)
  <2> SUFFICES ASSUME NEW h, Sums(h, W(x), MaxIds) PROVE h[MaxIds] = Area(R[x])
    OBVIOUS
  <2> DEFINE a == Append(x, 0)
             b == Append(x, 1)
  <2>1. PICK f : Sums(f, W(a), MaxIds)
    BY <1>1, SumExists
  <2>2. PICK g : Sums(g, W(b), MaxIds)
    BY <1>1, SumExists
  <2>3. f[MaxIds] = Area(R[a]) /\ g[MaxIds] = Area(R[b])
    BY <1>8, <2>1, <2>2
  <2>4. Area(R[a]) + Area(R[b]) = Area(R[x])
    BY <1>1 DEF Divided
  <2>5. ASSUME NEW i \in 1..MaxIds PROVE W(x)[i] = W(a)[i] + W(b)[i]
    <3>1. CASE i \in pane_ids(root)
      <4> DEFINE y == PathOf(root, i)
      <4>1. y \in leaves /\ y # x /\ y \in Paths /\ x \in Paths
        BY <1>1, <1>2, <1>4, <3>1 DEF Shape
      <4> HIDE DEF y
      <4>2. Area(R[y]) \in Int
        BY <1>5, <4>1
      <4>3. /\ Below(x, y) <=> Below(a, y) \/ Below(b, y)
            /\ ~(Below(a, y) /\ Below(b, y))
        BY <4>1, BelowSides
      <4>4. /\ W(x)[i] = IF Below(x, y) THEN Area(R[y]) ELSE 0
            /\ W(a)[i] = IF Below(a, y) THEN Area(R[y]) ELSE 0
            /\ W(b)[i] = IF Below(b, y) THEN Area(R[y]) ELSE 0
        BY <1>6, <3>1 DEF y
      <4> HIDE DEF a, b
      <4> QED BY <4>2, <4>3, <4>4
    <3>2. CASE i \notin pane_ids(root)
      <4>1. W(x)[i] = 0 /\ W(a)[i] = 0 /\ W(b)[i] = 0
        BY <1>6, <3>2
      <4> QED BY <4>1
    <3> QED BY <3>1, <3>2
  <2>6. h[MaxIds] = f[MaxIds] + g[MaxIds]
    <3>1. W(a) \in Weights(MaxIds) /\ W(b) \in Weights(MaxIds) /\ W(x) \in Weights(MaxIds)
      BY <1>6
    <3> HIDE DEF a, b
    <3> QED BY <1>1, <2>1, <2>2, <2>5, <3>1, SumsAdd
  <2> QED BY <2>3, <2>4, <2>6
<1> HIDE DEF Claim
<1>9. 0 \in P
  BY <1>1, <1>4
<1>10. ASSUME NEW m \in P PROVE m + 1 \in P
  <2>1. m \in Nat
    OBVIOUS
  <2> SUFFICES ASSUME NEW x \in nodes, Len(x) + (m + 1) >= K + 1 PROVE Claim(x)
    BY <2>1
  <2>2. CASE x \in leaves
    BY <1>7, <2>2
  <2>3. CASE x \in splits
    <3>1. ASSUME NEW side \in {0, 1} PROVE Claim(Append(x, side))
      <4>1. Append(x, side) \in nodes /\ Len(Append(x, side)) = Len(x) + 1
        BY <1>1, <1>4, <2>3, SidePath DEF Shape
      <4>2. Len(Append(x, side)) + m >= K + 1
        BY <1>1, <1>4, <2>1, <4>1
      <4> QED BY <4>1, <4>2
    <3> QED BY <1>8, <2>3, <3>1
  <2> QED BY <2>2, <2>3
<1>11. P \in SUBSET Nat
  OBVIOUS
<1> HIDE DEF P
<1>12. K + 1 \in P
  <2>1. K + 1 \in Nat
    BY <1>1
  <2> QED BY <1>9, <1>10, <1>11, <2>1, Induct
<1>13. \A x \in nodes : Claim(x)
  BY <1>1, <1>4, <1>12 DEF P
<1> QED BY <1>13 DEF Claim, W, leaves, splits

-----------------------------------------------------------------------------
(* The layout tiles the window.                                            *)

LEMMA LeafRects ==
    ASSUME Bounds, Room, NEW n \in Nat, n <= MaxIds, NEW tab, PaneTree(tab.root, n),
           NEW window \in PaneWindows, tab.zoom \notin pane_ids(tab.root)
    PROVE  Tiles(tab, window)
<1> DEFINE root == tab.root
           leaves == DOMAIN root.leaves
           splits == DOMAIN root.splits
           R == [x \in leaves \cup splits |-> walk(root, window, x)]
           ids == pane_ids(root)
           rects == [id \in ids |-> walk(root, window, PathOf(root, id))]
<1>1. Shape(leaves, splits) /\ Divided(R, leaves, splits) /\ R[<<>>] = window
  BY WalksDivide DEF PaneTree, Walks
<1>2. \A f : Sums(f, BelowWeight(root, R, <<>>), MaxIds) => f[MaxIds] = Area(R[<<>>])
  <2> HIDE DEF R
  <2> QED BY <1>1, AreasAddUp DEF Shape
<1>3. \A x \in leaves \cup splits : R[x] = walk(root, window, x)
  OBVIOUS
<1>4. layout(tab, window) = rects
  BY DEF layout
<1> HIDE DEF R
<1>5. \A id \in ids : /\ PathOf(root, id) \in leaves /\ rects[id] = R[PathOf(root, id)]
                      /\ root.leaves[PathOf(root, id)].id = id /\ id \in 1..MaxIds
  <2> SUFFICES ASSUME NEW id \in ids
               PROVE  /\ PathOf(root, id) \in leaves /\ rects[id] = R[PathOf(root, id)]
                      /\ root.leaves[PathOf(root, id)].id = id /\ id \in 1..MaxIds
    OBVIOUS
  <2>1. PathOf(root, id) \in leaves /\ root.leaves[PathOf(root, id)].id = id
    BY PathOfIs
  <2>2. id \in 1..n
    BY <2>1 DEF PaneTree
  <2>3. id \in 1..MaxIds
    BY <2>2 DEF Bounds
  <2> QED BY <1>3, <2>1, <2>3
<1>6. ASSUME NEW id \in ids PROVE Inside(rects[id], window)
  <2>1. PathOf(root, id) \in leaves /\ rects[id] = R[PathOf(root, id)]
    BY <1>5
  <2> DEFINE y == PathOf(root, id)
  <2>2. y \in leaves
    BY <2>1
  <2> HIDE DEF y
  <2>3. Below(<<>>, y)
    <3>1. y \in Paths
      BY <1>1, <2>2 DEF Shape
    <3>2. y # <<>> => Above(<<>>, y)
      BY <3>1, PathFacts, EmptyPath DEF Above
    <3> QED BY <3>2 DEF Below
  <2>4. <<>> \in leaves \cup splits
    BY <1>1 DEF Shape
  <2>5. Inside(R[y], R[<<>>])
    <3> HIDE DEF leaves, splits
    <3> QED BY <1>1, <2>2, <2>3, <2>4, BelowIsInside
  <2> QED BY <1>1, <2>1, <2>5 DEF y
<1>7. ASSUME NEW id \in ids, NEW other \in ids, id # other PROVE Apart(rects[id], rects[other])
  <2> DEFINE x == PathOf(root, id)
             y == PathOf(root, other)
  <2>1. x \in leaves /\ y \in leaves /\ x # y /\ rects[id] = R[x] /\ rects[other] = R[y]
    BY <1>5, <1>7
  <2> HIDE DEF x, y, leaves, splits, rects
  <2> QED BY <1>1, <2>1, LeavesApart
<1>8. Covered(rects) = Area(window)
  <2>1. PICK f : Sums(f, Weight(rects), MaxIds) /\ Covered(rects) = f[MaxIds]
    BY CoveredIs
  <2>2. Weight(rects) = BelowWeight(root, R, <<>>)
    <3>1. ASSUME NEW i \in 1..MaxIds PROVE Weight(rects)[i] = BelowWeight(root, R, <<>>)[i]
      <4>1. CASE i \in ids
        <5>1. rects[i] = R[PathOf(root, i)] /\ PathOf(root, i) \in leaves
          BY <1>5, <4>1
        <5>2. PathOf(root, i) \in Paths
          BY <1>1, <5>1 DEF Shape
        <5>3. Below(<<>>, PathOf(root, i))
          <6> DEFINE y == PathOf(root, i)
          <6> HIDE DEF y
          <6>1. y \in Paths
            BY <5>2 DEF y
          <6>2. y # <<>> => Above(<<>>, y)
            BY <6>1, PathFacts, EmptyPath DEF Above
          <6>3. Below(<<>>, y)
            BY <6>2 DEF Below
          <6> QED BY <6>3 DEF y
        <5>4. Weight(rects)[i] = Area(rects[i])
          BY <4>1 DEF Weight
        <5>5. BelowWeight(root, R, <<>>)[i] = Area(R[PathOf(root, i)])
          BY <4>1, <5>3 DEF BelowWeight
        <5> QED BY <5>1, <5>4, <5>5
      <4>2. CASE i \notin ids
        BY <4>2 DEF Weight, BelowWeight
      <4> QED BY <4>1, <4>2
    <3>2. /\ Weight(rects) = [i \in 1..MaxIds |-> Weight(rects)[i]]
          /\ BelowWeight(root, R, <<>>) = [i \in 1..MaxIds |-> BelowWeight(root, R, <<>>)[i]]
      BY DEF Weight, BelowWeight
    <3> HIDE DEF rects
    <3> QED BY <3>1, <3>2
  <2> QED BY <1>1, <1>2, <2>1, <2>2
<1>9. DOMAIN rects = ids
  OBVIOUS
<1> HIDE DEF rects
<1> QED BY <1>4, <1>6, <1>7, <1>8, <1>9 DEF Tiles

LEMMA ZoomedRect ==
    ASSUME Bounds, Room, NEW n \in Nat, n <= MaxIds, NEW tab, PaneTree(tab.root, n),
           NEW window \in PaneWindows, tab.zoom \in pane_ids(tab.root)
    PROVE  Tiles(tab, window)
<1> DEFINE z == tab.zoom
           rects == [id \in {z} |-> window]
<1>1. layout(tab, window) = rects
  BY DEF layout
<1>2. window \in Rects
  BY DEF Room
<1>3. Inside(window, window)
  BY <1>2 DEF Inside, Rects
<1>4. z \in 1..MaxIds
  <2>1. PathOf(tab.root, z) \in DOMAIN tab.root.leaves /\ tab.root.leaves[PathOf(tab.root, z)].id = z
    BY PathOfIs
  <2>2. z \in 1..n
    BY <2>1 DEF PaneTree
  <2> QED BY <2>2 DEF Bounds
<1>5. DOMAIN rects = {z} /\ rects[z] = window
  OBVIOUS
<1> HIDE DEF z, rects
<1>6. Covered(rects) = Area(window)
  <2>1. PICK f : Sums(f, Weight(rects), MaxIds) /\ Covered(rects) = f[MaxIds]
    BY CoveredIs
  <2>2. /\ Weight(rects) \in Weights(MaxIds) /\ Weight(rects)[z] = Area(window)
        /\ \A i \in 1..MaxIds : i # z => Weight(rects)[i] = 0
    BY <1>2, <1>4, <1>5, AreaIsInt DEF Weight, Weights
  <2>3. MaxIds \in Nat
    BY DEF Bounds
  <2>4. f[MaxIds] = Weight(rects)[z]
    BY <1>4, <2>1, <2>2, <2>3, SumsToOne
  <2> QED BY <2>1, <2>2, <2>4
<1> QED BY <1>1, <1>3, <1>5, <1>6 DEF Tiles

LEMMA AllTiled ==
    ASSUME Bounds, Room, PanesInv
    PROVE  LayoutTiles
<1> SUFFICES ASSUME NEW i \in DOMAIN workspaces, NEW j \in DOMAIN workspaces[i].tabs,
                    NEW window \in PaneWindows
             PROVE  Tiles(workspaces[i].tabs[j], window)
  BY DEF LayoutTiles, EveryTab
<1>1. PaneTree(workspaces[i].tabs[j].root, made) /\ made \in Nat /\ made <= MaxIds
  BY DEF PanesInv, WorkspaceOK, TabOK
<1> QED BY <1>1, LeafRects, ZoomedRect

(* However the panes of a tab were split, moved, resized, zoomed and        *)
(* closed, they tile the window: none covers a part of another and          *)
(* together they leave nothing out (layout.rs), in a window with room for   *)
(* the splits.                                                             *)
THEOREM PanesTileTheWindow ==
    ASSUME Bounds, Room
    PROVE  Spec => []LayoutTiles
<1>1. PanesInv => LayoutTiles
  BY AllTiled
<1>2. Spec => []PanesInv
  BY PanesAlways
<1> QED BY <1>1, <1>2, PTL

=============================================================================
