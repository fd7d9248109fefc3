-------------------------- MODULE GridEditor_proofs --------------------------
(***************************************************************************)
(* The drawing matches the tree, for every feeder and any number of edits, *)
(* as long as nothing folded is deleted or renamed, no property that the   *)
(* page writes is edited (Careful), no name is typed that a new object is  *)
(* going to get, and no exception has come after a change of the tree; the *)
(* references resolve after that too.                                      *)
(***************************************************************************)
EXTENDS GridEditor, WellFoundedInduction, FiniteSetTheorems, TLAPS

(* A name that is a key is that of the object with the key.                *)
FeederNames == \A k \in DOMAIN Feeder : Feeder[k].name = k \/ Feeder[k].name \notin Nat

TypedNames == OwnNames \cap Nat = {}

-----------------------------------------------------------------------------
(* The invariant *)

IsObject(x) ==
    x = [name |-> x.name, object |-> x.object, from |-> x.from, to |-> x.to,
         parent |-> x.parent]

GoodObject(x) ==
    /\ IsObject(x)
    /\ x.name # None
    /\ IsLink(x) => x.to # None /\ x.parent = None
    /\ ~IsLink(x) => x.to = None
    /\ x.object = "house" => x.parent # None

GoodTree(t) ==
    /\ DOMAIN t \in SUBSET (Nat \ {None})
    /\ IsFiniteSet(DOMAIN t)
    /\ \A k \in DOMAIN t : GoodObject(t[k]) /\ (t[k].name = k \/ t[k].name \notin Nat)
    /\ Distinct(t)
    /\ Resolves(t)

(* Each node has one record, which holds its name and its type.            *)
NodesFit(g, hidden) ==
    /\ g.nodes \cap hidden = {}
    /\ g.nodes \cup hidden = NodesOf(g.tree)
    /\ NodesOf(g.tree) \subseteq DOMAIN g.record
    /\ \A k \in NodesOf(g.tree) :
          /\ g.record[k] = [name |-> g.tree[k].name, object |-> g.tree[k].object,
                            big |-> g.record[k].big]
          /\ g.record[k].big \in BOOLEAN

(* The level of a drawn node is m, that of a folded one the lower the      *)
(* earlier it was folded.  A node goes up a link to ends that were not     *)
(* folded before it.                                                       *)
Up(lv, l, h) == h \in Ends(l) /\ \A e \in Ends(l) : lv[h] <= lv[e]

Levels(g, lv, m) ==
    \A x \in NodesOf(g.tree) : lv[x] \in Nat /\ lv[x] <= m /\ (x \in g.nodes <=> lv[x] = m)

(* When a node was folded, one link of it was drawn.                       *)
OneWayUp(g, hidden, lv) ==
    \A h \in hidden : \A l1, l2 \in LinksOf(g.tree) : Up(lv, l1, h) /\ Up(lv, l2, h) => l1 = l2

DrawnWithEnds(g) == \A l \in LinksOf(g.tree) : l \in g.links <=> Ends(l) \subseteq g.nodes

BigWhenDrawn(g, hiddenL) ==
    \A k \in g.nodes : g.record[k].big <=> \E l \in hiddenL : k \in Ends(l)

(* A node that can come back has the size it is going to need.             *)
BigWhenFolded(g, hidden, hiddenL, lv) ==
    \A h \in hidden :
        (\E l \in LinksOf(g.tree) : h \in Ends(l) /\ \E e \in Ends(l) : lv[e] > lv[h])
        => (g.record[h].big <=> \E l \in hiddenL : h \in Ends(l) /\ \E e \in Ends(l) : lv[e] < lv[h])

Folded(g, hidden, hiddenL, lv, m) ==
    /\ m \in Nat
    /\ Levels(g, lv, m)
    /\ OneWayUp(g, hidden, lv)
    /\ DrawnWithEnds(g)
    /\ BigWhenDrawn(g, hiddenL)
    /\ BigWhenFolded(g, hidden, hiddenL, lv)

LinksFit(g, hiddenL) == g.links \cap hiddenL = {} /\ g.links \cup hiddenL = LinksOf(g.tree)

Hanging(ls) == \E l \in ls : None \in Ends(l)

Fits(g, hidden, hiddenL) ==
    /\ GoodTree(g.tree)
    /\ NodesFit(g, hidden)
    /\ Hanging(g.links) \/ (LinksFit(g, hiddenL) /\ \E lv, m : Folded(g, hidden, hiddenL, lv, m))

GraphInv == Fits(Graph, hiddenNodes, hiddenLinks)

(* A node of a meter that is left has been refused, and has its house.     *)
Replaced(t, k) ==
    /\ Connected(t, k)
    /\ \E h \in DOMAIN t : t[h].object = "house" /\ t[h].parent = t[k].parent

TodoInv ==
    /\ job \in {"none", "houses", "solar"}
    /\ todo \subseteq DOMAIN tree
    /\ job = "none" => todo = {}
    /\ job = "houses" => \A h \in hiddenNodes : tree[h].object # "triplex_node"

JobInv ==
    job = "houses" /\ GridNodeDrawn(Graph) =>
        \A k \in DOMAIN tree \ todo : IsNodeOfMeter(k) => Replaced(tree, k)

(* What an exception leaves: the records that are drawn or folded are those*)
(* of different nodes of the tree, and hold their names and types.         *)
ListsFit(g, hidden) ==
    /\ g.nodes \cap hidden = {}
    /\ \A k \in g.nodes \cup hidden :
          /\ k \in NodesOf(g.tree) /\ k \in DOMAIN g.record
          /\ g.record[k] = [name |-> g.tree[k].name, object |-> g.tree[k].object,
                            big |-> g.record[k].big]

ListsInv == GoodTree(tree) /\ ListsFit(Graph, hiddenNodes)

EditorInv == ListsInv /\ TodoInv /\ (failed \/ (GraphInv /\ JobInv))

-----------------------------------------------------------------------------
(* Keys *)

(* A finite, non-empty set of keys has a first and a last one: of the sets *)
(* of keys up to (from) a key, one is the smallest.                        *)
LEMMA FirstExists ==
    ASSUME NEW S \in SUBSET Nat, IsFiniteSet(S), S # {}
    PROVE  \E x \in S : \A y \in S : x <= y
<1> DEFINE UpTo(x) == {y \in S : y <= x}
           T == {UpTo(x) : x \in S}
           SS == StrictSubsetOrdering(S)
<1>0. \A y \in S : y \in Nat
  OBVIOUS
<1>1. T \subseteq FiniteSubsetsOf(S) /\ T # {}
  <2>1. ASSUME NEW x \in S PROVE UpTo(x) \in FiniteSubsetsOf(S)
    <3>1. UpTo(x) \in SUBSET S
      OBVIOUS
    <3> QED
      BY <3>1, FS_Subset DEF FiniteSubsetsOf
  <2> QED
    BY <2>1
<1>2. IsWellFoundedOn(SS, FiniteSubsetsOf(S))
  BY FS_StrictSubsetOrderingWellFounded
<1>3. \E U \in T : \A V \in T : ~(<<V, U>> \in SS)
  <2> HIDE DEF T, SS
  <2> QED
    BY <1>1, <1>2, WFMin
<1>4. PICK x \in S : \A z \in S : ~(<<UpTo(z), UpTo(x)>> \in SS)
  BY <1>3
<1>5. ASSUME NEW z \in S, z < x PROVE FALSE
  <2>0. x \in Nat /\ z \in Nat
    BY <1>0
  <2>1. UpTo(z) \subseteq UpTo(x)
    <3>1. ASSUME NEW y \in S, y <= z PROVE y <= x
      <4>1. y \in Nat
        BY <1>0
      <4> QED
        BY <1>5, <2>0, <3>1, <4>1
    <3> QED
      BY <3>1
  <2>2. x \in UpTo(x) /\ x \notin UpTo(z)
    BY <1>5, <2>0
  <2> QED
    BY <1>4, <2>1, <2>2 DEF StrictSubsetOrdering
<1> QED
  BY <1>0, <1>5

(* Likewise, of keys from a key on, one is the largest.                    *)
LEMMA LastExists ==
    ASSUME NEW S \in SUBSET Nat, IsFiniteSet(S), S # {}
    PROVE  \E x \in S : \A y \in S : x >= y
<1> DEFINE From(x) == {y \in S : y >= x}
           T == {From(x) : x \in S}
           SS == StrictSubsetOrdering(S)
<1>0. \A y \in S : y \in Nat
  OBVIOUS
<1>1. T \subseteq FiniteSubsetsOf(S) /\ T # {}
  <2>1. ASSUME NEW x \in S PROVE From(x) \in FiniteSubsetsOf(S)
    <3>1. From(x) \in SUBSET S
      OBVIOUS
    <3> QED
      BY <3>1, FS_Subset DEF FiniteSubsetsOf
  <2> QED
    BY <2>1
<1>2. IsWellFoundedOn(SS, FiniteSubsetsOf(S))
  BY FS_StrictSubsetOrderingWellFounded
<1>3. \E U \in T : \A V \in T : ~(<<V, U>> \in SS)
  <2> HIDE DEF T, SS
  <2> QED
    BY <1>1, <1>2, WFMin
<1>4. PICK x \in S : \A z \in S : ~(<<From(z), From(x)>> \in SS)
  BY <1>3
<1>5. ASSUME NEW z \in S, z > x PROVE FALSE
  <2>0. x \in Nat /\ z \in Nat
    BY <1>0
  <2>1. From(z) \subseteq From(x)
    <3>1. ASSUME NEW y \in S, y >= z PROVE y >= x
      <4>1. y \in Nat
        BY <1>0
      <4> QED
        BY <1>5, <2>0, <3>1, <4>1
    <3> QED
      BY <3>1
  <2>2. x \in From(x) /\ x \notin From(z)
    BY <1>5, <2>0
  <2> QED
    BY <1>4, <2>1, <2>2 DEF StrictSubsetOrdering
<1> QED
  BY <1>0, <1>5

LEMMA MinIsFirst ==
    ASSUME NEW S \in SUBSET Nat, IsFiniteSet(S), S # {}
    PROVE  Min(S) \in S /\ \A y \in S : Min(S) <= y
BY FirstExists DEF Min

LEMMA MaxIsLast ==
    ASSUME NEW S \in SUBSET Nat, IsFiniteSet(S), S # {}
    PROVE  Max(S) \in S /\ \A y \in S : Max(S) >= y
BY LastExists DEF Max

LEMMA MinOfOne ==
    ASSUME NEW p \in Nat
    PROVE  Min({p}) = p
<1>1. {p} \in SUBSET Nat /\ IsFiniteSet({p}) /\ {p} # {}
  BY FS_Singleton
<1> QED
  BY <1>1, MinIsFirst

LEMMA KeyIsFree ==
    ASSUME NEW t, DOMAIN t \in SUBSET (Nat \ {None}), IsFiniteSet(DOMAIN t)
    PROVE  NextTreeKey(t) \in Nat \ {None} /\ NextTreeKey(t) \notin DOMAIN t
<1> DEFINE S == DOMAIN t \cup {0}
<1>1. S \in SUBSET Nat /\ S # {}
  OBVIOUS
<1>2. IsFiniteSet(S)
  BY FS_AddElement
<1>3. Max(S) \in S /\ \A y \in S : Max(S) >= y
  <2> HIDE DEF S
  <2> QED
    BY ONLY <1>1, <1>2, MaxIsLast
<1>4. PICK x : x = Max(S)
  OBVIOUS
<1>5. NextTreeKey(t) = x + 1
  BY <1>4 DEF NextTreeKey
<1>6. x \in Nat /\ \A y \in DOMAIN t : y <= x
  BY <1>1, <1>3, <1>4
<1>7. x + 1 \notin DOMAIN t
  BY <1>6
<1> QED
  BY <1>5, <1>6, <1>7 DEF None

LEMMA KeyNamedIs ==
    ASSUME NEW t, GoodTree(t), NEW p \in DOMAIN t
    PROVE  KeyNamed(t, t[p].name) = p
<1>1. {k \in DOMAIN t : t[k].name = t[p].name} = {p} /\ {p} # {}
  BY DEF GoodTree, Distinct
<1>2. p \in Nat
  BY DEF GoodTree
<1> QED
  BY <1>1, <1>2, MinOfOne DEF KeyNamed

(* A reference is the name of one node.                                    *)
LEMMA ReferenceFound ==
    ASSUME NEW t, GoodTree(t), NEW k \in DOMAIN t,
           NEW n \in {t[k].from, t[k].to, t[k].parent}, n # None
    PROVE  KeyNamed(t, n) \in NodesOf(t) /\ t[KeyNamed(t, n)].name = n
<1>1. PICK p \in NodesOf(t) : {j \in DOMAIN t : t[j].name = n} = {p}
  BY DEF GoodTree, Resolves
<1>2. p \in DOMAIN t /\ t[p].name = n
  BY <1>1
<1>3. KeyNamed(t, n) = p
  BY <1>2, KeyNamedIs
<1> QED
  BY <1>1, <1>2, <1>3

-----------------------------------------------------------------------------
(* The links of a tree: at most one of each object *)

Linked(t) == {k \in DOMAIN t : IsLink(t[k]) \/ t[k].parent # None}

LinkOf(t, k) ==
    IF IsLink(t[k])
    THEN [source |-> KeyNamed(t, t[k].from), target |-> KeyNamed(t, t[k].to), treeIndex |-> k]
    ELSE [source |-> k, target |-> KeyNamed(t, t[k].parent), treeIndex |-> None]

LEMMA LinksByKey ==
    ASSUME NEW t, GoodTree(t)
    PROVE  LinksOf(t) = {LinkOf(t, k) : k \in Linked(t)}
<1>1. ASSUME NEW l \in LinksOf(t) PROVE l \in {LinkOf(t, k) : k \in Linked(t)}
  <2>1. CASE \E k \in {j \in DOMAIN t : IsLink(t[j])} :
                l = [source |-> KeyNamed(t, t[k].from), target |-> KeyNamed(t, t[k].to),
                     treeIndex |-> k]
    BY <2>1 DEF LinkOf, Linked
  <2>2. CASE \E k \in {j \in DOMAIN t : ~IsLink(t[j]) /\ t[j].parent # None} :
                l = [source |-> k, target |-> KeyNamed(t, t[k].parent), treeIndex |-> None]
    BY <2>2 DEF LinkOf, Linked
  <2> QED
    BY <1>1, <2>1, <2>2 DEF LinksOf
<1>2. ASSUME NEW k \in Linked(t) PROVE LinkOf(t, k) \in LinksOf(t)
  <2>1. CASE IsLink(t[k])
    BY <2>1 DEF LinksOf, LinkOf, Linked
  <2>2. CASE ~IsLink(t[k])
    BY <2>2 DEF LinksOf, LinkOf, Linked
  <2> QED
    BY <2>1, <2>2
<1> QED
  BY <1>1, <1>2

LEMMA LinkEnds ==
    ASSUME NEW t, GoodTree(t), NEW k \in Linked(t), NEW l, l = LinkOf(t, k)
    PROVE  /\ l.source \in NodesOf(t) /\ l.target \in NodesOf(t)
           /\ l = [source |-> l.source, target |-> l.target, treeIndex |-> l.treeIndex]
           /\ IsLink(t[k]) => /\ l.treeIndex = k
                              /\ t[l.source].name = t[k].from
                              /\ t[l.target].name = t[k].to
           /\ ~IsLink(t[k]) => /\ l.treeIndex = None
                               /\ l.source = k
                               /\ t[l.target].name = t[k].parent
<1>1. k \in DOMAIN t /\ GoodObject(t[k])
  BY DEF Linked, GoodTree
<1>2. CASE IsLink(t[k])
  <2>1. t[k].from # None /\ t[k].to # None
    BY <1>1, <1>2 DEF IsLink, GoodObject
  <2>2. KeyNamed(t, t[k].from) \in NodesOf(t) /\ t[KeyNamed(t, t[k].from)].name = t[k].from
    BY <1>1, <2>1, ReferenceFound
  <2>3. KeyNamed(t, t[k].to) \in NodesOf(t) /\ t[KeyNamed(t, t[k].to)].name = t[k].to
    BY <1>1, <2>1, ReferenceFound
  <2> QED
    BY <1>2, <2>2, <2>3 DEF LinkOf
<1>3. CASE ~IsLink(t[k])
  <2>1. t[k].parent # None
    BY <1>3 DEF Linked
  <2>2. KeyNamed(t, t[k].parent) \in NodesOf(t) /\ t[KeyNamed(t, t[k].parent)].name = t[k].parent
    BY <1>1, <2>1, ReferenceFound
  <2> QED
    BY <1>1, <1>3, <2>2 DEF LinkOf, NodesOf
<1> QED
  BY <1>2, <1>3

LEMMA EndsOfLinks ==
    ASSUME NEW t, GoodTree(t), NEW l \in LinksOf(t)
    PROVE  /\ l.source \in NodesOf(t) /\ l.target \in NodesOf(t)
           /\ l = [source |-> l.source, target |-> l.target, treeIndex |-> l.treeIndex]
           /\ Ends(l) \subseteq NodesOf(t)
           /\ None \notin Ends(l)
<1>1. PICK k \in Linked(t) : l = LinkOf(t, k)
  BY LinksByKey
<1>2. /\ l.source \in NodesOf(t) /\ l.target \in NodesOf(t)
      /\ l = [source |-> l.source, target |-> l.target, treeIndex |-> l.treeIndex]
  BY <1>1, LinkEnds
<1>3. NodesOf(t) \subseteq Nat \ {None}
  BY DEF GoodTree, NodesOf
<1> QED
  BY <1>2, <1>3 DEF Ends

LEMMA OneLinkEach ==
    ASSUME NEW t, GoodTree(t), NEW j \in Linked(t), NEW k \in Linked(t),
           LinkOf(t, j) = LinkOf(t, k)
    PROVE  j = k
<1>1. PICK l : l = LinkOf(t, j) /\ l = LinkOf(t, k)
  OBVIOUS
<1>2. /\ IsLink(t[k]) => l.treeIndex = k
      /\ ~IsLink(t[k]) => l.treeIndex = None /\ l.source = k
  BY <1>1, LinkEnds
<1>3. /\ IsLink(t[j]) => l.treeIndex = j
      /\ ~IsLink(t[j]) => l.treeIndex = None /\ l.source = j
  BY <1>1, LinkEnds
<1>4. j # None /\ k # None
  BY DEF Linked, GoodTree
<1> QED
  BY <1>2, <1>3, <1>4

LEMMA LinksFinite ==
    ASSUME NEW t, GoodTree(t)
    PROVE  IsFiniteSet(LinksOf(t))
<1>1. Linked(t) \in SUBSET DOMAIN t /\ IsFiniteSet(DOMAIN t)
  BY DEF Linked, GoodTree
<1>2. IsFiniteSet(Linked(t))
  BY <1>1, FS_Subset
<1> DEFINE f == [k \in Linked(t) |-> LinkOf(t, k)]
<1>3. f \in Surjection(Linked(t), LinksOf(t))
  <2>1. LinksOf(t) = {LinkOf(t, k) : k \in Linked(t)}
    BY LinksByKey
  <2> HIDE DEF LinkOf
  <2>2. f \in [Linked(t) -> LinksOf(t)]
    BY <2>1
  <2>3. \A l \in LinksOf(t) : \E k \in Linked(t) : f[k] = l
    BY <2>1
  <2> QED
    BY <2>2, <2>3 DEF Surjection
<1> HIDE DEF f
<1> QED
  BY <1>2, <1>3, FS_Surjection

(* A link stays what it is when its ends keep the names the object uses.   *)
LEMMA SameLink ==
    ASSUME NEW t, GoodTree(t), NEW u, GoodTree(u), NEW j \in Linked(t), j \in DOMAIN u,
           IsLink(u[j]) <=> IsLink(t[j]),
           NEW l, l = LinkOf(t, j), l.source \in DOMAIN u, l.target \in DOMAIN u,
           IsLink(t[j]) => u[l.source].name = u[j].from /\ u[l.target].name = u[j].to,
           ~IsLink(t[j]) => u[l.target].name = u[j].parent
    PROVE  j \in Linked(u) /\ LinkOf(u, j) = l
<1>1. /\ l = [source |-> l.source, target |-> l.target, treeIndex |-> l.treeIndex]
      /\ IsLink(t[j]) => l.treeIndex = j
      /\ ~IsLink(t[j]) => l.treeIndex = None /\ l.source = j
  BY LinkEnds
<1>2. KeyNamed(u, u[l.source].name) = l.source /\ KeyNamed(u, u[l.target].name) = l.target
  BY KeyNamedIs
<1>3. CASE IsLink(t[j])
  BY <1>1, <1>2, <1>3 DEF LinkOf, Linked
<1>4. CASE ~IsLink(t[j])
  <2>1. u[l.target].name # None
    BY DEF GoodTree, GoodObject
  <2> QED
    BY <1>1, <1>2, <1>4, <2>1 DEF LinkOf, Linked
<1> QED
  BY <1>3, <1>4

LEMMA ExtendedIsGood ==
    ASSUME NEW t, GoodTree(t), NEW k \in Nat \ {None}, k \notin DOMAIN t,
           NEW x, GoodObject(x), x.name = k,
           \A n \in {x.from, x.to, x.parent} : n # None => \E p \in NodesOf(t) : n = t[p].name,
           NEW u, u = Extended(t, k, x)
    PROVE  GoodTree(u)
<1>1. /\ DOMAIN u = DOMAIN t \cup {k} /\ u[k] = x
      /\ \A j \in DOMAIN t : u[j] = t[j]
  BY DEF Extended
<1>2. DOMAIN u \in SUBSET (Nat \ {None}) /\ IsFiniteSet(DOMAIN u)
  BY <1>1, FS_AddElement DEF GoodTree
<1>3. \A j \in DOMAIN t : t[j].name # k
  BY DEF GoodTree
<1>4. \A j \in DOMAIN u : GoodObject(u[j]) /\ (u[j].name = j \/ u[j].name \notin Nat)
  BY <1>1 DEF GoodTree
<1>5. Distinct(u)
  <2> SUFFICES ASSUME NEW i \in DOMAIN u, NEW j \in DOMAIN u, u[i].name = u[j].name
               PROVE  i = j
    BY DEF Distinct
  <2>1. CASE i = k \/ j = k
    BY <1>1, <1>3, <2>1
  <2>2. CASE i # k /\ j # k
    BY <1>1, <2>2 DEF GoodTree, Distinct
  <2> QED
    BY <2>1, <2>2
<1>6. Resolves(u)
  <2> SUFFICES ASSUME NEW j \in DOMAIN u, NEW n \in {u[j].from, u[j].to, u[j].parent} \ {None}
               PROVE  \E p \in NodesOf(u) : {i \in DOMAIN u : u[i].name = n} = {p}
    BY DEF Resolves
  <2>1. \E p \in NodesOf(t) : n = t[p].name
    <3>1. CASE j = k
      BY <1>1, <3>1
    <3>2. CASE j # k
      <4>1. j \in DOMAIN t /\ n \in {t[j].from, t[j].to, t[j].parent} /\ n # None
        BY <1>1, <3>2
      <4>2. KeyNamed(t, n) \in NodesOf(t) /\ t[KeyNamed(t, n)].name = n
        BY <4>1, ReferenceFound
      <4> QED
        BY <4>2
    <3> QED
      BY <3>1, <3>2
  <2>2. PICK p \in NodesOf(t) : n = t[p].name
    BY <2>1
  <2>3. p \in NodesOf(u) /\ u[p].name = n
    BY <1>1, <2>2 DEF NodesOf
  <2>4. {i \in DOMAIN u : u[i].name = n} = {p}
    BY <1>5, <2>3 DEF Distinct, NodesOf
  <2> QED
    BY <2>3, <2>4
<1> QED
  BY <1>2, <1>4, <1>5, <1>6 DEF GoodTree

LEMMA ExtendedKeys ==
    ASSUME NEW t, GoodTree(t), NEW k \in Nat \ {None}, k \notin DOMAIN t,
           NEW x, x.name = k, NEW u, u = Extended(t, k, x), GoodTree(u)
    PROVE  /\ \A p \in DOMAIN t : KeyNamed(u, t[p].name) = p
           /\ KeyNamed(u, k) = k
           /\ NodesOf(u) = IF IsLink(x) THEN NodesOf(t) ELSE NodesOf(t) \cup {k}
           /\ LinksOf(u) = IF k \in Linked(u) THEN LinksOf(t) \cup {LinkOf(u, k)} ELSE LinksOf(t)
<1>1. /\ DOMAIN u = DOMAIN t \cup {k} /\ u[k] = x
      /\ \A j \in DOMAIN t : u[j] = t[j]
  BY DEF Extended
<1>2. \A p \in DOMAIN u : KeyNamed(u, u[p].name) = p
  BY KeyNamedIs
<1>3. NodesOf(u) = IF IsLink(x) THEN NodesOf(t) ELSE NodesOf(t) \cup {k}
  BY <1>1 DEF NodesOf
<1>4. ASSUME NEW j \in Linked(t) PROVE j \in Linked(u) /\ LinkOf(u, j) = LinkOf(t, j)
  <2>1. PICK l : l = LinkOf(t, j)
    OBVIOUS
  <2>2. /\ l.source \in NodesOf(t) /\ l.target \in NodesOf(t)
        /\ IsLink(t[j]) => t[l.source].name = t[j].from /\ t[l.target].name = t[j].to
        /\ ~IsLink(t[j]) => t[l.target].name = t[j].parent
    BY <2>1, LinkEnds
  <2>3. j \in DOMAIN u /\ u[j] = t[j] /\ l.source \in DOMAIN u /\ l.target \in DOMAIN u
    BY <1>1, <2>2 DEF Linked, NodesOf
  <2>4. u[l.source] = t[l.source] /\ u[l.target] = t[l.target]
    BY <1>1, <2>2 DEF NodesOf
  <2> QED
    BY <2>1, <2>2, <2>3, <2>4, SameLink
<1>5. Linked(u) \subseteq Linked(t) \cup {k}
  BY <1>1 DEF Linked
<1>6. /\ LinksOf(u) = {LinkOf(u, j) : j \in Linked(u)}
      /\ LinksOf(t) = {LinkOf(t, j) : j \in Linked(t)}
  BY LinksByKey
<1>7. LinksOf(u) = IF k \in Linked(u) THEN LinksOf(t) \cup {LinkOf(u, k)} ELSE LinksOf(t)
  <2>1. CASE k \in Linked(u)
    <3>1. ASSUME NEW l \in LinksOf(u) PROVE l \in LinksOf(t) \cup {LinkOf(u, k)}
      BY <1>4, <1>5, <1>6
    <3>2. ASSUME NEW l \in LinksOf(t) \cup {LinkOf(u, k)} PROVE l \in LinksOf(u)
      BY <1>4, <1>6, <2>1
    <3> QED
      BY <2>1, <3>1, <3>2
  <2>2. CASE k \notin Linked(u)
    <3>1. ASSUME NEW l \in LinksOf(u) PROVE l \in LinksOf(t)
      BY <1>4, <1>5, <1>6, <2>2
    <3>2. ASSUME NEW l \in LinksOf(t) PROVE l \in LinksOf(u)
      BY <1>4, <1>6
    <3> QED
      BY <2>2, <3>1, <3>2
  <2> QED
    BY <2>1, <2>2
<1> QED
  BY <1>1, <1>2, <1>3, <1>7

(* A tree without an object.                                               *)
Less(t, u, k) == DOMAIN u = DOMAIN t \ {k} /\ \A j \in DOMAIN u : u[j] = t[j]

(* What nothing is connected to is removed with its link, if it has one.   *)
LEMMA RemovedIsGood ==
    ASSUME NEW t, GoodTree(t), NEW k \in DOMAIN t, IsLink(t[k]) \/ ~Connected(t, k),
           NEW u, Less(t, u, k)
    PROVE  /\ GoodTree(u)
           /\ NodesOf(u) = NodesOf(t) \ {k}
           /\ LinksOf(u) = IF k \in Linked(t) THEN LinksOf(t) \ {LinkOf(t, k)} ELSE LinksOf(t)
<1>1. DOMAIN u = DOMAIN t \ {k} /\ \A j \in DOMAIN u : u[j] = t[j]
  BY DEF Less
<1>2. DOMAIN u \in SUBSET (Nat \ {None}) /\ IsFiniteSet(DOMAIN u)
  BY <1>1, FS_RemoveElement DEF GoodTree
<1>3. NodesOf(u) = NodesOf(t) \ {k}
  BY <1>1 DEF NodesOf
<1>4. ASSUME NEW j \in DOMAIN t, NEW n \in {t[j].from, t[j].to, t[j].parent}, n # None
      PROVE  KeyNamed(t, n) \in NodesOf(u) /\ t[KeyNamed(t, n)].name = n
  <2>1. PICK p : p = KeyNamed(t, n)
    OBVIOUS
  <2>2. p \in NodesOf(t) /\ t[p].name = n
    BY <1>4, <2>1, ReferenceFound
  <2>3. p # k
    BY <1>4, <2>2 DEF Connected, NodesOf
  <2> QED
    BY <1>3, <2>1, <2>2, <2>3
<1>5. Distinct(u)
  BY <1>1 DEF GoodTree, Distinct
<1>6. Resolves(u)
  <2> SUFFICES ASSUME NEW j \in DOMAIN u, NEW n \in {u[j].from, u[j].to, u[j].parent} \ {None}
               PROVE  \E p \in NodesOf(u) : {i \in DOMAIN u : u[i].name = n} = {p}
    BY DEF Resolves
  <2>1. KeyNamed(t, n) \in NodesOf(u) /\ t[KeyNamed(t, n)].name = n
    BY <1>1, <1>4
  <2>2. PICK p : p = KeyNamed(t, n)
    OBVIOUS
  <2>3. p \in DOMAIN u /\ u[p].name = n
    BY <1>1, <2>1, <2>2 DEF NodesOf
  <2>4. {i \in DOMAIN u : u[i].name = n} = {p}
    BY <1>5, <2>3 DEF Distinct
  <2> QED
    BY <2>1, <2>2, <2>4
<1>7. GoodTree(u)
  BY <1>1, <1>2, <1>5, <1>6 DEF GoodTree
<1>8. ASSUME NEW j \in Linked(t), j # k PROVE j \in Linked(u) /\ LinkOf(u, j) = LinkOf(t, j)
  <2>1. PICK l : l = LinkOf(t, j)
    OBVIOUS
  <2>2. /\ l.source \in NodesOf(t) /\ l.target \in NodesOf(t)
        /\ IsLink(t[j]) => t[l.source].name = t[j].from /\ t[l.target].name = t[j].to
        /\ ~IsLink(t[j]) => l.source = j /\ t[l.target].name = t[j].parent
    BY <2>1, LinkEnds
  <2>3. j \in DOMAIN u /\ u[j] = t[j]
    BY <1>1, <1>8 DEF Linked
  <2>4. l.source # k /\ l.target # k
    <3>1. \A p \in {l.source, l.target} : p = j \/ t[p].name \in {t[j].from, t[j].to, t[j].parent}
      BY <2>2
    <3> QED
      BY <1>8, <2>2, <3>1 DEF Connected, Linked, NodesOf
  <2>5. /\ l.source \in DOMAIN u /\ l.target \in DOMAIN u
        /\ u[l.source] = t[l.source] /\ u[l.target] = t[l.target]
    BY <1>1, <2>2, <2>4 DEF NodesOf
  <2> QED
    BY <1>7, <2>1, <2>2, <2>3, <2>5, SameLink
<1>9. Linked(u) = Linked(t) \ {k}
  BY <1>1 DEF Linked
<1>10. /\ LinksOf(u) = {LinkOf(u, j) : j \in Linked(u)}
       /\ LinksOf(t) = {LinkOf(t, j) : j \in Linked(t)}
  BY <1>7, LinksByKey
<1>11. LinksOf(u) = {LinkOf(t, j) : j \in Linked(t) \ {k}}
  BY <1>8, <1>9, <1>10
<1>12. LinksOf(u) = IF k \in Linked(t) THEN LinksOf(t) \ {LinkOf(t, k)} ELSE LinksOf(t)
  <2>1. CASE k \in Linked(t)
    <3>1. \A j \in Linked(t) : LinkOf(t, j) = LinkOf(t, k) => j = k
      BY <2>1, OneLinkEach
    <3> QED
      BY <1>10, <1>11, <2>1, <3>1
  <2>2. CASE k \notin Linked(t)
    BY <1>10, <1>11, <2>2
  <2> QED
    BY <2>1, <2>2
<1> QED
  BY <1>3, <1>7, <1>12

Renamed(v, old, new) == IF v = old THEN new ELSE v

(* A new name reaches the object and all that refer to it.                 *)
LEMMA RenamedIsGood ==
    ASSUME NEW t, GoodTree(t), NEW k \in DOMAIN t, NEW new, new # None, new \notin Nat,
           \A j \in DOMAIN t : t[j].name # new, NEW old, old = t[k].name,
           NEW u,
           u = [j \in DOMAIN t |->
                  [name |-> Renamed(t[j].name, old, new), object |-> t[j].object,
                   from |-> Renamed(t[j].from, old, new), to |-> Renamed(t[j].to, old, new),
                   parent |-> Renamed(t[j].parent, old, new)]]
    PROVE  /\ GoodTree(u)
           /\ NodesOf(u) = NodesOf(t)
           /\ LinksOf(u) = LinksOf(t)
           /\ u[k].name = new
           /\ \A j \in DOMAIN t : /\ u[j].object = t[j].object
                                  /\ j # k => u[j].name = t[j].name
<1>1. old # None
  BY DEF GoodTree, GoodObject
<1>2. /\ DOMAIN u = DOMAIN t
      /\ \A j \in DOMAIN t :
            u[j] = [name |-> Renamed(t[j].name, old, new), object |-> t[j].object,
                    from |-> Renamed(t[j].from, old, new), to |-> Renamed(t[j].to, old, new),
                    parent |-> Renamed(t[j].parent, old, new)]
  OBVIOUS
<1>3. \A v : Renamed(v, old, new) = None <=> v = None
  BY <1>1 DEF Renamed
<1>4. \A j \in DOMAIN t : IsLink(u[j]) <=> IsLink(t[j])
  BY <1>2, <1>3 DEF IsLink
<1>5. NodesOf(u) = NodesOf(t)
  BY <1>2, <1>4 DEF NodesOf
<1>6. u[k].name = new /\ \A j \in DOMAIN t : j # k => u[j].name = t[j].name
  <2>1. \A j \in DOMAIN t : t[j].name = old => j = k
    BY DEF GoodTree, Distinct
  <2> QED
    BY <1>2, <2>1 DEF Renamed
<1>7. Distinct(u)
  BY <1>2, <1>6 DEF Distinct, GoodTree
<1>8. \A j \in DOMAIN u : GoodObject(u[j]) /\ (u[j].name = j \/ u[j].name \notin Nat)
  <2> SUFFICES ASSUME NEW j \in DOMAIN t
               PROVE  GoodObject(u[j]) /\ (u[j].name = j \/ u[j].name \notin Nat)
    BY <1>2
  <2>1. GoodObject(t[j]) /\ (t[j].name = j \/ t[j].name \notin Nat)
    BY DEF GoodTree
  <2>2. u[j].name = j \/ u[j].name \notin Nat
    BY <1>6, <2>1
  <2>3. GoodObject(u[j])
    BY <1>2, <1>3, <1>4, <2>1 DEF GoodObject, IsObject
  <2> QED
    BY <2>2, <2>3
<1>9. ASSUME NEW j \in DOMAIN t, NEW n \in {t[j].from, t[j].to, t[j].parent}, n # None
      PROVE  /\ KeyNamed(t, n) \in NodesOf(t)
             /\ u[KeyNamed(t, n)].name = Renamed(n, old, new)
  <2>1. PICK p : p = KeyNamed(t, n)
    OBVIOUS
  <2>2. p \in NodesOf(t) /\ t[p].name = n
    BY <1>9, <2>1, ReferenceFound
  <2> QED
    BY <1>2, <2>1, <2>2 DEF NodesOf
<1>10. Resolves(u)
  <2> SUFFICES ASSUME NEW j \in DOMAIN u, NEW n \in {u[j].from, u[j].to, u[j].parent} \ {None}
               PROVE  \E p \in NodesOf(u) : {i \in DOMAIN u : u[i].name = n} = {p}
    BY DEF Resolves
  <2>1. PICK v \in {t[j].from, t[j].to, t[j].parent} : n = Renamed(v, old, new)
    BY <1>2
  <2>2. v # None
    BY <1>3, <2>1
  <2>3. PICK p \in NodesOf(u) : u[p].name = n
    <3>1. j \in DOMAIN t
      BY <1>2
    <3>2. KeyNamed(t, v) \in NodesOf(t) /\ u[KeyNamed(t, v)].name = Renamed(v, old, new)
      BY <1>9, <2>1, <2>2, <3>1
    <3> QED
      BY <1>5, <2>1, <3>2
  <2>4. {i \in DOMAIN u : u[i].name = n} = {p}
    BY <1>7, <2>3 DEF Distinct, NodesOf
  <2> QED
    BY <2>4
<1>11. GoodTree(u)
  BY <1>2, <1>7, <1>8, <1>10 DEF GoodTree
<1>12. Linked(u) = Linked(t)
  <2>1. \A j \in DOMAIN t : u[j].parent = None <=> t[j].parent = None
    BY <1>2, <1>3
  <2> QED
    BY <1>2, <1>4, <2>1 DEF Linked
<1>13. ASSUME NEW j \in Linked(t) PROVE LinkOf(u, j) = LinkOf(t, j)
  <2>1. PICK l : l = LinkOf(t, j)
    OBVIOUS
  <2>2. /\ l.source \in NodesOf(t) /\ l.target \in NodesOf(t)
        /\ IsLink(t[j]) => t[l.source].name = t[j].from /\ t[l.target].name = t[j].to
        /\ ~IsLink(t[j]) => l.source = j /\ t[l.target].name = t[j].parent
    BY <2>1, LinkEnds
  <2>3. /\ j \in DOMAIN t /\ j \in DOMAIN u
        /\ l.source \in DOMAIN t /\ l.target \in DOMAIN t
        /\ l.source \in DOMAIN u /\ l.target \in DOMAIN u
    BY <1>2, <2>2 DEF Linked, NodesOf
  <2>4. IsLink(t[j]) => u[l.source].name = u[j].from /\ u[l.target].name = u[j].to
    BY <1>2, <2>2, <2>3
  <2>5. ~IsLink(t[j]) => u[l.target].name = u[j].parent
    BY <1>2, <2>2, <2>3
  <2>6. IsLink(u[j]) <=> IsLink(t[j])
    BY <1>4, <2>3
  <2> QED
    BY <1>11, <2>1, <2>3, <2>4, <2>5, <2>6, SameLink
<1>14. LinksOf(u) = LinksOf(t)
  <2>1. /\ LinksOf(u) = {LinkOf(u, j) : j \in Linked(u)}
        /\ LinksOf(t) = {LinkOf(t, j) : j \in Linked(t)}
    BY <1>11, LinksByKey
  <2>2. ASSUME NEW l \in LinksOf(u) PROVE l \in LinksOf(t)
    BY <1>12, <1>13, <2>1
  <2>3. ASSUME NEW l \in LinksOf(t) PROVE l \in LinksOf(u)
    BY <1>12, <1>13, <2>1
  <2> QED
    BY <2>2, <2>3
<1> QED
  BY <1>2, <1>5, <1>6, <1>11, <1>14

-----------------------------------------------------------------------------
(* The graph grows and shrinks *)

LEMMA NamesOfRecords ==
    ASSUME NEW g, GoodTree(g.tree), NEW hidden, NodesFit(g, hidden)
    PROVE  /\ \A j, k \in NodesOf(g.tree) : g.record[j].name = g.record[k].name => j = k
           /\ \A k \in NodesOf(g.tree) : g.record[k].name = g.tree[k].name
<1>1. ASSUME NEW k \in NodesOf(g.tree)
      PROVE  k \in DOMAIN g.tree /\ g.record[k].name = g.tree[k].name
  <2>1. PICK v : v = g.record[k].big
    OBVIOUS
  <2>2. g.record[k] = [name |-> g.tree[k].name, object |-> g.tree[k].object, big |-> v]
    BY <2>1 DEF NodesFit
  <2> QED
    BY <2>2 DEF NodesOf
<1> QED
  BY <1>1 DEF GoodTree, Distinct

LEMMA FoundDrawn ==
    ASSUME NEW g, GoodTree(g.tree), NEW hidden, NodesFit(g, hidden), NEW p \in NodesOf(g.tree)
    PROVE  Found(g, g.tree[p].name) = IF p \in g.nodes THEN {p} ELSE {None}
<1>1. g.nodes \subseteq NodesOf(g.tree)
  BY DEF NodesFit
<1>2. \A k \in g.nodes : g.record[k].name = g.tree[p].name <=> k = p
  BY <1>1, NamesOfRecords
<1> QED
  BY <1>2 DEF Found

(* Drawn nodes, and links between drawn nodes, are added.                  *)
LEMMA GrownFolded ==
    ASSUME NEW g, GoodTree(g.tree), NEW hidden, NodesFit(g, hidden), NEW hiddenL,
           LinksFit(g, hiddenL), NEW lv, NEW m, Folded(g, hidden, hiddenL, lv, m),
           NEW a, NEW b, NEW h,
           a \cap NodesOf(g.tree) = {}, b \cap LinksOf(g.tree) = {},
           NodesOf(h.tree) = NodesOf(g.tree) \cup a, LinksOf(h.tree) = LinksOf(g.tree) \cup b,
           h.nodes = g.nodes \cup a, h.links = g.links \cup b,
           \A l \in b : Ends(l) \subseteq h.nodes,
           \A k \in NodesOf(g.tree) : h.record[k].big = g.record[k].big,
           \A k \in a : ~h.record[k].big
    PROVE  LinksFit(h, hiddenL) /\ \E w : Folded(h, hidden, hiddenL, w, m)
<1>1. LinksFit(h, hiddenL)
  BY DEF LinksFit
<1>2. /\ g.nodes \subseteq NodesOf(g.tree) /\ hidden \subseteq NodesOf(g.tree)
      /\ hidden \cap h.nodes = {}
      /\ hiddenL \subseteq LinksOf(g.tree)
  BY DEF NodesFit, LinksFit
<1>3. \A l \in LinksOf(g.tree) : Ends(l) \subseteq NodesOf(g.tree)
  BY EndsOfLinks
<1>4. PICK w : w = [x \in NodesOf(h.tree) |-> IF x \in a THEN m ELSE lv[x]]
  OBVIOUS
<1>5. /\ \A x \in NodesOf(g.tree) : w[x] = lv[x]
      /\ \A x \in a : w[x] = m
  BY <1>4
<1>6. m \in Nat /\ Levels(h, w, m)
  BY <1>5 DEF Folded, Levels
<1>7. \A l \in b : Ends(l) \cap hidden = {}
  BY <1>2
<1>8. OneWayUp(h, hidden, w)
  <2> SUFFICES ASSUME NEW x \in hidden, NEW l1 \in LinksOf(h.tree), NEW l2 \in LinksOf(h.tree),
                      Up(w, l1, x), Up(w, l2, x)
               PROVE  l1 = l2
    BY DEF OneWayUp
  <2>1. l1 \in LinksOf(g.tree) /\ l2 \in LinksOf(g.tree)
    BY <1>7 DEF Up
  <2>2. Up(lv, l1, x) /\ Up(lv, l2, x)
    BY <1>2, <1>3, <1>5, <2>1 DEF Up
  <2> QED
    BY <2>1, <2>2 DEF Folded, OneWayUp
<1>9. DrawnWithEnds(h)
  <2> SUFFICES ASSUME NEW l \in LinksOf(h.tree)
               PROVE  l \in h.links <=> Ends(l) \subseteq h.nodes
    BY DEF DrawnWithEnds
  <2>1. CASE l \in b
    BY <2>1
  <2>2. CASE l \in LinksOf(g.tree)
    <3>1. Ends(l) \cap a = {} /\ l \notin b
      BY <1>3, <2>2
    <3>2. l \in g.links <=> Ends(l) \subseteq g.nodes
      BY <2>2 DEF Folded, DrawnWithEnds
    <3> QED
      BY <3>1, <3>2
  <2> QED
    BY <2>1, <2>2
<1>10. BigWhenDrawn(h, hiddenL)
  <2> SUFFICES ASSUME NEW k \in h.nodes
               PROVE  h.record[k].big <=> \E l \in hiddenL : k \in Ends(l)
    BY DEF BigWhenDrawn
  <2>1. CASE k \in a
    BY <1>2, <1>3, <2>1
  <2>2. CASE k \in g.nodes
    BY <1>2, <2>2 DEF Folded, BigWhenDrawn
  <2> QED
    BY <2>1, <2>2
<1>11. BigWhenFolded(h, hidden, hiddenL, w)
  <2> SUFFICES ASSUME NEW x \in hidden, NEW l \in LinksOf(h.tree), x \in Ends(l),
                      NEW e \in Ends(l), w[e] > w[x]
               PROVE  h.record[x].big <=>
                        \E l1 \in hiddenL : x \in Ends(l1) /\ \E e1 \in Ends(l1) : w[e1] < w[x]
    BY DEF BigWhenFolded
  <2>1. l \in LinksOf(g.tree)
    BY <1>7
  <2>2. lv[e] > lv[x]
    BY <1>2, <1>3, <1>5, <2>1
  <2>3. g.record[x].big <=>
          \E l1 \in hiddenL : x \in Ends(l1) /\ \E e1 \in Ends(l1) : lv[e1] < lv[x]
    BY <2>1, <2>2 DEF Folded, BigWhenFolded
  <2>4. \A l1 \in hiddenL : \A e1 \in Ends(l1) : w[e1] = lv[e1]
    BY <1>2, <1>3, <1>5
  <2> QED
    BY <1>2, <1>5, <2>3, <2>4
<1> QED
  BY <1>1, <1>6, <1>8, <1>9, <1>10, <1>11 DEF Folded

(* Drawn nodes, and drawn links, are removed.                              *)
LEMMA ShrunkFolded ==
    ASSUME NEW g, GoodTree(g.tree), NEW hidden, NodesFit(g, hidden), NEW hiddenL,
           LinksFit(g, hiddenL), NEW lv, NEW m, Folded(g, hidden, hiddenL, lv, m),
           NEW a, NEW b, NEW h, GoodTree(h.tree),
           a \subseteq g.nodes, b \subseteq g.links,
           NodesOf(h.tree) = NodesOf(g.tree) \ a, LinksOf(h.tree) = LinksOf(g.tree) \ b,
           h.nodes = g.nodes \ a, h.links = g.links \ b,
           \A k \in NodesOf(g.tree) : h.record[k].big = g.record[k].big
    PROVE  LinksFit(h, hiddenL) /\ Folded(h, hidden, hiddenL, lv, m)
<1>1. LinksFit(h, hiddenL)
  BY DEF LinksFit
<1>2. /\ g.nodes \subseteq NodesOf(g.tree) /\ hidden \subseteq NodesOf(g.tree)
      /\ hiddenL \subseteq LinksOf(h.tree)
  BY <1>1 DEF NodesFit, LinksFit
<1>3. \A l \in LinksOf(h.tree) : l \in LinksOf(g.tree) /\ Ends(l) \subseteq NodesOf(h.tree)
  BY EndsOfLinks
<1>4. m \in Nat /\ Levels(h, lv, m)
  BY DEF Folded, Levels
<1>5. OneWayUp(h, hidden, lv)
  BY DEF Folded, OneWayUp
<1>6. DrawnWithEnds(h)
  <2> SUFFICES ASSUME NEW l \in LinksOf(h.tree)
               PROVE  l \in h.links <=> Ends(l) \subseteq h.nodes
    BY DEF DrawnWithEnds
  <2>1. l \in g.links <=> Ends(l) \subseteq g.nodes
    BY <1>3 DEF Folded, DrawnWithEnds
  <2> QED
    BY <1>3, <2>1
<1>7. BigWhenDrawn(h, hiddenL)
  BY <1>2 DEF Folded, BigWhenDrawn
<1>8. BigWhenFolded(h, hidden, hiddenL, lv)
  BY <1>2, <1>3 DEF Folded, BigWhenFolded
<1> QED
  BY <1>1, <1>4, <1>5, <1>6, <1>7, <1>8 DEF Folded

-----------------------------------------------------------------------------
(* Objects are added *)

(* A tree with further objects, of types that are no triplex nodes.        *)
Added(t, u) ==
    /\ \A j \in DOMAIN t : j \in DOMAIN u /\ u[j] = t[j]
    /\ \A j \in DOMAIN u \ DOMAIN t : u[j].object # "triplex_node"

(* A new object hangs on the one with a name.                              *)
ChildOf(u, k, object, parent) ==
    k \in NodesOf(u) /\ u[k].object = object /\ u[k].name = k /\ u[k].parent = parent

LEMMA WithNodeTree ==
    ASSUME NEW g, GoodTree(g.tree),
           NEW object, NEW parent, object = "house" => parent # None,
           parent # None => \E p \in NodesOf(g.tree) : parent = g.tree[p].name,
           NEW n, n = WithNode(g, object, parent), NEW k, k = NextTreeKey(g.tree)
    PROVE  /\ GoodTree(n.tree)
           /\ k \notin DOMAIN g.tree /\ k # None
           /\ DOMAIN n.tree = DOMAIN g.tree \cup {k}
           /\ \A j \in DOMAIN g.tree : n.tree[j] = g.tree[j]
           /\ n.tree[k] = [name |-> k, object |-> object, from |-> None, to |-> None,
                           parent |-> parent]
           /\ NodesOf(n.tree) = NodesOf(g.tree) \cup {k}
           /\ LinksOf(n.tree) = IF parent = None THEN LinksOf(g.tree)
                                ELSE LinksOf(g.tree) \cup {LinkOf(n.tree, k)}
<1>1. n.tree = Extended(g.tree, k, [name |-> k, object |-> object, from |-> None,
                                    to |-> None, parent |-> parent])
  BY DEF WithNode
<1>2. k \in Nat \ {None} /\ k \notin DOMAIN g.tree
  BY KeyIsFree DEF GoodTree
<1>3. PICK x : x = [name |-> k, object |-> object, from |-> None, to |-> None, parent |-> parent]
  OBVIOUS
<1>4. GoodObject(x) /\ ~IsLink(x) /\ x.name = k
  BY <1>2, <1>3 DEF GoodObject, IsObject, IsLink
<1>5. \A v \in {x.from, x.to, x.parent} : v # None => \E p \in NodesOf(g.tree) : v = g.tree[p].name
  BY <1>3
<1>6. PICK t, u : t = g.tree /\ u = n.tree
  OBVIOUS
<1>7. u = Extended(t, k, x)
  BY <1>1, <1>3, <1>6
<1>8. GoodTree(u)
  <2>1. \A v \in {x.from, x.to, x.parent} : v # None => \E p \in NodesOf(t) : v = t[p].name
    BY <1>5, <1>6
  <2>2. GoodTree(t) /\ k \notin DOMAIN t
    BY <1>2, <1>6
  <2> QED
    BY ONLY <1>2, <1>4, <1>7, <2>1, <2>2, ExtendedIsGood
<1>9. /\ NodesOf(u) = NodesOf(t) \cup {k}
      /\ LinksOf(u) = IF k \in Linked(u) THEN LinksOf(t) \cup {LinkOf(u, k)} ELSE LinksOf(t)
  <2>1. GoodTree(t) /\ k \notin DOMAIN t
    BY <1>2, <1>6
  <2>2. /\ NodesOf(u) = IF IsLink(x) THEN NodesOf(t) ELSE NodesOf(t) \cup {k}
        /\ LinksOf(u) = IF k \in Linked(u) THEN LinksOf(t) \cup {LinkOf(u, k)} ELSE LinksOf(t)
    BY ONLY <1>2, <1>4, <1>7, <1>8, <2>1, ExtendedKeys
  <2> QED
    BY <1>4, <2>2
<1>10. /\ DOMAIN u = DOMAIN t \cup {k} /\ u[k] = x
       /\ \A j \in DOMAIN t : u[j] = t[j]
  BY <1>2, <1>6, <1>7 DEF Extended
<1>11. k \in Linked(u) <=> parent # None
  BY <1>3, <1>4, <1>10 DEF Linked
<1> QED
  BY <1>1, <1>2, <1>3, <1>6, <1>8, <1>9, <1>10, <1>11

LEMMA WithNodeRecord ==
    ASSUME NEW g, NEW object, NEW parent, NEW n, n = WithNode(g, object, parent),
           NEW k, k = NextTreeKey(g.tree)
    PROVE  /\ n.nodes = g.nodes \cup {k}
           /\ n.record[k] = [name |-> k, object |-> object, big |-> FALSE]
           /\ k \in DOMAIN n.record
           /\ \A j \in DOMAIN g.record :
                 j \in DOMAIN n.record /\ (j # k => n.record[j] = g.record[j])
<1>1. PICK x : x = [name |-> k, object |-> object, big |-> FALSE]
  OBVIOUS
<1>2. n.nodes = g.nodes \cup {k} /\ n.record = Extended(g.record, k, x)
  BY <1>1 DEF WithNode
<1> QED
  BY <1>1, <1>2 DEF Extended

LEMMA WithNodeFits ==
    ASSUME NEW g, GoodTree(g.tree), NEW hidden, NodesFit(g, hidden),
           NEW object, NEW parent, object = "house" => parent # None,
           parent # None => \E p \in NodesOf(g.tree) : parent = g.tree[p].name,
           NEW n, n = WithNode(g, object, parent), NEW k, k = NextTreeKey(g.tree)
    PROVE  /\ GoodTree(n.tree) /\ NodesFit(n, hidden)
           /\ k \notin DOMAIN g.tree /\ k # None
           /\ DOMAIN n.tree = DOMAIN g.tree \cup {k}
           /\ \A j \in DOMAIN g.tree : n.tree[j] = g.tree[j]
           /\ n.tree[k] = [name |-> k, object |-> object, from |-> None, to |-> None,
                           parent |-> parent]
           /\ NodesOf(n.tree) = NodesOf(g.tree) \cup {k}
           /\ \A j \in NodesOf(g.tree) : n.record[j] = g.record[j]
           /\ ~n.record[k].big
           /\ LinksOf(n.tree) = IF parent = None THEN LinksOf(g.tree)
                                ELSE LinksOf(g.tree) \cup {LinkOf(n.tree, k)}
<1>1. PICK t, u : t = g.tree /\ u = n.tree
  OBVIOUS
<1>2. /\ GoodTree(u)
      /\ k \notin DOMAIN t /\ k # None
      /\ DOMAIN u = DOMAIN t \cup {k}
      /\ \A j \in DOMAIN t : u[j] = t[j]
      /\ u[k] = [name |-> k, object |-> object, from |-> None, to |-> None, parent |-> parent]
      /\ NodesOf(u) = NodesOf(t) \cup {k}
      /\ LinksOf(u) = IF parent = None THEN LinksOf(t) ELSE LinksOf(t) \cup {LinkOf(u, k)}
      /\ n.nodes = g.nodes \cup {k}
      /\ n.record[k] = [name |-> k, object |-> object, big |-> FALSE]
      /\ k \in DOMAIN n.record
      /\ \A j \in DOMAIN g.record : j \in DOMAIN n.record /\ (j # k => n.record[j] = g.record[j])
  <2>1. GoodTree(g.tree) /\ k = NextTreeKey(g.tree) /\ n = WithNode(g, object, parent)
    OBVIOUS
  <2>2. /\ object = "house" => parent # None
        /\ parent # None => \E p \in NodesOf(g.tree) : parent = g.tree[p].name
    OBVIOUS
  <2>3. /\ GoodTree(n.tree)
        /\ k \notin DOMAIN g.tree /\ k # None
        /\ DOMAIN n.tree = DOMAIN g.tree \cup {k}
        /\ \A j \in DOMAIN g.tree : n.tree[j] = g.tree[j]
        /\ n.tree[k] = [name |-> k, object |-> object, from |-> None, to |-> None,
                        parent |-> parent]
        /\ NodesOf(n.tree) = NodesOf(g.tree) \cup {k}
        /\ LinksOf(n.tree) = IF parent = None THEN LinksOf(g.tree)
                             ELSE LinksOf(g.tree) \cup {LinkOf(n.tree, k)}
    BY ONLY <2>1, <2>2, WithNodeTree
  <2>4. /\ n.nodes = g.nodes \cup {k}
        /\ n.record[k] = [name |-> k, object |-> object, big |-> FALSE]
        /\ k \in DOMAIN n.record
        /\ \A j \in DOMAIN g.record : j \in DOMAIN n.record /\ (j # k => n.record[j] = g.record[j])
    BY ONLY <2>1, WithNodeRecord
  <2> QED
    BY <1>1, <2>3, <2>4
<1>3. \A j \in NodesOf(t) : j \in DOMAIN t /\ j # k /\ n.record[j] = g.record[j] /\ j \in DOMAIN n.record
  BY <1>1, <1>2 DEF NodesFit, NodesOf
<1>4. NodesFit(n, hidden)
  <2>1. n.nodes \cap hidden = {} /\ n.nodes \cup hidden = NodesOf(u)
    BY <1>1, <1>2 DEF NodesFit, NodesOf
  <2>2. NodesOf(u) \subseteq DOMAIN n.record
    BY <1>2, <1>3
  <2>3. ASSUME NEW j \in NodesOf(u)
        PROVE  /\ n.record[j] = [name |-> u[j].name, object |-> u[j].object,
                                 big |-> n.record[j].big]
               /\ n.record[j].big \in BOOLEAN
    <3>1. CASE j = k
      <4>1. n.record[j] = [name |-> k, object |-> object, big |-> FALSE]
        BY <1>2, <3>1
      <4>2. u[j].name = k /\ u[j].object = object
        BY <1>2, <3>1
      <4>3. n.record[j].big = FALSE
        BY <4>1
      <4> QED
        BY <4>1, <4>2, <4>3
    <3>2. CASE j # k
      <4>1. j \in NodesOf(t) /\ n.record[j] = g.record[j] /\ u[j] = t[j]
        BY <1>2, <1>3, <3>2
      <4>2. /\ g.record[j] = [name |-> t[j].name, object |-> t[j].object,
                              big |-> g.record[j].big]
            /\ g.record[j].big \in BOOLEAN
        BY <1>1, <4>1 DEF NodesFit
      <4> QED
        BY <4>1, <4>2
    <3> QED
      BY <3>1, <3>2
  <2> QED
    BY <1>1, <2>1, <2>2, <2>3 DEF NodesFit
<1>5. ~n.record[k].big
  <2>1. PICK r : r = n.record[k] /\ r = [name |-> k, object |-> object, big |-> FALSE]
    BY <1>2
  <2> QED
    BY <2>1
<1> QED
  BY <1>1, <1>2, <1>3, <1>4, <1>5

(* A graph has its fields and no other.                                    *)
IsGraph(g) ==
    g = [tree |-> g.tree, nodes |-> g.nodes, links |-> g.links, record |-> g.record, ok |-> g.ok]

(* The node that is asked whether it is fixed is there.                    *)
Asked(g) == g.ok /\ GridNodeDrawn(g)

LEMMA WithChildShape ==
    ASSUME NEW g, Asked(g), NEW object, NEW p, p # None, NEW n \in WithChild(g, object, p)
    PROVE  \E new, s, d :
               /\ new = WithNode(g, object, g.tree[p].name)
               /\ s \in Found(new, NextTreeKey(g.tree)) /\ d \in Found(new, g.tree[p].name)
               /\ n.tree = new.tree /\ n.nodes = new.nodes /\ n.record = new.record
               /\ n.links = new.links \cup {[source |-> s, target |-> d, treeIndex |-> None]}
               /\ n.ok /\ IsGraph(n)
<1>1. PICK new : new = WithNode(g, object, g.tree[p].name)
  OBVIOUS
<1>2. /\ new = [tree |-> new.tree, nodes |-> new.nodes, links |-> new.links,
                record |-> new.record, ok |-> new.ok]
      /\ new.ok
  BY <1>1 DEF WithNode, Asked
<1>3. PICK s \in Found(new, NextTreeKey(g.tree)), d \in Found(new, g.tree[p].name) :
          n = [new EXCEPT !.links = @ \cup {[source |-> s, target |-> d, treeIndex |-> None]}]
  BY <1>1 DEF WithChild, Asked
<1>4. /\ n.tree = new.tree /\ n.nodes = new.nodes /\ n.record = new.record
      /\ n.links = new.links \cup {[source |-> s, target |-> d, treeIndex |-> None]}
      /\ n.ok /\ IsGraph(n)
  BY <1>2, <1>3 DEF IsGraph
<1> QED
  BY <1>1, <1>3, <1>4

(* Without the node nothing is drawn, and at most the tree has the child.  *)
LEMMA WithChildThrown ==
    ASSUME NEW g, IsGraph(g), g.ok, ~GridNodeDrawn(g), NEW object, NEW p,
           NEW n \in WithChild(g, object, p)
    PROVE  /\ ~n.ok
           /\ n.nodes = g.nodes /\ n.links = g.links /\ n.record = g.record
           /\ n.tree = g.tree \/ n.tree = WithNode(g, object, g.tree[p].name).tree
<1>1. PICK new : new = WithNode(g, object, g.tree[p].name)
  OBVIOUS
<1>2. n \in Thrown(g, new, p)
  BY <1>1 DEF WithChild
<1>3. n = [g EXCEPT !.ok = FALSE] \/ n = [g EXCEPT !.tree = new.tree, !.ok = FALSE]
  BY <1>2 DEF Thrown
<1>4. PICK u : u = new.tree
  OBVIOUS
<1>5. CASE n = [g EXCEPT !.ok = FALSE]
  BY <1>5 DEF IsGraph
<1>6. CASE n = [g EXCEPT !.tree = u, !.ok = FALSE]
  BY <1>1, <1>4, <1>6 DEF IsGraph
<1> QED
  BY <1>3, <1>4, <1>5, <1>6

(* The child, and the link to the parent, which hangs in the air when the  *)
(* parent is folded.                                                       *)
LEMMA WithChildFits ==
    ASSUME NEW g, GoodTree(g.tree), NEW hidden, NodesFit(g, hidden), NEW hiddenL,
           Asked(g), NEW object, NEW p \in NodesOf(g.tree),
           NEW n \in WithChild(g, object, p), NEW k, k = NextTreeKey(g.tree)
    PROVE  /\ GoodTree(n.tree) /\ NodesFit(n, hidden)
           /\ Asked(n)
           /\ object # "triplex_node" => Added(g.tree, n.tree)
           /\ ChildOf(n.tree, k, object, g.tree[p].name)
           /\ n.nodes = g.nodes \cup {k}
           /\ Hanging(g.links) => Hanging(n.links)
           /\ p \notin g.nodes => Hanging(n.links)
           /\ Fits(g, hidden, hiddenL) => Fits(n, hidden, hiddenL)
<1>1. PICK new, s, d :
          /\ new = WithNode(g, object, g.tree[p].name)
          /\ s \in Found(new, k) /\ d \in Found(new, g.tree[p].name)
          /\ n.tree = new.tree /\ n.nodes = new.nodes /\ n.record = new.record
          /\ n.links = new.links \cup {[source |-> s, target |-> d, treeIndex |-> None]}
          /\ n.ok
  <2>1. p # None
    BY DEF NodesOf, GoodTree
  <2> QED
    BY <2>1, WithChildShape
<1>2. PICK parent : parent = g.tree[p].name
  OBVIOUS
<1>3. parent # None /\ p \in DOMAIN g.tree
  BY <1>2 DEF NodesOf, GoodTree, GoodObject
<1>4. /\ GoodTree(new.tree) /\ NodesFit(new, hidden)
      /\ k \notin DOMAIN g.tree /\ k # None
      /\ DOMAIN new.tree = DOMAIN g.tree \cup {k}
      /\ \A j \in DOMAIN g.tree : new.tree[j] = g.tree[j]
      /\ new.tree[k] = [name |-> k, object |-> object, from |-> None, to |-> None,
                        parent |-> parent]
      /\ NodesOf(new.tree) = NodesOf(g.tree) \cup {k}
      /\ \A j \in NodesOf(g.tree) : new.record[j] = g.record[j]
      /\ ~new.record[k].big
      /\ LinksOf(new.tree) = IF parent = None THEN LinksOf(g.tree)
                             ELSE LinksOf(g.tree) \cup {LinkOf(new.tree, k)}
  <2>1. new = WithNode(g, object, parent)
    BY <1>1, <1>2
  <2>2. parent # None => \E q \in NodesOf(g.tree) : parent = g.tree[q].name
    BY <1>2
  <2>3. object = "house" => parent # None
    BY <1>3
  <2>4. GoodTree(g.tree) /\ NodesFit(g, hidden) /\ k = NextTreeKey(g.tree)
    OBVIOUS
  <2> QED
    BY ONLY <2>1, <2>2, <2>3, <2>4, WithNodeFits
<1>5. new.nodes = g.nodes \cup {k} /\ new.links = g.links
  BY <1>1 DEF WithNode
<1>6. p \in NodesOf(new.tree) /\ p # k /\ new.tree[p].name = parent
  BY <1>2, <1>3, <1>4
<1>7. s = k /\ d = IF p \in g.nodes THEN p ELSE None
  <2>1. Found(new, new.tree[k].name) = IF k \in new.nodes THEN {k} ELSE {None}
    BY <1>4, FoundDrawn
  <2>2. Found(new, new.tree[p].name) = IF p \in new.nodes THEN {p} ELSE {None}
    BY <1>4, <1>6, FoundDrawn
  <2>3. new.tree[k].name = k /\ k \in new.nodes /\ (p \in new.nodes <=> p \in g.nodes)
    BY <1>4, <1>5, <1>6
  <2> QED
    BY <1>1, <1>2, <1>6, <2>1, <2>2, <2>3
<1>8. PICK l : l = [source |-> s, target |-> d, treeIndex |-> None]
  OBVIOUS
<1>9. n.links = g.links \cup {l} /\ Ends(l) = {s, d}
  BY <1>1, <1>5, <1>8 DEF Ends
<1>10. ASSUME object # "triplex_node" PROVE Added(g.tree, n.tree)
  <2>1. n.tree[k].object # "triplex_node"
    BY <1>1, <1>4, <1>10, SMTT(30)
  <2> QED
    BY <1>1, <1>4, <2>1 DEF Added
<1>11. NodesFit(n, hidden)
  <2>1. /\ NodesFit(new, hidden)
        /\ n.tree = new.tree /\ n.nodes = new.nodes /\ n.record = new.record
    BY <1>1, <1>4
  <2> QED
    BY ONLY <2>1 DEF NodesFit
<1>12. Hanging(g.links) => Hanging(n.links)
  BY <1>9 DEF Hanging
<1>13. p \notin g.nodes => Hanging(n.links)
  BY <1>7, <1>9 DEF Hanging
<1>14. ASSUME p \in g.nodes, LinksFit(g, hiddenL), \E lv, m : Folded(g, hidden, hiddenL, lv, m)
       PROVE  LinksFit(n, hiddenL) /\ \E lv, m : Folded(n, hidden, hiddenL, lv, m)
  <2>1. PICK lv, m : Folded(g, hidden, hiddenL, lv, m)
    BY <1>14
  <2>2. k \in Linked(new.tree) /\ ~IsLink(new.tree[k])
    BY <1>3, <1>4 DEF Linked, IsLink
  <2>3. KeyNamed(new.tree, parent) = p
    <3>1. p \in DOMAIN new.tree
      BY <1>6 DEF NodesOf
    <3> QED
      BY <1>4, <1>6, <3>1, KeyNamedIs
  <2>4. LinkOf(new.tree, k) = l
    <3>1. new.tree[k].parent = parent
      BY <1>4
    <3> QED
      BY <1>7, <1>8, <1>14, <2>2, <2>3, <3>1 DEF LinkOf
  <2>5. LinksOf(n.tree) = LinksOf(g.tree) \cup {l}
    BY <1>1, <1>3, <1>4, <2>4
  <2>6. l \notin LinksOf(g.tree)
    <3>1. l.source = k /\ k \notin NodesOf(g.tree)
      BY <1>4, <1>7, <1>8 DEF NodesOf
    <3> QED
      BY <3>1, EndsOfLinks
  <2>7. {k} \cap NodesOf(g.tree) = {} /\ {l} \cap LinksOf(g.tree) = {}
    BY <1>4, <2>6 DEF NodesOf
  <2>8. /\ NodesOf(n.tree) = NodesOf(g.tree) \cup {k}
        /\ n.nodes = g.nodes \cup {k}
        /\ \A j \in NodesOf(g.tree) : n.record[j].big = g.record[j].big
        /\ \A j \in {k} : ~n.record[j].big
    BY <1>1, <1>4, <1>5
  <2>9. \A x \in {l} : Ends(x) \subseteq n.nodes
    BY <1>7, <1>9, <1>14, <2>8
  <2>10. LinksFit(n, hiddenL) /\ \E w : Folded(n, hidden, hiddenL, w, m)
    BY ONLY GoodTree(g.tree), NodesFit(g, hidden), <1>9, <1>14, <2>1, <2>5, <2>7, <2>8, <2>9,
            GrownFolded
  <2> QED
    BY <2>10
<1>15. Fits(g, hidden, hiddenL) => Fits(n, hidden, hiddenL)
  BY <1>1, <1>4, <1>11, <1>12, <1>13, <1>14 DEF Fits
<1>16. ChildOf(n.tree, k, object, g.tree[p].name)
  BY <1>1, <1>2, <1>4, SMTT(30) DEF ChildOf
<1>17. Asked(n)
  <2>1. PICK j \in g.nodes : g.record[j].object = "node"
    BY DEF Asked, GridNodeDrawn
  <2>2. j \in NodesOf(g.tree)
    BY DEF NodesFit
  <2>3. j \in new.nodes /\ new.record[j] = g.record[j]
    BY <1>4, <1>5, <2>2
  <2> QED
    BY <1>1, <2>1, <2>3 DEF Asked, GridNodeDrawn
<1> QED
  BY <1>1, <1>4, <1>5, <1>10, <1>11, <1>12, <1>13, <1>15, <1>16, <1>17

(* Of a house there are always three steps or two, a child each.           *)
LEMMA WithHouseSteps ==
    ASSUME NEW g, NEW p, NEW n \in WithHouse(g, p), NEW k, k = NextTreeKey(g.tree)
    PROVE  \E house, lit :
              /\ house \in WithChild(g, "house", p)
              /\ lit \in WithChild(house, "ZIPload", KeyNamed(house.tree, k))
              /\ n = lit \/ n \in WithChild(lit, "waterheater", KeyNamed(lit.tree, k))
<1>1. PICK houses : houses = WithChild(g, "house", p)
  OBVIOUS
<1>2. PICK lits : lits = UNION {WithChild(h, "ZIPload", KeyNamed(h.tree, k)) : h \in houses}
  OBVIOUS
<1>3. n \in lits \cup UNION {WithChild(h, "waterheater", KeyNamed(h.tree, k)) : h \in lits}
  BY <1>1, <1>2 DEF WithHouse
<1>4. PICK lit \in lits : n = lit \/ n \in WithChild(lit, "waterheater", KeyNamed(lit.tree, k))
  BY <1>3
<1>5. PICK house \in houses : lit \in WithChild(house, "ZIPload", KeyNamed(house.tree, k))
  BY <1>2, <1>4
<1> QED
  BY <1>1, <1>4, <1>5

(* The first of the steps throws, and the others are left out.             *)
LEMMA WithHouseThrown ==
    ASSUME NEW g, IsGraph(g), g.ok, ~GridNodeDrawn(g), NEW p, NEW n \in WithHouse(g, p)
    PROVE  /\ ~n.ok
           /\ n.nodes = g.nodes /\ n.links = g.links /\ n.record = g.record
           /\ n.tree = g.tree \/ n.tree = WithNode(g, "house", g.tree[p].name).tree
<1>1. PICK k : k = NextTreeKey(g.tree)
  OBVIOUS
<1>2. PICK house, lit :
          /\ house \in WithChild(g, "house", p)
          /\ lit \in WithChild(house, "ZIPload", KeyNamed(house.tree, k))
          /\ n = lit \/ n \in WithChild(lit, "waterheater", KeyNamed(lit.tree, k))
  BY <1>1, WithHouseSteps
<1>3. PICK object : object = "house"
  OBVIOUS
<1>4. /\ ~house.ok
      /\ house.nodes = g.nodes /\ house.links = g.links /\ house.record = g.record
      /\ house.tree = g.tree \/ house.tree = WithNode(g, object, g.tree[p].name).tree
  BY <1>2, <1>3, WithChildThrown
<1>5. lit = house
  BY <1>2, <1>4 DEF WithChild
<1>6. n = house
  BY <1>2, <1>4, <1>5 DEF WithChild
<1> QED
  BY <1>3, <1>4, <1>6

LEMMA WithHouseFits ==
    ASSUME NEW g, GoodTree(g.tree), NEW hidden, NodesFit(g, hidden), NEW hiddenL, Asked(g),
           NEW p \in NodesOf(g.tree), p \in g.nodes => Fits(g, hidden, hiddenL),
           NEW n \in WithHouse(g, p)
    PROVE  /\ Fits(n, hidden, hiddenL)
           /\ n.ok
           /\ Added(g.tree, n.tree)
           /\ \E h \in DOMAIN n.tree :
                 n.tree[h].object = "house" /\ n.tree[h].parent = g.tree[p].name
<1>1. PICK k : k = NextTreeKey(g.tree)
  OBVIOUS
<1>2. PICK house, lit :
          /\ house \in WithChild(g, "house", p)
          /\ lit \in WithChild(house, "ZIPload", KeyNamed(house.tree, k))
          /\ n = lit \/ n \in WithChild(lit, "waterheater", KeyNamed(lit.tree, k))
  BY <1>1, WithHouseSteps
<1>3. /\ GoodTree(house.tree) /\ NodesFit(house, hidden) /\ Asked(house)
      /\ Added(g.tree, house.tree)
      /\ k \in NodesOf(house.tree) /\ house.tree[k].object = "house"
      /\ house.tree[k].name = k /\ house.tree[k].parent = g.tree[p].name
      /\ p \notin g.nodes => Hanging(house.links)
      /\ Fits(g, hidden, hiddenL) => Fits(house, hidden, hiddenL)
  <2>1. /\ GoodTree(g.tree) /\ NodesFit(g, hidden) /\ p \in NodesOf(g.tree) /\ Asked(g)
        /\ "house" # "triplex_node"
    OBVIOUS
  <2>2. PICK object : object = "house"
    OBVIOUS
  <2>3. object # "triplex_node" /\ house \in WithChild(g, object, p)
    BY <1>2, <2>1, <2>2
  <2>4. /\ GoodTree(house.tree) /\ NodesFit(house, hidden) /\ Asked(house)
        /\ Added(g.tree, house.tree)
        /\ ChildOf(house.tree, k, object, g.tree[p].name)
        /\ p \notin g.nodes => Hanging(house.links)
        /\ Fits(g, hidden, hiddenL) => Fits(house, hidden, hiddenL)
    BY ONLY <1>1, <2>1, <2>3, WithChildFits
  <2> QED
    BY <2>2, <2>4 DEF ChildOf
<1>4. Fits(house, hidden, hiddenL)
  BY <1>3 DEF Fits
<1>5. ASSUME NEW h, GoodTree(h.tree), k \in DOMAIN h.tree, h.tree[k].name = k
      PROVE  KeyNamed(h.tree, k) = k
  <2>1. PICK t : t = h.tree
    OBVIOUS
  <2>2. KeyNamed(t, t[k].name) = k
    BY <1>5, <2>1, KeyNamedIs
  <2> QED
    BY <1>5, <2>1, <2>2
<1>6. KeyNamed(house.tree, k) = k
  BY <1>3, <1>5 DEF NodesOf
<1>7. Fits(lit, hidden, hiddenL) /\ Added(house.tree, lit.tree) /\ Asked(lit)
  <2>1. "ZIPload" # "triplex_node" /\ lit \in WithChild(house, "ZIPload", k)
    BY <1>2, <1>6
  <2>2. PICK j : j = NextTreeKey(house.tree)
    OBVIOUS
  <2> QED
    BY <1>3, <1>4, <2>1, <2>2, WithChildFits
<1>8. k \in NodesOf(lit.tree) /\ lit.tree[k] = house.tree[k]
  BY <1>3, <1>7 DEF Added, NodesOf
<1>9. Fits(n, hidden, hiddenL) /\ (n.tree = lit.tree \/ Added(lit.tree, n.tree)) /\ n.ok
  <2>1. CASE n = lit
    BY <1>7, <2>1 DEF Asked
  <2>2. CASE n \in WithChild(lit, "waterheater", KeyNamed(lit.tree, k))
    <3>1. GoodTree(lit.tree) /\ NodesFit(lit, hidden)
      BY <1>7 DEF Fits
    <3>2. KeyNamed(lit.tree, k) = k
      BY <1>3, <1>5, <1>8, <3>1 DEF NodesOf
    <3>3. "waterheater" # "triplex_node" /\ n \in WithChild(lit, "waterheater", k)
      BY <2>2, <3>2
    <3>4. PICK j : j = NextTreeKey(lit.tree)
      OBVIOUS
    <3> QED
      BY <1>7, <1>8, <3>1, <3>3, <3>4, WithChildFits DEF Asked
  <2> QED
    BY <1>2, <2>1, <2>2
<1>10. Added(house.tree, n.tree)
  BY <1>7, <1>9 DEF Added
<1>11. Added(g.tree, n.tree)
  BY <1>3, <1>10 DEF Added
<1>12. k \in DOMAIN n.tree /\ n.tree[k] = house.tree[k]
  BY <1>3, <1>10 DEF Added, NodesOf
<1> QED
  BY <1>3, <1>9, <1>11, <1>12

-----------------------------------------------------------------------------
(* An object is deleted *)

LEMMA DeletedShape ==
    ASSUME NEW g, NEW k, NEW n \in Deleted(g, k), NEW found,
           found = IF IsLink(g.tree[k]) THEN {l \in g.links : l.treeIndex = k}
                   ELSE {l \in g.links : g.record[l.source].name = g.tree[k].name}
    PROVE  /\ n.tree = Without(g.tree, k)
           /\ n.record = g.record /\ n.ok = g.ok /\ IsGraph(n)
           /\ IF IsLink(g.tree[k]) THEN n.nodes = g.nodes
              ELSE n.nodes \in Spliced(g.nodes, g.nodes \cap {k})
           /\ IF ~IsLink(g.tree[k]) /\ g.tree[k].parent = None THEN n.links = g.links
              ELSE n.links \in Spliced(g.links, found)
<1>1. PICK N : N = IF IsLink(g.tree[k]) THEN {g.nodes} ELSE Spliced(g.nodes, g.nodes \cap {k})
  OBVIOUS
<1>2. PICK L : L = IF IsLink(g.tree[k])
                   THEN Spliced(g.links, {l \in g.links : l.treeIndex = k})
                   ELSE IF g.tree[k].parent = None THEN {g.links}
                   ELSE Spliced(g.links, {l \in g.links :
                                            g.record[l.source].name = g.tree[k].name})
  OBVIOUS
<1>3. Deleted(g, k) = {[tree |-> Without(g.tree, k), nodes |-> ns, links |-> ls,
                        record |-> g.record, ok |-> g.ok] : ns \in N, ls \in L}
  BY <1>1, <1>2 DEF Deleted
<1>4. PICK ns \in N, ls \in L :
          n = [tree |-> Without(g.tree, k), nodes |-> ns, links |-> ls, record |-> g.record,
               ok |-> g.ok]
  BY <1>3
<1>5. /\ n.tree = Without(g.tree, k) /\ n.record = g.record /\ n.nodes \in N /\ n.links \in L
      /\ n.ok = g.ok /\ IsGraph(n)
  BY <1>4 DEF IsGraph
<1>6. IF ~IsLink(g.tree[k]) /\ g.tree[k].parent = None THEN n.links = g.links
      ELSE n.links \in Spliced(g.links, found)
  <2>1. CASE IsLink(g.tree[k])
    BY <1>2, <1>5, <2>1
  <2>2. CASE ~IsLink(g.tree[k])
    BY <1>2, <1>5, <2>2
  <2> QED
    BY <2>1, <2>2
<1> QED
  BY <1>1, <1>5, <1>6

LEMMA DeletedTree ==
    ASSUME NEW g, NEW k, NEW n \in Deleted(g, k)
    PROVE  /\ Less(g.tree, n.tree, k)
           /\ n.record = g.record /\ n.ok = g.ok /\ IsGraph(n)
           /\ IF IsLink(g.tree[k]) THEN n.nodes = g.nodes
              ELSE n.nodes \in Spliced(g.nodes, g.nodes \cap {k})
           /\ ~IsLink(g.tree[k]) /\ g.tree[k].parent = None => n.links = g.links
<1>1. PICK found :
          found = IF IsLink(g.tree[k]) THEN {l \in g.links : l.treeIndex = k}
                  ELSE {l \in g.links : g.record[l.source].name = g.tree[k].name}
  OBVIOUS
<1>2. /\ n.tree = Without(g.tree, k)
      /\ n.record = g.record /\ n.ok = g.ok /\ IsGraph(n)
      /\ IF IsLink(g.tree[k]) THEN n.nodes = g.nodes
         ELSE n.nodes \in Spliced(g.nodes, g.nodes \cap {k})
      /\ IF ~IsLink(g.tree[k]) /\ g.tree[k].parent = None THEN n.links = g.links
         ELSE n.links \in Spliced(g.links, found)
  BY <1>1, DeletedShape
<1> QED
  BY <1>2 DEF Without, Less

LEMMA SplicedOne ==
    ASSUME NEW list, NEW x \in list, NEW rest \in Spliced(list, {x})
    PROVE  rest = list \ {x}
BY DEF Spliced

(* The one link that is found goes.                                        *)
LEMMA DeletedLink ==
    ASSUME NEW g, NEW k, NEW n \in Deleted(g, k), NEW x \in g.links,
           IsLink(g.tree[k]) => \A l \in g.links : l.treeIndex = k <=> l = x,
           ~IsLink(g.tree[k]) =>
              /\ g.tree[k].parent # None
              /\ \A l \in g.links : g.record[l.source].name = g.tree[k].name <=> l = x
    PROVE  n.links = g.links \ {x}
<1>1. PICK found :
          found = IF IsLink(g.tree[k]) THEN {l \in g.links : l.treeIndex = k}
                  ELSE {l \in g.links : g.record[l.source].name = g.tree[k].name}
  OBVIOUS
<1>2. n.links \in Spliced(g.links, found)
  BY <1>1, DeletedShape
<1>3. found = {x}
  BY <1>1
<1> QED
  BY <1>2, <1>3, SplicedOne

(* The object is drawn and nothing is connected to it.                     *)
Deletable(g, k) == IsLink(g.tree[k]) \/ (k \in g.nodes /\ ~Connected(g.tree, k))

LEMMA DeletedNodes ==
    ASSUME NEW g, GoodTree(g.tree), NEW hidden, NodesFit(g, hidden),
           NEW k \in DOMAIN g.tree, Deletable(g, k), NEW n \in Deleted(g, k)
    PROVE  /\ GoodTree(n.tree) /\ NodesFit(n, hidden)
           /\ Less(g.tree, n.tree, k)
           /\ NodesOf(n.tree) = NodesOf(g.tree) \ {k}
           /\ n.nodes = g.nodes \ {k}
           /\ LinksOf(n.tree) = IF k \in Linked(g.tree) THEN LinksOf(g.tree) \ {LinkOf(g.tree, k)}
                                ELSE LinksOf(g.tree)
<1>1. PICK t, u : t = g.tree /\ u = n.tree
  OBVIOUS
<1>2. Less(t, u, k) /\ n.record = g.record /\ n.ok = g.ok /\ IsGraph(n)
  BY <1>1, DeletedTree
<1>3. /\ GoodTree(u)
      /\ NodesOf(u) = NodesOf(t) \ {k}
      /\ LinksOf(u) = IF k \in Linked(t) THEN LinksOf(t) \ {LinkOf(t, k)} ELSE LinksOf(t)
  <2>1. GoodTree(t) /\ k \in DOMAIN t /\ (IsLink(t[k]) \/ ~Connected(t, k))
    BY <1>1 DEF Deletable
  <2> QED
    BY ONLY <1>2, <2>1, RemovedIsGood
<1>4. n.nodes = g.nodes \ {k}
  <2>1. CASE IsLink(t[k])
    <3>1. k \notin g.nodes
      BY <1>1, <2>1 DEF NodesFit, NodesOf
    <3>2. n.nodes = g.nodes
      BY <1>1, <2>1, DeletedTree
    <3> QED
      BY <3>1, <3>2
  <2>2. CASE ~IsLink(t[k])
    <3>1. k \in g.nodes /\ g.nodes \cap {k} = {k}
      BY <1>1, <2>2 DEF Deletable
    <3>2. n.nodes \in Spliced(g.nodes, g.nodes \cap {k})
      BY <1>1, <2>2, DeletedTree
    <3> QED
      BY <3>1, <3>2, SplicedOne
  <2> QED
    BY <2>1, <2>2
<1>5. NodesFit(n, hidden)
  <2>1. n.nodes \cap hidden = {}
    BY <1>4 DEF NodesFit
  <2>2. n.nodes \cup hidden = NodesOf(u)
    <3>1. k \notin hidden
      BY <1>1 DEF NodesFit, Deletable, NodesOf
    <3> QED
      BY <1>1, <1>3, <1>4, <3>1 DEF NodesFit
  <2>3. \A j \in NodesOf(u) : j \in NodesOf(t) /\ u[j] = t[j]
    BY <1>2, <1>3 DEF NodesOf, Less
  <2>4. NodesOf(u) \subseteq DOMAIN n.record
    BY <1>1, <1>2, <2>3 DEF NodesFit
  <2>5. \A j \in NodesOf(u) :
           /\ n.record[j] = [name |-> u[j].name, object |-> u[j].object, big |-> n.record[j].big]
           /\ n.record[j].big \in BOOLEAN
    BY <1>1, <1>2, <2>3 DEF NodesFit
  <2> QED
    BY <1>1, <2>1, <2>2, <2>4, <2>5 DEF NodesFit
<1> QED
  BY <1>1, <1>2, <1>3, <1>4, <1>5

(* When its link is drawn too, all that is left fits.                      *)
LEMMA DeletedFits ==
    ASSUME NEW g, GoodTree(g.tree), NEW hidden, NodesFit(g, hidden), NEW hiddenL,
           LinksFit(g, hiddenL), \E lv, m : Folded(g, hidden, hiddenL, lv, m),
           NEW k \in DOMAIN g.tree, Deletable(g, k),
           \A l \in hiddenL : k \notin {l.source, l.treeIndex},
           NEW n \in Deleted(g, k)
    PROVE  Fits(n, hidden, hiddenL)
<1>1. /\ GoodTree(n.tree) /\ NodesFit(n, hidden)
      /\ NodesOf(n.tree) = NodesOf(g.tree) \ {k}
      /\ n.nodes = g.nodes \ {k}
      /\ LinksOf(n.tree) = IF k \in Linked(g.tree) THEN LinksOf(g.tree) \ {LinkOf(g.tree, k)}
                           ELSE LinksOf(g.tree)
  BY ONLY GoodTree(g.tree), NodesFit(g, hidden), k \in DOMAIN g.tree, Deletable(g, k),
          n \in Deleted(g, k), DeletedNodes
<1>2. PICK lv, m : Folded(g, hidden, hiddenL, lv, m)
  OBVIOUS
<1>3. n.record = g.record
  BY DeletedTree
<1>4. PICK l : l = LinkOf(g.tree, k)
  OBVIOUS
<1>5. \A x \in g.links : x \in LinksOf(g.tree)
  BY DEF LinksFit
<1>6. ASSUME k \in Linked(g.tree)
      PROVE  l \in g.links /\ n.links = g.links \ {l}
  <2>1. l \in LinksOf(g.tree)
    BY <1>4, <1>6, LinksByKey
  <2>2. /\ IsLink(g.tree[k]) => l.treeIndex = k
        /\ ~IsLink(g.tree[k]) => l.source = k
    BY <1>4, <1>6, LinkEnds
  <2>3. l \in g.links
    BY <2>1, <2>2 DEF LinksFit
  <2>4. CASE IsLink(g.tree[k])
    <3>1. ASSUME NEW x \in g.links, x.treeIndex = k PROVE x = l
      <4>1. PICK j \in Linked(g.tree) : x = LinkOf(g.tree, j)
        BY <1>5, LinksByKey
      <4>2. /\ IsLink(g.tree[j]) => x.treeIndex = j
            /\ ~IsLink(g.tree[j]) => x.treeIndex = None
        BY <4>1, LinkEnds
      <4>3. k # None
        BY DEF GoodTree
      <4> QED
        BY <1>4, <3>1, <4>1, <4>2, <4>3
    <3>2. \A x \in g.links : x.treeIndex = k <=> x = l
      BY <2>2, <2>4, <3>1
    <3> QED
      BY <2>3, <2>4, <3>2, DeletedLink
  <2>5. CASE ~IsLink(g.tree[k])
    <3>0. k \in NodesOf(g.tree)
      BY <2>5 DEF NodesOf
    <3>1. ASSUME NEW x \in g.links, g.record[x.source].name = g.tree[k].name PROVE x = l
      <4>1. PICK j \in Linked(g.tree) : x = LinkOf(g.tree, j)
        BY <1>5, LinksByKey
      <4>2. x.source \in NodesOf(g.tree)
        BY <4>1, LinkEnds
      <4>3. x.source = k
        BY <3>0, <3>1, <4>2, NamesOfRecords
      <4>4. /\ IsLink(g.tree[j]) => g.tree[x.source].name = g.tree[j].from
            /\ ~IsLink(g.tree[j]) => x.source = j
        BY <4>1, LinkEnds
      <4>5. ~IsLink(g.tree[j])
        BY <2>5, <4>3, <4>4 DEF Connected, Linked, Deletable
      <4> QED
        BY <1>4, <4>1, <4>3, <4>4, <4>5
    <3>2. g.record[l.source].name = g.tree[k].name
      BY <2>2, <2>5, <3>0, NamesOfRecords
    <3>3. \A x \in g.links : g.record[x.source].name = g.tree[k].name <=> x = l
      BY <3>1, <3>2
    <3>4. g.tree[k].parent # None
      BY <1>6, <2>5 DEF Linked
    <3> QED
      BY <2>3, <2>5, <3>3, <3>4, DeletedLink
  <2> QED
    BY <2>3, <2>4, <2>5
<1>7. ASSUME k \notin Linked(g.tree)
      PROVE  n.links = g.links
  <2>1. ~IsLink(g.tree[k]) /\ g.tree[k].parent = None
    BY <1>7 DEF Linked
  <2> QED
    BY <2>1, DeletedTree
<1>8. PICK a : a = {k} \cap g.nodes
  OBVIOUS
<1>9. PICK b : b = IF k \in Linked(g.tree) THEN {l} ELSE {}
  OBVIOUS
<1>10. /\ a \subseteq g.nodes /\ n.nodes = g.nodes \ a
       /\ NodesOf(n.tree) = NodesOf(g.tree) \ a
  BY <1>1, <1>8 DEF NodesFit, Deletable, NodesOf
<1>11. b \subseteq g.links /\ n.links = g.links \ b /\ LinksOf(n.tree) = LinksOf(g.tree) \ b
  BY <1>1, <1>4, <1>6, <1>7, <1>9
<1>12. \A j \in NodesOf(g.tree) : n.record[j].big = g.record[j].big
  BY <1>3
<1>13. LinksFit(n, hiddenL) /\ Folded(n, hidden, hiddenL, lv, m)
  BY <1>1, <1>2, <1>10, <1>11, <1>12, ShrunkFolded
<1> QED
  BY <1>1, <1>13 DEF Fits

-----------------------------------------------------------------------------
(* Folding *)

(* Nodes with one drawn link are folded, and the links go with them; the   *)
(* nodes at other ends become large, and of two that are folded together   *)
(* the last one does.                                                      *)
FoldStep(g, h, hide, gone, last) ==
    /\ hide \subseteq g.nodes
    /\ \A k \in hide : \E x \in g.links : \A l \in g.links : k \in Ends(l) => l = x
    /\ \A l : l \in gone <=> l \in g.links /\ \E k \in hide : k \in Ends(l)
    /\ \A k \in last : \E l \in g.links : k \in Ends(l) /\ Ends(l) \subseteq hide
    /\ h.tree = g.tree /\ h.nodes = g.nodes \ hide /\ h.links = g.links \ gone
    /\ \A k \in NodesOf(g.tree) :
          h.record[k].big = IF k \in last \/ (k \in h.nodes /\ \E l \in gone : k \in Ends(l))
                            THEN TRUE ELSE g.record[k].big

LEMMA FoldFits ==
    ASSUME NEW g, GoodTree(g.tree), NEW hidden, NodesFit(g, hidden), NEW hiddenL,
           LinksFit(g, hiddenL), NEW lv, NEW m, Folded(g, hidden, hiddenL, lv, m),
           NEW h, NEW hide, NEW gone, NEW last, FoldStep(g, h, hide, gone, last),
           NodesFit(h, hidden \cup hide)
    PROVE  Fits(h, hidden \cup hide, hiddenL \cup gone)
<1> USE DEF FoldStep
<1>1. LinksFit(h, hiddenL \cup gone)
  BY DEF LinksFit
<1>2. /\ g.nodes \subseteq NodesOf(g.tree) /\ hidden \subseteq NodesOf(g.tree)
      /\ hidden \cap g.nodes = {}
      /\ hiddenL \subseteq LinksOf(g.tree) /\ g.links \subseteq LinksOf(g.tree)
      /\ hiddenL \cap g.links = {}
  BY DEF NodesFit, LinksFit
<1>3. \A l \in LinksOf(g.tree) : Ends(l) = {l.source, l.target} /\ Ends(l) \subseteq NodesOf(g.tree)
  BY EndsOfLinks DEF Ends
<1>4. /\ m \in Nat
      /\ \A x \in NodesOf(g.tree) : lv[x] \in Nat /\ lv[x] <= m /\ (x \in g.nodes <=> lv[x] = m)
      /\ \A l \in LinksOf(g.tree) : l \in g.links <=> Ends(l) \subseteq g.nodes
  BY DEF Folded, Levels, DrawnWithEnds
<1>5. PICK w : w = [x \in NodesOf(g.tree) |-> IF x \in h.nodes THEN m + 1 ELSE lv[x]]
  OBVIOUS
<1>6. \A x \in NodesOf(g.tree) :
         /\ w[x] \in Nat /\ w[x] <= m + 1 /\ w[x] >= lv[x]
         /\ x \in h.nodes <=> w[x] = m + 1
         /\ x \notin h.nodes => w[x] = lv[x]
         /\ w[x] >= m <=> x \in g.nodes
  BY <1>2, <1>4, <1>5
<1>7. \A k \in last : k \in hide
  OBVIOUS
<1>8. \A x \in hide : w[x] = m
  BY <1>2, <1>4, <1>6
<1>9. \A l \in gone : Ends(l) \subseteq g.nodes
  BY <1>2, <1>4
<1>10. Levels(h, w, m + 1)
  BY <1>6 DEF Levels
<1>11. OneWayUp(h, hidden \cup hide, w)
  <2> SUFFICES ASSUME NEW x \in hidden \cup hide,
                      NEW l1 \in LinksOf(g.tree), NEW l2 \in LinksOf(g.tree),
                      Up(w, l1, x), Up(w, l2, x)
               PROVE  l1 = l2
    BY DEF OneWayUp
  <2>1. CASE x \in hidden
    <3>1. x \in NodesOf(g.tree) /\ x \notin g.nodes
      BY <1>2, <2>1
    <3>2. w[x] = lv[x] /\ lv[x] <= m
      BY <1>4, <1>6, <3>1
    <3>3. ASSUME NEW l \in LinksOf(g.tree), Up(w, l, x) PROVE Up(lv, l, x)
      <4>1. ASSUME NEW e \in Ends(l) PROVE lv[x] <= lv[e]
        <5>1. e \in NodesOf(g.tree) /\ w[x] <= w[e]
          BY <1>3, <3>3, <4>1 DEF Up
        <5>2. CASE e \in h.nodes
          <6>1. lv[e] = m
            BY <1>4, <5>1, <5>2
          <6> QED
            BY <3>2, <6>1
        <5>3. CASE e \notin h.nodes
          BY <1>6, <3>2, <5>1, <5>3
        <5> QED
          BY <5>2, <5>3
      <4> QED
        BY <3>3, <4>1 DEF Up
    <3> QED
      BY <2>1, <3>3 DEF Folded, OneWayUp
  <2>2. CASE x \in hide
    <3>1. ASSUME NEW l \in LinksOf(g.tree), Up(w, l, x) PROVE l \in g.links /\ x \in Ends(l)
      <4>1. \A e \in Ends(l) : e \in g.nodes
        BY <1>3, <1>6, <1>8, <2>2, <3>1 DEF Up
      <4> QED
        BY <1>4, <3>1, <4>1 DEF Up
    <3> QED
      BY <2>2, <3>1
  <2> QED
    BY <2>1, <2>2
<1>12. DrawnWithEnds(h)
  BY <1>2, <1>4 DEF DrawnWithEnds
<1>13. BigWhenDrawn(h, hiddenL \cup gone)
  <2> SUFFICES ASSUME NEW k \in h.nodes
               PROVE  h.record[k].big <=> \E l \in hiddenL \cup gone : k \in Ends(l)
    BY DEF BigWhenDrawn
  <2>1. k \in NodesOf(g.tree) /\ k \in g.nodes /\ k \notin last
    BY <1>2, <1>7
  <2>2. h.record[k].big = IF \E l \in gone : k \in Ends(l) THEN TRUE ELSE g.record[k].big
    BY <2>1
  <2>3. g.record[k].big <=> \E l \in hiddenL : k \in Ends(l)
    BY <2>1 DEF Folded, BigWhenDrawn
  <2> QED
    BY <2>2, <2>3
<1>14. BigWhenFolded(h, hidden \cup hide, hiddenL \cup gone, w)
  <2> SUFFICES ASSUME NEW x \in hidden \cup hide, NEW l \in LinksOf(g.tree), x \in Ends(l),
                      NEW e \in Ends(l), w[e] > w[x]
               PROVE  h.record[x].big <=>
                        \E l1 \in hiddenL \cup gone :
                            x \in Ends(l1) /\ \E e1 \in Ends(l1) : w[e1] < w[x]
    BY DEF BigWhenFolded
  <2>0. x \in NodesOf(g.tree) /\ e \in NodesOf(g.tree) /\ x \notin h.nodes
    BY <1>2, <1>3
  <2>1. CASE x \in hidden
    <3>1. x \notin g.nodes /\ x \notin last
      BY <1>2, <1>7, <2>1
    <3>2. h.record[x].big = g.record[x].big
      BY <2>0, <3>1
    <3>3. w[x] = lv[x] /\ lv[x] < m
      BY <1>4, <1>6, <2>0, <3>1
    <3>4. lv[e] > lv[x]
      <4>1. CASE e \in h.nodes
        <5>1. lv[e] = m
          BY <1>4, <2>0, <4>1
        <5> QED
          BY <3>3, <5>1
      <4>2. CASE e \notin h.nodes
        BY <1>6, <2>0, <3>3, <4>2
      <4> QED
        BY <4>1, <4>2
    <3>5. g.record[x].big <=>
            \E l1 \in hiddenL : x \in Ends(l1) /\ \E e1 \in Ends(l1) : lv[e1] < lv[x]
      BY <2>1, <3>4 DEF Folded, BigWhenFolded
    <3>6. \A e1 \in NodesOf(g.tree) : w[e1] < w[x] <=> lv[e1] < lv[x]
      <4> SUFFICES ASSUME NEW e1 \in NodesOf(g.tree) PROVE w[e1] < w[x] <=> lv[e1] < lv[x]
        OBVIOUS
      <4>1. CASE e1 \in h.nodes
        <5>1. lv[e1] = m /\ w[e1] = m + 1
          BY <1>4, <1>6, <4>1
        <5> QED
          BY <1>4, <3>3, <2>0, <5>1
      <4>2. CASE e1 \notin h.nodes
        BY <1>6, <3>3, <4>2
      <4> QED
        BY <4>1, <4>2
    <3>7. \A l1 \in gone : \A e1 \in Ends(l1) : ~(w[e1] < w[x])
      <4> SUFFICES ASSUME NEW l1 \in gone, NEW e1 \in Ends(l1) PROVE ~(w[e1] < w[x])
        OBVIOUS
      <4>1. e1 \in NodesOf(g.tree) /\ e1 \in g.nodes
        BY <1>2, <1>9
      <4>2. lv[e1] = m /\ w[e1] >= lv[e1] /\ w[e1] \in Nat
        BY <1>4, <1>6, <4>1
      <4> QED
        BY <1>4, <2>0, <3>3, <4>2
    <3>8. \A l1 \in hiddenL : Ends(l1) \subseteq NodesOf(g.tree)
      BY <1>2, <1>3
    <3> QED
      BY <3>2, <3>5, <3>6, <3>7, <3>8
  <2>2. CASE x \in hide
    <3>1. w[x] = m /\ x \in g.nodes
      BY <1>8, <2>2
    <3>2. e \in h.nodes /\ e \notin hide
      <4>1. w[e] = m + 1
        BY <1>4, <1>6, <2>0, <3>1
      <4> QED
        BY <1>6, <2>0, <4>1
    <3>3. Ends(l) \subseteq g.nodes
      <4>1. Ends(l) = {x, e}
        BY <1>3, <2>2, <3>2
      <4> QED
        BY <3>1, <3>2, <4>1
    <3>4. l \in g.links
      BY <1>4, <3>3
    <3>5. x \notin last
      <4> SUFFICES ASSUME NEW l1 \in g.links, x \in Ends(l1), Ends(l1) \subseteq hide PROVE FALSE
        OBVIOUS
      <4>1. l1 = l
        BY <2>2, <3>4
      <4> QED
        BY <3>2, <4>1
    <3>6. h.record[x].big = g.record[x].big
      BY <2>0, <3>5
    <3>7. g.record[x].big <=> \E l1 \in hiddenL : x \in Ends(l1)
      BY <3>1 DEF Folded, BigWhenDrawn
    <3>8. ASSUME NEW l1 \in hiddenL PROVE \E e1 \in Ends(l1) : w[e1] < w[x]
      <4>1. PICK e1 \in Ends(l1) : e1 \notin g.nodes
        BY <1>2, <1>4
      <4>2. e1 \in NodesOf(g.tree)
        BY <1>2, <1>3
      <4>3. w[e1] < m
        BY <1>4, <1>6, <4>1, <4>2
      <4> QED
        BY <3>1, <4>3
    <3>9. \A l1 \in gone : \A e1 \in Ends(l1) : ~(w[e1] < w[x])
      <4> SUFFICES ASSUME NEW l1 \in gone, NEW e1 \in Ends(l1) PROVE ~(w[e1] < w[x])
        OBVIOUS
      <4>1. e1 \in NodesOf(g.tree) /\ e1 \in g.nodes
        BY <1>2, <1>9
      <4>2. w[e1] >= m /\ w[e1] \in Nat
        BY <1>6, <4>1
      <4> QED
        BY <1>4, <3>1, <4>2
    <3> QED
      BY <3>6, <3>7, <3>8, <3>9
  <2> QED
    BY <2>1, <2>2
<1>15. Folded(h, hidden \cup hide, hiddenL \cup gone, w, m + 1)
  BY <1>4, <1>10, <1>11, <1>12, <1>13, <1>14 DEF Folded
<1> QED
  BY <1>1, <1>15 DEF Fits

(* Links come back, all that are hidden at their drawn ends; the folded    *)
(* nodes at the other ends need no other link.                             *)
UnfoldStep(g, h, hidden, hiddenL, reveal, back) ==
    /\ reveal \subseteq hiddenL
    /\ \A l \in reveal : \E d \in Ends(l) : d \in g.nodes
    /\ \A l \in hiddenL, l1 \in reveal, d \in g.nodes :
          d \in Ends(l) /\ d \in Ends(l1) => l \in reveal
    /\ \A x : x \in back <=> x \in hidden /\ \E l \in reveal : x \in Ends(l)
    /\ h.tree = g.tree /\ h.nodes = g.nodes \cup back /\ h.links = g.links \cup reveal
    /\ \A k \in NodesOf(g.tree) :
          h.record[k].big = IF k \in g.nodes /\ \E l \in reveal : k \in Ends(l)
                            THEN FALSE ELSE g.record[k].big

LEMMA UnfoldFits ==
    ASSUME NEW g, GoodTree(g.tree), NEW hidden, NodesFit(g, hidden), NEW hiddenL,
           LinksFit(g, hiddenL), NEW lv, NEW m, Folded(g, hidden, hiddenL, lv, m),
           NEW h, NEW reveal, NEW back, UnfoldStep(g, h, hidden, hiddenL, reveal, back),
           NodesFit(h, hidden \ back)
    PROVE  Fits(h, hidden \ back, hiddenL \ reveal)
<1> USE DEF UnfoldStep
<1>1. LinksFit(h, hiddenL \ reveal)
  BY DEF LinksFit
<1>2. /\ g.nodes \subseteq NodesOf(g.tree) /\ hidden \subseteq NodesOf(g.tree)
      /\ hidden \cap g.nodes = {} /\ g.nodes \cup hidden = NodesOf(g.tree)
      /\ hiddenL \subseteq LinksOf(g.tree) /\ g.links \subseteq LinksOf(g.tree)
      /\ hiddenL \cap g.links = {} /\ g.links \cup hiddenL = LinksOf(g.tree)
  BY DEF NodesFit, LinksFit
<1>3. \A l \in LinksOf(g.tree) : Ends(l) = {l.source, l.target} /\ Ends(l) \subseteq NodesOf(g.tree)
  BY EndsOfLinks DEF Ends
<1>4. /\ m \in Nat
      /\ \A x \in NodesOf(g.tree) : lv[x] \in Nat /\ lv[x] <= m /\ (x \in g.nodes <=> lv[x] = m)
      /\ \A l \in LinksOf(g.tree) : l \in g.links <=> Ends(l) \subseteq g.nodes
  BY DEF Folded, Levels, DrawnWithEnds
<1>5. PICK w : w = [x \in NodesOf(g.tree) |-> IF x \in back THEN m ELSE lv[x]]
  OBVIOUS
<1>6. \A x \in NodesOf(g.tree) :
         /\ w[x] \in Nat /\ w[x] <= m
         /\ x \in back => w[x] = m
         /\ x \notin back => w[x] = lv[x]
         /\ x \in h.nodes <=> w[x] = m
  BY <1>4, <1>5
<1>7. ASSUME NEW x \in back
      PROVE  \E l0 \in reveal : \E d \in g.nodes :
                Ends(l0) = {x, d} /\ \A l \in LinksOf(g.tree) : Up(lv, l, x) => l = l0
  <2>1. PICK l0 \in reveal : x \in Ends(l0)
    OBVIOUS
  <2>2. PICK d \in Ends(l0) : d \in g.nodes
    BY <2>1
  <2>3. l0 \in LinksOf(g.tree) /\ x \in hidden /\ x # d
    BY <1>2, <2>2
  <2>4. Ends(l0) = {x, d}
    BY <1>3, <2>1, <2>2, <2>3
  <2>5. Up(lv, l0, x)
    <3>1. lv[x] <= lv[d] /\ lv[x] <= lv[x]
      BY <1>2, <1>4, <2>2, <2>3
    <3> QED
      BY <2>1, <2>4, <3>1 DEF Up
  <2>6. \A l \in LinksOf(g.tree) : Up(lv, l, x) => l = l0
    BY <2>3, <2>5 DEF Folded, OneWayUp
  <2> QED
    BY <2>2, <2>4, <2>6
<1>8. ASSUME NEW x \in hidden \ back, NEW l \in LinksOf(g.tree), x \in Ends(l),
             NEW e \in back, e \in Ends(l)
      PROVE  lv[e] > lv[x]
  <2>1. x \in NodesOf(g.tree) /\ e \in NodesOf(g.tree) /\ x # e
    BY <1>2
  <2>2. Ends(l) = {x, e}
    BY <1>3, <1>8, <2>1
  <2>3. PICK l0 \in reveal : \E d \in g.nodes :
            Ends(l0) = {e, d} /\ \A l1 \in LinksOf(g.tree) : Up(lv, l1, e) => l1 = l0
    BY <1>7
  <2>4. ASSUME lv[e] <= lv[x] PROVE FALSE
    <3>1. Up(lv, l, e)
      <4>1. lv[e] <= lv[e]
        BY <1>4, <2>1
      <4> QED
        BY <1>8, <2>2, <2>4, <4>1 DEF Up
    <3>2. l = l0
      BY <2>3, <3>1
    <3>3. x \in g.nodes
      BY <2>1, <2>2, <2>3, <3>2
    <3> QED
      BY <1>2, <3>3
  <2> QED
    BY <1>4, <2>1, <2>4
<1>9. ASSUME NEW x \in hidden \ back, NEW l \in LinksOf(g.tree), x \in Ends(l), NEW e \in Ends(l)
      PROVE  /\ w[x] <= w[e] <=> lv[x] <= lv[e]
             /\ w[e] < w[x] <=> lv[e] < lv[x]
             /\ w[e] > w[x] <=> lv[e] > lv[x]
  <2>1. x \in NodesOf(g.tree) /\ e \in NodesOf(g.tree) /\ w[x] = lv[x] /\ lv[x] \in Nat
    BY <1>2, <1>3, <1>4, <1>6
  <2>2. CASE e \in back
    <3>1. lv[e] > lv[x] /\ w[e] = m /\ lv[e] <= m
      BY <1>4, <1>6, <1>8, <1>9, <2>1, <2>2
    <3>2. lv[e] \in Nat
      BY <1>4, <2>1
    <3> QED
      BY <1>4, <2>1, <3>1, <3>2
  <2>3. CASE e \notin back
    BY <1>6, <2>1, <2>3
  <2> QED
    BY <2>2, <2>3
<1>10. Levels(h, w, m)
  BY <1>6 DEF Levels
<1>11. OneWayUp(h, hidden \ back, w)
  <2> SUFFICES ASSUME NEW x \in hidden \ back,
                      NEW l1 \in LinksOf(g.tree), NEW l2 \in LinksOf(g.tree),
                      Up(w, l1, x), Up(w, l2, x)
               PROVE  l1 = l2
    BY DEF OneWayUp
  <2>1. Up(lv, l1, x) /\ Up(lv, l2, x)
    BY <1>9 DEF Up
  <2> QED
    BY <2>1 DEF Folded, OneWayUp
<1>12. ASSUME NEW l \in hiddenL, l \notin reveal, NEW x \in back, x \in Ends(l)
       PROVE  \E e \in Ends(l) : lv[e] < lv[x]
  <2>1. PICK l0 \in reveal : \A l1 \in LinksOf(g.tree) : Up(lv, l1, x) => l1 = l0
    BY <1>7
  <2>2. ~Up(lv, l, x)
    BY <1>2, <1>12, <2>1
  <2>3. PICK e \in Ends(l) : ~(lv[x] <= lv[e])
    BY <1>12, <2>2 DEF Up
  <2>4. e \in NodesOf(g.tree) /\ x \in NodesOf(g.tree)
    BY <1>2, <1>3
  <2> QED
    BY <1>4, <2>3, <2>4
<1>13. ASSUME NEW l \in hiddenL, l \notin reveal
       PROVE  ~(Ends(l) \subseteq h.nodes)
  <2> SUFFICES ASSUME Ends(l) \subseteq h.nodes PROVE FALSE
    OBVIOUS
  <2>1. l \in LinksOf(g.tree) /\ l \notin g.links
    BY <1>2
  <2>2. PICK x \in Ends(l) : x \notin g.nodes
    BY <1>4, <2>1
  <2>3. x \in back
    BY <2>2
  <2>4. PICK e \in Ends(l) : lv[e] < lv[x]
    BY <1>12, <1>13, <2>2, <2>3
  <2>5. e \in NodesOf(g.tree) /\ x \in NodesOf(g.tree)
    BY <1>2, <1>3, <2>1, <2>3
  <2>6. e \in back
    <3>1. lv[e] # m
      BY <1>4, <2>4, <2>5
    <3> QED
      BY <1>4, <2>4, <2>5, <3>1
  <2>7. PICK y \in Ends(l) : lv[y] < lv[e]
    BY <1>12, <1>13, <2>6
  <2>8. y \in NodesOf(g.tree) /\ (y = x \/ y = e)
    BY <1>3, <1>4, <2>1, <2>2, <2>4, <2>5, <2>7
  <2> QED
    BY <1>4, <2>4, <2>5, <2>7, <2>8
<1>14. DrawnWithEnds(h)
  <2> SUFFICES ASSUME NEW l \in LinksOf(g.tree)
               PROVE  l \in h.links <=> Ends(l) \subseteq h.nodes
    BY DEF DrawnWithEnds
  <2>1. CASE l \in g.links
    BY <1>4, <2>1
  <2>2. CASE l \in reveal
    <3>1. Ends(l) \subseteq g.nodes \cup hidden
      BY <1>2, <1>3
    <3> QED
      BY <2>2, <3>1
  <2>3. CASE l \in hiddenL \ reveal
    BY <1>2, <1>13, <2>3
  <2> QED
    BY <1>2, <2>1, <2>2, <2>3
<1>15. BigWhenDrawn(h, hiddenL \ reveal)
  <2> SUFFICES ASSUME NEW k \in h.nodes
               PROVE  h.record[k].big <=> \E l \in hiddenL \ reveal : k \in Ends(l)
    BY DEF BigWhenDrawn
  <2>0. k \in NodesOf(g.tree)
    BY <1>2
  <2>1. CASE k \in g.nodes /\ \E l \in reveal : k \in Ends(l)
    <3>1. h.record[k].big = FALSE
      BY <2>0, <2>1
    <3>2. \A l \in hiddenL : k \in Ends(l) => l \in reveal
      BY <2>1
    <3> QED
      BY <3>1, <3>2
  <2>2. CASE k \in g.nodes /\ ~\E l \in reveal : k \in Ends(l)
    <3>1. h.record[k].big = g.record[k].big
      BY <2>0, <2>2
    <3>2. g.record[k].big <=> \E l \in hiddenL : k \in Ends(l)
      BY <2>2 DEF Folded, BigWhenDrawn
    <3> QED
      BY <2>2, <3>1, <3>2
  <2>3. CASE k \in back
    <3>1. k \in hidden /\ k \notin g.nodes
      BY <1>2, <2>3
    <3>2. h.record[k].big = g.record[k].big
      BY <2>0, <3>1
    <3>3. PICK l0 \in reveal : \E d \in g.nodes :
              Ends(l0) = {k, d} /\ \A l \in LinksOf(g.tree) : Up(lv, l, k) => l = l0
      BY <1>7, <2>3
    <3>4. PICK d \in g.nodes : Ends(l0) = {k, d}
      BY <3>3
    <3>5. lv[d] = m /\ lv[k] < m /\ lv[k] \in Nat
      BY <1>2, <1>4, <2>0, <3>1
    <3>6. l0 \in LinksOf(g.tree) /\ k \in Ends(l0) /\ \E e \in Ends(l0) : lv[e] > lv[k]
      BY <1>2, <1>4, <3>4, <3>5
    <3>7. g.record[k].big <=>
            \E l \in hiddenL : k \in Ends(l) /\ \E e \in Ends(l) : lv[e] < lv[k]
      BY <3>1, <3>6 DEF Folded, BigWhenFolded
    <3>8. ASSUME NEW l \in reveal, k \in Ends(l) PROVE ~\E e \in Ends(l) : lv[e] < lv[k]
      <4>1. PICK b \in Ends(l) : b \in g.nodes
        OBVIOUS
      <4>2. Ends(l) = {k, b}
        BY <1>2, <1>3, <3>1, <3>8, <4>1
      <4>3. lv[b] = m
        BY <1>2, <1>4, <4>1
      <4> QED
        BY <1>4, <3>5, <4>2, <4>3
    <3>9. \A l \in hiddenL \ reveal : k \in Ends(l) => \E e \in Ends(l) : lv[e] < lv[k]
      BY <1>12, <2>3
    <3> QED
      BY <3>2, <3>7, <3>8, <3>9
  <2> QED
    BY <2>1, <2>2, <2>3
<1>16. BigWhenFolded(h, hidden \ back, hiddenL \ reveal, w)
  <2> SUFFICES ASSUME NEW x \in hidden \ back, NEW l \in LinksOf(g.tree), x \in Ends(l),
                      NEW e \in Ends(l), w[e] > w[x]
               PROVE  h.record[x].big <=>
                        \E l1 \in hiddenL \ reveal :
                            x \in Ends(l1) /\ \E e1 \in Ends(l1) : w[e1] < w[x]
    BY DEF BigWhenFolded
  <2>1. h.record[x].big = g.record[x].big
    BY <1>2
  <2>2. lv[e] > lv[x]
    BY <1>9
  <2>3. g.record[x].big <=>
          \E l1 \in hiddenL : x \in Ends(l1) /\ \E e1 \in Ends(l1) : lv[e1] < lv[x]
    BY <2>2 DEF Folded, BigWhenFolded
  <2>4. \A l1 \in hiddenL : x \in Ends(l1) => l1 \notin reveal
    OBVIOUS
  <2>5. \A l1 \in hiddenL : x \in Ends(l1) => \A e1 \in Ends(l1) : w[e1] < w[x] <=> lv[e1] < lv[x]
    BY <1>2, <1>9
  <2> QED
    BY <2>1, <2>3, <2>4, <2>5
<1>17. Folded(h, hidden \ back, hiddenL \ reveal, w, m)
  BY <1>4, <1>10, <1>11, <1>14, <1>15, <1>16 DEF Folded
<1> QED
  BY <1>1, <1>17 DEF Fits

(* All come back, and no node is large.                                    *)
LEMMA AllUnfoldedFits ==
    ASSUME NEW g, GoodTree(g.tree), NEW hidden, NodesFit(g, hidden), NEW hiddenL,
           LinksFit(g, hiddenL), NEW h, h.tree = g.tree, h.nodes = g.nodes \cup hidden,
           h.links = g.links \cup hiddenL, NodesFit(h, {}),
           \A k \in NodesOf(g.tree) : ~h.record[k].big
    PROVE  Fits(h, {}, {})
<1>1. LinksFit(h, {})
  BY DEF LinksFit
<1>2. PICK lv : lv = [x \in NodesOf(g.tree) |-> 0]
  OBVIOUS
<1>3. h.nodes = NodesOf(g.tree) /\ h.links = LinksOf(g.tree)
  BY DEF NodesFit, LinksFit
<1>4. \A l \in LinksOf(g.tree) : Ends(l) \subseteq NodesOf(g.tree)
  BY EndsOfLinks
<1>5. Folded(h, {}, {}, lv, 0)
  BY <1>2, <1>3, <1>4
     DEF Folded, Levels, OneWayUp, DrawnWithEnds, BigWhenDrawn, BigWhenFolded
<1> QED
  BY <1>1, <1>5 DEF Fits

-----------------------------------------------------------------------------
(* The graph of the page *)

LEMMA SameFits ==
    ASSUME NEW g, NEW hidden, NEW hiddenL, Fits(g, hidden, hiddenL),
           NEW h, h.tree = g.tree, h.nodes = g.nodes, h.links = g.links,
           NodesOf(g.tree) \subseteq DOMAIN h.record,
           \A k \in NodesOf(g.tree) : h.record[k] = g.record[k]
    PROVE  Fits(h, hidden, hiddenL)
<1>1. GoodTree(g.tree) /\ NodesFit(g, hidden)
  BY DEF Fits
<1>2. NodesFit(h, hidden)
  BY <1>1 DEF NodesFit
<1>3. ASSUME LinksFit(g, hiddenL), NEW lv, NEW m, Folded(g, hidden, hiddenL, lv, m)
      PROVE  LinksFit(h, hiddenL) /\ \E w : Folded(h, hidden, hiddenL, w, m)
  <2>1. PICK a : a = {}
    OBVIOUS
  <2>2. /\ a \cap NodesOf(g.tree) = {} /\ a \cap LinksOf(g.tree) = {}
        /\ NodesOf(h.tree) = NodesOf(g.tree) \cup a /\ LinksOf(h.tree) = LinksOf(g.tree) \cup a
        /\ h.nodes = g.nodes \cup a /\ h.links = g.links \cup a
        /\ \A l \in a : Ends(l) \subseteq h.nodes
        /\ \A k \in NodesOf(g.tree) : h.record[k].big = g.record[k].big
        /\ \A k \in a : ~h.record[k].big
    BY <2>1
  <2> QED
    BY ONLY <1>1, <1>3, <2>2, GrownFolded
<1> QED
  BY <1>1, <1>2, <1>3 DEF Fits

LEMMA UnbrokenFits ==
    ASSUME GraphInv, ~Broken
    PROVE  \E g : /\ g = Graph
                  /\ g.tree = tree /\ g.nodes = nodes /\ g.links = links /\ g.record = record
                  /\ Fits(g, hiddenNodes, hiddenLinks)
                  /\ GoodTree(g.tree) /\ NodesFit(g, hiddenNodes) /\ LinksFit(g, hiddenLinks)
                  /\ \E lv, m : Folded(g, hiddenNodes, hiddenLinks, lv, m)
<1>1. PICK g : g = Graph
  OBVIOUS
<1>2. g.tree = tree /\ g.nodes = nodes /\ g.links = links /\ g.record = record
  BY <1>1 DEF Graph
<1>3. Fits(g, hiddenNodes, hiddenLinks)
  BY <1>1 DEF GraphInv
<1>4. ~Hanging(g.links)
  BY <1>2 DEF Broken, Hanging
<1> QED
  BY <1>1, <1>2, <1>3, <1>4 DEF Fits

LEMMA NextFits ==
    ASSUME NEW h, h = [tree |-> tree', nodes |-> nodes', links |-> links', record |-> record',
            ok |-> TRUE],
           Fits(h, hiddenNodes', hiddenLinks')
    PROVE  GraphInv'
BY DEF GraphInv, Graph

LEMMA SetGraphFits ==
    ASSUME NEW g, SetGraph(g), Fits(g, hiddenNodes, hiddenLinks)
    PROVE  GraphInv' /\ tree' = g.tree /\ hiddenNodes' = hiddenNodes
<1>1. PICK kept : kept = g.nodes \cup hiddenNodes \cup UNION {Ends(l) : l \in g.links \cup hiddenLinks}
  OBVIOUS
<1>2. /\ tree' = g.tree /\ nodes' = g.nodes /\ links' = g.links
      /\ record' = [k \in kept \cap DOMAIN g.record |-> g.record[k]]
      /\ hiddenNodes' = hiddenNodes /\ hiddenLinks' = hiddenLinks
  BY <1>1 DEF SetGraph
<1>3. PICK h : h = [tree |-> tree', nodes |-> nodes', links |-> links', record |-> record',
            ok |-> TRUE]
  OBVIOUS
<1>4. h.tree = g.tree /\ h.nodes = g.nodes /\ h.links = g.links /\ h.record = record'
  BY <1>2, <1>3
<1>5. NodesOf(g.tree) \subseteq kept /\ NodesOf(g.tree) \subseteq DOMAIN g.record
  BY <1>1 DEF Fits, NodesFit
<1>6. NodesOf(g.tree) \subseteq DOMAIN h.record /\ \A k \in NodesOf(g.tree) : h.record[k] = g.record[k]
  BY <1>2, <1>4, <1>5
<1>7. Fits(h, hiddenNodes, hiddenLinks)
  BY <1>4, <1>6, SameFits
<1> QED
  BY <1>2, <1>3, <1>7, NextFits

LEMMA TouchesEnds ==
    ASSUME NEW g, g.tree = tree, g.record = record, GoodTree(g.tree), NodesFit(g, hiddenNodes),
           NEW l \in LinksOf(g.tree), NEW S, S \subseteq NodesOf(g.tree)
    PROVE  Touches(l, NamesOf(S)) <=> \E k \in S : k \in Ends(l)
<1>1. Ends(l) \subseteq NodesOf(g.tree)
  BY EndsOfLinks
<1>2. \A j, k \in NodesOf(g.tree) : record[j].name = record[k].name => j = k
  BY NamesOfRecords
<1>3. ASSUME Touches(l, NamesOf(S)) PROVE \E k \in S : k \in Ends(l)
  <2>1. PICK e \in Ends(l) : record[e].name \in NamesOf(S)
    BY <1>3 DEF Touches
  <2>2. PICK k \in S : record[e].name = record[k].name
    BY <2>1 DEF NamesOf
  <2> QED
    BY <1>1, <1>2, <2>1, <2>2
<1>4. ASSUME NEW k \in S, k \in Ends(l) PROVE Touches(l, NamesOf(S))
  BY <1>4 DEF Touches, NamesOf
<1> QED
  BY <1>3, <1>4

LEMMA ChildHasOneLink ==
    ASSUME NEW g, g.tree = tree, g.links = links, GoodTree(g.tree), LinksFit(g, hiddenLinks),
           NEW k, IsChild(k)
    PROVE  \E x \in links : \A l \in links : k \in Ends(l) => l = x
<1>1. PICK S : S = {l \in links : k \in Ends(l)}
  OBVIOUS
<1>2. S \in SUBSET LinksOf(g.tree)
  BY <1>1 DEF LinksFit
<1>3. IsFiniteSet(S)
  BY <1>2, LinksFinite, FS_Subset
<1>4. Cardinality(S) = 1
  BY <1>1 DEF IsChild, Weight
<1>5. PICK x : S = {x}
  BY <1>3, <1>4, FS_Singleton
<1> QED
  BY <1>1, <1>5

-----------------------------------------------------------------------------
(* The handlers that fold *)

LEMMA FoldKeeps ==
    ASSUME GraphInv, ~Broken, NEW hide, hide \subseteq nodes, \A k \in hide : IsChild(k),
           Fold(hide)
    PROVE  GraphInv'
<1>1. PICK g : /\ g.tree = tree /\ g.nodes = nodes /\ g.links = links /\ g.record = record
               /\ GoodTree(g.tree) /\ NodesFit(g, hiddenNodes) /\ LinksFit(g, hiddenLinks)
               /\ \E lv, m : Folded(g, hiddenNodes, hiddenLinks, lv, m)
  BY UnbrokenFits
<1>2. PICK lv, m : Folded(g, hiddenNodes, hiddenLinks, lv, m)
  BY <1>1
<1>3. PICK gone : gone = {l \in links : \E k \in hide : k \in Ends(l)}
  OBVIOUS
<1>4. hide \subseteq NodesOf(g.tree) /\ nodes \subseteq NodesOf(g.tree)
  BY <1>1 DEF NodesFit
<1>5. \A l \in links : l \in LinksOf(g.tree)
  BY <1>1 DEF LinksFit
<1>6. gone = {l \in links : Touches(l, NamesOf(hide))}
  <2>1. \A l \in links : Touches(l, NamesOf(hide)) <=> \E k \in hide : k \in Ends(l)
    BY <1>1, <1>4, <1>5, TouchesEnds
  <2> QED
    BY <1>3, <2>1
<1>7. PICK pairs : pairs = {l \in links : Ends(l) \subseteq hide}
  OBVIOUS
<1>8. PICK last \in SUBSET UNION {Ends(l) : l \in pairs} :
          record' = [k \in DOMAIN record |->
              IF \/ k \in last
                 \/ k \in nodes \ hide /\ (\E l \in gone : Touches(l, NamesOf({k})))
              THEN [record[k] EXCEPT !.big = TRUE] ELSE record[k]]
  BY <1>6, <1>7 DEF Fold
<1>9. /\ nodes' = nodes \ hide /\ hiddenNodes' = hiddenNodes \cup hide
      /\ links' = links \ gone /\ hiddenLinks' = hiddenLinks \cup gone
      /\ tree' = tree
  BY <1>6 DEF Fold
<1>10. PICK h : h = [tree |-> tree', nodes |-> nodes', links |-> links', record |-> record',
            ok |-> TRUE]
  OBVIOUS
<1>11. h.tree = g.tree /\ h.nodes = g.nodes \ hide /\ h.links = g.links \ gone /\ h.record = record'
  BY <1>1, <1>9, <1>10
<1>12. \A k \in last : \E l \in links : k \in Ends(l) /\ Ends(l) \subseteq hide
  BY <1>7, <1>8
<1>13. ASSUME NEW k \in NodesOf(g.tree)
       PROVE  /\ k \in DOMAIN record'
              /\ record'[k] = [name |-> tree[k].name, object |-> tree[k].object,
                               big |-> record'[k].big]
              /\ record'[k].big = IF k \in last \/ (k \in h.nodes /\ \E l \in gone : k \in Ends(l))
                                  THEN TRUE ELSE record[k].big
              /\ record'[k].big \in BOOLEAN
  <2>1. k \in DOMAIN record
    BY <1>1 DEF NodesFit
  <2>2. PICK b \in BOOLEAN :
            /\ b = record[k].big
            /\ record[k] = [name |-> tree[k].name, object |-> tree[k].object, big |-> b]
    BY <1>1 DEF NodesFit
  <2>3. \A l \in gone : Touches(l, NamesOf({k})) <=> k \in Ends(l)
    <3>1. {k} \subseteq NodesOf(g.tree) /\ gone \subseteq LinksOf(g.tree)
      BY <1>3, <1>5
    <3>2. \A l \in gone : Touches(l, NamesOf({k})) <=> \E j \in {k} : j \in Ends(l)
      BY <1>1, <3>1, TouchesEnds
    <3> QED
      BY <3>2
  <2>4. record'[k] = IF k \in last \/ (k \in h.nodes /\ \E l \in gone : k \in Ends(l))
                     THEN [record[k] EXCEPT !.big = TRUE] ELSE record[k]
    BY <1>1, <1>8, <1>11, <2>1, <2>3
  <2>5. [record[k] EXCEPT !.big = TRUE] =
            [name |-> tree[k].name, object |-> tree[k].object, big |-> TRUE]
    <3>1. PICK x, n, o : x = record[k] /\ n = tree[k].name /\ o = tree[k].object
      OBVIOUS
    <3>2. x = [name |-> n, object |-> o, big |-> b]
      BY <2>2, <3>1
    <3>3. PICK y : y = [x EXCEPT !.big = TRUE]
      OBVIOUS
    <3>4. y = [name |-> n, object |-> o, big |-> TRUE]
      BY ONLY <3>2, <3>3
    <3> QED
      BY <3>1, <3>3, <3>4
  <2>6. CASE k \in last \/ (k \in h.nodes /\ \E l \in gone : k \in Ends(l))
    <3>1. record'[k] = [name |-> tree[k].name, object |-> tree[k].object, big |-> TRUE]
      BY <2>4, <2>5, <2>6
    <3>2. record'[k].big = TRUE
      BY <3>1
    <3> QED
      BY <1>8, <2>1, <2>6, <3>1, <3>2
  <2>7. CASE ~(k \in last \/ (k \in h.nodes /\ \E l \in gone : k \in Ends(l)))
    <3>1. record'[k] = [name |-> tree[k].name, object |-> tree[k].object, big |-> b]
      BY <2>2, <2>4, <2>7
    <3>2. record'[k].big = b
      BY <3>1
    <3> QED
      BY <1>8, <2>1, <2>2, <2>7, <3>1, <3>2
  <2> QED
    BY <2>6, <2>7
<1>14. NodesFit(h, hiddenNodes \cup hide)
  <2>1. h.nodes \cap (hiddenNodes \cup hide) = {} /\ h.nodes \cup (hiddenNodes \cup hide) = NodesOf(h.tree)
    BY <1>1, <1>4, <1>11 DEF NodesFit
  <2> QED
    BY <1>1, <1>11, <1>13, <2>1 DEF NodesFit
<1>15. \A k \in hide : \E x \in g.links : \A l \in g.links : k \in Ends(l) => l = x
  BY <1>1, ChildHasOneLink
<1>16. Fits(h, hiddenNodes \cup hide, hiddenLinks \cup gone)
  <2>1. /\ hide \subseteq g.nodes
        /\ \A l : l \in gone <=> l \in g.links /\ \E k \in hide : k \in Ends(l)
        /\ \A k \in last : \E l \in g.links : k \in Ends(l) /\ Ends(l) \subseteq hide
    BY <1>1, <1>3, <1>12
  <2>2. \A k \in NodesOf(g.tree) :
            h.record[k].big = IF k \in last \/ (k \in h.nodes /\ \E l \in gone : k \in Ends(l))
                              THEN TRUE ELSE g.record[k].big
    BY <1>1, <1>11, <1>13
  <2>3. FoldStep(g, h, hide, gone, last)
    BY <1>11, <1>15, <2>1, <2>2 DEF FoldStep
  <2> QED
    BY ONLY <1>1, <1>2, <1>14, <2>3, FoldFits
<1> QED
  BY <1>9, <1>10, <1>16, NextFits

LEMMA FoldOneLevelKeeps == ASSUME GraphInv, FoldOneLevel PROVE GraphInv'
BY FoldKeeps DEF FoldOneLevel, Idle

LEMMA FoldAtSelectedKeeps == ASSUME GraphInv, FoldAtSelected PROVE GraphInv'
<1>1. PICK hide : hide = {k \in nodes :
                              /\ IsChild(k)
                              /\ record[k].name # record[ti].name
                              /\ \E l \in links : Touches(l, NamesOf({ti})) /\ Touches(l, NamesOf({k}))}
  OBVIOUS
<1>2. Fold(hide) /\ ~Broken
  BY <1>1 DEF FoldAtSelected, Idle
<1>3. hide \subseteq nodes /\ \A k \in hide : IsChild(k)
  BY <1>1
<1> QED
  BY <1>2, <1>3, FoldKeeps

LEMMA ResizedRecords ==
    ASSUME NEW g, g.tree = tree, g.record = record, NodesFit(g, hiddenNodes), NEW ks,
           NEW k \in NodesOf(g.tree), record' = Resized(ks)
    PROVE  /\ k \in DOMAIN record'
           /\ record'[k] = [name |-> tree[k].name, object |-> tree[k].object,
                            big |-> record'[k].big]
           /\ record'[k].big = IF k \in ks THEN FALSE ELSE record[k].big
           /\ record'[k].big \in BOOLEAN
<1>1. k \in DOMAIN record
  BY DEF NodesFit
<1>2. PICK b \in BOOLEAN :
          /\ b = record[k].big
          /\ record[k] = [name |-> tree[k].name, object |-> tree[k].object, big |-> b]
  BY DEF NodesFit
<1>3. PICK x, n, o : x = record[k] /\ n = tree[k].name /\ o = tree[k].object
  OBVIOUS
<1>4. x = [name |-> n, object |-> o, big |-> b]
  BY <1>2, <1>3
<1>5. PICK y : y = [x EXCEPT !.big = FALSE]
  OBVIOUS
<1>6. y = [name |-> n, object |-> o, big |-> FALSE]
  BY ONLY <1>4, <1>5
<1>7. k \in DOMAIN record' /\ record'[k] = IF k \in ks THEN y ELSE x
  BY <1>1, <1>3, <1>5 DEF Resized
<1>8. CASE k \in ks
  <2>1. record'[k] = [name |-> n, object |-> o, big |-> FALSE]
    BY <1>7, <1>8, <1>6
  <2>2. record'[k].big = FALSE
    BY <2>1
  <2> QED
    BY <1>3, <1>7, <1>8, <2>1, <2>2
<1>9. CASE k \notin ks
  <2>1. record'[k] = [name |-> n, object |-> o, big |-> b]
    BY <1>4, <1>7, <1>9
  <2>2. record'[k].big = b
    BY <2>1
  <2> QED
    BY <1>2, <1>3, <1>7, <1>9, <2>1, <2>2
<1> QED
  BY <1>8, <1>9

LEMMA UnfoldKeeps ==
    ASSUME GraphInv, ~Broken, NEW reveal, reveal \subseteq hiddenLinks,
           \A l \in reveal : \E d \in Ends(l) : d \in nodes,
           \A l \in hiddenLinks, l1 \in reveal, d \in nodes :
               d \in Ends(l) /\ d \in Ends(l1) => l \in reveal,
           Unfold(reveal)
    PROVE  GraphInv'
<1>1. PICK g : /\ g.tree = tree /\ g.nodes = nodes /\ g.links = links /\ g.record = record
               /\ GoodTree(g.tree) /\ NodesFit(g, hiddenNodes) /\ LinksFit(g, hiddenLinks)
               /\ \E lv, m : Folded(g, hiddenNodes, hiddenLinks, lv, m)
  BY UnbrokenFits
<1>2. PICK lv, m : Folded(g, hiddenNodes, hiddenLinks, lv, m)
  BY <1>1
<1>3. nodes \cup hiddenNodes = NodesOf(g.tree) /\ nodes \cap hiddenNodes = {}
  BY <1>1 DEF NodesFit
<1>4. \A l \in reveal : l \in LinksOf(g.tree)
  BY <1>1 DEF LinksFit
<1>5. ASSUME NEW k \in NodesOf(g.tree), NEW l \in reveal
      PROVE  Touches(l, NamesOf({k})) <=> k \in Ends(l)
  <2>1. {k} \subseteq NodesOf(g.tree) /\ l \in LinksOf(g.tree)
    BY <1>4, <1>5
  <2>2. Touches(l, NamesOf({k})) <=> \E j \in {k} : j \in Ends(l)
    BY <1>1, <2>1, TouchesEnds
  <2> QED
    BY <2>2
<1>6. PICK back : back = {k \in hiddenNodes : \E l \in reveal : Touches(l, NamesOf({k}))}
  OBVIOUS
<1>7. PICK ks : ks = {k \in nodes : \E l \in reveal : Touches(l, NamesOf({k}))}
  OBVIOUS
<1>8. /\ links' = links \cup reveal /\ hiddenLinks' = hiddenLinks \ reveal
      /\ nodes' = nodes \cup back /\ hiddenNodes' = hiddenNodes \ back
      /\ record' = Resized(ks)
      /\ tree' = tree
  BY <1>6, <1>7 DEF Unfold
<1>9. \A k : k \in back <=> k \in hiddenNodes /\ \E l \in reveal : k \in Ends(l)
  BY <1>3, <1>5, <1>6
<1>10. \A k : k \in ks <=> k \in nodes /\ \E l \in reveal : k \in Ends(l)
  BY <1>3, <1>5, <1>7
<1>11. PICK h : h = [tree |-> tree', nodes |-> nodes', links |-> links', record |-> record',
            ok |-> TRUE]
  OBVIOUS
<1>12. h.tree = g.tree /\ h.nodes = g.nodes \cup back /\ h.links = g.links \cup reveal /\ h.record = record'
  BY <1>1, <1>8, <1>11
<1>13. ASSUME NEW k \in NodesOf(g.tree)
       PROVE  /\ k \in DOMAIN record'
              /\ record'[k] = [name |-> tree[k].name, object |-> tree[k].object,
                               big |-> record'[k].big]
              /\ record'[k].big = IF k \in ks THEN FALSE ELSE record[k].big
              /\ record'[k].big \in BOOLEAN
  BY <1>1, <1>8, ResizedRecords
<1>14. NodesFit(h, hiddenNodes \ back)
  <2>1. h.nodes \cap (hiddenNodes \ back) = {} /\ h.nodes \cup (hiddenNodes \ back) = NodesOf(h.tree)
    BY <1>1, <1>3, <1>6, <1>12
  <2> QED
    BY <1>1, <1>12, <1>13, <2>1 DEF NodesFit
<1>15. UnfoldStep(g, h, hiddenNodes, hiddenLinks, reveal, back)
  <2>1. \A k \in NodesOf(g.tree) :
            h.record[k].big = IF k \in g.nodes /\ \E l \in reveal : k \in Ends(l)
                              THEN FALSE ELSE g.record[k].big
    BY <1>1, <1>10, <1>12, <1>13
  <2> QED
    BY <1>1, <1>9, <1>12, <2>1 DEF UnfoldStep
<1>16. Fits(h, hiddenNodes \ back, hiddenLinks \ reveal)
  BY ONLY <1>1, <1>2, <1>14, <1>15, UnfoldFits
<1> QED
  BY <1>8, <1>11, <1>16, NextFits

LEMMA UnfoldOneLevelKeeps == ASSUME GraphInv, UnfoldOneLevel PROVE GraphInv'
<1>1. PICK reveal : reveal = {l \in hiddenLinks : Touches(l, NamesOf(nodes))}
  OBVIOUS
<1>2. Unfold(reveal) /\ ~Broken
  BY <1>1 DEF UnfoldOneLevel, Idle
<1>3. PICK g : /\ g.tree = tree /\ g.nodes = nodes /\ g.links = links /\ g.record = record
               /\ GoodTree(g.tree) /\ NodesFit(g, hiddenNodes) /\ LinksFit(g, hiddenLinks)
  BY <1>2, UnbrokenFits
<1>4. \A l \in hiddenLinks : Touches(l, NamesOf(nodes)) <=> \E k \in nodes : k \in Ends(l)
  <2>1. nodes \subseteq NodesOf(g.tree) /\ hiddenLinks \subseteq LinksOf(g.tree)
    BY <1>3 DEF NodesFit, LinksFit
  <2> QED
    BY <1>3, <2>1, TouchesEnds
<1>5. /\ reveal \subseteq hiddenLinks
      /\ \A l \in reveal : \E d \in Ends(l) : d \in nodes
      /\ \A l \in hiddenLinks, l1 \in reveal, d \in nodes :
            d \in Ends(l) /\ d \in Ends(l1) => l \in reveal
  BY <1>1, <1>4
<1> QED
  BY <1>2, <1>5, UnfoldKeeps

(* A hidden link with the selected node at one end has a folded node at    *)
(* the other.                                                              *)
LEMMA UnfoldAtSelectedKeeps == ASSUME GraphInv, UnfoldAtSelected PROVE GraphInv'
<1>1. PICK reveal : reveal = {l \in hiddenLinks : Touches(l, NamesOf({ti}))}
  OBVIOUS
<1>2. Unfold(reveal) /\ ~Broken /\ ti \in nodes
  BY <1>1 DEF UnfoldAtSelected, Idle, Selected
<1>3. PICK g : /\ g.tree = tree /\ g.nodes = nodes /\ g.links = links /\ g.record = record
               /\ GoodTree(g.tree) /\ NodesFit(g, hiddenNodes) /\ LinksFit(g, hiddenLinks)
               /\ \E lv, m : Folded(g, hiddenNodes, hiddenLinks, lv, m)
  BY <1>2, UnbrokenFits
<1>4. nodes \subseteq NodesOf(g.tree) /\ hiddenLinks \subseteq LinksOf(g.tree)
  BY <1>3 DEF NodesFit, LinksFit
<1>5. \A l \in hiddenLinks : Touches(l, NamesOf({ti})) <=> ti \in Ends(l)
  <2>1. {ti} \subseteq NodesOf(g.tree)
    BY <1>2, <1>4
  <2>2. \A l \in hiddenLinks : Touches(l, NamesOf({ti})) <=> \E k \in {ti} : k \in Ends(l)
    BY <1>3, <1>4, <2>1, TouchesEnds
  <2> QED
    BY <2>2
<1>6. ASSUME NEW l \in hiddenLinks, ti \in Ends(l), NEW d \in Ends(l), d \in nodes
      PROVE  d = ti
  <2>1. ~(Ends(l) \subseteq nodes)
    BY <1>3, <1>4 DEF Folded, DrawnWithEnds, LinksFit
  <2>2. Ends(l) = {l.source, l.target}
    BY DEF Ends
  <2> QED
    BY <1>2, <1>6, <2>1, <2>2
<1>7. /\ reveal \subseteq hiddenLinks
      /\ \A l \in reveal : \E d \in Ends(l) : d \in nodes
      /\ \A l \in hiddenLinks, l1 \in reveal, d \in nodes :
            d \in Ends(l) /\ d \in Ends(l1) => l \in reveal
  BY <1>1, <1>2, <1>5, <1>6
<1> QED
  BY <1>2, <1>7, UnfoldKeeps

LEMMA UnfoldAllKeeps == ASSUME GraphInv, UnfoldAll PROVE GraphInv'
<1>1. ~Broken
  BY DEF UnfoldAll, Idle
<1>2. PICK g : /\ g.tree = tree /\ g.nodes = nodes /\ g.links = links /\ g.record = record
               /\ GoodTree(g.tree) /\ NodesFit(g, hiddenNodes) /\ LinksFit(g, hiddenLinks)
  BY <1>1, UnbrokenFits
<1>3. PICK ks : ks = DOMAIN record
  OBVIOUS
<1>4. /\ links' = links \cup hiddenLinks /\ hiddenLinks' = {}
      /\ nodes' = nodes \cup hiddenNodes /\ hiddenNodes' = {}
      /\ record' = Resized(ks)
      /\ tree' = tree
  BY <1>3 DEF UnfoldAll
<1>5. PICK h : h = [tree |-> tree', nodes |-> nodes', links |-> links', record |-> record',
            ok |-> TRUE]
  OBVIOUS
<1>6. /\ h.tree = g.tree /\ h.nodes = g.nodes \cup hiddenNodes
      /\ h.links = g.links \cup hiddenLinks /\ h.record = record'
  BY <1>2, <1>4, <1>5
<1>7. ASSUME NEW k \in NodesOf(g.tree)
      PROVE  /\ k \in DOMAIN record'
             /\ record'[k] = [name |-> tree[k].name, object |-> tree[k].object,
                              big |-> record'[k].big]
             /\ record'[k].big = IF k \in ks THEN FALSE ELSE record[k].big
             /\ record'[k].big \in BOOLEAN
  BY <1>2, <1>4, ResizedRecords
<1>8. NodesFit(h, {})
  <2>1. h.nodes = NodesOf(h.tree)
    BY <1>2, <1>6 DEF NodesFit
  <2> QED
    BY <1>2, <1>6, <1>7, <2>1 DEF NodesFit
<1>9. \A k \in NodesOf(g.tree) : ~h.record[k].big
  <2>1. NodesOf(g.tree) \subseteq ks
    BY <1>2, <1>3 DEF NodesFit
  <2> QED
    BY <1>6, <1>7, <2>1
<1>10. Fits(h, {}, {})
  BY ONLY <1>2, <1>6, <1>8, <1>9, AllUnfoldedFits
<1> QED
  BY <1>4, <1>5, <1>10, NextFits

-----------------------------------------------------------------------------
(* The handlers that change the tree *)

LEMMA SameGraphKeeps ==
    ASSUME GraphInv, UNCHANGED <<tree, nodes, hiddenNodes, links, hiddenLinks, record>>
    PROVE  GraphInv'
BY DEF GraphInv, Graph

LEMMA NewNodeKeeps == ASSUME GraphInv, NewNode PROVE GraphInv'
<1>1. PICK g : /\ g = Graph
               /\ GoodTree(g.tree) /\ NodesFit(g, hiddenNodes) /\ LinksFit(g, hiddenLinks)
               /\ \E lv, m : Folded(g, hiddenNodes, hiddenLinks, lv, m)
  BY UnbrokenFits DEF NewNode, Idle
<1>2. PICK lv, m : Folded(g, hiddenNodes, hiddenLinks, lv, m)
  BY <1>1
<1>3. PICK object, parent : object = "node" /\ parent = None
  OBVIOUS
<1>4. PICK n : n = WithNode(g, object, parent)
  OBVIOUS
<1>5. PICK k : k = NextTreeKey(g.tree)
  OBVIOUS
<1>6. PICK a, b : a = {k} /\ b = {}
  OBVIOUS
<1>7. n.nodes = g.nodes \cup a /\ n.links = g.links \cup b
  BY <1>4, <1>5, <1>6 DEF WithNode
<1>8. /\ GoodTree(n.tree) /\ NodesFit(n, hiddenNodes)
      /\ k \notin DOMAIN g.tree /\ k # None
      /\ DOMAIN n.tree = DOMAIN g.tree \cup {k}
      /\ \A j \in DOMAIN g.tree : n.tree[j] = g.tree[j]
      /\ n.tree[k] = [name |-> k, object |-> object, from |-> None, to |-> None,
                      parent |-> parent]
      /\ NodesOf(n.tree) = NodesOf(g.tree) \cup {k}
      /\ \A j \in NodesOf(g.tree) : n.record[j] = g.record[j]
      /\ ~n.record[k].big
      /\ LinksOf(n.tree) = IF parent = None THEN LinksOf(g.tree)
                           ELSE LinksOf(g.tree) \cup {LinkOf(n.tree, k)}
  <2>1. GoodTree(g.tree) /\ NodesFit(g, hiddenNodes)
    BY <1>1
  <2>2. object = "house" => parent # None
    BY <1>3
  <2>3. parent # None => \E q \in NodesOf(g.tree) : parent = g.tree[q].name
    BY <1>3
  <2> QED
    BY ONLY <1>4, <1>5, <2>1, <2>2, <2>3, WithNodeFits
<1>9. /\ a \cap NodesOf(g.tree) = {} /\ b \cap LinksOf(g.tree) = {}
      /\ NodesOf(n.tree) = NodesOf(g.tree) \cup a /\ LinksOf(n.tree) = LinksOf(g.tree) \cup b
      /\ \A l \in b : Ends(l) \subseteq n.nodes
      /\ \A j \in NodesOf(g.tree) : n.record[j].big = g.record[j].big
      /\ \A j \in a : ~n.record[j].big
  BY <1>6, <1>8, <1>3 DEF NodesOf
<1>10. LinksFit(n, hiddenLinks) /\ \E w : Folded(n, hiddenNodes, hiddenLinks, w, m)
  BY ONLY <1>1, <1>2, <1>7, <1>9, GrownFolded
<1>11. Fits(n, hiddenNodes, hiddenLinks)
  BY <1>8, <1>10 DEF Fits
<1>12. SetGraph(n)
  BY <1>1, <1>4, <1>3 DEF NewNode
<1> QED
  BY <1>11, <1>12, SetGraphFits

LEMMA NewLinkKeeps == ASSUME GraphInv, NEW alt \in nodes, NewLink(alt) PROVE GraphInv'
<1>1. PICK g : /\ g = Graph
               /\ g.tree = tree /\ g.nodes = nodes /\ g.links = links /\ g.record = record
               /\ GoodTree(g.tree) /\ NodesFit(g, hiddenNodes) /\ LinksFit(g, hiddenLinks)
               /\ \E lv, m : Folded(g, hiddenNodes, hiddenLinks, lv, m)
  BY UnbrokenFits DEF NewLink, Idle
<1>2. PICK lv, m : Folded(g, hiddenNodes, hiddenLinks, lv, m)
  BY <1>1
<1>3. PICK k : k = NextTreeKey(tree)
  OBVIOUS
<1>4. k \in Nat \ {None} /\ k \notin DOMAIN g.tree
  BY <1>1, <1>3, KeyIsFree DEF GoodTree
<1>5. PICK from, to : from = record[ti].name /\ to = record[alt].name
  OBVIOUS
<1>6. ti \in NodesOf(g.tree) /\ alt \in NodesOf(g.tree) /\ ti \in g.nodes /\ alt \in g.nodes
  BY <1>1 DEF NewLink, Selected, NodesFit
<1>7. from = g.tree[ti].name /\ to = g.tree[alt].name
  BY <1>1, <1>5, <1>6, NamesOfRecords
<1>8. Found(g, from) = {ti} /\ Found(g, to) = {alt}
  BY <1>1, <1>6, <1>7, FoundDrawn
<1>9. PICK x : x = [name |-> k, object |-> "link", from |-> from, to |-> to, parent |-> None]
  OBVIOUS
<1>10. PICK l : l = [source |-> ti, target |-> alt, treeIndex |-> k]
  OBVIOUS
<1>11. /\ links' = links \cup {l} /\ tree' = Extended(tree, k, x)
       /\ nodes' = nodes /\ hiddenNodes' = hiddenNodes /\ hiddenLinks' = hiddenLinks
       /\ record' = record
  BY <1>1, <1>3, <1>5, <1>8, <1>9, <1>10 DEF NewLink
<1>12. GoodObject(x) /\ x.name = k /\ IsLink(x)
  <2>1. from # None /\ to # None
    BY <1>1, <1>6, <1>7 DEF GoodTree, GoodObject, NodesOf
  <2> QED
    BY <1>4, <1>9, <2>1 DEF GoodObject, IsObject, IsLink
<1>13. \A n \in {x.from, x.to, x.parent} : n # None => \E p \in NodesOf(g.tree) : n = g.tree[p].name
  BY <1>6, <1>7, <1>9
<1>14. PICK u : u = tree' /\ u = Extended(g.tree, k, x)
  BY <1>1, <1>11
<1>15. GoodTree(u)
  BY ONLY <1>1, <1>4, <1>12, <1>13, <1>14, ExtendedIsGood
<1>16. /\ \A p \in DOMAIN g.tree : KeyNamed(u, g.tree[p].name) = p
       /\ NodesOf(u) = NodesOf(g.tree)
       /\ LinksOf(u) = IF k \in Linked(u) THEN LinksOf(g.tree) \cup {LinkOf(u, k)}
                       ELSE LinksOf(g.tree)
  BY ONLY <1>1, <1>4, <1>12, <1>14, <1>15, ExtendedKeys
<1>17. u[k] = x /\ k \in DOMAIN u /\ \A j \in DOMAIN g.tree : u[j] = g.tree[j]
  BY <1>4, <1>14 DEF Extended
<1>18. k \in Linked(u) /\ LinkOf(u, k) = l
  <2>1. ti \in DOMAIN g.tree /\ alt \in DOMAIN g.tree
    BY <1>6 DEF NodesOf
  <2>2. KeyNamed(u, from) = ti /\ KeyNamed(u, to) = alt
    BY <1>7, <1>16, <2>1
  <2>3. IsLink(u[k]) /\ u[k].from = from /\ u[k].to = to
    BY <1>9, <1>12, <1>17
  <2> QED
    BY <1>10, <1>17, <2>2, <2>3 DEF Linked, LinkOf
<1>19. l \notin LinksOf(g.tree)
  <2>1. ASSUME l \in LinksOf(g.tree) PROVE FALSE
    <3>1. PICK j \in Linked(g.tree) : l = LinkOf(g.tree, j)
      BY <1>1, <2>1, LinksByKey
    <3>2. l.treeIndex \in {j, None}
      BY <3>1 DEF LinkOf
    <3>3. j \in DOMAIN g.tree
      BY DEF Linked
    <3> QED
      BY <1>4, <1>10, <3>2, <3>3
  <2> QED
    BY <2>1
<1>20. PICK h : h = [tree |-> tree', nodes |-> nodes', links |-> links', record |-> record',
            ok |-> TRUE]
  OBVIOUS
<1>21. PICK a, b : a = {} /\ b = {l}
  OBVIOUS
<1>22. /\ h.tree = u /\ h.record = g.record
       /\ h.nodes = g.nodes \cup a /\ h.links = g.links \cup b
  BY <1>1, <1>11, <1>14, <1>20, <1>21
<1>23. NodesFit(h, hiddenNodes)
  <2>1. NodesOf(g.tree) \subseteq DOMAIN g.tree
    BY DEF NodesOf
  <2> QED
    BY <1>1, <1>16, <1>17, <1>21, <1>22, <2>1 DEF NodesFit
<1>24. /\ a \cap NodesOf(g.tree) = {} /\ b \cap LinksOf(g.tree) = {}
       /\ NodesOf(h.tree) = NodesOf(g.tree) \cup a /\ LinksOf(h.tree) = LinksOf(g.tree) \cup b
       /\ \A e \in b : Ends(e) \subseteq h.nodes
       /\ \A j \in NodesOf(g.tree) : h.record[j].big = g.record[j].big
       /\ \A j \in a : ~h.record[j].big
  BY <1>6, <1>10, <1>16, <1>18, <1>19, <1>21, <1>22 DEF Ends
<1>25. LinksFit(h, hiddenLinks) /\ \E w : Folded(h, hiddenNodes, hiddenLinks, w, m)
  BY ONLY <1>1, <1>2, <1>22, <1>24, GrownFolded
<1>26. Fits(h, hiddenNodes, hiddenLinks)
  BY <1>15, <1>22, <1>23, <1>25 DEF Fits
<1> QED
  BY <1>11, <1>20, <1>26, NextFits

(* An exception before any change.                                         *)
LEMMA ThrownKeeps ==
    ASSUME GraphInv, NEW n, SetGraph(n),
           n.tree = tree, n.nodes = nodes, n.links = links, n.record = record
    PROVE  GraphInv' /\ tree' = tree /\ hiddenNodes' = hiddenNodes
<1>1. PICK g : g = Graph
  OBVIOUS
<1>2. g.tree = tree /\ g.nodes = nodes /\ g.links = links /\ g.record = record
  BY <1>1 DEF Graph
<1>3. Fits(g, hiddenNodes, hiddenLinks)
  BY <1>1 DEF GraphInv
<1>4. NodesOf(g.tree) \subseteq DOMAIN n.record
  BY <1>2, <1>3 DEF Fits, NodesFit
<1>5. Fits(n, hiddenNodes, hiddenLinks)
  BY <1>2, <1>3, <1>4, SameFits
<1> QED
  BY <1>5, SetGraphFits

LEMMA NewChildKeeps ==
    ASSUME GraphInv, NEW object, NewChildAtSelected(object), ~failed'
    PROVE  GraphInv'
<1>1. PICK g : /\ g = Graph
               /\ g.tree = tree /\ g.nodes = nodes /\ g.links = links /\ g.record = record
               /\ Fits(g, hiddenNodes, hiddenLinks)
               /\ GoodTree(g.tree) /\ NodesFit(g, hiddenNodes)
  BY UnbrokenFits DEF NewChildAtSelected, Idle
<1>2. ti \in NodesOf(g.tree)
  BY <1>1 DEF NewChildAtSelected, Selected, NodesFit
<1>3. PICK n \in WithChild(g, object, ti) : SetGraph(n)
  BY <1>1 DEF NewChildAtSelected
<1>4. PICK k : k = NextTreeKey(g.tree)
  OBVIOUS
<1>5. g.ok /\ IsGraph(g)
  BY <1>1 DEF Graph, IsGraph
<1>6. CASE GridNodeDrawn(g)
  <2>1. Asked(g)
    BY <1>5, <1>6 DEF Asked
  <2>2. Fits(n, hiddenNodes, hiddenLinks)
    BY ONLY <1>1, <1>2, <1>3, <1>4, <2>1, WithChildFits
  <2> QED
    BY <1>3, <2>2, SetGraphFits
<1>7. CASE ~GridNodeDrawn(g)
  <2>1. /\ ~n.ok
        /\ n.nodes = g.nodes /\ n.links = g.links /\ n.record = g.record
    BY <1>5, <1>7, WithChildThrown
  <2>2. n.tree = tree
    BY <1>3, <2>1 DEF SetGraph
  <2> QED
    BY <1>1, <1>3, <2>1, <2>2, ThrownKeeps
<1> QED
  BY <1>6, <1>7

LEMMA DeleteObjectKeeps == ASSUME Careful, GraphInv, DeleteObject PROVE GraphInv'
<1>1. PICK g : /\ g = Graph /\ g.tree = tree /\ g.nodes = nodes
               /\ GoodTree(g.tree) /\ NodesFit(g, hiddenNodes) /\ LinksFit(g, hiddenLinks)
               /\ \E lv, m : Folded(g, hiddenNodes, hiddenLinks, lv, m)
  BY UnbrokenFits DEF DeleteObject, Idle
<1>2. PICK n \in Deleted(g, ti) : SetGraph(n)
  BY <1>1 DEF DeleteObject
<1>3. ti \in DOMAIN g.tree /\ Deletable(g, ti)
  BY <1>1 DEF DeleteObject, Shown, Deletable
<1>4. \A l \in hiddenLinks : ti \notin {l.source, l.treeIndex}
  BY DEF DeleteObject, Shown
<1>5. Fits(n, hiddenNodes, hiddenLinks)
  BY ONLY <1>1, <1>2, <1>3, <1>4, DeletedFits
<1> QED
  BY <1>2, <1>5, SetGraphFits

(* The name of a link is that of no record, so no record is changed; that  *)
(* of a node is that of its record, which is drawn.                        *)
LEMMA SaveObjectKeeps ==
    ASSUME Careful, TypedNames, GraphInv, NEW new \in OwnNames, NEW ends, NEW second,
           SaveObject(new, ends, second)
    PROVE  GraphInv'
<1>1. PICK g : /\ g = Graph
               /\ g.tree = tree /\ g.nodes = nodes /\ g.links = links /\ g.record = record
               /\ GoodTree(g.tree) /\ NodesFit(g, hiddenNodes) /\ LinksFit(g, hiddenLinks)
               /\ \E lv, m : Folded(g, hiddenNodes, hiddenLinks, lv, m)
  BY UnbrokenFits DEF SaveObject, Idle
<1>2. PICK lv, m : Folded(g, hiddenNodes, hiddenLinks, lv, m)
  BY <1>1
<1>3. PICK t, k, old : t = g.tree /\ k = ti /\ old = t[k].name
  OBVIOUS
<1>4. k \in DOMAIN t /\ GoodTree(t)
  BY <1>1, <1>3 DEF SaveObject
<1>5. new # None /\ new \notin Nat /\ \A j \in DOMAIN t : t[j].name # new
  BY <1>1, <1>3, FeederAssumption DEF TypedNames, SaveObject, IsNameAlreadyUsed
<1>6. PICK u : u = [j \in DOMAIN t |->
                      [name |-> Renamed(t[j].name, old, new), object |-> t[j].object,
                       from |-> Renamed(t[j].from, old, new), to |-> Renamed(t[j].to, old, new),
                       parent |-> Renamed(t[j].parent, old, new)]]
  OBVIOUS
<1>7. tree' = u
  BY <1>1, <1>3, <1>6 DEF SaveObject, Renamed
<1>8. /\ GoodTree(u)
      /\ NodesOf(u) = NodesOf(t) /\ LinksOf(u) = LinksOf(t)
      /\ u[k].name = new
      /\ \A j \in DOMAIN t : /\ u[j].object = t[j].object
                             /\ j # k => u[j].name = t[j].name
  BY ONLY <1>3, <1>4, <1>5, <1>6, RenamedIsGood, SMTT(30)
<1>9. /\ nodes' = nodes /\ hiddenNodes' = hiddenNodes
      /\ links' = links /\ hiddenLinks' = hiddenLinks
  BY DEF SaveObject
<1>10. PICK q \in Found(g, old) :
           record' = IF q = None THEN record ELSE [record EXCEPT ![q].name = new]
  BY <1>1, <1>3 DEF SaveObject
<1>11. k \in NodesOf(t) => k \in g.nodes
  BY <1>1, <1>3 DEF SaveObject, NodesFit
<1>12. q = IF k \in NodesOf(t) THEN k ELSE None
  <2>1. CASE k \in NodesOf(t)
    <3>1. Found(g, g.tree[k].name) = {k}
      BY <1>1, <1>3, <1>11, <2>1, FoundDrawn
    <3> QED
      BY <1>3, <1>10, <2>1, <3>1
  <2>2. CASE k \notin NodesOf(t)
    <3>1. ASSUME NEW j \in g.nodes, g.record[j].name = old PROVE FALSE
      <4>1. j \in NodesOf(t) /\ j \in DOMAIN t
        BY <1>1, <1>3 DEF NodesFit, NodesOf
      <4>2. t[j].name = t[k].name
        BY <1>1, <1>3, <3>1, <4>1, NamesOfRecords
      <4>3. j = k
        BY <1>4, <4>1, <4>2 DEF GoodTree, Distinct
      <4> QED
        BY <2>2, <4>1, <4>3
    <3>2. Found(g, old) = {None}
      BY <3>1 DEF Found
    <3> QED
      BY <1>10, <2>2, <3>2
  <2> QED
    BY <2>1, <2>2
<1>13. ASSUME NEW j \in NodesOf(t)
       PROVE  /\ j \in DOMAIN record'
              /\ record'[j] = [name |-> u[j].name, object |-> u[j].object,
                               big |-> record'[j].big]
              /\ record'[j].big = record[j].big
              /\ record'[j].big \in BOOLEAN
  <2>1. j \in DOMAIN record /\ j # None /\ j \in DOMAIN t
    BY <1>1, <1>3, <1>4 DEF NodesFit, NodesOf, GoodTree
  <2>2. PICK b \in BOOLEAN :
            /\ b = record[j].big
            /\ record[j] = [name |-> t[j].name, object |-> t[j].object, big |-> b]
    BY <1>1, <1>3 DEF NodesFit
  <2>3. PICK x, n, o : x = record[j] /\ n = t[j].name /\ o = t[j].object
    OBVIOUS
  <2>4. x = [name |-> n, object |-> o, big |-> b]
    BY <2>2, <2>3
  <2>5. PICK y : y = [x EXCEPT !.name = new]
    OBVIOUS
  <2>6. y = [name |-> new, object |-> o, big |-> b]
    BY ONLY <2>4, <2>5
  <2>7. CASE j = k
    <3>1. q = k
      BY <1>12, <2>7
    <3>2. record' = [record EXCEPT ![k].name = new]
      BY <1>10, <2>1, <2>7, <3>1
    <3>3. j \in DOMAIN record' /\ record'[j] = y
      BY <2>1, <2>3, <2>5, <2>7, <3>2
    <3>4. u[j].name = new /\ u[j].object = o
      BY <1>8, <2>1, <2>3, <2>7
    <3>5. y.big = b
      BY <2>6
    <3> QED
      BY <2>2, <2>6, <3>3, <3>4, <3>5
  <2>8. CASE j # k
    <3>1. j \in DOMAIN record' /\ record'[j] = x
      BY <1>10, <1>12, <2>1, <2>3, <2>8
    <3>2. u[j].name = n /\ u[j].object = o
      BY <1>8, <2>1, <2>3, <2>8
    <3>3. x.big = b
      BY <2>4
    <3> QED
      BY <2>2, <2>4, <3>1, <3>2, <3>3
  <2> QED
    BY <2>7, <2>8
<1>14. PICK h : h = [tree |-> tree', nodes |-> nodes', links |-> links', record |-> record',
            ok |-> TRUE]
  OBVIOUS
<1>15. PICK a : a = {}
  OBVIOUS
<1>16. /\ h.tree = u /\ h.record = record'
       /\ h.nodes = g.nodes \cup a /\ h.links = g.links \cup a
  BY <1>1, <1>7, <1>9, <1>14, <1>15
<1>17. NodesFit(h, hiddenNodes)
  BY <1>1, <1>3, <1>8, <1>13, <1>15, <1>16 DEF NodesFit
<1>18. /\ a \cap NodesOf(g.tree) = {} /\ a \cap LinksOf(g.tree) = {}
       /\ NodesOf(h.tree) = NodesOf(g.tree) \cup a /\ LinksOf(h.tree) = LinksOf(g.tree) \cup a
       /\ \A l \in a : Ends(l) \subseteq h.nodes
       /\ \A j \in NodesOf(g.tree) : h.record[j].big = g.record[j].big
       /\ \A j \in a : ~h.record[j].big
  BY <1>1, <1>3, <1>8, <1>13, <1>15, <1>16
<1>19. LinksFit(h, hiddenLinks) /\ \E w : Folded(h, hiddenNodes, hiddenLinks, w, m)
  BY ONLY <1>1, <1>2, <1>16, <1>18, GrownFolded, ZenonT(30)
<1>20. Fits(h, hiddenNodes, hiddenLinks)
  BY <1>8, <1>16, <1>17, <1>19 DEF Fits
<1> QED
  BY <1>9, <1>14, <1>20, NextFits

-----------------------------------------------------------------------------
(* The timer *)

LEMMA JobTodoKeeps ==
    ASSUME TodoInv, job = "none", job' = job, todo' = todo
    PROVE  TodoInv' /\ JobInv'
BY DEF TodoInv, JobInv

LEMMA StartJobKeeps ==
    ASSUME ListsInv, StaticLoadsToHouses \/ SolarAdding
    PROVE  TodoInv' /\ JobInv'
<1>1. PICK kind, object :
          /\ kind \in {"houses", "solar"} /\ (kind = "houses" => object = "triplex_node")
          /\ StartJob(kind, object)
  BY DEF StaticLoadsToHouses, SolarAdding
<1>2. /\ job' = kind /\ todo' = DOMAIN tree
      /\ UNCHANGED drawing
      /\ \A h \in hiddenNodes : record[h].object # object
  BY <1>1 DEF StartJob
<1>3. tree' = tree /\ hiddenNodes' = hiddenNodes
  BY <1>2 DEF drawing
<1>4. \A h \in hiddenNodes : tree[h].object # object
  <2>1. PICK g : g.tree = tree /\ g.record = record /\ ListsFit(g, hiddenNodes)
    BY DEF ListsInv, Graph
  <2>2. ASSUME NEW h \in hiddenNodes PROVE record[h].object = tree[h].object
    <3>1. PICK b : record[h] = [name |-> tree[h].name, object |-> tree[h].object, big |-> b]
      BY <2>1 DEF ListsFit
    <3> QED
      BY <3>1
  <2> QED
    BY <1>2, <2>2
<1> QED
  BY <1>1, <1>2, <1>3, <1>4 DEF TodoInv, JobInv

LEMMA JobEndsKeeps == ASSUME TodoInv, JobEnds PROVE TodoInv' /\ JobInv'
BY DEF JobEnds, TodoInv, JobInv

(* The next object of a job is one of the tree.                            *)
LEMMA NextOfJob ==
    ASSUME GoodTree(tree), TodoInv, todo # {}
    PROVE  Min(todo) \in todo /\ Min(todo) \in DOMAIN tree
<1>1. todo \in SUBSET Nat /\ IsFiniteSet(todo)
  BY FS_Subset DEF TodoInv, GoodTree
<1> QED
  BY <1>1, MinIsFirst DEF TodoInv

(* A refused node stays so, and keeps its house, when a node of a meter is *)
(* replaced: what hung on the meter with it still has the new house.       *)
LEMMA ReplacedKept ==
    ASSUME NEW t, GoodTree(t), NEW k \in DOMAIN t,
           t[k].object = "triplex_node", t[k].parent # None,
           NEW w, w = t \/ Less(t, w, k), NEW u, Added(w, u),
           \E h \in DOMAIN u : u[h].object = "house" /\ u[h].parent = t[k].parent,
           NEW j \in DOMAIN w, Replaced(t, j)
    PROVE  Replaced(u, j)
<1>1. \A i \in DOMAIN t : i = k \/ (i \in DOMAIN u /\ u[i] = t[i])
  BY DEF Less, Added
<1>2. j \in DOMAIN t /\ j \in DOMAIN u /\ u[j] = t[j]
  BY DEF Less, Added
<1>3. PICK h \in DOMAIN t : t[h].object = "house" /\ t[h].parent = t[j].parent
  BY DEF Replaced
<1>4. h \in DOMAIN u /\ u[h].object = "house" /\ u[h].parent = u[j].parent
  BY <1>1, <1>2, <1>3
<1>5. PICK i \in DOMAIN t : t[j].name \in {t[i].from, t[i].to, t[i].parent}
  BY DEF Replaced, Connected
<1>6. CASE i # k
  BY <1>1, <1>2, <1>4, <1>5, <1>6 DEF Replaced, Connected
<1>7. CASE i = k
  <2>1. GoodObject(t[k]) /\ t[j].name # None
    BY <1>2 DEF GoodTree, GoodObject
  <2>2. ~IsLink(t[k])
    BY <2>1 DEF GoodObject
  <2>3. t[k].from = None /\ t[k].to = None
    BY <2>1, <2>2 DEF GoodObject, IsLink
  <2>4. t[j].name = t[k].parent
    BY <1>5, <1>7, <2>1, <2>3
  <2> QED
    BY <1>2, <1>4, <2>4 DEF Replaced, Connected
<1> QED
  BY <1>6, <1>7

(* A node nothing is connected to has no link but the one to its parent.   *)
LEMMA LoneNodeLinks ==
    ASSUME NEW g, GoodTree(g.tree), NEW hidden, NodesFit(g, hidden), NEW hiddenL,
           LinksFit(g, hiddenL), DrawnWithEnds(g),
           NEW k \in g.nodes, ~Connected(g.tree, k),
           NEW p \in g.nodes, g.tree[k].parent = g.tree[p].name,
           NEW l \in hiddenL
    PROVE  k \notin {l.source, l.treeIndex}
<1>1. PICK t : t = g.tree
  OBVIOUS
<1>2. l \in LinksOf(t)
  BY <1>1 DEF LinksFit
<1>3. PICK j \in Linked(t) : l = LinkOf(t, j)
  BY <1>1, <1>2, LinksByKey
<1>4. j \in DOMAIN t /\ k \in NodesOf(t) /\ k \in DOMAIN t /\ p \in DOMAIN t /\ k # None
  BY <1>1 DEF Linked, NodesFit, NodesOf, GoodTree
<1>5. CASE IsLink(t[j])
  <2>1. l.treeIndex = j /\ t[l.source].name = t[j].from
    BY <1>1, <1>3, <1>5, LinkEnds
  <2>2. l.treeIndex # k
    BY <1>4, <1>5, <2>1 DEF NodesOf
  <2>3. l.source # k
    BY <1>1, <1>4, <2>1 DEF Connected
  <2> QED
    BY <2>2, <2>3
<1>6. CASE ~IsLink(t[j])
  <2>1. /\ l.treeIndex = None /\ l.source = j /\ l.target \in NodesOf(t)
        /\ t[l.target].name = t[j].parent
    BY <1>1, <1>3, <1>6, LinkEnds
  <2>2. ASSUME j = k PROVE FALSE
    <3>1. l.target \in DOMAIN t /\ t[l.target].name = t[p].name
      BY <1>1, <2>1, <2>2 DEF NodesOf
    <3>2. l.target = p
      BY <1>1, <1>4, <3>1 DEF GoodTree, Distinct
    <3>3. Ends(l) \subseteq g.nodes
      BY <2>1, <2>2, <3>2 DEF Ends
    <3>4. l \in g.links
      BY <1>1, <1>2, <3>3 DEF DrawnWithEnds
    <3> QED
      BY <3>4 DEF LinksFit
  <2> QED
    BY <1>4, <2>1, <2>2
<1> QED
  BY <1>5, <1>6

(* The steps of ReplaceNode: what is left of the tree, and the tree with   *)
(* the house.                                                              *)
LEMMA ReplaceNodeKeeps ==
    ASSUME NEW g, Fits(g, hiddenNodes, hiddenLinks), GoodTree(g.tree),
           NodesFit(g, hiddenNodes), LinksFit(g, hiddenLinks), Asked(g),
           \E lv, m : Folded(g, hiddenNodes, hiddenLinks, lv, m),
           NEW k \in g.nodes, NEW p \in NodesOf(g.tree), g.tree[k].parent = g.tree[p].name,
           g.tree[k].object = "triplex_node",
           NEW w, w \in IF Connected(g.tree, k) THEN {g} ELSE Deleted(g, k),
           NEW n \in WithHouse(w, p)
    PROVE  /\ Fits(n, hiddenNodes, hiddenLinks)
           /\ n.ok
           /\ IF Connected(g.tree, k) THEN w.tree = g.tree ELSE Less(g.tree, w.tree, k)
           /\ Added(w.tree, n.tree)
           /\ \E h \in DOMAIN n.tree : n.tree[h].object = "house" /\ n.tree[h].parent = g.tree[k].parent
<1>1. CASE Connected(g.tree, k)
  <2>1. w = g
    BY <1>1
  <2>2. n \in WithHouse(g, p)
    BY <2>1
  <2>3. /\ Fits(n, hiddenNodes, hiddenLinks)
        /\ n.ok
        /\ Added(g.tree, n.tree)
        /\ \E h \in DOMAIN n.tree :
              n.tree[h].object = "house" /\ n.tree[h].parent = g.tree[p].name
    BY <2>2, WithHouseFits
  <2> QED
    BY <1>1, <2>1, <2>3
<1>2. CASE ~Connected(g.tree, k)
  <2>1. w \in Deleted(g, k) /\ k \in DOMAIN g.tree /\ Deletable(g, k)
    BY <1>2 DEF Deletable, NodesFit, NodesOf
  <2>2. /\ GoodTree(w.tree) /\ NodesFit(w, hiddenNodes)
        /\ Less(g.tree, w.tree, k)
        /\ NodesOf(w.tree) = NodesOf(g.tree) \ {k}
        /\ w.nodes = g.nodes \ {k}
    BY <2>1, DeletedNodes
  <2>8. w.record = g.record /\ w.ok = g.ok
    BY <2>1, DeletedTree
  <2>3. p # k
    <3>1. g.tree[k].name # g.tree[k].parent
      BY <1>2, <2>1 DEF Connected
    <3> QED
      BY <3>1
  <2>4. p \in NodesOf(w.tree) /\ w.tree[p] = g.tree[p]
    BY <2>2, <2>3 DEF NodesOf, Less
  <2>5. ASSUME p \in w.nodes PROVE Fits(w, hiddenNodes, hiddenLinks)
    <3>1. p \in g.nodes
      BY <2>2, <2>5
    <3>2. DrawnWithEnds(g)
      BY DEF Folded
    <3>3. \A l \in hiddenLinks : k \notin {l.source, l.treeIndex}
      BY <1>2, <3>1, <3>2, LoneNodeLinks
    <3> QED
      BY <2>1, <3>3, DeletedFits
  <2>6. Asked(w)
    <3>1. PICK j \in g.nodes : g.record[j].object = "node"
      BY DEF Asked, GridNodeDrawn
    <3>2. PICK b : g.record[k] = [name |-> g.tree[k].name, object |-> "triplex_node", big |-> b]
      BY DEF NodesFit
    <3>3. j # k
      BY <3>1, <3>2
    <3> QED
      BY <2>2, <2>8, <3>1, <3>3 DEF Asked, GridNodeDrawn
  <2>7. /\ Fits(n, hiddenNodes, hiddenLinks)
        /\ n.ok
        /\ Added(w.tree, n.tree)
        /\ \E h \in DOMAIN n.tree :
              n.tree[h].object = "house" /\ n.tree[h].parent = w.tree[p].name
    <3>1. GoodTree(w.tree) /\ NodesFit(w, hiddenNodes)
      BY <2>2
    <3>2. p \in NodesOf(w.tree) /\ n \in WithHouse(w, p)
      BY <2>4
    <3> QED
      BY ONLY <2>5, <2>6, <3>1, <3>2, WithHouseFits
  <2> QED
    BY <1>2, <2>2, <2>4, <2>7
<1> QED
  BY <1>1, <1>2

(* The node of a meter that the job has come to.                           *)
LEMMA NodeToReplace ==
    ASSUME GraphInv, TodoInv, ReplaceAllHouses, NEW k, k = Min(todo), IsNodeOfMeter(k)
    PROVE  \E g, p, w, n :
              /\ g = Graph /\ g.ok /\ IsGraph(g)
              /\ g.tree = tree /\ g.nodes = nodes /\ g.links = links /\ g.record = record
              /\ Fits(g, hiddenNodes, hiddenLinks)
              /\ GoodTree(g.tree) /\ NodesFit(g, hiddenNodes) /\ LinksFit(g, hiddenLinks)
              /\ \E lv, m : Folded(g, hiddenNodes, hiddenLinks, lv, m)
              /\ k \in DOMAIN g.tree /\ k \in g.nodes
              /\ g.tree[k].object = "triplex_node" /\ g.tree[k].parent # None
              /\ p \in NodesOf(g.tree) /\ g.tree[p].name = g.tree[k].parent
              /\ w \in IF Connected(g.tree, k) THEN {g} ELSE Deleted(g, k)
              /\ n \in WithHouse(w, p) /\ SetGraph(n)
<1>1. PICK g : /\ g = Graph
               /\ g.tree = tree /\ g.nodes = nodes /\ g.links = links /\ g.record = record
               /\ Fits(g, hiddenNodes, hiddenLinks)
               /\ GoodTree(g.tree) /\ NodesFit(g, hiddenNodes) /\ LinksFit(g, hiddenLinks)
               /\ \E lv, m : Folded(g, hiddenNodes, hiddenLinks, lv, m)
  BY UnbrokenFits DEF ReplaceAllHouses
<1>2. PICK t : t = tree /\ t = g.tree
  BY <1>1
<1>3. k \in todo /\ k \in DOMAIN t
  <2>1. todo # {}
    BY DEF ReplaceAllHouses, Over
  <2> QED
    BY <1>1, <1>2, <2>1, NextOfJob
<1>4. t[k].object = "triplex_node" /\ t[k].parent # None
  BY <1>2 DEF IsNodeOfMeter
<1>5. PICK p : p = KeyNamed(t, t[k].parent)
  OBVIOUS
<1>6. p \in NodesOf(t) /\ t[p].name = t[k].parent
  BY <1>1, <1>2, <1>3, <1>4, <1>5, ReferenceFound
<1>7. k \in g.nodes
  <2>1. k \in NodesOf(t)
    BY <1>1, <1>2, <1>3, <1>4 DEF NodesOf, GoodTree, GoodObject
  <2>2. k \notin hiddenNodes
    BY <1>2, <1>4 DEF TodoInv, ReplaceAllHouses
  <2> QED
    BY <1>1, <1>2, <2>1, <2>2 DEF NodesFit
<1>8. PICK w, n :
          /\ w \in IF Connected(t, k) THEN {g} ELSE Deleted(g, k)
          /\ n \in WithHouse(w, p) /\ SetGraph(n)
  BY <1>1, <1>2, <1>5 DEF ReplaceAllHouses, ReplaceNode
<1>9. g.ok /\ IsGraph(g)
  BY <1>1 DEF Graph, IsGraph
<1> QED
  BY <1>1, <1>2, <1>3, <1>4, <1>6, <1>7, <1>8, <1>9

(* The node is replaced.                                                   *)
LEMMA NodeReplaced ==
    ASSUME GraphInv, TodoInv, JobInv, ReplaceAllHouses, NEW k, k = Min(todo),
           IsNodeOfMeter(k), GridNodeDrawn(Graph)
    PROVE  GraphInv' /\ JobInv'
<1>1. PICK g, p, w, n :
          /\ g = Graph /\ g.ok /\ IsGraph(g)
          /\ g.tree = tree /\ g.nodes = nodes /\ g.links = links /\ g.record = record
          /\ Fits(g, hiddenNodes, hiddenLinks)
          /\ GoodTree(g.tree) /\ NodesFit(g, hiddenNodes) /\ LinksFit(g, hiddenLinks)
          /\ \E lv, m : Folded(g, hiddenNodes, hiddenLinks, lv, m)
          /\ k \in DOMAIN g.tree /\ k \in g.nodes
          /\ g.tree[k].object = "triplex_node" /\ g.tree[k].parent # None
          /\ p \in NodesOf(g.tree) /\ g.tree[p].name = g.tree[k].parent
          /\ w \in IF Connected(g.tree, k) THEN {g} ELSE Deleted(g, k)
          /\ n \in WithHouse(w, p) /\ SetGraph(n)
  BY NodeToReplace
<1>2. PICK t : t = tree /\ t = g.tree
  BY <1>1
<1>3. Asked(g)
  BY <1>1 DEF Asked
<1>4. /\ Fits(n, hiddenNodes, hiddenLinks)
      /\ IF Connected(t, k) THEN w.tree = t ELSE Less(t, w.tree, k)
      /\ Added(w.tree, n.tree)
      /\ \E h \in DOMAIN n.tree : n.tree[h].object = "house" /\ n.tree[h].parent = t[k].parent
  <2>1. \E lv, m : Folded(g, hiddenNodes, hiddenLinks, lv, m)
    BY <1>1
  <2> QED
    BY <1>1, <1>2, <1>3, <2>1, ReplaceNodeKeeps
<1>5. GraphInv' /\ tree' = n.tree
  BY <1>1, <1>4, SetGraphFits
<1>6. PICK v, u : v = w.tree /\ u = tree' /\ u = n.tree
  BY <1>5
<1>7. job = "houses" /\ todo' = todo \ {k}
  BY DEF ReplaceAllHouses
<1>8. \A j \in DOMAIN tree \ todo : IsNodeOfMeter(j) => Replaced(tree, j)
  BY <1>7 DEF JobInv
<1>9. ASSUME NEW j \in DOMAIN u, j \notin todo', u[j].parent # None, u[j].object = "triplex_node"
      PROVE  Replaced(u, j)
  <2>1. j \in DOMAIN v /\ u[j] = v[j] /\ j \in DOMAIN t /\ v[j] = t[j]
    BY <1>4, <1>6, <1>9 DEF Less, Added
  <2>2. CASE j = k
    <3>1. Connected(t, k)
      BY <1>4, <1>6, <2>1, <2>2 DEF Less
    <3>2. Connected(u, k)
      <4>1. \A i \in DOMAIN t : i \in DOMAIN u /\ u[i] = t[i]
        BY <1>4, <1>6, <3>1 DEF Added
      <4> QED
        BY <1>1, <1>2, <3>1, <4>1 DEF Connected
    <3> QED
      BY <1>4, <1>6, <2>1, <2>2, <3>2 DEF Replaced
  <2>3. CASE j # k
    <3>1. j \in DOMAIN tree \ todo /\ IsNodeOfMeter(j)
      BY <1>2, <1>7, <1>9, <2>1, <2>3 DEF IsNodeOfMeter
    <3>2. Replaced(t, j)
      BY <1>2, <1>8, <3>1
    <3>3. v = t \/ Less(t, v, k)
      BY <1>4, <1>6
    <3>4. Added(v, u) /\ \E h \in DOMAIN u : u[h].object = "house" /\ u[h].parent = t[k].parent
      BY <1>4, <1>6
    <3> QED
      BY <1>1, <1>2, <2>1, <3>2, <3>3, <3>4, ReplacedKept
  <2> QED
    BY <2>2, <2>3
<1>10. JobInv'
  BY <1>6, <1>9 DEF JobInv, IsNodeOfMeter
<1> QED
  BY <1>5, <1>10

(* The node is not replaced: nothing has changed but by an exception that  *)
(* came after a change of the tree.                                        *)
LEMMA NodeNotReplaced ==
    ASSUME GraphInv, TodoInv, ReplaceAllHouses, NEW k, k = Min(todo),
           IsNodeOfMeter(k), ~GridNodeDrawn(Graph), ~failed'
    PROVE  GraphInv' /\ JobInv'
<1>1. PICK g, p, w, n :
          /\ g = Graph /\ g.ok /\ IsGraph(g)
          /\ g.tree = tree /\ g.nodes = nodes /\ g.links = links /\ g.record = record
          /\ Fits(g, hiddenNodes, hiddenLinks)
          /\ GoodTree(g.tree) /\ NodesFit(g, hiddenNodes) /\ LinksFit(g, hiddenLinks)
          /\ \E lv, m : Folded(g, hiddenNodes, hiddenLinks, lv, m)
          /\ k \in DOMAIN g.tree /\ k \in g.nodes
          /\ g.tree[k].object = "triplex_node" /\ g.tree[k].parent # None
          /\ p \in NodesOf(g.tree) /\ g.tree[p].name = g.tree[k].parent
          /\ w \in IF Connected(g.tree, k) THEN {g} ELSE Deleted(g, k)
          /\ n \in WithHouse(w, p) /\ SetGraph(n)
  BY NodeToReplace
<1>2. PICK h : h = WithNode(w, "house", w.tree[p].name).tree
  OBVIOUS
<1>3. CASE Connected(g.tree, k)
  <2>1. w = g
    BY <1>1, <1>3
  <2>2. /\ ~n.ok
        /\ n.nodes = g.nodes /\ n.links = g.links /\ n.record = g.record
    BY <1>1, <2>1, WithHouseThrown
  <2>3. n.tree = tree
    BY <1>1, <2>2 DEF SetGraph
  <2>4. GraphInv'
    BY <1>1, <2>2, <2>3, ThrownKeeps
  <2>5. ~GridNodeDrawn(Graph)'
    <3>1. /\ nodes' = nodes /\ \A j \in nodes : record'[j] = record[j]
      BY <1>1, <2>2 DEF SetGraph, NodesFit
    <3> QED
      BY <3>1 DEF GridNodeDrawn, Graph
  <2> QED
    BY <2>4, <2>5 DEF JobInv
<1>4. CASE ~Connected(g.tree, k)
  <2>1. w \in Deleted(g, k) /\ Deletable(g, k)
    BY <1>1, <1>4 DEF Deletable
  <2>2. /\ GoodTree(w.tree) /\ Less(g.tree, w.tree, k)
        /\ w.nodes = g.nodes \ {k}
    <3>1. GoodTree(g.tree) /\ NodesFit(g, hiddenNodes) /\ k \in DOMAIN g.tree
      BY <1>1
    <3> QED
      BY ONLY <2>1, <3>1, DeletedNodes
  <2>6. w.record = g.record /\ w.ok /\ IsGraph(w)
    BY <1>1, <2>1, DeletedTree
  <2>3. ~GridNodeDrawn(w)
    BY <1>1, <2>2, <2>6 DEF GridNodeDrawn
  <2>4. ~n.ok /\ (n.tree = w.tree \/ n.tree = h)
    BY <1>1, <1>2, <2>3, <2>6, WithHouseThrown
  <2>5. n.tree # tree
    <3>1. k \notin DOMAIN w.tree
      BY <2>2 DEF Less
    <3>2. PICK j : j = NextTreeKey(w.tree)
      OBVIOUS
    <3>3. PICK x : x = [name |-> j, object |-> "house", from |-> None, to |-> None,
                        parent |-> w.tree[p].name]
      OBVIOUS
    <3>4. h = Extended(w.tree, j, x)
      BY <1>2, <3>2, <3>3 DEF WithNode
    <3>5. k \in DOMAIN h => h[k] = x
      BY <3>1, <3>4 DEF Extended
    <3>6. x.object = "house"
      BY <3>3
    <3> QED
      BY <1>1, <2>4, <3>1, <3>5, <3>6
  <2> QED
    BY <1>1, <2>4, <2>5 DEF SetGraph
<1> QED
  BY <1>3, <1>4

LEMMA ReplaceAllHousesKeeps ==
    ASSUME GraphInv, TodoInv, JobInv, ReplaceAllHouses, ~failed'
    PROVE  GraphInv' /\ JobInv'
<1>1. PICK k : k = Min(todo)
  OBVIOUS
<1>2. CASE ~IsNodeOfMeter(k)
  <2>1. UNCHANGED drawing /\ todo' = todo \ {k}
    BY <1>1, <1>2 DEF ReplaceAllHouses
  <2>2. UNCHANGED <<tree, nodes, hiddenNodes, links, hiddenLinks, record>>
    BY <2>1 DEF drawing
  <2>3. GraphInv'
    BY <2>2, SameGraphKeeps
  <2>4. GridNodeDrawn(Graph)' => GridNodeDrawn(Graph)
    BY <2>2 DEF Graph, GridNodeDrawn
  <2>5. job = "houses"
    BY DEF ReplaceAllHouses
  <2> QED
    BY <1>2, <2>1, <2>2, <2>3, <2>4, <2>5 DEF JobInv, IsNodeOfMeter
<1>3. CASE IsNodeOfMeter(k)
  BY <1>1, <1>3, NodeReplaced, NodeNotReplaced
<1> QED
  BY <1>2, <1>3

LEMMA WalkAndAddSolarKeeps ==
    ASSUME GraphInv, TodoInv, WalkAndAddSolar, ~failed'
    PROVE  GraphInv' /\ JobInv'
<1>1. PICK k : k = Min(todo)
  OBVIOUS
<1>2. PICK inverter : inverter = NextTreeKey(tree)
  OBVIOUS
<1>3. job = "solar" /\ ~Broken /\ job' = job
  BY DEF WalkAndAddSolar
<1>4. JobInv'
  BY <1>3 DEF JobInv
<1>5. CASE UNCHANGED drawing
  BY <1>4, <1>5, SameGraphKeeps DEF drawing
<1>6. CASE ~UNCHANGED drawing
  <2>1. PICK g : /\ g = Graph
                 /\ g.tree = tree /\ g.nodes = nodes /\ g.links = links /\ g.record = record
                 /\ Fits(g, hiddenNodes, hiddenLinks)
                 /\ GoodTree(g.tree) /\ NodesFit(g, hiddenNodes)
    BY <1>3, UnbrokenFits
  <2>2. PICK t : t = tree /\ t = g.tree
    BY <2>1
  <2>3. PICK p : p = KeyNamed(t, t[k].parent)
    OBVIOUS
  <2>4. t[k].object = "house" /\ k \in DOMAIN t
    <3>1. todo # {}
      BY DEF WalkAndAddSolar, Over
    <3>2. t[k].object = "house"
      BY <1>1, <1>6, <2>2 DEF WalkAndAddSolar
    <3> QED
      BY <1>1, <2>1, <2>2, <3>1, <3>2, NextOfJob
  <2>5. PICK h \in WithChild(g, "inverter", p) :
          \E n \in WithChild(h, "solar", KeyNamed(h.tree, inverter)) : SetGraph(n)
    BY <1>1, <1>2, <1>6, <2>1, <2>2, <2>3 DEF WalkAndAddSolar
  <2>6. p \in NodesOf(t)
    <3>1. t[k].parent # None
      BY <2>1, <2>2, <2>4 DEF GoodTree, GoodObject
    <3> QED
      BY <2>1, <2>2, <2>3, <2>4, <3>1, ReferenceFound
  <2>7. g.ok /\ IsGraph(g)
    BY <2>1 DEF Graph, IsGraph
  <2>8. CASE GridNodeDrawn(g)
    <3>1. /\ GoodTree(h.tree) /\ NodesFit(h, hiddenNodes) /\ Asked(h)
          /\ ChildOf(h.tree, inverter, "inverter", g.tree[p].name)
          /\ Fits(h, hiddenNodes, hiddenLinks)
      BY <1>2, <2>1, <2>2, <2>5, <2>6, <2>7, <2>8, WithChildFits DEF Asked
    <3>2. inverter \in NodesOf(h.tree) /\ KeyNamed(h.tree, inverter) = inverter
      <4>1. inverter \in NodesOf(h.tree) /\ h.tree[inverter].name = inverter
        BY <3>1 DEF ChildOf
      <4> QED
        BY <3>1, <4>1, KeyNamedIs DEF NodesOf
    <3>3. PICK n \in WithChild(h, "solar", inverter) : SetGraph(n)
      BY <2>5, <3>2
    <3>4. Fits(n, hiddenNodes, hiddenLinks)
      <4>1. PICK j : j = NextTreeKey(h.tree)
        OBVIOUS
      <4> QED
        BY <3>1, <3>2, <3>3, <4>1, WithChildFits
    <3> QED
      BY <1>4, <3>3, <3>4, SetGraphFits
  <2>9. CASE ~GridNodeDrawn(g)
    <3>1. /\ ~h.ok
          /\ h.nodes = g.nodes /\ h.links = g.links /\ h.record = g.record
      BY <2>5, <2>7, <2>9, WithChildThrown
    <3>2. SetGraph(h)
      BY <2>5, <3>1 DEF WithChild
    <3>3. h.tree = tree
      BY <3>1, <3>2 DEF SetGraph
    <3> QED
      BY <1>4, <2>1, <3>1, <3>2, <3>3, ThrownKeeps
  <2> QED
    BY <2>8, <2>9
<1> QED
  BY <1>5, <1>6

-----------------------------------------------------------------------------
(* What an exception leaves *)

(* Objects are added, and those there are stay as they are.                *)
Grown(t, u) == \A j \in DOMAIN t : j \in DOMAIN u /\ u[j] = t[j]

LEMMA WithNodeLists ==
    ASSUME NEW g, GoodTree(g.tree), NEW hidden, ListsFit(g, hidden),
           NEW object, NEW parent, object = "house" => parent # None,
           parent # None => \E p \in NodesOf(g.tree) : parent = g.tree[p].name,
           NEW n, n = WithNode(g, object, parent), NEW k, k = NextTreeKey(g.tree)
    PROVE  /\ GoodTree(n.tree) /\ ListsFit(n, hidden)
           /\ Grown(g.tree, n.tree)
           /\ k \in NodesOf(n.tree) /\ n.tree[k].name = k
<1>1. PICK t, u : t = g.tree /\ u = n.tree
  OBVIOUS
<1>2. /\ GoodTree(u)
      /\ k \notin DOMAIN t /\ k # None
      /\ DOMAIN u = DOMAIN t \cup {k}
      /\ \A j \in DOMAIN t : u[j] = t[j]
      /\ u[k] = [name |-> k, object |-> object, from |-> None, to |-> None, parent |-> parent]
      /\ NodesOf(u) = NodesOf(t) \cup {k}
      /\ n.nodes = g.nodes \cup {k}
      /\ n.record[k] = [name |-> k, object |-> object, big |-> FALSE]
      /\ k \in DOMAIN n.record
      /\ \A j \in DOMAIN g.record : j \in DOMAIN n.record /\ (j # k => n.record[j] = g.record[j])
  <2>1. GoodTree(g.tree) /\ k = NextTreeKey(g.tree) /\ n = WithNode(g, object, parent)
    OBVIOUS
  <2>2. /\ object = "house" => parent # None
        /\ parent # None => \E p \in NodesOf(g.tree) : parent = g.tree[p].name
    OBVIOUS
  <2>3. /\ GoodTree(n.tree)
        /\ k \notin DOMAIN g.tree /\ k # None
        /\ DOMAIN n.tree = DOMAIN g.tree \cup {k}
        /\ \A j \in DOMAIN g.tree : n.tree[j] = g.tree[j]
        /\ n.tree[k] = [name |-> k, object |-> object, from |-> None, to |-> None,
                        parent |-> parent]
        /\ NodesOf(n.tree) = NodesOf(g.tree) \cup {k}
        /\ LinksOf(n.tree) = IF parent = None THEN LinksOf(g.tree)
                             ELSE LinksOf(g.tree) \cup {LinkOf(n.tree, k)}
    BY ONLY <2>1, <2>2, WithNodeTree
  <2>4. /\ n.nodes = g.nodes \cup {k}
        /\ n.record[k] = [name |-> k, object |-> object, big |-> FALSE]
        /\ k \in DOMAIN n.record
        /\ \A j \in DOMAIN g.record : j \in DOMAIN n.record /\ (j # k => n.record[j] = g.record[j])
    BY ONLY <2>1, WithNodeRecord
  <2> QED
    BY <1>1, <2>3, <2>4
<1>3. \A j \in g.nodes \cup hidden : j \in NodesOf(t) /\ j \in DOMAIN t /\ j # k
  BY <1>1, <1>2 DEF ListsFit, NodesOf
<1>4. n.nodes \cap hidden = {}
  BY <1>2, <1>3 DEF ListsFit
<1>5. ASSUME NEW j \in n.nodes \cup hidden
      PROVE  /\ j \in NodesOf(u) /\ j \in DOMAIN n.record
             /\ n.record[j] = [name |-> u[j].name, object |-> u[j].object, big |-> n.record[j].big]
  <2>1. CASE j = k
    <3>1. n.record[j] = [name |-> k, object |-> object, big |-> FALSE]
      BY <1>2, <2>1
    <3>2. u[j].name = k /\ u[j].object = object
      BY <1>2, <2>1
    <3>3. n.record[j].big = FALSE
      BY <3>1
    <3> QED
      BY <1>2, <2>1, <3>1, <3>2, <3>3
  <2>2. CASE j # k
    <3>1. j \in g.nodes \cup hidden
      BY <1>2, <2>2
    <3>2. /\ j \in NodesOf(t) /\ j \in DOMAIN g.record
          /\ g.record[j] = [name |-> t[j].name, object |-> t[j].object, big |-> g.record[j].big]
      BY <1>1, <3>1 DEF ListsFit
    <3>3. u[j] = t[j] /\ n.record[j] = g.record[j] /\ j \in DOMAIN n.record
      BY <1>2, <1>3, <2>2, <3>1, <3>2
    <3> QED
      BY <1>2, <3>2, <3>3
  <2> QED
    BY <2>1, <2>2
<1>6. ListsFit(n, hidden)
  BY <1>1, <1>4, <1>5 DEF ListsFit
<1>7. Grown(t, u) /\ k \in NodesOf(u) /\ u[k].name = k
  BY <1>2 DEF Grown
<1> QED
  BY <1>1, <1>2, <1>6, <1>7

(* The child, or an exception with or without it.                          *)
LEMMA WithChildLists ==
    ASSUME NEW g, GoodTree(g.tree), NEW hidden, ListsFit(g, hidden), IsGraph(g),
           NEW object, NEW p, g.ok => p = None \/ p \in NodesOf(g.tree),
           NEW n \in WithChild(g, object, p), NEW k, k = NextTreeKey(g.tree)
    PROVE  /\ GoodTree(n.tree) /\ ListsFit(n, hidden) /\ IsGraph(n)
           /\ Grown(g.tree, n.tree)
           /\ n.ok => k \in NodesOf(n.tree) /\ n.tree[k].name = k
<1>1. PICK new, parent : parent = g.tree[p].name /\ new = WithNode(g, object, parent)
  OBVIOUS
<1>2. ASSUME g.ok, p # None
      PROVE  /\ GoodTree(new.tree) /\ ListsFit(new, hidden)
             /\ Grown(g.tree, new.tree)
             /\ k \in NodesOf(new.tree) /\ new.tree[k].name = k
             /\ g.nodes \subseteq new.nodes
             /\ \A j \in g.nodes \cup hidden : new.record[j] = g.record[j]
  <2>1. p \in NodesOf(g.tree)
    BY <1>2
  <2>2. parent # None
    BY <1>1, <2>1 DEF NodesOf, GoodTree, GoodObject
  <2>3. /\ GoodTree(new.tree) /\ ListsFit(new, hidden)
        /\ Grown(g.tree, new.tree)
        /\ k \in NodesOf(new.tree) /\ new.tree[k].name = k
    BY <1>1, <2>1, <2>2, WithNodeLists
  <2>4. g.nodes \subseteq new.nodes
    BY <1>1 DEF WithNode
  <2>5. k \notin DOMAIN g.tree
    BY KeyIsFree DEF GoodTree
  <2>6. \A j \in g.nodes \cup hidden : j \in DOMAIN g.record /\ j # k
    BY <2>5 DEF ListsFit, NodesOf
  <2>7. \A j \in DOMAIN g.record : j # k => new.record[j] = g.record[j]
    <3>1. PICK x : x = [name |-> k, object |-> object, big |-> FALSE]
      OBVIOUS
    <3>2. new.record = Extended(g.record, k, x)
      BY <1>1, <3>1 DEF WithNode
    <3> QED
      BY <3>2 DEF Extended
  <2> QED
    BY <2>3, <2>4, <2>6, <2>7
<1>3. CASE ~g.ok
  <2>1. n = g
    BY <1>3 DEF WithChild
  <2> QED
    BY <1>3, <2>1 DEF Grown
<1>4. CASE g.ok /\ (p = None \/ ~GridNodeDrawn(g))
  <2>1. n \in Thrown(g, new, p)
    BY <1>1, <1>4 DEF WithChild
  <2>2. CASE n = [g EXCEPT !.ok = FALSE]
    <3>1. /\ n.tree = g.tree /\ n.nodes = g.nodes /\ n.record = g.record /\ ~n.ok /\ IsGraph(n)
      BY <2>2 DEF IsGraph
    <3> QED
      BY <3>1 DEF ListsFit, Grown
  <2>3. CASE p # None /\ n = [g EXCEPT !.tree = new.tree, !.ok = FALSE]
    <3>1. PICK u : u = new.tree
      OBVIOUS
    <3>2. n = [g EXCEPT !.tree = u, !.ok = FALSE]
      BY <2>3, <3>1
    <3>3. /\ n.tree = u /\ n.nodes = g.nodes /\ n.record = g.record /\ ~n.ok /\ IsGraph(n)
      BY <3>2 DEF IsGraph
    <3>4. /\ GoodTree(u) /\ Grown(g.tree, u)
          /\ ListsFit(new, hidden) /\ g.nodes \subseteq new.nodes
          /\ \A j \in g.nodes \cup hidden : new.record[j] = g.record[j]
      BY <1>2, <1>4, <2>3, <3>1
    <3>5. ListsFit(n, hidden)
      <4>1. n.nodes \cap hidden = {}
        BY <3>3 DEF ListsFit
      <4>2. ASSUME NEW j \in n.nodes \cup hidden
            PROVE  /\ j \in NodesOf(u) /\ j \in DOMAIN n.record
                   /\ n.record[j] = [name |-> u[j].name, object |-> u[j].object,
                                     big |-> n.record[j].big]
        <5>1. j \in g.nodes \cup hidden /\ j \in new.nodes \cup hidden
          BY <3>3, <3>4
        <5>2. /\ j \in NodesOf(u)
              /\ new.record[j] = [name |-> u[j].name, object |-> u[j].object,
                                  big |-> new.record[j].big]
          BY <3>1, <3>4, <5>1 DEF ListsFit
        <5>3. new.record[j] = g.record[j] /\ j \in DOMAIN g.record
          BY <3>4, <5>1 DEF ListsFit
        <5> QED
          BY <3>3, <5>2, <5>3
      <4> QED
        BY <3>3, <4>1, <4>2 DEF ListsFit
    <3> QED
      BY <3>3, <3>4, <3>5
  <2> QED
    BY <2>1, <2>2, <2>3 DEF Thrown
<1>5. CASE g.ok /\ p # None /\ GridNodeDrawn(g)
  <2>1. /\ n.tree = new.tree /\ n.nodes = new.nodes /\ n.record = new.record /\ IsGraph(n)
    BY <1>1, <1>5, WithChildShape DEF Asked
  <2> QED
    BY <1>2, <1>5, <2>1 DEF ListsFit
<1> QED
  BY <1>3, <1>4, <1>5

LEMMA WithHouseLists ==
    ASSUME NEW g, GoodTree(g.tree), NEW hidden, ListsFit(g, hidden), IsGraph(g),
           NEW p, p = None \/ p \in NodesOf(g.tree), NEW n \in WithHouse(g, p)
    PROVE  GoodTree(n.tree) /\ ListsFit(n, hidden) /\ Grown(g.tree, n.tree)
<1>1. PICK k : k = NextTreeKey(g.tree)
  OBVIOUS
<1>2. PICK house, lit :
          /\ house \in WithChild(g, "house", p)
          /\ lit \in WithChild(house, "ZIPload", KeyNamed(house.tree, k))
          /\ n = lit \/ n \in WithChild(lit, "waterheater", KeyNamed(lit.tree, k))
  BY <1>1, WithHouseSteps
<1>3. /\ GoodTree(house.tree) /\ ListsFit(house, hidden) /\ IsGraph(house)
      /\ Grown(g.tree, house.tree)
      /\ house.ok => k \in NodesOf(house.tree) /\ house.tree[k].name = k
  BY <1>1, <1>2, WithChildLists
<1>4. ASSUME NEW h, GoodTree(h.tree), k \in NodesOf(h.tree), h.tree[k].name = k
      PROVE  KeyNamed(h.tree, k) \in NodesOf(h.tree)
  <2>1. PICK t : t = h.tree
    OBVIOUS
  <2>2. KeyNamed(t, t[k].name) = k
    BY <1>4, <2>1, KeyNamedIs DEF NodesOf
  <2> QED
    BY <1>4, <2>1, <2>2
<1>5. PICK object, j, q : /\ object = "ZIPload" /\ j = NextTreeKey(house.tree)
                          /\ q = KeyNamed(house.tree, k)
  OBVIOUS
<1>6. house.ok => q \in NodesOf(house.tree)
  BY <1>3, <1>4, <1>5
<1>7. /\ GoodTree(lit.tree) /\ ListsFit(lit, hidden) /\ IsGraph(lit)
      /\ Grown(house.tree, lit.tree)
  <2>1. lit \in WithChild(house, object, q)
    BY <1>2, <1>5
  <2> QED
    BY <1>3, <1>5, <1>6, <2>1, WithChildLists
<1>8. lit.ok => k \in NodesOf(lit.tree) /\ lit.tree[k].name = k
  <2>1. lit.ok => house.ok
    BY <1>2 DEF WithChild
  <2> QED
    BY <1>3, <1>7, <2>1 DEF Grown, NodesOf
<1>9. CASE n = lit
  BY <1>3, <1>7, <1>9 DEF Grown
<1>10. CASE n \in WithChild(lit, "waterheater", KeyNamed(lit.tree, k))
  <2>1. PICK o, i, r : /\ o = "waterheater" /\ i = NextTreeKey(lit.tree)
                       /\ r = KeyNamed(lit.tree, k)
    OBVIOUS
  <2>2. lit.ok => r \in NodesOf(lit.tree)
    BY <1>4, <1>7, <1>8, <2>1
  <2>3. /\ GoodTree(n.tree) /\ ListsFit(n, hidden)
        /\ Grown(lit.tree, n.tree)
    BY <1>7, <1>10, <2>1, <2>2, WithChildLists
  <2> QED
    BY <1>3, <1>7, <2>3 DEF Grown
<1> QED
  BY <1>2, <1>9, <1>10

(* Some record goes with the object, or its own does.                      *)
LEMMA DeletedLists ==
    ASSUME NEW g, GoodTree(g.tree), NEW hidden, ListsFit(g, hidden),
           NEW k \in DOMAIN g.tree, k \notin hidden, IsLink(g.tree[k]) \/ ~Connected(g.tree, k),
           NEW n \in Deleted(g, k)
    PROVE  /\ GoodTree(n.tree) /\ ListsFit(n, hidden) /\ IsGraph(n)
           /\ Less(g.tree, n.tree, k)
<1>1. PICK t, u : t = g.tree /\ u = n.tree
  OBVIOUS
<1>2. Less(t, u, k) /\ n.record = g.record /\ IsGraph(n)
  BY <1>1, DeletedTree
<1>3. GoodTree(u) /\ NodesOf(u) = NodesOf(t) \ {k}
  <2>1. GoodTree(t) /\ k \in DOMAIN t /\ (IsLink(t[k]) \/ ~Connected(t, k))
    BY <1>1
  <2> QED
    BY ONLY <1>2, <2>1, RemovedIsGood
<1>4. n.nodes \subseteq g.nodes \ {k}
  <2>1. CASE IsLink(t[k])
    <3>1. k \notin g.nodes
      BY <1>1, <2>1 DEF ListsFit, NodesOf
    <3> QED
      BY <1>1, <2>1, <3>1, DeletedTree
  <2>2. CASE ~IsLink(t[k])
    <3>1. n.nodes \in Spliced(g.nodes, g.nodes \cap {k})
      BY <1>1, <2>2, DeletedTree
    <3> QED
      BY <3>1 DEF Spliced
  <2> QED
    BY <2>1, <2>2
<1>5. ASSUME NEW j \in n.nodes \cup hidden
      PROVE  /\ j \in NodesOf(u) /\ j \in DOMAIN n.record
             /\ n.record[j] = [name |-> u[j].name, object |-> u[j].object, big |-> n.record[j].big]
  <2>1. j \in g.nodes \cup hidden /\ j # k
    BY <1>4
  <2>2. /\ j \in NodesOf(t) /\ j \in DOMAIN g.record
        /\ g.record[j] = [name |-> t[j].name, object |-> t[j].object, big |-> g.record[j].big]
    BY <1>1, <2>1 DEF ListsFit
  <2>3. j \in NodesOf(u) /\ u[j] = t[j]
    BY <1>2, <1>3, <2>1, <2>2 DEF NodesOf, Less
  <2> QED
    BY <1>2, <2>2, <2>3
<1>6. n.nodes \cap hidden = {}
  BY <1>4 DEF ListsFit
<1>7. ListsFit(n, hidden)
  BY <1>1, <1>5, <1>6 DEF ListsFit
<1> QED
  BY <1>1, <1>2, <1>3, <1>7

LEMMA SetGraphLists ==
    ASSUME NEW g, SetGraph(g), GoodTree(g.tree), ListsFit(g, hiddenNodes)
    PROVE  ListsInv' /\ tree' = g.tree /\ hiddenNodes' = hiddenNodes
<1>1. PICK kept : kept = g.nodes \cup hiddenNodes \cup UNION {Ends(l) : l \in g.links \cup hiddenLinks}
  OBVIOUS
<1>2. /\ tree' = g.tree /\ nodes' = g.nodes
      /\ record' = [k \in kept \cap DOMAIN g.record |-> g.record[k]]
      /\ hiddenNodes' = hiddenNodes
  BY <1>1 DEF SetGraph
<1>3. PICK h : h = [tree |-> tree', nodes |-> nodes', links |-> links', record |-> record',
                    ok |-> TRUE]
  OBVIOUS
<1>4. h.tree = g.tree /\ h.nodes = g.nodes /\ h.record = record'
  BY <1>2, <1>3
<1>5. \A k \in g.nodes \cup hiddenNodes :
          k \in DOMAIN g.record /\ k \in DOMAIN h.record /\ h.record[k] = g.record[k]
  BY <1>1, <1>2, <1>4 DEF ListsFit
<1>6. ListsFit(h, hiddenNodes)
  BY <1>4, <1>5 DEF ListsFit
<1> QED
  BY <1>2, <1>3, <1>4, <1>6 DEF ListsInv, Graph

(* Records are drawn or folded, some with another size.                    *)
LEMMA MovedLists ==
    ASSUME ListsInv, tree' = tree, nodes' \cap hiddenNodes' = {},
           nodes' \cup hiddenNodes' \subseteq nodes \cup hiddenNodes,
           \A k \in nodes' \cup hiddenNodes' :
              /\ k \in DOMAIN record => k \in DOMAIN record'
              /\ record'[k] = record[k] \/ \E b : record'[k] = [record[k] EXCEPT !.big = b]
    PROVE  ListsInv'
<1>1. PICK g, h :
          /\ g = Graph
          /\ h = [tree |-> tree', nodes |-> nodes', links |-> links', record |-> record',
                  ok |-> TRUE]
  OBVIOUS
<1>2. /\ g.tree = tree /\ g.nodes = nodes /\ g.record = record
      /\ h.tree = tree /\ h.nodes = nodes' /\ h.record = record'
  BY <1>1 DEF Graph
<1>3. GoodTree(tree) /\ ListsFit(g, hiddenNodes)
  BY <1>1 DEF ListsInv
<1>4. ASSUME NEW k \in h.nodes \cup hiddenNodes'
      PROVE  /\ k \in NodesOf(h.tree) /\ k \in DOMAIN h.record
             /\ h.record[k] = [name |-> h.tree[k].name, object |-> h.tree[k].object,
                               big |-> h.record[k].big]
  <2>1. /\ k \in NodesOf(tree) /\ k \in DOMAIN record
        /\ record[k] = [name |-> tree[k].name, object |-> tree[k].object, big |-> record[k].big]
    BY <1>2, <1>3 DEF ListsFit
  <2>2. PICK x, y, n, o, c :
            /\ x = record[k] /\ y = record'[k]
            /\ n = tree[k].name /\ o = tree[k].object /\ c = record[k].big
    OBVIOUS
  <2>3. x = [name |-> n, object |-> o, big |-> c]
    BY <2>1, <2>2
  <2>4. y = x \/ \E b : y = [x EXCEPT !.big = b]
    BY <1>2, <2>2
  <2>5. y = [name |-> n, object |-> o, big |-> y.big]
    BY ONLY <2>3, <2>4
  <2> QED
    BY <1>2, <2>1, <2>2, <2>5
<1>5. ListsFit(h, hiddenNodes')
  BY <1>2, <1>4 DEF ListsFit
<1> QED
  BY <1>1, <1>2, <1>3, <1>5 DEF ListsInv, Graph

LEMMA SameLists == ASSUME ListsInv, UNCHANGED drawing PROVE ListsInv'
<1>1. tree' = tree /\ nodes' = nodes /\ hiddenNodes' = hiddenNodes /\ record' = record
  BY DEF drawing
<1>2. nodes \cap hiddenNodes = {}
  BY DEF ListsInv, ListsFit, Graph
<1> QED
  BY <1>1, <1>2, MovedLists

LEMMA FoldLists ==
    ASSUME ListsInv, NEW hide, hide \subseteq nodes, Fold(hide)
    PROVE  ListsInv'
<1>1. nodes \cap hiddenNodes = {}
  BY DEF ListsInv, ListsFit, Graph
<1>2. nodes' = nodes \ hide /\ hiddenNodes' = hiddenNodes \cup hide /\ tree' = tree
  BY DEF Fold
<1>3. PICK large : record' = [k \in DOMAIN record |->
                                IF k \in large THEN [record[k] EXCEPT !.big = TRUE] ELSE record[k]]
  <2>1. PICK gone : gone = {l \in links : Touches(l, NamesOf(hide))}
    OBVIOUS
  <2>2. PICK last : record' = [k \in DOMAIN record |->
            IF \/ k \in last
               \/ k \in nodes \ hide /\ (\E l \in gone : Touches(l, NamesOf({k})))
            THEN [record[k] EXCEPT !.big = TRUE] ELSE record[k]]
    BY <2>1 DEF Fold
  <2>3. PICK large : large = last \cup {k \in nodes \ hide : \E l \in gone : Touches(l, NamesOf({k}))}
    OBVIOUS
  <2>4. \A k : k \in large <=> \/ k \in last
                               \/ k \in nodes \ hide /\ (\E l \in gone : Touches(l, NamesOf({k})))
    BY <2>3
  <2> QED
    BY <2>2, <2>4, Zenon
<1>4. \A k \in DOMAIN record :
          k \in DOMAIN record' /\ (record'[k] = record[k] \/ record'[k] = [record[k] EXCEPT !.big = TRUE])
  BY <1>3
<1>5. \A k \in nodes' \cup hiddenNodes' :
          /\ k \in DOMAIN record => k \in DOMAIN record'
          /\ record'[k] = record[k] \/ \E b : record'[k] = [record[k] EXCEPT !.big = b]
  <2>1. \A k \in nodes \cup hiddenNodes : k \in DOMAIN record
    BY DEF ListsInv, ListsFit, Graph
  <2> QED
    BY <1>2, <1>4, <2>1
<1> QED
  BY <1>1, <1>2, <1>5, MovedLists

LEMMA UnfoldLists ==
    ASSUME ListsInv, (\E reveal : Unfold(reveal)) \/ UnfoldAll
    PROVE  ListsInv'
<1>1. nodes \cap hiddenNodes = {} /\ \A k \in nodes \cup hiddenNodes : k \in DOMAIN record
  BY DEF ListsInv, ListsFit, Graph
<1>2. PICK back, ks :
          /\ nodes' = nodes \cup back /\ hiddenNodes' = hiddenNodes \ back
          /\ back \subseteq hiddenNodes
          /\ record' = Resized(ks)
  <2>1. CASE \E reveal : Unfold(reveal)
    <3>1. PICK reveal : Unfold(reveal)
      BY <2>1
    <3>2. PICK back, ks :
              /\ back = {k \in hiddenNodes : \E l \in reveal : Touches(l, NamesOf({k}))}
              /\ ks = {k \in nodes : \E l \in reveal : Touches(l, NamesOf({k}))}
      OBVIOUS
    <3> QED
      BY <3>1, <3>2 DEF Unfold
  <2>2. CASE UnfoldAll
    BY <2>2 DEF UnfoldAll
  <2> QED
    BY <2>1, <2>2
<1>3. tree' = tree
  BY DEF Unfold, UnfoldAll
<1>4. \A k \in DOMAIN record :
          k \in DOMAIN record' /\ (record'[k] = record[k] \/ record'[k] = [record[k] EXCEPT !.big = FALSE])
  BY <1>2 DEF Resized
<1>5. \A k \in nodes' \cup hiddenNodes' :
          /\ k \in DOMAIN record => k \in DOMAIN record'
          /\ record'[k] = record[k] \/ \E b : record'[k] = [record[k] EXCEPT !.big = b]
  BY <1>1, <1>2, <1>4
<1> QED
  BY <1>1, <1>2, <1>3, <1>5, MovedLists

(* The graph of the page, for the handlers that change the tree.           *)
LEMMA PageLists ==
    ASSUME ListsInv
    PROVE  \E g : /\ g = Graph /\ g.ok /\ IsGraph(g)
                  /\ g.tree = tree /\ g.nodes = nodes /\ g.links = links /\ g.record = record
                  /\ GoodTree(g.tree) /\ ListsFit(g, hiddenNodes)
<1>1. PICK g : g = [tree |-> tree, nodes |-> nodes, links |-> links, record |-> record, ok |-> TRUE]
  OBVIOUS
<1>2. /\ g.ok /\ IsGraph(g)
      /\ g.tree = tree /\ g.nodes = nodes /\ g.links = links /\ g.record = record
  BY <1>1 DEF IsGraph
<1>3. g = Graph
  BY <1>1 DEF Graph
<1> QED
  BY <1>2, <1>3 DEF ListsInv

LEMMA NewNodeLists == ASSUME ListsInv, NewNode PROVE ListsInv'
<1>1. PICK g : /\ g = Graph /\ GoodTree(g.tree) /\ ListsFit(g, hiddenNodes)
  BY PageLists
<1>2. PICK object, parent, k : object = "node" /\ parent = None /\ k = NextTreeKey(g.tree)
  OBVIOUS
<1>3. PICK n : n = WithNode(g, object, parent)
  OBVIOUS
<1>4. GoodTree(n.tree) /\ ListsFit(n, hiddenNodes)
  <2>1. /\ object = "house" => parent # None
        /\ parent # None => \E p \in NodesOf(g.tree) : parent = g.tree[p].name
    BY <1>2
  <2> QED
    BY ONLY <1>1, <1>2, <1>3, <2>1, WithNodeLists
<1>5. SetGraph(n)
  BY <1>1, <1>2, <1>3 DEF NewNode
<1> QED
  BY <1>4, <1>5, SetGraphLists

LEMMA NewLinkLists == ASSUME ListsInv, NEW alt \in nodes, NewLink(alt) PROVE ListsInv'
<1>1. PICK g : /\ g = Graph
               /\ g.tree = tree /\ g.nodes = nodes /\ g.record = record
               /\ GoodTree(g.tree) /\ ListsFit(g, hiddenNodes)
  BY PageLists
<1>2. PICK t, k : t = tree /\ t = g.tree /\ k = NextTreeKey(tree)
  BY <1>1
<1>3. k \in Nat \ {None} /\ k \notin DOMAIN t
  BY <1>1, <1>2, KeyIsFree DEF GoodTree
<1>4. PICK from, to : from = record[ti].name /\ to = record[alt].name
  OBVIOUS
<1>5. ti \in nodes
  BY DEF NewLink, Selected
<1>6. ASSUME NEW j \in nodes PROVE j \in NodesOf(t) /\ record[j].name = t[j].name
  <2>1. PICK b : record[j] = [name |-> t[j].name, object |-> t[j].object, big |-> b]
    BY <1>1, <1>2 DEF ListsFit
  <2> QED
    BY <1>1, <1>2, <2>1 DEF ListsFit
<1>7. /\ ti \in NodesOf(t) /\ from = t[ti].name
      /\ alt \in NodesOf(t) /\ to = t[alt].name
  BY <1>4, <1>5, <1>6
<1>8. PICK x : x = [name |-> k, object |-> "link", from |-> from, to |-> to, parent |-> None]
  OBVIOUS
<1>9. GoodObject(x) /\ x.name = k /\ IsLink(x)
  <2>1. from # None /\ to # None
    BY <1>1, <1>2, <1>7 DEF GoodTree, GoodObject, NodesOf
  <2> QED
    BY <1>3, <1>8, <2>1 DEF GoodObject, IsObject, IsLink
<1>10. \A n \in {x.from, x.to, x.parent} : n # None => \E p \in NodesOf(t) : n = t[p].name
  BY <1>7, <1>8
<1>11. PICK u : u = tree' /\ u = Extended(t, k, x)
  BY <1>2, <1>4, <1>8 DEF NewLink
<1>12. GoodTree(u)
  BY ONLY <1>1, <1>2, <1>3, <1>9, <1>10, <1>11, ExtendedIsGood
<1>13. \A j \in NodesOf(t) : j \in NodesOf(u) /\ u[j] = t[j]
  BY <1>3, <1>11 DEF Extended, NodesOf
<1>14. nodes' = nodes /\ hiddenNodes' = hiddenNodes /\ record' = record
  BY DEF NewLink
<1>15. PICK h : h = [tree |-> tree', nodes |-> nodes', links |-> links', record |-> record',
                     ok |-> TRUE]
  OBVIOUS
<1>16. h.tree = u /\ h.nodes = g.nodes /\ h.record = g.record
  BY <1>1, <1>11, <1>14, <1>15
<1>17. ListsFit(h, hiddenNodes)
  <2>1. GoodTree(t) /\ t = g.tree /\ ListsFit(g, hiddenNodes)
    BY <1>1, <1>2
  <2> QED
    BY ONLY <1>13, <1>16, <2>1 DEF ListsFit
<1> QED
  BY <1>11, <1>12, <1>14, <1>15, <1>17 DEF ListsInv, Graph

LEMMA NewChildLists ==
    ASSUME ListsInv, NEW object, NewChildAtSelected(object)
    PROVE  ListsInv'
<1>1. PICK g : /\ g = Graph /\ g.ok /\ IsGraph(g) /\ g.nodes = nodes
               /\ GoodTree(g.tree) /\ ListsFit(g, hiddenNodes)
  BY PageLists
<1>2. ti \in NodesOf(g.tree)
  BY <1>1 DEF NewChildAtSelected, Selected, ListsFit
<1>3. PICK n \in WithChild(g, object, ti) : SetGraph(n)
  BY <1>1 DEF NewChildAtSelected
<1>4. PICK k : k = NextTreeKey(g.tree)
  OBVIOUS
<1>5. GoodTree(n.tree) /\ ListsFit(n, hiddenNodes)
  BY ONLY <1>1, <1>2, <1>3, <1>4, WithChildLists
<1> QED
  BY <1>3, <1>5, SetGraphLists

LEMMA DeleteObjectLists == ASSUME Careful, ListsInv, DeleteObject PROVE ListsInv'
<1>1. PICK g : /\ g = Graph /\ g.tree = tree /\ g.nodes = nodes
               /\ GoodTree(g.tree) /\ ListsFit(g, hiddenNodes)
  BY PageLists
<1>2. PICK n \in Deleted(g, ti) : SetGraph(n)
  BY <1>1 DEF DeleteObject
<1>3. ti \in DOMAIN g.tree /\ (IsLink(g.tree[ti]) \/ ~Connected(g.tree, ti))
  BY <1>1 DEF DeleteObject
<1>4. ti \notin hiddenNodes
  <2>1. ti \in nodes \/ IsLink(tree[ti])
    BY DEF DeleteObject, Shown
  <2> QED
    BY <1>1, <2>1 DEF ListsFit, NodesOf
<1>5. GoodTree(n.tree) /\ ListsFit(n, hiddenNodes)
  BY <1>1, <1>2, <1>3, <1>4, DeletedLists
<1> QED
  BY <1>2, <1>5, SetGraphLists

(* The record with the old name, if one is drawn, is that of the object.   *)
LEMMA SaveObjectLists ==
    ASSUME Careful, TypedNames, ListsInv, NEW new \in OwnNames, NEW ends, NEW second,
           SaveObject(new, ends, second)
    PROVE  ListsInv'
<1>1. PICK g : /\ g = Graph
               /\ g.tree = tree /\ g.nodes = nodes /\ g.record = record
               /\ GoodTree(g.tree) /\ ListsFit(g, hiddenNodes)
  BY PageLists
<1>2. PICK t, k, old : t = g.tree /\ k = ti /\ old = t[k].name
  OBVIOUS
<1>3. k \in DOMAIN t /\ GoodTree(t) /\ k \notin hiddenNodes
  BY <1>1, <1>2 DEF SaveObject
<1>4. new # None /\ new \notin Nat /\ \A j \in DOMAIN t : t[j].name # new
  BY <1>1, <1>2, FeederAssumption DEF TypedNames, SaveObject, IsNameAlreadyUsed
<1>5. PICK u : u = [j \in DOMAIN t |->
                      [name |-> Renamed(t[j].name, old, new), object |-> t[j].object,
                       from |-> Renamed(t[j].from, old, new), to |-> Renamed(t[j].to, old, new),
                       parent |-> Renamed(t[j].parent, old, new)]]
  OBVIOUS
<1>6. ~IsNameAlreadyUsed(new)
  BY <1>1, <1>2, <1>4 DEF IsNameAlreadyUsed
<1>7. tree' = u
  BY <1>1, <1>2, <1>5, <1>6 DEF SaveObject, Renamed
<1>8. /\ GoodTree(u)
      /\ NodesOf(u) = NodesOf(t)
      /\ u[k].name = new
      /\ \A j \in DOMAIN t : /\ u[j].object = t[j].object
                             /\ j # k => u[j].name = t[j].name
  BY ONLY <1>2, <1>3, <1>4, <1>5, RenamedIsGood, SMTT(30)
<1>9. nodes' = nodes /\ hiddenNodes' = hiddenNodes
  BY DEF SaveObject
<1>10. PICK q \in Found(g, old) :
           record' = IF q = None THEN record ELSE [record EXCEPT ![q].name = new]
  BY <1>1, <1>2, <1>6 DEF SaveObject
<1>11. ASSUME NEW j \in nodes \cup hiddenNodes
       PROVE  /\ j \in NodesOf(t) /\ j \in DOMAIN t /\ j \in DOMAIN record
              /\ record[j] = [name |-> t[j].name, object |-> t[j].object, big |-> record[j].big]
              /\ record[j].name = t[j].name
  <2>1. PICK b : b = record[j].big
    OBVIOUS
  <2>2. record[j] = [name |-> t[j].name, object |-> t[j].object, big |-> b]
    BY <1>1, <1>2, <2>1 DEF ListsFit
  <2>3. record[j].name = t[j].name
    BY <2>2
  <2> QED
    BY <1>1, <1>2, <2>1, <2>2, <2>3 DEF ListsFit, NodesOf
<1>12. q = IF k \in nodes THEN k ELSE None
  <2>1. \A j \in nodes : record[j].name = old => j = k
    BY <1>2, <1>3, <1>11 DEF GoodTree, Distinct
  <2>2. k \in nodes => record[k].name = old
    BY <1>2, <1>11
  <2> QED
    BY <1>1, <1>10, <2>1, <2>2 DEF Found
<1>13. ASSUME NEW j \in nodes \cup hiddenNodes
       PROVE  /\ j \in NodesOf(u) /\ j \in DOMAIN record'
              /\ record'[j] = [name |-> u[j].name, object |-> u[j].object,
                               big |-> record'[j].big]
  <2>1. PICK x, n, o, b : /\ x = record[j] /\ n = t[j].name /\ o = t[j].object
                          /\ b = record[j].big
    OBVIOUS
  <2>2. x = [name |-> n, object |-> o, big |-> b] /\ j \in DOMAIN record /\ j # None
    BY <1>3, <1>11, <2>1 DEF GoodTree
  <2>3. PICK y : y = [x EXCEPT !.name = new]
    OBVIOUS
  <2>4. y = [name |-> new, object |-> o, big |-> b] /\ y.big = b /\ x.big = b
    BY ONLY <2>2, <2>3
  <2>5. CASE j = k
    <3>1. j \in nodes
      BY <1>3, <2>5
    <3>2. record' = [record EXCEPT ![k].name = new]
      BY <1>10, <1>12, <2>2, <2>5, <3>1
    <3>3. j \in DOMAIN record' /\ record'[j] = y
      BY <2>1, <2>2, <2>3, <2>5, <3>2
    <3>4. u[j].name = new /\ u[j].object = o
      BY <1>8, <1>11, <2>1, <2>5
    <3> QED
      BY <1>8, <1>11, <2>4, <3>3, <3>4
  <2>6. CASE j # k
    <3>1. j \in DOMAIN record' /\ record'[j] = x
      BY <1>10, <1>12, <2>1, <2>2, <2>6
    <3>2. u[j].name = n /\ u[j].object = o
      BY <1>8, <1>11, <2>1, <2>6
    <3> QED
      BY <1>8, <1>11, <2>2, <2>4, <3>1, <3>2
  <2> QED
    BY <2>5, <2>6
<1>14. PICK h : h = [tree |-> tree', nodes |-> nodes', links |-> links', record |-> record',
                     ok |-> TRUE]
  OBVIOUS
<1>15. h.tree = u /\ h.nodes = nodes /\ h.record = record'
  BY <1>7, <1>9, <1>14
<1>16. nodes \cap hiddenNodes = {}
  BY <1>1 DEF ListsFit
<1>17. ListsFit(h, hiddenNodes)
  BY <1>13, <1>15, <1>16 DEF ListsFit
<1> QED
  BY <1>7, <1>8, <1>9, <1>14, <1>17 DEF ListsInv, Graph

(* Objects the job has not come to stay in the tree.                       *)
LEMMA ReplaceAllHousesLists ==
    ASSUME ListsInv, TodoInv, ReplaceAllHouses
    PROVE  ListsInv' /\ TodoInv'
<1>1. PICK k : k = Min(todo)
  OBVIOUS
<1>2. /\ job = "houses" /\ job' = job /\ todo' = todo \ {k}
      /\ todo \subseteq DOMAIN tree
      /\ \A h \in hiddenNodes : tree[h].object # "triplex_node"
  BY <1>1 DEF ReplaceAllHouses, TodoInv
<1>3. PICK g : /\ g = Graph /\ g.ok /\ IsGraph(g) /\ g.tree = tree
               /\ GoodTree(g.tree) /\ ListsFit(g, hiddenNodes)
  BY PageLists
<1>4. PICK t : t = tree /\ t = g.tree
  BY <1>3
<1>5. k \in DOMAIN t
  <2>1. todo # {}
    BY DEF ReplaceAllHouses, Over
  <2> QED
    BY <1>1, <1>3, <1>4, <2>1, NextOfJob
<1>6. CASE ~IsNodeOfMeter(k)
  <2>1. UNCHANGED drawing
    BY <1>1, <1>6 DEF ReplaceAllHouses
  <2> QED
    BY <1>2, <2>1, SameLists DEF TodoInv, drawing
<1>7. CASE IsNodeOfMeter(k)
  <2>1. t[k].object = "triplex_node" /\ t[k].parent # None
    BY <1>4, <1>7 DEF IsNodeOfMeter
  <2>2. PICK p : p = KeyNamed(t, t[k].parent)
    OBVIOUS
  <2>3. p \in NodesOf(t) /\ t[p].name = t[k].parent
    BY <1>3, <1>4, <1>5, <2>1, <2>2, ReferenceFound
  <2>4. k \notin hiddenNodes
    BY <1>2, <1>4, <2>1
  <2>5. PICK w, n :
            /\ w \in IF Connected(t, k) THEN {g} ELSE Deleted(g, k)
            /\ n \in WithHouse(w, p) /\ SetGraph(n)
    BY <1>1, <1>3, <1>4, <1>7, <2>2 DEF ReplaceAllHouses, ReplaceNode
  <2>6. /\ GoodTree(w.tree) /\ ListsFit(w, hiddenNodes) /\ IsGraph(w)
        /\ w.tree = t \/ Less(t, w.tree, k)
        /\ p \in NodesOf(w.tree)
    <3>1. CASE Connected(t, k)
      <4>1. w = g
        BY <2>5, <3>1
      <4> QED
        BY <1>3, <1>4, <2>3, <4>1
    <3>2. CASE ~Connected(t, k)
      <4>1. w \in Deleted(g, k) /\ k \in DOMAIN g.tree /\ ~Connected(g.tree, k)
        BY <1>4, <1>5, <2>5, <3>2
      <4>2. /\ GoodTree(w.tree) /\ ListsFit(w, hiddenNodes) /\ IsGraph(w)
            /\ Less(g.tree, w.tree, k)
        BY ONLY <1>3, <2>4, <4>1, DeletedLists
      <4>3. p # k
        BY <1>5, <2>3, <3>2 DEF Connected
      <4>4. p \in NodesOf(w.tree)
        BY <1>4, <2>3, <4>2, <4>3 DEF NodesOf, Less
      <4> QED
        BY <1>4, <4>2, <4>4
    <3> QED
      BY <3>1, <3>2
  <2>7. GoodTree(n.tree) /\ ListsFit(n, hiddenNodes) /\ Grown(w.tree, n.tree)
    BY <2>5, <2>6, WithHouseLists
  <2>8. ListsInv' /\ tree' = n.tree /\ hiddenNodes' = hiddenNodes
    BY <2>5, <2>7, SetGraphLists
  <2>9. \A j \in DOMAIN t : j # k => j \in DOMAIN tree' /\ tree'[j] = t[j]
    BY <2>6, <2>7, <2>8 DEF Less, Grown
  <2>10. \A h \in hiddenNodes : h \in DOMAIN t /\ h # k
    BY <1>3, <1>4, <2>4 DEF ListsFit, NodesOf
  <2> QED
    BY <1>2, <1>4, <2>8, <2>9, <2>10 DEF TodoInv
<1> QED
  BY <1>6, <1>7

LEMMA WalkAndAddSolarLists ==
    ASSUME ListsInv, TodoInv, WalkAndAddSolar
    PROVE  ListsInv' /\ TodoInv'
<1>1. PICK k, inverter : k = Min(todo) /\ inverter = NextTreeKey(tree)
  OBVIOUS
<1>2. /\ job = "solar" /\ job' = job /\ todo' = todo \ {k}
      /\ todo \subseteq DOMAIN tree
  BY <1>1 DEF WalkAndAddSolar, TodoInv
<1>3. PICK g : /\ g = Graph /\ g.ok /\ IsGraph(g) /\ g.tree = tree
               /\ GoodTree(g.tree) /\ ListsFit(g, hiddenNodes)
  BY PageLists
<1>4. PICK t : t = tree /\ t = g.tree
  BY <1>3
<1>5. k \in DOMAIN t
  <2>1. todo # {}
    BY DEF WalkAndAddSolar, Over
  <2> QED
    BY <1>1, <1>3, <1>4, <2>1, NextOfJob
<1>6. CASE UNCHANGED drawing
  BY <1>2, <1>6, SameLists DEF TodoInv, drawing
<1>7. CASE ~UNCHANGED drawing
  <2>1. PICK p : p = KeyNamed(t, t[k].parent)
    OBVIOUS
  <2>2. /\ t[k].object = "house"
        /\ \E h \in WithChild(g, "inverter", p) :
              \E n \in WithChild(h, "solar", KeyNamed(h.tree, inverter)) : SetGraph(n)
    BY <1>1, <1>3, <1>4, <1>7, <2>1 DEF WalkAndAddSolar
  <2>3. p \in NodesOf(g.tree)
    <3>1. t[k].parent # None
      BY <1>3, <1>4, <1>5, <2>2 DEF GoodTree, GoodObject
    <3> QED
      BY <1>3, <1>4, <1>5, <2>1, <3>1, ReferenceFound
  <2>4. PICK first, second : first = "inverter" /\ second = "solar"
    OBVIOUS
  <2>5. PICK h \in WithChild(g, first, p) :
            \E n \in WithChild(h, second, KeyNamed(h.tree, inverter)) : SetGraph(n)
    BY <2>2, <2>4
  <2>6. /\ GoodTree(h.tree) /\ ListsFit(h, hiddenNodes) /\ IsGraph(h)
        /\ Grown(g.tree, h.tree)
        /\ h.ok => inverter \in NodesOf(h.tree) /\ h.tree[inverter].name = inverter
    <3>1. inverter = NextTreeKey(g.tree)
      BY <1>1, <1>3
    <3> QED
      BY ONLY <1>3, <2>3, <2>5, <3>1, WithChildLists
  <2>7. PICK q : q = KeyNamed(h.tree, inverter)
    OBVIOUS
  <2>8. h.ok => q \in NodesOf(h.tree)
    <3>1. PICK u : u = h.tree
      OBVIOUS
    <3>2. ASSUME inverter \in NodesOf(u), u[inverter].name = inverter
          PROVE  KeyNamed(u, u[inverter].name) = inverter
      BY <2>6, <3>1, <3>2, KeyNamedIs DEF NodesOf
    <3> QED
      BY <2>6, <2>7, <3>1, <3>2
  <2>9. PICK n \in WithChild(h, second, q) : SetGraph(n)
    BY <2>5, <2>7
  <2>10. /\ GoodTree(n.tree) /\ ListsFit(n, hiddenNodes)
         /\ Grown(h.tree, n.tree)
    <3>1. PICK j : j = NextTreeKey(h.tree)
      OBVIOUS
    <3> QED
      BY ONLY <2>6, <2>8, <2>9, <3>1, WithChildLists
  <2>11. ListsInv' /\ tree' = n.tree
    BY <2>9, <2>10, SetGraphLists
  <2>12. DOMAIN t \subseteq DOMAIN tree'
    BY <1>4, <2>6, <2>10, <2>11 DEF Grown
  <2> QED
    BY <1>2, <1>4, <2>11, <2>12 DEF TodoInv
<1> QED
  BY <1>6, <1>7

-----------------------------------------------------------------------------
(* Theorems *)

LEMMA InitFits == ASSUME FeederNames, Init PROVE EditorInv
<1>1. PICK g : /\ g = Graph
               /\ g.tree = Feeder /\ g.nodes = NodesOf(Feeder) /\ g.links = LinksOf(Feeder)
               /\ g.record = [k \in NodesOf(Feeder) |->
                                [name |-> Feeder[k].name, object |-> Feeder[k].object,
                                 big |-> FALSE]]
  <2>1. PICK g : g = [tree |-> tree, nodes |-> nodes, links |-> links, record |-> record,
                      ok |-> TRUE]
    OBVIOUS
  <2>2. g.tree = tree /\ g.nodes = nodes /\ g.links = links /\ g.record = record
    BY <2>1
  <2>3. g = Graph
    BY <2>1 DEF Graph
  <2> QED
    BY <2>2, <2>3 DEF Init
<1>2. PICK none : none = {}
  OBVIOUS
<1>3. hiddenNodes = none /\ hiddenLinks = none /\ job = "none" /\ todo = {} /\ tree = Feeder
  BY <1>2 DEF Init
<1>4. GoodTree(g.tree)
  BY <1>1, FeederAssumption DEF FeederNames, GoodTree, GoodObject, IsObject
<1>5. \A k \in NodesOf(g.tree) :
          /\ k \in DOMAIN g.record
          /\ g.record[k] = [name |-> Feeder[k].name, object |-> Feeder[k].object, big |-> FALSE]
          /\ g.record[k].big = FALSE
  BY <1>1
<1>6. NodesFit(g, {})
  <2>1. g.nodes \cap {} = {} /\ g.nodes \cup {} = NodesOf(g.tree)
    BY <1>1
  <2>2. ASSUME NEW k \in NodesOf(g.tree)
        PROVE  /\ g.record[k] = [name |-> g.tree[k].name, object |-> g.tree[k].object,
                                 big |-> g.record[k].big]
               /\ g.record[k].big \in BOOLEAN
    BY <1>1, <1>5, ZenonT(30)
  <2>3. NodesOf(g.tree) \subseteq DOMAIN g.record
    BY <1>5
  <2> QED
    BY <2>1, <2>2, <2>3 DEF NodesFit
<1>7. LinksFit(g, none) /\ g.nodes = g.nodes \cup none /\ g.links = g.links \cup none
  BY <1>1, <1>2 DEF LinksFit
<1>8. \A k \in NodesOf(g.tree) : ~g.record[k].big
  BY <1>5
<1>9. Fits(g, {}, {})
  <2>1. NodesFit(g, none)
    BY <1>2, <1>6
  <2> QED
    BY ONLY <1>4, <1>6, <1>7, <1>8, <2>1, AllUnfoldedFits
<1>10. GraphInv
  BY <1>1, <1>2, <1>3, <1>9 DEF GraphInv
<1>11. JobInv /\ TodoInv
  BY <1>2, <1>3 DEF JobInv, TodoInv
<1>12. ListsInv
  <2>1. ListsFit(g, hiddenNodes)
    BY <1>2, <1>3, <1>6 DEF NodesFit, ListsFit
  <2> QED
    BY <1>1, <1>3, <1>4, <2>1 DEF ListsInv
<1> QED
  BY <1>10, <1>11, <1>12 DEF EditorInv

(* The tree and the records, after an exception too.                       *)
LEMMA NextLists ==
    ASSUME Careful, TypedNames, ListsInv, TodoInv, [Next]_vars
    PROVE  ListsInv' /\ TodoInv'
<1>1. ASSUME job = "none", job' = job, todo' = todo, ListsInv' PROVE ListsInv' /\ TodoInv'
  BY <1>1, JobTodoKeeps
<1>2. ASSUME NEW k \in DOMAIN tree, Select(k) PROVE ListsInv' /\ TodoInv'
  BY <1>1, <1>2, SameLists DEF Select, Idle, jobVars
<1>3. CASE ClearSelection
  BY <1>1, <1>3, SameLists DEF ClearSelection, Idle, jobVars
<1>4. CASE NewNode
  BY <1>1, <1>4, NewNodeLists DEF NewNode, Idle, jobVars
<1>5. ASSUME NEW alt \in nodes, NewLink(alt) PROVE ListsInv' /\ TodoInv'
  BY <1>1, <1>5, NewLinkLists DEF NewLink, Idle, jobVars
<1>6. ASSUME NEW object \in ChildTypes, NewChildAtSelected(object) PROVE ListsInv' /\ TodoInv'
  BY <1>1, <1>6, NewChildLists DEF NewChildAtSelected, Idle, jobVars
<1>7. CASE DeleteObject
  BY <1>1, <1>7, DeleteObjectLists DEF DeleteObject, Idle, jobVars
<1>8. ASSUME NEW new \in OwnNames, NEW ends, NEW second, SaveObject(new, ends, second)
      PROVE  ListsInv' /\ TodoInv'
  BY <1>1, <1>8, SaveObjectLists DEF SaveObject, Idle, jobVars
<1>9. CASE FoldOneLevel
  <2>1. \E hide : hide \subseteq nodes /\ Fold(hide)
    BY <1>9 DEF FoldOneLevel
  <2> QED
    BY <1>1, <1>9, <2>1, FoldLists DEF FoldOneLevel, Fold, Idle, jobVars
<1>10. CASE FoldAtSelected
  <2>1. PICK hide : hide = {k \in nodes :
                               /\ IsChild(k)
                               /\ record[k].name # record[ti].name
                               /\ \E l \in links :
                                     Touches(l, NamesOf({ti})) /\ Touches(l, NamesOf({k}))}
    OBVIOUS
  <2>2. hide \subseteq nodes /\ Fold(hide)
    BY <1>10, <2>1 DEF FoldAtSelected
  <2>3. ListsInv'
    BY <2>2, FoldLists
  <2> QED
    BY <1>1, <1>10, <2>2, <2>3 DEF FoldAtSelected, Fold, Idle, jobVars
<1>11. CASE UnfoldOneLevel
  <2>1. ListsInv'
    BY <1>11, UnfoldLists DEF UnfoldOneLevel
  <2> QED
    BY <1>1, <1>11, <2>1 DEF UnfoldOneLevel, Unfold, Idle, jobVars
<1>12. CASE UnfoldAtSelected
  <2>1. ListsInv'
    BY <1>12, UnfoldLists DEF UnfoldAtSelected
  <2> QED
    BY <1>1, <1>12, <2>1 DEF UnfoldAtSelected, Unfold, Idle, jobVars
<1>13. CASE UnfoldAll
  BY <1>1, <1>13, UnfoldLists DEF UnfoldAll, Idle, jobVars
<1>14. CASE StaticLoadsToHouses \/ SolarAdding
  <2>1. UNCHANGED drawing
    BY <1>14 DEF StaticLoadsToHouses, SolarAdding, StartJob
  <2> QED
    BY <1>14, <2>1, SameLists, StartJobKeeps
<1>15. CASE ReplaceAllHouses
  BY <1>15, ReplaceAllHousesLists
<1>16. CASE WalkAndAddSolar
  BY <1>16, WalkAndAddSolarLists
<1>17. CASE JobEnds
  BY <1>17, JobEndsKeeps, SameLists DEF JobEnds
<1>18. CASE UNCHANGED vars
  <2>1. UNCHANGED drawing /\ UNCHANGED <<job, todo>>
    BY <1>18 DEF vars, jobVars
  <2> QED
    BY <2>1, SameLists DEF TodoInv, drawing
<1> QED
  BY <1>2, <1>3, <1>4, <1>5, <1>6, <1>7, <1>8, <1>9, <1>10, <1>11, <1>12, <1>13, <1>14,
     <1>15, <1>16, <1>17, <1>18 DEF Next

LEMMA FailedStays == ASSUME [Next]_vars, failed PROVE failed'
<1>1. failed' = failed \/ \E g : SetGraph(g)
  BY Zenon DEF Next, vars, jobVars, drawing, Select, ClearSelection, NewNode, NewLink,
     NewChildAtSelected, DeleteObject, SaveObject, FoldOneLevel, FoldAtSelected, Fold,
     UnfoldOneLevel, UnfoldAtSelected, Unfold, UnfoldAll, StaticLoadsToHouses, SolarAdding,
     StartJob, ReplaceAllHouses, ReplaceNode, WalkAndAddSolar, JobEnds
<1> QED
  BY <1>1 DEF SetGraph

(* All the rest, until an exception.                                       *)
LEMMA NextKeeps ==
    ASSUME Careful, TypedNames, EditorInv, [Next]_vars
    PROVE  EditorInv'
<1> SUFFICES ASSUME ~failed' PROVE GraphInv' /\ JobInv'
  BY NextLists DEF EditorInv
<1>0. GraphInv /\ JobInv /\ TodoInv /\ ListsInv
  BY FailedStays DEF EditorInv
<1>1. ASSUME job = "none", job' = job PROVE JobInv'
  BY <1>1 DEF JobInv
<1>2. ASSUME NEW k \in DOMAIN tree, Select(k) PROVE GraphInv' /\ JobInv'
  BY <1>0, <1>1, <1>2, SameGraphKeeps DEF Select, Idle, jobVars, drawing
<1>3. CASE ClearSelection
  BY <1>0, <1>1, <1>3, SameGraphKeeps DEF ClearSelection, Idle, jobVars, drawing
<1>4. CASE NewNode
  BY <1>0, <1>1, <1>4, NewNodeKeeps DEF NewNode, Idle, jobVars
<1>5. ASSUME NEW alt \in nodes, NewLink(alt) PROVE GraphInv' /\ JobInv'
  BY <1>0, <1>1, <1>5, NewLinkKeeps DEF NewLink, Idle, jobVars
<1>6. ASSUME NEW object \in ChildTypes, NewChildAtSelected(object) PROVE GraphInv' /\ JobInv'
  BY <1>0, <1>1, <1>6, NewChildKeeps DEF NewChildAtSelected, Idle, jobVars
<1>7. CASE DeleteObject
  BY <1>0, <1>1, <1>7, DeleteObjectKeeps DEF DeleteObject, Idle, jobVars
<1>8. ASSUME NEW new \in OwnNames, NEW ends, NEW second, SaveObject(new, ends, second)
      PROVE  GraphInv' /\ JobInv'
  BY <1>0, <1>1, <1>8, SaveObjectKeeps DEF SaveObject, Idle, jobVars
<1>9. CASE FoldOneLevel
  BY <1>0, <1>1, <1>9, FoldOneLevelKeeps DEF FoldOneLevel, Fold, Idle, jobVars
<1>10. CASE FoldAtSelected
  BY <1>0, <1>1, <1>10, FoldAtSelectedKeeps DEF FoldAtSelected, Fold, Idle, jobVars
<1>11. CASE UnfoldOneLevel
  BY <1>0, <1>1, <1>11, UnfoldOneLevelKeeps DEF UnfoldOneLevel, Unfold, Idle, jobVars
<1>12. CASE UnfoldAtSelected
  BY <1>0, <1>1, <1>12, UnfoldAtSelectedKeeps DEF UnfoldAtSelected, Unfold, Idle, jobVars
<1>13. CASE UnfoldAll
  BY <1>0, <1>1, <1>13, UnfoldAllKeeps DEF UnfoldAll, Idle, jobVars
<1>14. CASE StaticLoadsToHouses \/ SolarAdding
  <2>1. UNCHANGED drawing
    BY <1>14 DEF StaticLoadsToHouses, SolarAdding, StartJob
  <2> QED
    BY <1>0, <1>14, <2>1, SameGraphKeeps, StartJobKeeps DEF drawing
<1>15. CASE ReplaceAllHouses
  BY <1>0, <1>15, ReplaceAllHousesKeeps
<1>16. CASE WalkAndAddSolar
  BY <1>0, <1>16, WalkAndAddSolarKeeps
<1>17. CASE JobEnds
  BY <1>0, <1>17, JobEndsKeeps, SameGraphKeeps DEF JobEnds, drawing
<1>18. CASE UNCHANGED vars
  <2>1. UNCHANGED <<tree, nodes, hiddenNodes, links, hiddenLinks, record>> /\ UNCHANGED <<job, todo>>
    BY <1>18 DEF vars, jobVars, drawing
  <2>2. GraphInv'
    BY <1>0, <2>1, SameGraphKeeps
  <2>3. JobInv'
    BY <1>0, <2>1 DEF JobInv, IsNodeOfMeter, Graph, GridNodeDrawn
  <2> QED
    BY <2>2, <2>3
<1> QED
  BY <1>2, <1>3, <1>4, <1>5, <1>6, <1>7, <1>8, <1>9, <1>10, <1>11, <1>12, <1>13, <1>14,
     <1>15, <1>16, <1>17, <1>18 DEF Next

(* The tree and its records stay as ListsInv says whatever is clicked,     *)
(* typed and added by a timer, as long as nothing folded is deleted or     *)
(* renamed, no property written by the page is edited and no number is     *)
(* typed as a name; the drawing, its folded parts and the jobs as GraphInv *)
(* and JobInv say, until an exception comes after a change of the tree.    *)
THEOREM InductiveInvariant ==
    ASSUME Careful, FeederNames, TypedNames
    PROVE  Spec => []EditorInv
<1>1. Init => EditorInv
  BY InitFits
<1>2. EditorInv /\ [Next]_vars => EditorInv'
  BY NextKeeps
<1> QED
  BY <1>1, <1>2, PTL DEF Spec

(* Until an exception comes after a change of the tree, each object that is*)
(* no link keeps one node record, with its name, and each reference one    *)
(* link record: nothing findIndex and splice do at a wrong or missing index*)
(* ever takes the record of another object.                                *)
THEOREM DrawingAlwaysMatches ==
    ASSUME Careful, FeederNames, TypedNames
    PROVE  Spec => []DrawingMatchesTree
<1>1. ASSUME EditorInv PROVE DrawingMatchesTree
  <2>1. ASSUME ~Broken, ~failed
        PROVE  /\ nodes \cap hiddenNodes = {} /\ nodes \cup hiddenNodes = NodesOf(tree)
               /\ \A k \in NodesOf(tree) : record[k].name = tree[k].name
               /\ links \cap hiddenLinks = {} /\ links \cup hiddenLinks = LinksOf(tree)
    <3>1. PICK g : /\ g.tree = tree /\ g.nodes = nodes /\ g.links = links /\ g.record = record
                   /\ GoodTree(g.tree) /\ NodesFit(g, hiddenNodes) /\ LinksFit(g, hiddenLinks)
      BY <1>1, <2>1, UnbrokenFits DEF EditorInv
    <3>2. \A k \in NodesOf(g.tree) : g.record[k].name = g.tree[k].name
      BY <3>1, NamesOfRecords
    <3> QED
      BY <3>1, <3>2 DEF NodesFit, LinksFit
  <2> QED
    BY <2>1 DEF DrawingMatchesTree, Intact
<1> QED
  BY <1>1, InductiveInvariant, PTL

(* Folding by one level, at a node, and unfolding, in any mix, leave no    *)
(* link in the air and hide none between two drawn nodes.                  *)
THEOREM LinksAlwaysFold ==
    ASSUME Careful, FeederNames, TypedNames
    PROVE  Spec => []LinksFoldWithNodes
<1>1. ASSUME EditorInv PROVE LinksFoldWithNodes
  <2>1. ASSUME ~Broken, ~failed
        PROVE  \A l \in links \cup hiddenLinks : l \in links <=> Ends(l) \subseteq nodes
    <3>1. PICK g : /\ g.nodes = nodes /\ g.links = links /\ LinksFit(g, hiddenLinks)
                   /\ \E lv, m : Folded(g, hiddenNodes, hiddenLinks, lv, m)
      BY <1>1, <2>1, UnbrokenFits DEF EditorInv
    <3>2. DrawnWithEnds(g)
      BY <3>1 DEF Folded
    <3> QED
      BY <3>1, <3>2 DEF DrawnWithEnds, LinksFit
  <2> QED
    BY <2>1 DEF LinksFoldWithNodes, Intact
<1> QED
  BY <1>1, InductiveInvariant, PTL

(* A node is drawn large exactly when a link of it is folded away.         *)
THEOREM HiddenChildrenAlwaysShown ==
    ASSUME Careful, FeederNames, TypedNames
    PROVE  Spec => []HiddenChildrenShown
<1>1. ASSUME EditorInv PROVE HiddenChildrenShown
  <2>1. ASSUME ~Broken, ~failed
        PROVE  \A k \in nodes : record[k].big <=> \E l \in hiddenLinks : k \in Ends(l)
    <3>1. PICK g : /\ g.nodes = nodes /\ g.record = record
                   /\ \E lv, m : Folded(g, hiddenNodes, hiddenLinks, lv, m)
      BY <1>1, <2>1, UnbrokenFits DEF EditorInv
    <3>2. BigWhenDrawn(g, hiddenLinks)
      BY <3>1 DEF Folded
    <3> QED
      BY <3>1, <3>2 DEF BigWhenDrawn
  <2> QED
    BY <2>1 DEF HiddenChildrenShown, Intact
<1> QED
  BY <1>1, InductiveInvariant, PTL

(* No reference dangles or is ambiguous, also when the page has hung up and*)
(* when an exception has come after a change of the tree.                  *)
THEOREM ReferencesAlwaysResolve ==
    ASSUME Careful, FeederNames, TypedNames
    PROVE  Spec => []ReferencesResolve
<1>1. EditorInv => ReferencesResolve
  BY DEF EditorInv, ListsInv, GoodTree, ReferencesResolve
<1> QED
  BY <1>1, InductiveInvariant, PTL

(* When the timer is done with the houses, of which a grid node is drawn,  *)
(* a node of a meter that the job has come to and left is connected, and   *)
(* its meter has a house; the rounding of the percentage may end the job   *)
(* before it has come to all.                                              *)
THEOREM HousesAlwaysReplaced ==
    ASSUME Careful, FeederNames, TypedNames
    PROVE  Spec => HousesReplaced
<1>1. ASSUME EditorInv, job = "houses", GridNodeDrawn(Graph), ~failed,
             NEW k \in DOMAIN tree \ todo, IsNodeOfMeter(k)
      PROVE  /\ Connected(tree, k)
             /\ \E h \in DOMAIN tree : tree[h].object = "house" /\ tree[h].parent = tree[k].parent
  BY <1>1 DEF EditorInv, JobInv, Replaced
<1>2. EditorInv /\ [Next]_vars =>
        [job = "houses" /\ job' = "none" /\ GridNodeDrawn(Graph) /\ ~failed =>
           \A k \in DOMAIN tree \ todo : IsNodeOfMeter(k) =>
              /\ Connected(tree, k)
              /\ \E h \in DOMAIN tree :
                    tree[h].object = "house" /\ tree[h].parent = tree[k].parent]_vars
  BY <1>1
<1> QED
  BY <1>2, InductiveInvariant, PTL DEF Spec, HousesReplaced
=============================================================================
