----------------------------- MODULE GridEditor -----------------------------
(***************************************************************************)
(* gridEdit.js: the feeder tree and the drawing of it.  Every object that  *)
(* is no link has a node record, every reference of an object to another a *)
(* link record; folding moves records to hidden lists and back.  Handlers  *)
(* of a page run one at a time, so a handler is one step; the two that add *)
(* houses and solar panels run from a timer, an object per step, behind a  *)
(* progress bar that covers the page.  An exception ends a handler where   *)
(* it is.                                                                  *)
(*                                                                         *)
(* Lists are sets here: where the code takes the first element, or the     *)
(* first of a name, any is taken.                                          *)
(***************************************************************************)
EXTENDS Integers, FiniteSets, FiniteSetsExt

CONSTANTS
    Feeder,         \* the tree the page is opened with
    ChildTypes,     \* object types of components that have a parent
    OwnNames,       \* names a user may type
    MaxEdits,       \* bound on changes of the tree by the user
    Careful         \* nothing folded is deleted or renamed, and no property
                    \* written by the page (from, to, parent, a second name) edited

None == 0           \* an attribute that is undefined, a name not found

Keys  == Nat \ {None}
Names == Keys \cup OwnNames

IsLink(object) == object.from # None

(* The key of the object with a name.                                      *)
KeyNamed(t, n) ==
    LET named == {k \in DOMAIN t : t[k].name = n}
    IN  IF named = {} THEN None ELSE Min(named)

(* The links that draw a tree: from source to target, from child to parent.*)
LinksOf(t) ==
    {[source |-> KeyNamed(t, t[k].from), target |-> KeyNamed(t, t[k].to), treeIndex |-> k] :
        k \in {j \in DOMAIN t : IsLink(t[j])}}
    \cup
    {[source |-> k, target |-> KeyNamed(t, t[k].parent), treeIndex |-> None] :
        k \in {j \in DOMAIN t : ~IsLink(t[j]) /\ t[j].parent # None}}

NodesOf(t) == {k \in DOMAIN t : ~IsLink(t[k])}

Distinct(t) == \A j, k \in DOMAIN t : t[j].name = t[k].name => j = k

(* Each name an object refers to is that of one object, which is no link.  *)
Resolves(t) ==
    \A k \in DOMAIN t : \A n \in {t[k].from, t[k].to, t[k].parent} \ {None} :
        \E p \in NodesOf(t) : {j \in DOMAIN t : t[j].name = n} = {p}

(* The feeder is one of GridLAB-D: what hangs on a parent is no link, and  *)
(* houses do; nothing hangs on itself.                                     *)
ASSUME FeederAssumption ==
    /\ DOMAIN Feeder \subseteq Nat \ {None}
    /\ IsFiniteSet(DOMAIN Feeder)
    /\ \A k \in DOMAIN Feeder :
          /\ Feeder[k] = [name |-> Feeder[k].name, object |-> Feeder[k].object,
                          from |-> Feeder[k].from, to |-> Feeder[k].to,
                          parent |-> Feeder[k].parent]
          /\ Feeder[k].name # None
          /\ IsLink(Feeder[k]) => Feeder[k].to # None /\ Feeder[k].parent = None
          /\ ~IsLink(Feeder[k]) => Feeder[k].to = None
          /\ Feeder[k].object = "house" => Feeder[k].parent # None
          /\ Feeder[k].parent # Feeder[k].name
    /\ Distinct(Feeder)
    /\ Resolves(Feeder)
    /\ None \notin OwnNames
    /\ MaxEdits \in Nat
    /\ Careful \in BOOLEAN

VARIABLES
    tree,           \* key -> the object
    nodes,          \* tree indexes of the node records that are drawn
    hiddenNodes,    \* and of those that are folded away
    links,          \* link records that are drawn
    hiddenLinks,
    record,         \* tree index -> what a node record holds
    ti,             \* the object clicked last, in the panel with Save and Delete
    job,            \* what the timer is doing
    todo,           \* the rest of tkeys
    total,          \* the length of tkeys
    inUse,          \* in_use, when the timer fires
    failed,         \* history: an exception came after a change of the tree
    edits           \* changes of the tree so far

drawing == <<tree, nodes, hiddenNodes, links, hiddenLinks, record, failed>>
jobVars == <<job, todo, total, inUse>>
vars == <<drawing, ti, jobVars, edits>>

LinkType == [source : Keys \cup {None}, target : Keys \cup {None}, treeIndex : Keys \cup {None}]

TypeOK ==
    /\ DOMAIN tree \subseteq Keys
    /\ \A k \in DOMAIN tree :
          tree[k].name \in Names /\ {tree[k].from, tree[k].to, tree[k].parent} \subseteq Names \cup {None}
    /\ nodes \subseteq DOMAIN record /\ hiddenNodes \subseteq DOMAIN record
    /\ links \subseteq LinkType /\ hiddenLinks \subseteq LinkType
    /\ ti \in DOMAIN tree \cup {None}
    /\ job \in {"none", "houses", "solar"}
    /\ todo \subseteq Keys /\ total \in Nat
    /\ inUse \in BOOLEAN /\ failed \in BOOLEAN
    /\ edits \in 0 .. MaxEdits

Init ==
    /\ tree = Feeder
    /\ nodes = NodesOf(Feeder)
    /\ hiddenNodes = {}
    /\ links = LinksOf(Feeder)
    /\ hiddenLinks = {}
    /\ record = [k \in NodesOf(Feeder) |->
                    [name |-> Feeder[k].name, object |-> Feeder[k].object, big |-> FALSE]]
    /\ ti = None
    /\ job = "none" /\ todo = {} /\ total = 0 /\ inUse = FALSE
    /\ failed = FALSE /\ edits = 0

Ends(l) == {l.source, l.target}

(* A link without an end: drawing it throws, now and ever after.           *)
Broken == \E l \in links : None \in Ends(l)

Idle == job = "none" /\ ~Broken

(* The node that is drawn as selected: a folded one loses the mark, and    *)
(* gets it back by a click only, which is left out.                        *)
Selected == ti \in nodes

-----------------------------------------------------------------------------
(* The parts that adding and deleting work on, as one value; ok until an   *)
(* exception has ended the handler.                                        *)
Graph == [tree |-> tree, nodes |-> nodes, links |-> links, record |-> record, ok |-> TRUE]

SetGraph(g) ==
    LET kept == g.nodes \cup hiddenNodes \cup UNION {Ends(l) : l \in g.links \cup hiddenLinks}
    IN  /\ tree' = g.tree /\ nodes' = g.nodes /\ links' = g.links
        /\ record' = [k \in kept \cap DOMAIN g.record |-> g.record[k]]
        /\ failed' = (failed \/ (~g.ok /\ g.tree # tree))
        /\ UNCHANGED <<hiddenNodes, hiddenLinks>>

NextTreeKey(t) == Max(DOMAIN t \cup {0}) + 1

Extended(f, k, v) == [j \in DOMAIN f \cup {k} |-> IF j = k THEN v ELSE f[j]]

Without(f, k) == [j \in DOMAIN f \ {k} |-> f[j]]

(* The drawn nodes of a name, of which findIndex returns one.              *)
Found(g, n) ==
    LET named == {k \in g.nodes : g.record[k].name = n}
    IN  IF named = {} THEN {None} ELSE named

(* A new object and its node record; the key is part of the name.          *)
WithNode(g, object, parent) ==
    LET k == NextTreeKey(g.tree)
    IN  [tree   |-> Extended(g.tree, k, [name |-> k, object |-> object, from |-> None,
                                         to |-> None, parent |-> parent]),
         nodes  |-> g.nodes \cup {k},
         links  |-> g.links,
         record |-> Extended(g.record, k, [name |-> k, object |-> object, big |-> FALSE]),
         ok     |-> g.ok]

(* What '.node.gridNode' selects.  Asking nothing for an attribute throws. *)
GridNodeDrawn(g) == \E k \in g.nodes : g.record[k].object = "node"

(* The exceptions of newChildAtLocation: nothing is done when there is no  *)
(* parent, or no grid node to ask; when the parent has coordinates, the    *)
(* question comes when the child is in the tree and before its record.     *)
Thrown(g, new, p) ==
    {[g EXCEPT !.ok = FALSE]}
    \cup (IF p = None THEN {} ELSE {[g EXCEPT !.tree = new.tree, !.ok = FALSE]})

(* newChildAtLocation: a child of p and the link to it.                    *)
WithChild(g, object, p) ==
    LET new == WithNode(g, object, g.tree[p].name)
    IN  IF ~g.ok THEN {g}
        ELSE IF p = None \/ ~GridNodeDrawn(g) THEN Thrown(g, new, p)
        ELSE {[new EXCEPT !.links = @ \cup {[source |-> s, target |-> t, treeIndex |-> None]}] :
                 s \in Found(new, NextTreeKey(g.tree)), t \in Found(new, g.tree[p].name)}

(* list.splice(index, 1), where index is undefined when nothing is found:  *)
(* then the first element goes.                                            *)
Spliced(list, found) ==
    IF found = {} /\ list = {} THEN {list}
    ELSE {list \ {x} : x \in IF found = {} THEN list ELSE found}

(* Mutant: other objects that name this one do not matter.                 *)
ConnectedNever(t, k) == FALSE

Connected(t, k) == \E j \in DOMAIN t : t[k].name \in {t[j].from, t[j].to, t[j].parent}

(* Mutant: the link to the parent stays.                                   *)
DeletedWithoutLink(g, k) ==
    {[g EXCEPT !.tree = Without(@, k), !.nodes = @ \ {k}]}

(* deleteObject, for an object nothing is connected to.                    *)
Deleted(g, k) ==
    LET nodeLists == IF IsLink(g.tree[k]) THEN {g.nodes}
                     ELSE Spliced(g.nodes, g.nodes \cap {k})
        linkLists == IF IsLink(g.tree[k])
                     THEN Spliced(g.links, {l \in g.links : l.treeIndex = k})
                     ELSE IF g.tree[k].parent = None THEN {g.links}
                     ELSE Spliced(g.links, {l \in g.links :
                                                g.record[l.source].name = g.tree[k].name})
    IN  {[tree |-> Without(g.tree, k), nodes |-> ns, links |-> ls, record |-> g.record,
          ok |-> g.ok] : ns \in nodeLists, ls \in linkLists}

-----------------------------------------------------------------------------
(* Handlers of the page.                                                   *)

(* A click on a node, or a search for an object.                           *)
Select(k) ==
    /\ Idle
    /\ \/ k \in nodes
       \/ \E l \in links : l.treeIndex = k
    /\ ti' = k
    /\ UNCHANGED <<drawing, jobVars, edits>>

(* A click beside all nodes.                                               *)
ClearSelection ==
    /\ Idle
    /\ ti # None
    /\ ti' = None
    /\ UNCHANGED <<drawing, jobVars, edits>>

Edit == edits < MaxEdits /\ edits' = edits + 1

NewNode ==
    /\ Idle /\ Edit
    /\ SetGraph(WithNode(Graph, "node", None))
    /\ UNCHANGED <<ti, jobVars>>

(* From the selected node to one that was clicked with Alt.                *)
NewLink(alt) ==
    LET k    == NextTreeKey(tree)
        from == record[ti].name
        to   == record[alt].name
    IN  /\ Idle /\ Edit
        /\ Selected /\ alt \in nodes
        /\ from # to
        /\ ~\E l \in links : {record[e].name : e \in Ends(l)} = {from, to}
        /\ \E s \in Found(Graph, from), t \in Found(Graph, to) :
              links' = links \cup {[source |-> s, target |-> t, treeIndex |-> k]}
        /\ tree' = Extended(tree, k, [name |-> k, object |-> "link", from |-> from,
                                      to |-> to, parent |-> None])
        /\ UNCHANGED <<nodes, hiddenNodes, hiddenLinks, record, failed, ti, jobVars>>

NewChildAtSelected(object) ==
    /\ Idle /\ Edit
    /\ Selected
    /\ \E g \in WithChild(Graph, object, ti) : SetGraph(g)
    /\ UNCHANGED <<ti, jobVars>>

(* All that is drawn for an object is drawn, not folded.                   *)
Shown(k) ==
    /\ k \in nodes \/ IsLink(tree[k])
    /\ ~\E l \in hiddenLinks : k \in {l.source, l.treeIndex}

DeleteObject ==
    /\ Idle /\ Edit
    /\ ti \in DOMAIN tree
    /\ IsLink(tree[ti]) \/ ~Connected(tree, ti)
    /\ Careful => Shown(ti)
    /\ \E g \in Deleted(Graph, ti) : SetGraph(g)
    /\ ti' = None
    /\ UNCHANGED jobVars

IsNameAlreadyUsed(n) == \E k \in DOMAIN tree : tree[k].name = n

(* What can be in the inputs of the properties that the page writes; None  *)
(* when one is removed, and from a careful user, who leaves them alone.    *)
Typed == {None} \cup IF Careful THEN {} ELSE OwnNames \cup {tree[k].name : k \in DOMAIN tree}

(* A free name goes into every attribute that has the value of the old one;*)
(* of the node records only into a drawn one.  The other properties are    *)
(* written as they are typed, an added "name" over the first one.          *)
SaveObject(new, ends, second) ==
    LET old     == tree[ti].name
        name    == IF IsNameAlreadyUsed(new) THEN old ELSE new
        In(v)   == IF v = old THEN name ELSE v
        renamed == [k \in DOMAIN tree |->
                       [name |-> In(tree[k].name), object |-> tree[k].object,
                        from |-> In(tree[k].from), to |-> In(tree[k].to),
                        parent |-> In(tree[k].parent)]]
    IN  /\ Idle /\ Edit
        /\ ti \in DOMAIN tree
        /\ IF Careful
           THEN /\ ti \notin hiddenNodes
                /\ name # old
                /\ tree' = renamed
           ELSE tree' = [renamed EXCEPT ![ti] =
                           [name |-> IF second = None THEN @.name ELSE second,
                            object |-> @.object, from |-> ends.from, to |-> ends.to,
                            parent |-> ends.parent]]
        /\ \E k \in Found(Graph, old) :
              record' = IF k = None THEN record ELSE [record EXCEPT ![k].name = name]
        /\ UNCHANGED <<nodes, hiddenNodes, links, hiddenLinks, failed, ti, jobVars>>

-----------------------------------------------------------------------------
(* Folding.                                                                *)
Touches(l, names) == \E e \in Ends(l) : record[e].name \in names

NamesOf(ks) == {record[k].name : k \in ks}

(* d3 counts the links of a node whenever the layout is started.           *)
Weight(k) == Cardinality({l \in links : k \in Ends(l)})

(* Mutant: a node with two links counts as a child.                        *)
IsChildOfTwo(k) == Weight(k) \in {1, 2}

IsChild(k) == Weight(k) = 1

(* hideNode for each node of a list: its links go with it, and the nodes   *)
(* at their other ends grow.  When two are linked to each other, the one   *)
(* that is hidden last grows first.                                        *)
Fold(hide) ==
    LET gone  == {l \in links : Touches(l, NamesOf(hide))}
        pairs == {l \in links : Ends(l) \subseteq hide}
    IN  /\ nodes' = nodes \ hide
        /\ hiddenNodes' = hiddenNodes \cup hide
        /\ links' = links \ gone
        /\ hiddenLinks' = hiddenLinks \cup gone
        /\ \E last \in SUBSET UNION {Ends(l) : l \in pairs} :
              /\ \A l \in pairs : Cardinality(last \cap Ends(l)) = 1
              /\ record' = [k \in DOMAIN record |->
                    IF \/ k \in last
                       \/ k \in nodes \ hide /\ (\E l \in gone : Touches(l, NamesOf({k})))
                    THEN [record[k] EXCEPT !.big = TRUE] ELSE record[k]]
        /\ UNCHANGED <<tree, failed, ti, jobVars, edits>>

FoldOneLevel ==
    /\ Idle
    /\ Fold({k \in nodes : IsChild(k)})

FoldAtSelected ==
    /\ Idle
    /\ Selected
    /\ Fold({k \in nodes :
                /\ IsChild(k)
                /\ record[k].name # record[ti].name
                /\ \E l \in links : Touches(l, NamesOf({ti})) /\ Touches(l, NamesOf({k}))})

(* Mutant: a node keeps the size it has while links of it are hidden.      *)
Shrunk(ks) == record

Resized(ks) == [k \in DOMAIN record |->
                   IF k \in ks THEN [record[k] EXCEPT !.big = FALSE] ELSE record[k]]

(* Links come back, with the folded nodes at their ends.                   *)
Unfold(reveal) ==
    LET Revealed(k) == \E l \in reveal : Touches(l, NamesOf({k}))
        back == {k \in hiddenNodes : Revealed(k)}
    IN  /\ links' = links \cup reveal
        /\ hiddenLinks' = hiddenLinks \ reveal
        /\ nodes' = nodes \cup back
        /\ hiddenNodes' = hiddenNodes \ back
        /\ record' = Resized({k \in nodes : Revealed(k)})
        /\ UNCHANGED <<tree, failed, ti, jobVars, edits>>

UnfoldOneLevel ==
    /\ Idle
    /\ Unfold({l \in hiddenLinks : Touches(l, NamesOf(nodes))})

UnfoldAtSelected ==
    /\ Idle
    /\ Selected
    /\ Unfold({l \in hiddenLinks : Touches(l, NamesOf({ti}))})

UnfoldAll ==
    /\ Idle
    /\ links' = links \cup hiddenLinks /\ hiddenLinks' = {}
    /\ nodes' = nodes \cup hiddenNodes /\ hiddenNodes' = {}
    /\ record' = Resized(DOMAIN record)
    /\ UNCHANGED <<tree, failed, ti, jobVars, edits>>

-----------------------------------------------------------------------------
(* The timer.                                                              *)

(* A job is refused while nodes of the type it looks for are hidden.       *)
StartJob(kind, object) ==
    /\ Idle
    /\ \A k \in hiddenNodes : record[k].object # object
    /\ Edit
    /\ job' = kind
    /\ todo' = DOMAIN tree /\ total' = Cardinality(DOMAIN tree)
    /\ inUse' = FALSE
    /\ UNCHANGED <<drawing, ti>>

StaticLoadsToHouses == StartJob("houses", "triplex_node")
SolarAdding         == StartJob("solar", "house")

(* A house with lights and, for some, a water heater.                      *)
WithHouse(g, p) ==
    LET k == NextTreeKey(g.tree)
        houses == WithChild(g, "house", p)
        lit    == UNION {WithChild(h, "ZIPload", KeyNamed(h.tree, k)) : h \in houses}
    IN  lit \cup UNION {WithChild(h, "waterheater", KeyNamed(h.tree, k)) : h \in lit}

(* Mutant: no house when the node could not be deleted.                    *)
ReplaceNodeUnlessRefused(k) ==
    /\ \E g \in IF Connected(tree, k) THEN {Graph}
               ELSE UNION {WithHouse(without, KeyNamed(tree, tree[k].parent)) :
                              without \in Deleted(Graph, k)} :
          SetGraph(g) /\ inUse' = ~g.ok
    /\ ti' = IF Connected(tree, k) THEN ti ELSE None

(* Whether or not the node could be deleted, its parent gets a house.      *)
ReplaceNode(k) ==
    LET p == KeyNamed(tree, tree[k].parent)
        refused == Connected(tree, k)
    IN  /\ \E without \in IF refused THEN {Graph} ELSE Deleted(Graph, k) :
              \E g \in WithHouse(without, p) : SetGraph(g) /\ inUse' = ~g.ok
        /\ ti' = IF refused THEN ti ELSE None

IsNodeOfMeter(k) == tree[k].parent # None /\ tree[k].object = "triplex_node"

(* The timer finds the percentage at 100: it is rounded, and looked at     *)
(* after each hundred objects.  The houses count the objects before.       *)
Rounded ==
    LET left == Cardinality(todo) + IF job = "houses" THEN 1 ELSE 0
    IN  (total - Cardinality(todo)) % 100 = 0 /\ 200 * left <= total

(* The job is over when the timer fires: an exception leaves in_use set.   *)
Over == todo = {} \/ inUse \/ Rounded

ReplaceAllHouses ==
    LET k == Min(todo)
    IN  /\ job = "houses" /\ ~Broken
        /\ ~Over
        /\ todo' = todo \ {k}
        /\ IF IsNodeOfMeter(k) THEN ReplaceNode(k) ELSE UNCHANGED <<drawing, ti, inUse>>
        /\ UNCHANGED <<job, total, edits>>

(* An inverter with panels at the meter of a house, or none.               *)
WalkAndAddSolar ==
    LET k == Min(todo)
        inverter == NextTreeKey(tree)
    IN  /\ job = "solar" /\ ~Broken
        /\ ~Over
        /\ todo' = todo \ {k}
        /\ \/ /\ tree[k].object = "house"
              /\ \E h \in WithChild(Graph, "inverter", KeyNamed(tree, tree[k].parent)) :
                    \E g \in WithChild(h, "solar", KeyNamed(h.tree, inverter)) :
                        SetGraph(g) /\ inUse' = ~g.ok
              /\ UNCHANGED ti
           \/ UNCHANGED <<drawing, ti, inUse>>
        /\ UNCHANGED <<job, total, edits>>

(* The end of the solar job misspells in_use.                              *)
JobEnds ==
    /\ job # "none" /\ ~Broken
    /\ Over
    /\ job' = "none" /\ todo' = {} /\ total' = 0
    /\ inUse' = (inUse /\ job = "solar")
    /\ UNCHANGED <<drawing, ti, edits>>

Next ==
    \/ \E k \in DOMAIN tree : Select(k)
    \/ ClearSelection
    \/ NewNode
    \/ \E alt \in nodes : NewLink(alt)
    \/ \E object \in ChildTypes : NewChildAtSelected(object)
    \/ DeleteObject
    \/ \E new \in OwnNames, ends \in [from : Typed, to : Typed, parent : Typed], second \in Typed :
          SaveObject(new, ends, second)
    \/ FoldOneLevel \/ FoldAtSelected
    \/ UnfoldOneLevel \/ UnfoldAtSelected \/ UnfoldAll
    \/ StaticLoadsToHouses \/ SolarAdding
    \/ ReplaceAllHouses \/ WalkAndAddSolar \/ JobEnds

Spec == Init /\ [][Next]_vars

-----------------------------------------------------------------------------
(* No link without an end, and no handler that an exception ended after it *)
(* had changed the tree.                                                   *)
Intact == ~Broken /\ ~failed

(* Whatever is added, deleted, renamed and folded, each object of the tree *)
(* that is no link has one node record, drawn or folded, with its name,    *)
(* and each reference one link record between the records it names.        *)
DrawingMatchesTree ==
    Intact =>
        /\ nodes \cap hiddenNodes = {} /\ nodes \cup hiddenNodes = NodesOf(tree)
        /\ \A k \in NodesOf(tree) : record[k].name = tree[k].name
        /\ links \cap hiddenLinks = {} /\ links \cup hiddenLinks = LinksOf(tree)

(* A link is drawn when both its ends are, and only then: folding hangs no *)
(* link in the air, and unfolding a node forgets none.                     *)
LinksFoldWithNodes ==
    Intact => \A l \in links \cup hiddenLinks : l \in links <=> Ends(l) \subseteq nodes

(* "has hidden children" is said of the drawn nodes that have some, after  *)
(* any mix of folding one level, at a node, and unfolding.                 *)
HiddenChildrenShown ==
    Intact => \A k \in nodes : record[k].big <=> \E l \in hiddenLinks : k \in Ends(l)

(* Every name an object refers to is that of one object, which is no link: *)
(* nothing connected is deleted, a new name reaches all references, and an *)
(* exception leaves no reference to what it did not add.                   *)
ReferencesResolve == Resolves(tree)

(* When the job of the houses is over, a node of a meter that it has come  *)
(* to is left only if it could not be deleted, and its meter has a house;  *)
(* unless there was no grid node to ask for an attribute.                  *)
HousesReplaced ==
    [][job = "houses" /\ job' = "none" /\ GridNodeDrawn(Graph) /\ ~failed =>
         \A k \in DOMAIN tree \ todo : IsNodeOfMeter(k) =>
            /\ Connected(tree, k)
            /\ \E h \in DOMAIN tree : tree[h].object = "house" /\ tree[h].parent = tree[k].parent]_vars
=============================================================================
