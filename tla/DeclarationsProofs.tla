------------------------- MODULE DeclarationsProofs -------------------------
(***************************************************************************)
(* The catalog holds whatever single calls and batches do to it, and in    *)
(* which order, for any names, categories, payloads and clients.           *)
(***************************************************************************)
EXTENDS Declarations, TLAPS

-----------------------------------------------------------------------------
(* Tables.                                                                 *)

\* Adding or replacing a row keeps a table a table.
LEMMA PutTable ==
    ASSUME NEW K, NEW R, NEW f \in Tables(K, R), NEW k \in K, NEW v \in R
    PROVE  Put(f, k, v) \in Tables(K, R)
<1>1. PICK S \in SUBSET K : f \in [S -> R]
    BY DEF Tables
<1>2. S \cup {k} \in SUBSET K /\ Put(f, k, v) \in [S \cup {k} -> R]
    BY <1>1 DEF Put
<1> QED  BY <1>2 DEF Tables

\* What a table says after a row is added or replaced.
LEMMA PutRows ==
    ASSUME NEW f, NEW k, NEW v
    PROVE  /\ DOMAIN Put(f, k, v) = DOMAIN f \cup {k}
           /\ Put(f, k, v)[k] = v
           /\ \A x \in DOMAIN f \ {k} : Put(f, k, v)[x] = f[x]
BY DEF Put

\* Deleting rows keeps a table a table.
LEMMA RestrictTable ==
    ASSUME NEW K, NEW R, NEW f \in Tables(K, R), NEW S
    PROVE  /\ Restrict(f, DOMAIN f \ S) \in Tables(K, R)
           /\ DOMAIN Restrict(f, DOMAIN f \ S) = DOMAIN f \ S
           /\ \A x \in DOMAIN f \ S : Restrict(f, DOMAIN f \ S)[x] = f[x]
<1>1. PICK T \in SUBSET K : f \in [T -> R]
    BY DEF Tables
<1>2. T \ S \in SUBSET K /\ Restrict(f, DOMAIN f \ S) \in [T \ S -> R]
    BY <1>1 DEF Restrict
<1>3. Restrict(f, DOMAIN f \ S) \in Tables(K, R)
    BY <1>2 DEF Tables
<1> QED  BY <1>3 DEF Restrict

\* The union of two tables is a table.
LEMMA UnionTable ==
    ASSUME NEW K, NEW R, NEW f \in Tables(K, R), NEW g \in Tables(K, R)
    PROVE  Union(f, g) \in Tables(K, R)
<1>1. PICK S \in SUBSET K : f \in [S -> R]
    BY DEF Tables
<1>2. PICK T \in SUBSET K : g \in [T -> R]
    BY DEF Tables
<1>3. S \cup T \in SUBSET K /\ Union(f, g) \in [S \cup T -> R]
    BY <1>1, <1>2 DEF Union
<1> QED  BY <1>3 DEF Tables

\* The rows of a table.
LEMMA TableRows ==
    ASSUME NEW K, NEW R, NEW f \in Tables(K, R)
    PROVE  /\ DOMAIN f \subseteq K
           /\ \A k \in DOMAIN f : f[k] \in R
           /\ f \in [DOMAIN f -> R]
BY DEF Tables

\* A catalog is its four tables.
LEMMA CatalogTables ==
    ASSUME NEW c \in Catalogs
    PROVE  /\ c.raw \in Tables(Raws, RawRow)
           /\ c.items \in Tables(Items, ItemRow)
           /\ c.nodes \in Tables(Categories, NodeRow)
           /\ c.assigned \in Tables(Items, Categories)
BY DEF Catalogs

\* Before any declaration the tables are empty.
LEMMA EmptyCatalog ==
    /\ Nothing \in Catalogs
    /\ DOMAIN Nothing.items = {} /\ DOMAIN Nothing.nodes = {} /\ DOMAIN Nothing.assigned = {}
<1>1. ASSUME NEW K, NEW R PROVE <<>> \in Tables(K, R)
  <2>1. <<>> = [x \in {} |-> x]
      OBVIOUS
  <2> QED  BY <2>1 DEF Tables
<1>2. /\ Nothing.raw = <<>> /\ Nothing.items = <<>>
      /\ Nothing.nodes = <<>> /\ Nothing.assigned = <<>>
    BY DEF Nothing, Sections
<1>3. Nothing = [raw |-> Nothing.raw, items |-> Nothing.items,
                 nodes |-> Nothing.nodes, assigned |-> Nothing.assigned]
    BY DEF Nothing, Sections
<1> QED  BY <1>1, <1>2, <1>3 DEF Catalogs

-----------------------------------------------------------------------------
(* Graphs: an acyclic one is one in which every part has a sink.           *)

\* Dependencies without a cycle.
LEMMA ItemsAcyclic ==
    ASSUME NEW c
    PROVE  AcyclicItems(c) <=>
               \A S \in (SUBSET DOMAIN c.items) \ {{}} : \E i \in S : Edges(c, i) \cap S = {}
BY DEF AcyclicItems, Acyclic

\* Categories without a cycle.
LEMMA NodesAcyclic ==
    ASSUME NEW c
    PROVE  AcyclicNodes(c) <=>
               \A S \in (SUBSET DOMAIN c.nodes) \ {{}} : \E n \in S : Above(c, n) \cap S = {}
BY DEF AcyclicNodes, Acyclic

\* Dependencies stay acyclic while Items keep their inputs.
LEMMA SameInputs ==
    ASSUME NEW c, NEW d, AcyclicItems(c),
           DOMAIN d.items = DOMAIN c.items,
           \A i \in DOMAIN c.items : d.items[i].inputs = c.items[i].inputs
    PROVE  AcyclicItems(d)
<1>1. \A i \in DOMAIN c.items : Edges(d, i) = Edges(c, i)
    BY DEF Edges
<1> QED  BY <1>1, ItemsAcyclic

\* So they do when one Item gets inputs from none of which the Item is reached.
LEMMA NewInputs ==
    ASSUME NEW c, NEW d, NEW i \in Items, NEW inputs, AcyclicItems(c),
           DOMAIN c.items \subseteq Items,
           DOMAIN d.items = DOMAIN c.items \cup {i},
           d.items[i].inputs = inputs,
           \A j \in DOMAIN c.items \ {i} : d.items[j] = c.items[j],
           \A x \in inputs \cap Items : ~Reaches(c, x, i)
    PROVE  AcyclicItems(d)
<1> SUFFICES ASSUME NEW S \in SUBSET DOMAIN d.items, S # {}
             PROVE  \E n \in S : Edges(d, n) \cap S = {}
    BY ItemsAcyclic
\* What is reached from the new inputs, closed and without i.
<1> DEFINE Closed(T) == T \subseteq Items /\ i \notin T /\ \A j \in T : Edges(c, j) \subseteq T
           U == {j \in Items : \E T \in SUBSET Items : Closed(T) /\ j \in T}
<1>1. inputs \cap Items \subseteq U
    BY DEF Reaches
<1>2. i \notin U
    OBVIOUS
<1>3. \A j \in U : Edges(c, j) \subseteq U
    BY DEF Edges
<1>4. \A j \in DOMAIN c.items \ {i} : Edges(d, j) = Edges(c, j)
    BY DEF Edges
<1>5. Edges(d, i) = inputs \cap Items
    BY DEF Edges
<1> HIDE DEF U
<1>6. CASE S \cap U # {}
  <2>1. S \cap U \in (SUBSET DOMAIN c.items) \ {{}}
      BY <1>2, <1>6
  <2>2. PICK n \in S \cap U : Edges(c, n) \cap (S \cap U) = {}
      BY <2>1, ItemsAcyclic
  <2>3. n \in DOMAIN c.items \ {i} /\ Edges(c, n) \subseteq U
      BY <1>2, <1>3
  <2> QED  BY <1>4, <2>2, <2>3
<1>7. CASE S \cap U = {} /\ i \in S
    BY <1>1, <1>5, <1>7
<1>8. CASE i \notin S
  <2>1. S \in (SUBSET DOMAIN c.items) \ {{}}
      BY <1>8
  <2>2. PICK n \in S : Edges(c, n) \cap S = {}
      BY <2>1, ItemsAcyclic
  <2> QED  BY <1>4, <1>8, <2>1, <2>2
<1> QED  BY <1>6, <1>7, <1>8

-----------------------------------------------------------------------------
(* What must hold of a catalog, part by part, each with the tables it is   *)
(* about.                                                                  *)

\* Active Items rest on active declarations.
Rests(c) ==
    \A i \in DOMAIN c.items : c.items[i].active => \A d \in c.items[i].inputs : Declared(c, d)

\* Parents are there, siblings have names of their own, nothing is its own ancestor.
Tree(c) ==
    /\ \A n \in DOMAIN c.nodes :
          /\ c.nodes[n].parent \in DOMAIN c.nodes \cup {NoName}
          /\ ~Sibling(c, c.nodes[n].name, c.nodes[n].parent, n)
    /\ AcyclicNodes(c)

\* Only active Items are assigned, to categories that are there.
Placed(c) ==
    \A k \in DOMAIN c.assigned : c.assigned[k] \in DOMAIN c.nodes /\ Active(c.items, k)

Sound(c) == c \in Catalogs /\ Rests(c) /\ AcyclicItems(c) /\ Tree(c) /\ Placed(c)

\* The tree is one of the nodes alone.
LEMMA SameTree ==
    ASSUME NEW c, NEW d, Tree(c), d.nodes = c.nodes
    PROVE  Tree(d)
<1>1. \A n : Above(d, n) = Above(c, n)
    BY DEF Above
<1>2. AcyclicNodes(d)
    BY <1>1, NodesAcyclic DEF Tree
<1> QED  BY <1>2 DEF Tree, Sibling

\* A dataset may change as long as no active Item loses an active input.
LEMMA RawChange ==
    ASSUME NEW c, Sound(c), NEW t \in Tables(Raws, RawRow),
           \A i \in DOMAIN c.items : c.items[i].active =>
               \A x \in c.items[i].inputs : Active(c.raw, x) => Active(t, x)
    PROVE  Sound([c EXCEPT !.raw = t])
<1> DEFINE d == [c EXCEPT !.raw = t]
<1>1. d.raw = t /\ d.items = c.items /\ d.nodes = c.nodes /\ d.assigned = c.assigned
    BY DEF Sound, Catalogs
<1>2. d \in Catalogs
    BY DEF Sound, Catalogs
<1> HIDE DEF d
<1>3. Rests(d)
    BY <1>1 DEF Sound, Rests, Declared
<1>4. AcyclicItems(d)
    BY <1>1, SameInputs DEF Sound
<1>5. Tree(d)
    BY <1>1, SameTree DEF Sound
<1>6. Placed(d)
    BY <1>1 DEF Sound, Placed
<1>7. Sound(d)
    BY <1>2, <1>3, <1>4, <1>5, <1>6 DEF Sound
<1> QED  BY <1>7 DEF d

\* The row of a dataset that keeps it active, or that no active Item needs.
LEMMA RawRowChange ==
    ASSUME NEW c, Sound(c), NEW r \in Raws, NEW row \in RawRow,
           row.active \/ ~DependedOn(c, r) \/ ~Active(c.raw, r)
    PROVE  Sound([c EXCEPT !.raw = Put(c.raw, r, row)])
<1>1. Put(c.raw, r, row) \in Tables(Raws, RawRow)
    BY PutTable, CatalogTables DEF Sound
<1>2. ASSUME NEW i \in DOMAIN c.items, c.items[i].active,
             NEW x \in c.items[i].inputs, Active(c.raw, x)
      PROVE  Active(Put(c.raw, r, row), x)
  <2>1. CASE x = r
      BY <1>2, <2>1 DEF DependedOn, Active, Put
  <2>2. CASE x # r
      BY <1>2, <2>2 DEF Active, Put
  <2> QED  BY <2>1, <2>2
<1> QED  BY <1>1, <1>2, RawChange

\* A row of a table is put in its place.
LEMMA PutPlace ==
    ASSUME NEW K, NEW R, NEW f \in Tables(K, R), NEW k \in DOMAIN f, NEW v
    PROVE  [f EXCEPT ![k] = v] = Put(f, k, v)
<1>1. f \in [DOMAIN f -> R]
    BY TableRows
<1> QED  BY <1>1 DEF Put

\* An Item's new definition, over active inputs from none of which it is reached.
LEMMA ItemRegistered ==
    ASSUME NEW c, Sound(c), NEW i \in Items, NEW inputs \in SUBSET (Raws \cup (Items \ {i})),
           \A d \in inputs : Declared(c, d),
           \A d \in inputs \cap Items : ~Reaches(c, d, i)
    PROVE  Sound([c EXCEPT !.items = Put(c.items, i, [active |-> TRUE, inputs |-> inputs])])
<1> DEFINE row == [active |-> TRUE, inputs |-> inputs]
           t == Put(c.items, i, row)
           d == [c EXCEPT !.items = t]
<1>1. t \in Tables(Items, ItemRow)
  <2>1. row \in ItemRow
      BY DEF ItemRow
  <2> QED  BY <2>1, PutTable, CatalogTables DEF Sound
<1>2. /\ DOMAIN t = DOMAIN c.items \cup {i}
      /\ t[i] = row
      /\ \A x \in DOMAIN c.items \ {i} : t[x] = c.items[x]
    BY DEF Put
<1>3. row.active /\ row.inputs = inputs
    OBVIOUS
<1> HIDE DEF row, t
<1>4. d.items = t /\ d.raw = c.raw /\ d.nodes = c.nodes /\ d.assigned = c.assigned
    BY DEF Sound, Catalogs
<1>5. d \in Catalogs
    BY <1>1 DEF Sound, Catalogs
<1> HIDE DEF d
<1>6. \A x : Declared(c, x) => Declared(d, x)
    BY <1>2, <1>3, <1>4 DEF Declared, Active
<1>7. Rests(d)
  <2> SUFFICES ASSUME NEW j \in DOMAIN t, t[j].active, NEW x \in t[j].inputs
               PROVE  Declared(d, x)
      BY <1>4 DEF Rests
  <2>1. CASE j = i
      BY <1>2, <1>3, <1>6, <2>1
  <2>2. CASE j # i
      BY <1>2, <1>6, <2>2 DEF Sound, Rests
  <2> QED  BY <2>1, <2>2
<1>8. AcyclicItems(d)
  <2>1. DOMAIN c.items \subseteq Items
      BY CatalogTables, TableRows DEF Sound
  <2> QED  BY <1>2, <1>3, <1>4, <2>1, NewInputs DEF Sound
<1>9. Tree(d)
    BY <1>4, SameTree DEF Sound
<1>10. Placed(d)
    BY <1>2, <1>3, <1>4 DEF Sound, Placed, Active
<1>11. Sound(d)
    BY <1>5, <1>7, <1>8, <1>9, <1>10 DEF Sound
<1> QED  BY <1>11 DEF d, t, row

\* An Item is archived that no active one needs, and its assignment goes with it.
LEMMA ItemArchived ==
    ASSUME NEW c, Sound(c), NEW i \in Items, ~DependedOn(c, i)
    PROVE  Sound([c EXCEPT !.items[i].active = FALSE,
                           !.assigned = Restrict(c.assigned, DOMAIN c.assigned \ {i})])
<1> DEFINE t == [c.items EXCEPT ![i].active = FALSE]
           a == Restrict(c.assigned, DOMAIN c.assigned \ {i})
           d == [c EXCEPT !.items = t, !.assigned = a]
<1>0. c.items \in [DOMAIN c.items -> ItemRow] /\ DOMAIN c.items \subseteq Items
    BY CatalogTables, TableRows DEF Sound
<1>1. t \in [DOMAIN c.items -> ItemRow]
    BY <1>0 DEF ItemRow
<1>2. t \in Tables(Items, ItemRow)
    BY <1>0, <1>1 DEF Tables
<1>3. /\ DOMAIN t = DOMAIN c.items
      /\ \A j \in DOMAIN c.items :
            /\ t[j].inputs = c.items[j].inputs
            /\ t[j].active <=> c.items[j].active /\ j # i
  <2>1. \A j \in DOMAIN c.items \ {i} : t[j] = c.items[j]
      BY <1>0
  <2>2. i \in DOMAIN c.items => t[i] = [c.items[i] EXCEPT !.active = FALSE]
      BY <1>0
  <2>3. i \in DOMAIN c.items => t[i].inputs = c.items[i].inputs /\ ~t[i].active
      BY <1>0, <2>2 DEF ItemRow
  <2> HIDE DEF t
  <2> QED  BY <1>0, <1>1, <2>1, <2>3
<1>4. /\ a \in Tables(Items, Categories)
      /\ DOMAIN a = DOMAIN c.assigned \ {i}
      /\ \A x \in DOMAIN c.assigned \ {i} : a[x] = c.assigned[x]
  <2>1. c.assigned \in Tables(Items, Categories)
      BY CatalogTables DEF Sound
  <2>2. a \in Tables(Items, Categories)
      BY <2>1, RestrictTable
  <2> QED  BY <2>2 DEF Restrict
<1>5. d = [c EXCEPT !.items[i].active = FALSE,
                    !.assigned = Restrict(c.assigned, DOMAIN c.assigned \ {i})]
    BY DEF Sound, Catalogs
<1> HIDE DEF t, a
<1>6. d.items = t /\ d.raw = c.raw /\ d.nodes = c.nodes /\ d.assigned = a
    BY DEF Sound, Catalogs
<1>7. d \in Catalogs
    BY <1>2, <1>4 DEF Sound, Catalogs
<1> HIDE DEF d
<1>8. Rests(d)
    BY <1>3, <1>6 DEF Sound, Rests, Declared, Active, DependedOn
<1>9. AcyclicItems(d)
    BY <1>3, <1>6, SameInputs DEF Sound
<1>10. Tree(d)
    BY <1>6, SameTree DEF Sound
<1>11. Placed(d)
    BY <1>3, <1>4, <1>6 DEF Sound, Placed, Active
<1> QED  BY <1>5, <1>7, <1>8, <1>9, <1>10, <1>11 DEF Sound

\* Another tree of categories, if it is one and keeps those that Items are assigned to.
LEMMA NodesChange ==
    ASSUME NEW c, Sound(c), NEW t \in Tables(Categories, NodeRow),
           Tree([c EXCEPT !.nodes = t]),
           \A k \in DOMAIN c.assigned : c.assigned[k] \in DOMAIN t
    PROVE  Sound([c EXCEPT !.nodes = t])
<1> DEFINE d == [c EXCEPT !.nodes = t]
<1>1. d.raw = c.raw /\ d.items = c.items /\ d.nodes = t /\ d.assigned = c.assigned
    BY DEF Sound, Catalogs
<1>2. d \in Catalogs
    BY DEF Sound, Catalogs
<1>3. Tree(d)
    OBVIOUS
<1> HIDE DEF d
<1>4. Rests(d)
    BY <1>1 DEF Sound, Rests, Declared
<1>5. AcyclicItems(d)
    BY <1>1, SameInputs DEF Sound
<1>6. Placed(d)
    BY <1>1 DEF Sound, Placed
<1>7. Sound(d)
    BY <1>2, <1>3, <1>4, <1>5, <1>6 DEF Sound
<1> QED  BY <1>7 DEF d

\* A new category: nothing is below it, and no sibling has its name.
LEMMA NodeCreated ==
    ASSUME NEW c, Sound(c), NEW name \in CategoryNames, NEW parent,
           MayCreate(c, name, parent), NEW node \in Categories \ DOMAIN c.nodes
    PROVE  Sound([c EXCEPT !.nodes = Put(c.nodes, node, [name |-> name, parent |-> parent])])
<1> DEFINE row == [name |-> name, parent |-> parent]
           t == Put(c.nodes, node, row)
           d == [c EXCEPT !.nodes = t]
<1>1. DOMAIN c.nodes \subseteq Categories /\ NoName \notin Categories
    BY CatalogTables, TableRows, DeclarationsAssumption DEF Sound
<1>2. t \in Tables(Categories, NodeRow)
  <2>1. row \in NodeRow
      BY <1>1 DEF NodeRow, MayCreate
  <2> QED  BY <2>1, PutTable, CatalogTables DEF Sound
<1>3. /\ DOMAIN t = DOMAIN c.nodes \cup {node}
      /\ t[node] = row
      /\ \A x \in DOMAIN c.nodes : t[x] = c.nodes[x]
    BY DEF Put
<1>4. row.name = name /\ row.parent = parent
    OBVIOUS
<1> HIDE DEF row, t
<1>5. d.nodes = t
    BY DEF Sound, Catalogs
<1> HIDE DEF d
<1>6. \A n \in DOMAIN c.nodes : c.nodes[n].parent \in DOMAIN c.nodes \cup {NoName}
    BY DEF Sound, Tree
<1>7. ASSUME NEW n \in DOMAIN t
      PROVE  /\ t[n].parent \in DOMAIN t \cup {NoName}
             /\ ~Sibling(d, t[n].name, t[n].parent, n)
  <2>1. CASE n = node
      BY <1>1, <1>3, <1>4, <1>5, <2>1 DEF Sibling, MayCreate
  <2>2. CASE n # node
    <3>1. ~Sibling(c, c.nodes[n].name, c.nodes[n].parent, n)
        BY <1>3, <2>2 DEF Sound, Tree
    <3>2. ~(name = c.nodes[n].name /\ parent = c.nodes[n].parent)
        BY <1>1, <1>3, <2>2 DEF Sibling, MayCreate
    <3> QED  BY <1>3, <1>4, <1>5, <1>6, <2>2, <3>1, <3>2 DEF Sibling
  <2> QED  BY <2>1, <2>2
\* Nothing is above what is not there yet.
<1>8. AcyclicNodes(d)
  <2> SUFFICES ASSUME NEW S \in SUBSET DOMAIN d.nodes, S # {}
               PROVE  \E n \in S : Above(d, n) \cap S = {}
      BY NodesAcyclic
  <2>1. \A n \in DOMAIN c.nodes : Above(d, n) = Above(c, n) /\ node \notin Above(c, n)
      BY <1>1, <1>3, <1>5, <1>6 DEF Above
  <2>2. Above(d, node) = {parent} /\ parent # node
      BY <1>1, <1>3, <1>4, <1>5 DEF Above, MayCreate
  <2>3. CASE S \ {node} # {}
    <3>1. S \ {node} \in (SUBSET DOMAIN c.nodes) \ {{}}
        BY <1>3, <1>5, <2>3
    <3>2. PICK n \in S \ {node} : Above(c, n) \cap (S \ {node}) = {}
        BY <3>1, NodesAcyclic DEF Sound, Tree
    <3>3. n \in DOMAIN c.nodes
        BY <3>1
    <3> QED  BY <2>1, <3>2, <3>3
  <2>4. CASE S \ {node} = {}
      BY <2>2, <2>4
  <2> QED  BY <2>3, <2>4
<1>9. Tree(d)
    BY <1>5, <1>7, <1>8 DEF Tree
<1>10. \A k \in DOMAIN c.assigned : c.assigned[k] \in DOMAIN t
    BY <1>3 DEF Sound, Placed
<1>11. Sound([c EXCEPT !.nodes = t])
    BY <1>2, <1>9, <1>10, NodesChange DEF d
<1> QED  BY <1>11 DEF t, row

\* A category is renamed or moved to where the walk to the root does not meet it.
LEMMA NodeUpdated ==
    ASSUME NEW c, Sound(c), NEW name \in CategoryNames, NEW parent, NEW node \in DOMAIN c.nodes,
           MayMove(c, node, parent), ~Sibling(c, name, parent, node)
    PROVE  Sound([c EXCEPT !.nodes[node] = [name |-> name, parent |-> parent]])
<1> DEFINE row == [name |-> name, parent |-> parent]
           t == [c.nodes EXCEPT ![node] = row]
           moved == [c.nodes EXCEPT ![node].parent = parent]
           d == [c EXCEPT !.nodes = t]
           e == [c EXCEPT !.nodes[node].parent = parent]
<1>1. DOMAIN c.nodes \subseteq Categories /\ c.nodes \in [DOMAIN c.nodes -> NodeRow]
    BY CatalogTables, TableRows DEF Sound
<1>2. row \in NodeRow
    BY <1>1 DEF NodeRow, MayMove
<1>3. row.name = name /\ row.parent = parent
    OBVIOUS
<1>4. d.nodes = t /\ e.nodes = moved
    BY DEF Sound, Catalogs
<1>5. AcyclicNodes(e)
    BY DEF MayMove
<1>6. d = [c EXCEPT !.nodes[node] = [name |-> name, parent |-> parent]]
    BY DEF Sound, Catalogs
<1> HIDE DEF d, e, row
<1>7. t \in [DOMAIN c.nodes -> NodeRow]
    BY <1>1, <1>2
<1>8. /\ DOMAIN t = DOMAIN c.nodes
      /\ t[node] = row
      /\ \A x \in DOMAIN c.nodes \ {node} : t[x] = c.nodes[x]
    BY <1>1
<1>9. /\ DOMAIN moved = DOMAIN c.nodes
      /\ moved[node].parent = parent
      /\ \A x \in DOMAIN c.nodes \ {node} : moved[x] = c.nodes[x]
  <2>1. c.nodes[node] \in NodeRow
      BY <1>1
  <2>2. moved[node] = [c.nodes[node] EXCEPT !.parent = parent]
      BY <1>1
  <2>3. moved[node].parent = parent
      BY <2>1, <2>2 DEF NodeRow
  <2> QED  BY <1>1, <2>3
<1>10. t \in Tables(Categories, NodeRow)
    BY <1>1, <1>7 DEF Tables
<1> HIDE DEF t, moved
<1>11. \A n : Above(d, n) = Above(e, n)
    BY <1>3, <1>4, <1>8, <1>9 DEF Above
<1>12. AcyclicNodes(d)
    BY <1>4, <1>5, <1>8, <1>9, <1>11, NodesAcyclic
<1>13. ASSUME NEW n \in DOMAIN t
       PROVE  /\ t[n].parent \in DOMAIN t \cup {NoName}
              /\ ~Sibling(d, t[n].name, t[n].parent, n)
  <2>1. CASE n = node
      BY <1>3, <1>4, <1>8, <2>1 DEF Sibling, MayMove
  <2>2. CASE n # node
    <3>1. ~Sibling(c, c.nodes[n].name, c.nodes[n].parent, n)
        BY <1>8, <2>2 DEF Sound, Tree
    <3>2. c.nodes[n].parent \in DOMAIN c.nodes \cup {NoName}
        BY <1>8, <2>2 DEF Sound, Tree
    <3>3. ~(name = c.nodes[n].name /\ parent = c.nodes[n].parent)
        BY <1>8, <2>2 DEF Sibling
    <3> QED  BY <1>3, <1>4, <1>8, <2>2, <3>1, <3>2, <3>3 DEF Sibling
  <2> QED  BY <2>1, <2>2
<1>14. Tree(d)
    BY <1>4, <1>12, <1>13 DEF Tree
<1>15. \A k \in DOMAIN c.assigned : c.assigned[k] \in DOMAIN t
    BY <1>8 DEF Sound, Placed
<1>16. Sound([c EXCEPT !.nodes = t])
    BY <1>10, <1>14, <1>15, NodesChange DEF d
<1> QED  BY <1>6, <1>16 DEF d

\* A category is removed that has no child and no Item.
LEMMA NodeRemoved ==
    ASSUME NEW c, Sound(c), NEW node \in Categories, ~Populated(c, node)
    PROVE  Sound([c EXCEPT !.nodes = Restrict(c.nodes, DOMAIN c.nodes \ {node})])
<1> DEFINE t == Restrict(c.nodes, DOMAIN c.nodes \ {node})
           d == [c EXCEPT !.nodes = t]
<1>1. t \in Tables(Categories, NodeRow)
    BY RestrictTable, CatalogTables DEF Sound
<1>2. /\ DOMAIN t = DOMAIN c.nodes \ {node}
      /\ \A x \in DOMAIN c.nodes \ {node} : t[x] = c.nodes[x]
    BY DEF Restrict
<1> HIDE DEF t
<1>3. d.nodes = t
    BY DEF Sound, Catalogs
<1> HIDE DEF d
<1>4. \A n \in DOMAIN c.nodes : c.nodes[n].parent # node
    BY DEF Populated
<1>5. \A k \in DOMAIN c.assigned : c.assigned[k] \in DOMAIN t
    BY <1>2 DEF Populated, Range, Sound, Placed
<1>6. AcyclicNodes(d)
  <2>1. \A n \in DOMAIN t : Above(d, n) = Above(c, n)
      BY <1>2, <1>3 DEF Above
  <2> QED  BY <1>2, <1>3, <2>1, NodesAcyclic DEF Sound, Tree
<1>7. Tree(d)
    BY <1>2, <1>3, <1>4, <1>6 DEF Sound, Tree, Sibling
<1>8. Sound([c EXCEPT !.nodes = t])
    BY <1>1, <1>5, <1>7, NodesChange DEF d
<1> QED  BY <1>8 DEF t

\* Assignments change to categories that are there, of active Items.
LEMMA AssignedChange ==
    ASSUME NEW c, Sound(c), NEW t \in Tables(Items, Categories),
           \A k \in DOMAIN t : t[k] \in DOMAIN c.nodes /\ Active(c.items, k)
    PROVE  Sound([c EXCEPT !.assigned = t])
<1> DEFINE d == [c EXCEPT !.assigned = t]
<1>1. d.raw = c.raw /\ d.items = c.items /\ d.nodes = c.nodes /\ d.assigned = t
    BY DEF Sound, Catalogs
<1>2. d \in Catalogs
    BY DEF Sound, Catalogs
<1> HIDE DEF d
<1>3. Rests(d)
    BY <1>1 DEF Sound, Rests, Declared
<1>4. AcyclicItems(d)
    BY <1>1, SameInputs DEF Sound
<1>5. Tree(d)
    BY <1>1, SameTree DEF Sound
<1>6. Placed(d)
    BY <1>1 DEF Placed
<1>7. Sound(d)
    BY <1>2, <1>3, <1>4, <1>5, <1>6 DEF Sound
<1> QED  BY <1>7 DEF d

\* What a batch writes: the union of the two catalogs but for the enabled flags of
\* the archived datasets it adds.
LEMMA AppliedTables ==
    ASSUME NEW c \in Catalogs, NEW p \in Catalogs
    PROVE  /\ UnionOf(c, p).raw = Union(c.raw, p.raw)
           /\ UnionOf(c, p).items = Union(c.items, p.items)
           /\ UnionOf(c, p).nodes = Union(c.nodes, p.nodes)
           /\ UnionOf(c, p).assigned = Union(c.assigned, p.assigned)
           /\ Applied(c, p) \in Catalogs
           /\ Applied(c, p).items = UnionOf(c, p).items
           /\ Applied(c, p).nodes = UnionOf(c, p).nodes
           /\ Applied(c, p).assigned = UnionOf(c, p).assigned
           /\ DOMAIN Applied(c, p).raw = DOMAIN c.raw \cup DOMAIN p.raw
           /\ \A r \in DOMAIN c.raw : Applied(c, p).raw[r] = c.raw[r]
           /\ \A r \in DOMAIN p.raw \ DOMAIN c.raw : Applied(c, p).raw[r] = Stored(p.raw[r])
<1> DEFINE u == UnionOf(c, p)
           t == [r \in DOMAIN u.raw |-> IF r \in DOMAIN c.raw THEN c.raw[r] ELSE Stored(p.raw[r])]
           d == [u EXCEPT !.raw = t]
<1>1. /\ u.raw = Union(c.raw, p.raw) /\ u.items = Union(c.items, p.items)
      /\ u.nodes = Union(c.nodes, p.nodes) /\ u.assigned = Union(c.assigned, p.assigned)
    BY DEF UnionOf, Sections
<1>2. /\ u.items \in Tables(Items, ItemRow) /\ u.nodes \in Tables(Categories, NodeRow)
      /\ u.assigned \in Tables(Items, Categories) /\ u.raw \in Tables(Raws, RawRow)
    BY <1>1, UnionTable, CatalogTables
<1>3. u = [raw |-> u.raw, items |-> u.items, nodes |-> u.nodes, assigned |-> u.assigned]
    BY DEF UnionOf, Sections
<1>4. DOMAIN u.raw = DOMAIN c.raw \cup DOMAIN p.raw
    BY <1>1 DEF Union
<1>5. Applied(c, p) = d
    BY DEF Applied
<1>6. t \in Tables(Raws, RawRow)
  <2>1. DOMAIN u.raw \subseteq Raws
      BY <1>2, TableRows
  <2>2. \A r \in DOMAIN c.raw : c.raw[r] \in RawRow
      BY CatalogTables, TableRows
  <2>3. \A r \in DOMAIN p.raw : p.raw[r] \in RawRow
      BY CatalogTables, TableRows
  <2>4. ASSUME NEW row \in RawRow PROVE Stored(row) \in RawRow
    <3>1. (row.enabled /\ row.active) \in BOOLEAN
        OBVIOUS
    <3> QED  BY <3>1 DEF RawRow, Stored
  <2>5. t \in [DOMAIN u.raw -> RawRow]
      BY <1>4, <2>2, <2>3, <2>4
  <2> QED  BY <2>1, <2>5 DEF Tables
<1>7. /\ DOMAIN t = DOMAIN u.raw
      /\ \A r \in DOMAIN c.raw : t[r] = c.raw[r]
      /\ \A r \in DOMAIN p.raw \ DOMAIN c.raw : t[r] = Stored(p.raw[r])
    BY <1>4
<1> HIDE DEF u, t
<1>8. d = [raw |-> t, items |-> u.items, nodes |-> u.nodes, assigned |-> u.assigned]
    BY <1>3
<1>9. d \in Catalogs
    BY <1>2, <1>6, <1>8 DEF Catalogs
<1>10. d.raw = t /\ d.items = u.items /\ d.nodes = u.nodes /\ d.assigned = u.assigned
    BY <1>8
<1> HIDE DEF d
<1> QED  BY <1>1, <1>4, <1>5, <1>7, <1>9, <1>10 DEF u

\* Archiving a dataset's row disables it and nothing else.
LEMMA StoredRow ==
    ASSUME NEW row \in RawRow
    PROVE  Stored(row).active = row.active /\ Stored(row) \in {row, Disabled(row, "raw")}
<1>1. Stored(row).active = row.active
    BY DEF Stored, RawRow
<1>2. CASE row.active
  <2>1. (row.enabled /\ row.active) = row.enabled
      BY <1>2 DEF RawRow
  <2>2. Stored(row) = row
      BY <2>1 DEF Stored, RawRow
  <2> QED  BY <1>1, <2>2
<1>3. CASE ~row.active
  <2>1. (row.enabled /\ row.active) = FALSE
      BY <1>3
  <2>2. Stored(row) = Disabled(row, "raw")
      BY <1>3, <2>1 DEF Stored, Disabled
  <2> QED  BY <1>1, <2>2
<1> QED  BY <1>2, <1>3

\* A batch whose union with the catalog is valid leaves a catalog that holds.
LEMMA BatchApplied ==
    ASSUME NEW c \in Catalogs, NEW p \in Catalogs, Valid(c, p)
    PROVE  Sound(Applied(c, p))
<1> DEFINE u == UnionOf(c, p)
           d == Applied(c, p)
<1>1. d \in Catalogs /\ d.items = u.items /\ d.nodes = u.nodes /\ d.assigned = u.assigned
    BY AppliedTables
<1>2. ValidUnion(u)
    BY DEF Valid
<1>3. /\ DOMAIN d.raw = DOMAIN c.raw \cup DOMAIN p.raw
      /\ \A r \in DOMAIN c.raw : d.raw[r] = c.raw[r]
      /\ \A r \in DOMAIN p.raw \ DOMAIN c.raw : d.raw[r] = Stored(p.raw[r])
      /\ u.raw = Union(c.raw, p.raw)
    BY AppliedTables
<1> HIDE DEF u, d
<1>4. \A r : Active(u.raw, r) => Active(d.raw, r)
  <2> SUFFICES ASSUME NEW r, Active(u.raw, r) PROVE Active(d.raw, r)
      OBVIOUS
  <2>1. r \in DOMAIN c.raw \cup DOMAIN p.raw
      BY <1>3 DEF Active, Union
  <2>2. CASE r \in DOMAIN c.raw
      BY <1>3, <2>2 DEF Active, Union
  <2>3. CASE r \in DOMAIN p.raw \ DOMAIN c.raw
    <3>1. p.raw[r] \in RawRow
        BY <2>3, CatalogTables, TableRows
    <3>2. p.raw[r].active
        BY <1>3, <2>3 DEF Active, Union
    <3> QED  BY <1>3, <2>3, <3>1, <3>2, StoredRow DEF Active
  <2> QED  BY <2>1, <2>2, <2>3
<1>5. Rests(d)
    BY <1>1, <1>2, <1>4 DEF ValidUnion, Rests, Declared
<1>6. AcyclicItems(d)
    BY <1>1, <1>2, SameInputs DEF ValidUnion
<1>7. Tree(u)
    BY <1>2 DEF ValidUnion, Tree
<1>8. Tree(d)
    BY <1>1, <1>7, SameTree
<1>9. Placed(d)
    BY <1>1, <1>2 DEF ValidUnion, Placed
<1>10. Sound(d)
    BY <1>1, <1>5, <1>6, <1>8, <1>9 DEF Sound
<1> QED  BY <1>10 DEF d

-----------------------------------------------------------------------------
(* The state of the whole module.                                          *)

Calls ==
    {Idle}
        \cup [op : {"create"}, parent : Categories \cup {NoName}, name : CategoryNames]
        \cup [op : {"removeNode"}, node : Categories]
        \cup [op : {"assign"}, key : Items, node : Categories]
        \cup [op : {"removeItem"}, key : Items]
Plans == [op : {"apply"}, payload : Payloads, base : Catalogs]

TypeInv ==
    /\ catalog \in Catalogs
    /\ receipts \in Tables(RequestIds, Plans)
    /\ call \in [Clients -> Calls]
    /\ plan \in [Clients -> Plans \cup {NoPlan}]
    /\ changes \in 0 .. MaxChanges

\* The inductive invariant: what clients hold is typed, what the tables say holds.
CatalogInv == TypeInv /\ Sound(catalog)

\* The parts together are the property that the runs check.
LEMMA HoldsFromParts == CatalogInv => CatalogHolds
BY DEF CatalogInv, Sound, Rests, Tree, Placed, CatalogHolds

\* A client's call has one of these shapes.
LEMMA CallShapes ==
    ASSUME TypeInv, NEW client \in Clients
    PROVE  /\ call[client].op = "create" => call[client].name \in CategoryNames
           /\ call[client].op = "removeNode" => call[client].node \in Categories
           /\ call[client].op = "assign" => call[client].key \in Items /\ call[client].node \in Categories
           /\ call[client].op = "removeItem" => call[client].key \in Items
<1>1. call[client] \in Calls
    BY DEF TypeInv
<1> QED  BY <1>1 DEF Calls, Idle

\* A catalog that holds after a step.
LEMMA SoundNext == Sound(catalog') <=> Sound(catalog)'
BY DEF Sound, Rests, Tree, Placed, Declared, Active, Sibling, AcyclicItems, AcyclicNodes,
       Acyclic, Edges, Above

\* A transaction that leaves a catalog that holds keeps the invariant.
LEMMA Written ==
    ASSUME CatalogInv, NEW client \in Clients, NEW c, Sound(c), Write(client, c)
    PROVE  CatalogInv'
<1>1. catalog' = c /\ UNCHANGED <<receipts, plan>>
    BY DEF Write, Change
<1>2. call' \in [Clients -> Calls]
    BY DEF Write, CatalogInv, TypeInv, Calls
<1>3. changes' \in 0 .. MaxChanges
    BY DeclarationsAssumption DEF Write, Count, CatalogInv, TypeInv
<1>4. Sound(catalog') /\ catalog' \in Catalogs
    BY <1>1 DEF Sound
<1>5. TypeInv'
    BY <1>1, <1>2, <1>3, <1>4 DEF CatalogInv, TypeInv
<1>6. Sound(catalog)'
    BY <1>4, SoundNext
<1> QED  BY <1>5, <1>6 DEF CatalogInv

\* So does one that only looks something up.
LEMMA Looked ==
    ASSUME CatalogInv, NEW client \in Clients, NEW op \in Calls, Look(client, op)
    PROVE  CatalogInv'
<1>1. UNCHANGED <<catalog, receipts, plan>>
    BY DEF Look
<1>2. call' \in [Clients -> Calls]
    BY DEF Look, CatalogInv, TypeInv
<1>3. changes' \in 0 .. MaxChanges
    BY DeclarationsAssumption DEF Look, Count, CatalogInv, TypeInv
<1>4. TypeInv'
    BY <1>1, <1>2, <1>3 DEF CatalogInv, TypeInv
<1>5. Sound(catalog)'
    BY <1>1, SoundNext DEF CatalogInv
<1> QED  BY <1>4, <1>5 DEF CatalogInv

\* Datasets: registered, enabled, or removed while no active Item rests on them.
LEMMA RawSteps ==
    ASSUME CatalogInv, NEW client \in Clients, NEW r \in Raws,
           RegisterRaw(client, r) \/ EnableRaw(client, r) \/ RemoveRaw(client, r)
    PROVE  CatalogInv'
<1>1. Sound(catalog) /\ catalog \in Catalogs /\ catalog.raw \in Tables(Raws, RawRow)
    BY CatalogTables DEF CatalogInv, Sound
<1>2. \A k \in DOMAIN catalog.raw : catalog.raw[k] \in RawRow
    BY <1>1, TableRows
<1>3. CASE RegisterRaw(client, r)
  <2>1. PICK calendar \in (Raws \ {r}) \cup {NoName} :
            Write(client, [catalog EXCEPT !.raw = Put(@, r,
               [active |-> TRUE, calendar |-> calendar,
                enabled |-> r \in DOMAIN catalog.raw => catalog.raw[r].enabled])])
      BY <1>3 DEF RegisterRaw
  <2> DEFINE row == [active |-> TRUE, calendar |-> calendar,
                     enabled |-> r \in DOMAIN catalog.raw => catalog.raw[r].enabled]
  <2>2. (r \in DOMAIN catalog.raw => catalog.raw[r].enabled) \in BOOLEAN
      OBVIOUS
  <2>3. row \in RawRow /\ row.active
      BY <2>2 DEF RawRow
  <2>4. Write(client, [catalog EXCEPT !.raw = Put(catalog.raw, r, row)])
      BY <1>1, <2>1
  <2> HIDE DEF row
  <2>5. Sound([catalog EXCEPT !.raw = Put(catalog.raw, r, row)])
      BY <1>1, <2>3, RawRowChange
  <2> QED  BY <2>4, <2>5, Written
<1>4. CASE EnableRaw(client, r)
  <2>1. PICK enabled \in BOOLEAN : Write(client, [catalog EXCEPT !.raw[r].enabled = enabled])
      BY <1>4 DEF EnableRaw
  <2> DEFINE row == [catalog.raw[r] EXCEPT !.enabled = enabled]
  <2>2. r \in DOMAIN catalog.raw
      BY <1>4 DEF EnableRaw
  <2>3. row \in RawRow /\ row.active = catalog.raw[r].active
      BY <1>2, <2>2 DEF RawRow
  <2>4. [catalog.raw EXCEPT ![r] = row] = Put(catalog.raw, r, row)
    <3> HIDE DEF row
    <3> QED  BY <1>1, <2>2, PutPlace
  <2>5. [catalog EXCEPT !.raw[r].enabled = enabled] = [catalog EXCEPT !.raw = Put(catalog.raw, r, row)]
      BY <1>1, <2>4 DEF Catalogs
  <2> HIDE DEF row
  <2>6. row.active \/ ~Active(catalog.raw, r)
      BY <2>3 DEF Active
  <2>7. Sound([catalog EXCEPT !.raw = Put(catalog.raw, r, row)])
      BY <1>1, <2>3, <2>6, RawRowChange
  <2> QED  BY <2>1, <2>5, <2>7, Written
<1>5. CASE RemoveRaw(client, r)
  <2> DEFINE row == [catalog.raw[r] EXCEPT !.active = FALSE, !.enabled = FALSE]
             c == [catalog EXCEPT !.raw[r].active = FALSE, !.raw[r].enabled = FALSE]
  <2>1. r \in DOMAIN catalog.raw /\ ~DependedOn(catalog, r) /\ Write(client, c)
      BY <1>5 DEF RemoveRaw
  <2>2. row \in RawRow
      BY <1>2, <2>1 DEF RawRow
  <2>3. [catalog.raw EXCEPT ![r] = row] = Put(catalog.raw, r, row)
    <3> HIDE DEF row
    <3> QED  BY <1>1, <2>1, PutPlace
  <2>4. catalog.raw \in [DOMAIN catalog.raw -> RawRow]
      BY <1>1, TableRows
  <2>5. c = [catalog EXCEPT !.raw = Put(catalog.raw, r, row)]
      BY <1>1, <2>1, <2>3, <2>4 DEF Catalogs
  <2> HIDE DEF row, c
  <2>6. Sound([catalog EXCEPT !.raw = Put(catalog.raw, r, row)])
      BY <1>1, <2>1, <2>2, RawRowChange
  <2> QED  BY <2>1, <2>5, <2>6, Written
<1> QED  BY <1>3, <1>4, <1>5

\* Items: registered over active inputs, archived when no active one needs them.
LEMMA ItemSteps ==
    ASSUME CatalogInv, NEW client \in Clients,
           \/ \E i \in Items : RegisterItem(client, i) \/ LookItem(client, i)
           \/ RemoveItem(client)
    PROVE  CatalogInv'
<1>1. Sound(catalog) /\ catalog \in Catalogs
    BY DEF CatalogInv, Sound
<1>2. ASSUME NEW i \in Items, RegisterItem(client, i) PROVE CatalogInv'
  <2>1. PICK inputs \in SUBSET (Raws \cup (Items \ {i})), node \in Categories \cup {NoName} :
          /\ \A d \in inputs : Declared(catalog, d)
          /\ \A d \in inputs \cap Items : ~Reaches(catalog, d, i)
          /\ Count
          /\ Change([catalog EXCEPT !.items = Put(@, i, [active |-> TRUE, inputs |-> inputs])])
          /\ call' = [call EXCEPT ![client] =
                 IF node = NoName THEN Idle ELSE [op |-> "assign", key |-> i, node |-> node]]
      BY <1>2 DEF RegisterItem
  <2> DEFINE c == [catalog EXCEPT !.items = Put(catalog.items, i, [active |-> TRUE, inputs |-> inputs])]
  <2>2. Sound(c)
      BY <1>1, <2>1, ItemRegistered
  <2>3. catalog' = c /\ UNCHANGED <<receipts, plan>>
      BY <1>1, <2>1 DEF Change
  <2> HIDE DEF c
  <2>4. (IF node = NoName THEN Idle ELSE [op |-> "assign", key |-> i, node |-> node]) \in Calls
      BY <2>1 DEF Calls
  <2>5. call' \in [Clients -> Calls]
      BY <2>1, <2>4 DEF CatalogInv, TypeInv
  <2>6. changes' \in 0 .. MaxChanges
      BY <2>1, DeclarationsAssumption DEF Count, CatalogInv, TypeInv
  <2>7. Sound(catalog') /\ catalog' \in Catalogs
      BY <2>2, <2>3 DEF Sound
  <2>8. TypeInv'
      BY <2>3, <2>5, <2>6, <2>7 DEF CatalogInv, TypeInv
  <2> QED  BY <2>7, <2>8, SoundNext DEF CatalogInv
<1>3. ASSUME NEW i \in Items, LookItem(client, i) PROVE CatalogInv'
  <2>1. [op |-> "removeItem", key |-> i] \in Calls
      BY DEF Calls
  <2> QED  BY <1>3, <2>1, Looked DEF LookItem
<1>4. CASE RemoveItem(client)
  <2>1. PICK i : i = call[client].key
      OBVIOUS
  <2>2. i \in Items
      BY <1>4, <2>1, CallShapes DEF RemoveItem, CatalogInv
  <2>3. /\ ~DependedOn(catalog, i)
        /\ Write(client, [catalog EXCEPT !.items[i].active = FALSE,
                              !.assigned = Restrict(catalog.assigned, DOMAIN catalog.assigned \ {i})])
      BY <1>1, <1>4, <2>1 DEF RemoveItem
  <2>4. Sound([catalog EXCEPT !.items[i].active = FALSE,
                              !.assigned = Restrict(catalog.assigned, DOMAIN catalog.assigned \ {i})])
      BY <1>1, <2>2, <2>3, ItemArchived
  <2> QED  BY <2>3, <2>4, Written
<1> QED  BY <1>2, <1>3, <1>4

\* Categories: created below one that is there, moved, renamed, removed when empty.
LEMMA NodeSteps ==
    ASSUME CatalogInv, NEW client \in Clients,
           \/ \E parent \in Categories \cup {NoName}, name \in CategoryNames :
                 \/ LookParent(client, parent, name)
                 \/ \E node \in Categories : UpdateNode(client, node, name, parent)
           \/ \E node \in Categories : LookNode(client, node)
           \/ CreateNode(client) \/ RemoveNode(client)
    PROVE  CatalogInv'
<1>1. Sound(catalog) /\ catalog \in Catalogs
    BY DEF CatalogInv, Sound
<1>2. ASSUME NEW parent \in Categories \cup {NoName}, NEW name \in CategoryNames,
             LookParent(client, parent, name)
      PROVE  CatalogInv'
  <2>1. [op |-> "create", parent |-> parent, name |-> name] \in Calls
      BY DEF Calls
  <2> QED  BY <1>2, <2>1, Looked DEF LookParent
<1>3. CASE CreateNode(client)
  <2>1. PICK new : new = call[client]
      OBVIOUS
  <2>2. PICK fresh \in Categories \ DOMAIN catalog.nodes :
            Write(client, [catalog EXCEPT !.nodes =
                Put(catalog.nodes, fresh, [name |-> new.name, parent |-> new.parent])])
      BY <1>1, <1>3, <2>1 DEF CreateNode
  <2>3. MayCreate(catalog, new.name, new.parent)
      BY <1>3, <2>1 DEF CreateNode
  <2>4. new.name \in CategoryNames
      BY <1>3, <2>1, CallShapes DEF CreateNode, CatalogInv
  <2>5. Sound([catalog EXCEPT !.nodes =
                  Put(catalog.nodes, fresh, [name |-> new.name, parent |-> new.parent])])
      BY <1>1, <2>3, <2>4, NodeCreated
  <2> QED  BY <2>2, <2>5, Written
<1>4. ASSUME NEW parent \in Categories \cup {NoName}, NEW name \in CategoryNames,
             NEW node \in Categories, UpdateNode(client, node, name, parent)
      PROVE  CatalogInv'
  <2>1. /\ node \in DOMAIN catalog.nodes
        /\ MayMove(catalog, node, parent) /\ ~Sibling(catalog, name, parent, node)
        /\ Write(client, [catalog EXCEPT !.nodes[node] = [name |-> name, parent |-> parent]])
      BY <1>4 DEF UpdateNode
  <2>2. Sound([catalog EXCEPT !.nodes[node] = [name |-> name, parent |-> parent]])
      BY <1>1, <2>1, NodeUpdated
  <2> QED  BY <2>1, <2>2, Written
<1>5. ASSUME NEW node \in Categories, LookNode(client, node) PROVE CatalogInv'
  <2>1. [op |-> "removeNode", node |-> node] \in Calls
      BY DEF Calls
  <2> QED  BY <1>5, <2>1, Looked DEF LookNode
<1>6. CASE RemoveNode(client)
  <2>1. PICK old : old = call[client].node
      OBVIOUS
  <2>2. old \in Categories
      BY <1>6, <2>1, CallShapes DEF RemoveNode, CatalogInv
  <2>3. /\ ~Populated(catalog, old)
        /\ Write(client, [catalog EXCEPT !.nodes =
                              Restrict(catalog.nodes, DOMAIN catalog.nodes \ {old})])
      BY <1>1, <1>6, <2>1 DEF RemoveNode
  <2>4. Sound([catalog EXCEPT !.nodes = Restrict(catalog.nodes, DOMAIN catalog.nodes \ {old})])
      BY <1>1, <2>2, <2>3, NodeRemoved
  <2> QED  BY <2>3, <2>4, Written
<1> QED  BY <1>2, <1>3, <1>4, <1>5, <1>6

\* Assignments of active Items to categories that are still there.
LEMMA AssignSteps ==
    ASSUME CatalogInv, NEW client \in Clients,
           \/ \E i \in Items : \/ Unassign(client, i)
                              \/ \E node \in Categories : LookAssigned(client, i, node)
           \/ Assign(client)
    PROVE  CatalogInv'
<1>1. Sound(catalog) /\ catalog \in Catalogs /\ catalog.assigned \in Tables(Items, Categories)
    BY CatalogTables DEF CatalogInv, Sound
<1>2. ASSUME NEW i \in Items, NEW node \in Categories, LookAssigned(client, i, node)
      PROVE  CatalogInv'
  <2>1. [op |-> "assign", key |-> i, node |-> node] \in Calls
      BY DEF Calls
  <2> QED  BY <1>2, <2>1, Looked DEF LookAssigned
<1>3. CASE Assign(client)
  <2>1. PICK k, v : k = call[client].key /\ v = call[client].node
      OBVIOUS
  <2>2. k \in Items /\ v \in Categories
      BY <1>3, <2>1, CallShapes DEF Assign, CatalogInv
  <2> DEFINE t == Put(catalog.assigned, k, v)
  <2>3. /\ Active(catalog.items, k) /\ v \in DOMAIN catalog.nodes
        /\ Write(client, [catalog EXCEPT !.assigned = t])
      BY <1>1, <1>3, <2>1 DEF Assign
  <2>4. t \in Tables(Items, Categories)
      BY <1>1, <2>2, PutTable
  <2>5. \A x \in DOMAIN t : t[x] \in DOMAIN catalog.nodes /\ Active(catalog.items, x)
      BY <1>1, <2>3 DEF Put, Sound, Placed
  <2> HIDE DEF t
  <2> QED  BY <1>1, <2>3, <2>4, <2>5, AssignedChange, Written
<1>4. ASSUME NEW i \in Items, Unassign(client, i) PROVE CatalogInv'
  <2> DEFINE t == Restrict(catalog.assigned, DOMAIN catalog.assigned \ {i})
  <2>1. Write(client, [catalog EXCEPT !.assigned = t])
      BY <1>1, <1>4 DEF Unassign
  <2>2. t \in Tables(Items, Categories)
      BY <1>1, RestrictTable
  <2>3. \A x \in DOMAIN t : t[x] \in DOMAIN catalog.nodes /\ Active(catalog.items, x)
      BY <1>1 DEF Restrict, Sound, Placed
  <2> HIDE DEF t
  <2> QED  BY <1>1, <2>1, <2>2, <2>3, AssignedChange, Written
<1> QED  BY <1>2, <1>3, <1>4

\* A plan that a client holds is one of a batch.
LEMMA HeldPlan ==
    ASSUME TypeInv, NEW client \in Clients, plan[client] # NoPlan
    PROVE  plan[client] \in Plans /\ plan[client].payload \in Catalogs
<1>1. plan[client] \in Plans
    BY DEF TypeInv
<1> QED  BY <1>1, DeclarationsAssumption DEF Plans

\* Batches, planned in one call and applied in another, and calls given up.
LEMMA BatchSteps ==
    ASSUME CatalogInv, NEW client \in Clients,
           \/ \E payload \in Payloads : PlanBatch(client, payload)
           \/ \E request \in RequestIds : ApplyBatch(client, request) \/ RetryBatch(client, request)
           \/ GiveUp(client)
    PROVE  CatalogInv'
<1> USE DEF CatalogInv
<1>1. ASSUME NEW payload \in Payloads, PlanBatch(client, payload) PROVE CatalogInv'
  <2>1. [op |-> "apply", payload |-> payload, base |-> catalog] \in Plans
      BY DEF Plans, TypeInv
  <2>2. plan' \in [Clients -> Plans \cup {NoPlan}]
      BY <1>1, <2>1 DEF PlanBatch, TypeInv
  <2>3. changes' \in 0 .. MaxChanges
      BY <1>1, DeclarationsAssumption DEF PlanBatch, Count, TypeInv
  <2>4. UNCHANGED <<catalog, receipts, call>>
      BY <1>1 DEF PlanBatch
  <2>5. TypeInv'
      BY <2>2, <2>3, <2>4 DEF TypeInv
  <2> QED  BY <2>4, <2>5, SoundNext
<1>2. ASSUME NEW request \in RequestIds, ApplyBatch(client, request) PROVE CatalogInv'
  <2>1. PICK p : p = plan[client]
      OBVIOUS
  <2>2. p \in Plans /\ p.payload \in Catalogs
      BY <1>2, <2>1, HeldPlan DEF ApplyBatch
  <2>3. Valid(catalog, p.payload) /\ catalog' = Applied(catalog, p.payload)
      BY <1>2, <2>1 DEF ApplyBatch, Acceptable
  <2>4. catalog \in Catalogs
      BY DEF Sound
  <2>5. Sound(Applied(catalog, p.payload))
      BY <2>2, <2>3, <2>4, BatchApplied
  <2>6. Sound(catalog') /\ catalog' \in Catalogs
      BY <2>3, <2>5 DEF Sound
  <2>7. receipts' \in Tables(RequestIds, Plans)
    <3>1. receipts \in Tables(RequestIds, Plans) /\ receipts' = Put(receipts, request, p)
        BY <1>2, <2>1 DEF ApplyBatch, TypeInv
    <3> QED  BY <2>2, <3>1, PutTable
  <2>8. changes' \in 0 .. MaxChanges
      BY <1>2, DeclarationsAssumption DEF ApplyBatch, Count, TypeInv
  <2>9. UNCHANGED <<call, plan>>
      BY <1>2 DEF ApplyBatch
  <2>10. TypeInv'
      BY <2>6, <2>7, <2>8, <2>9 DEF TypeInv
  <2> QED  BY <2>6, <2>10, SoundNext
<1>3. ASSUME NEW request \in RequestIds, RetryBatch(client, request) PROVE CatalogInv'
  <2>1. UNCHANGED <<catalog, receipts, call, changes>>
      BY <1>3 DEF RetryBatch
  <2>2. TypeInv'
      BY <1>3, <2>1 DEF RetryBatch, TypeInv
  <2> QED  BY <2>1, <2>2, SoundNext
<1>4. CASE GiveUp(client)
  <2>1. UNCHANGED <<catalog, receipts, plan, changes>>
      BY <1>4 DEF GiveUp
  <2>2. call' \in [Clients -> Calls]
      BY <1>4 DEF GiveUp, TypeInv, Calls
  <2>3. TypeInv'
      BY <2>1, <2>2 DEF TypeInv
  <2> QED  BY <2>1, <2>3, SoundNext
<1> QED  BY <1>1, <1>2, <1>3, <1>4

-----------------------------------------------------------------------------
\* The tables stay tables, clients hold calls and plans of their kinds, receipts stay
\* plans, whatever the order of calls; and the inductive invariant of the declarations:
\* beside these types, every part of the catalog is sound.
THEOREM Consistent == Spec => []CatalogInv
<1>1. Init => CatalogInv
  <2> SUFFICES ASSUME Init PROVE CatalogInv
      OBVIOUS
  <2>1. /\ catalog \in Catalogs
        /\ DOMAIN catalog.items = {} /\ DOMAIN catalog.nodes = {} /\ DOMAIN catalog.assigned = {}
      BY EmptyCatalog DEF Init
  <2>2. receipts \in Tables(RequestIds, Plans)
    <3>1. receipts = [x \in {} |-> x]
        BY DEF Init
    <3> QED  BY <3>1 DEF Tables
  <2>3. TypeInv
      BY <2>1, <2>2, DeclarationsAssumption DEF Init, TypeInv, Calls
  <2>4. AcyclicItems(catalog) /\ AcyclicNodes(catalog)
      BY <2>1, ItemsAcyclic, NodesAcyclic
  <2> QED  BY <2>1, <2>3, <2>4 DEF CatalogInv, Sound, Rests, Tree, Placed
<1>2. CatalogInv /\ [Next]_vars => CatalogInv'
  <2> SUFFICES ASSUME CatalogInv, [Next]_vars PROVE CatalogInv'
      OBVIOUS
  <2>1. CASE Next
    <3>1. PICK client \in Clients :
              \/ \E r \in Raws : RegisterRaw(client, r) \/ EnableRaw(client, r) \/ RemoveRaw(client, r)
              \/ \/ \E i \in Items : RegisterItem(client, i) \/ LookItem(client, i)
                 \/ RemoveItem(client)
              \/ \/ \E parent \in Categories \cup {NoName}, name \in CategoryNames :
                       \/ LookParent(client, parent, name)
                       \/ \E node \in Categories : UpdateNode(client, node, name, parent)
                 \/ \E node \in Categories : LookNode(client, node)
                 \/ CreateNode(client) \/ RemoveNode(client)
              \/ \/ \E i \in Items : \/ Unassign(client, i)
                                     \/ \E node \in Categories : LookAssigned(client, i, node)
                 \/ Assign(client)
              \/ \/ \E payload \in Payloads : PlanBatch(client, payload)
                 \/ \E request \in RequestIds : ApplyBatch(client, request) \/ RetryBatch(client, request)
                 \/ GiveUp(client)
        BY <2>1, Zenon DEF Next
    <3> QED  BY <3>1, RawSteps, ItemSteps, NodeSteps, AssignSteps, BatchSteps
  <2>2. CASE UNCHANGED vars
    <3>1. UNCHANGED <<catalog, receipts, call, plan, changes>>
        BY <2>2 DEF vars
    <3>2. TypeInv' /\ Sound(catalog')
        BY <3>1 DEF CatalogInv, TypeInv
    <3> QED  BY <3>2, SoundNext DEF CatalogInv
  <2> QED  BY <2>1, <2>2
<1> QED  BY <1>1, <1>2, PTL DEF Spec

\* Whatever the order of single calls and batches, of any clients over any names: active
\* Items rest on active declarations, no Item and no category is its own ancestor, siblings
\* differ in name, and only active Items are assigned, to categories that are there.
THEOREM CatalogStays == Spec => []CatalogHolds
BY Consistent, HoldsFromParts, PTL

\* A step that adds a receipt leaves every declaration there was as it was and adds those of
\* the batch: the plan is applied to the very catalog that it found without a conflict.
THEOREM BatchAdds == Spec => BatchAddsOnly
<1> DEFINE Kept(q) == q \in DOMAIN receipts' /\ receipts'[q] = receipts[q]
           Adds(q) == \A s \in Sections :
             /\ \A k \in DOMAIN catalog[s] : k \in DOMAIN catalog'[s] /\ catalog'[s][k] = catalog[s][k]
             /\ \A k \in DOMAIN receipts'[q].payload[s] :
                   /\ k \in DOMAIN catalog'[s]
                   /\ catalog'[s][k] \in {receipts'[q].payload[s][k], Disabled(receipts'[q].payload[s][k], s)}
           Promise == /\ \A q \in DOMAIN receipts : Kept(q)
                      /\ \A q \in DOMAIN receipts' \ DOMAIN receipts : Adds(q)
<1>1. CatalogInv /\ [Next]_vars => [Promise]_vars
  <2> SUFFICES ASSUME CatalogInv, Next PROVE Promise
      BY Zenon
  <2>1. CASE UNCHANGED receipts
      BY <2>1
  <2>2. ASSUME NEW client \in Clients, NEW request \in RequestIds, ApplyBatch(client, request)
        PROVE  Promise
    <3>1. PICK p, c : p = plan[client].payload /\ c = catalog
        OBVIOUS
    <3>2. c \in Catalogs /\ p \in Catalogs
        BY <2>2, <3>1, HeldPlan DEF ApplyBatch, CatalogInv, Sound
    <3>3. ~Conflicts(c, p) /\ catalog' = Applied(c, p)
        BY <2>2, <3>1 DEF ApplyBatch, Acceptable, Valid
    <3>4. /\ DOMAIN receipts' = DOMAIN receipts \cup {request} /\ request \notin DOMAIN receipts
          /\ receipts'[request].payload = p
          /\ \A q \in DOMAIN receipts : receipts'[q] = receipts[q]
        BY <2>2, <3>1 DEF ApplyBatch, Put
    <3>5. ASSUME NEW s \in Sections
          PROVE  /\ \A k \in DOMAIN c[s] : k \in DOMAIN catalog'[s] /\ catalog'[s][k] = c[s][k]
                 /\ \A k \in DOMAIN p[s] :
                       /\ k \in DOMAIN catalog'[s]
                       /\ catalog'[s][k] \in {p[s][k], Disabled(p[s][k], s)}
      <4>1. \A k \in DOMAIN c[s] \cap DOMAIN p[s] : c[s][k] = p[s][k]
          BY <3>3 DEF Conflicts
      <4>2. CASE s = "raw"
        <5>1. /\ DOMAIN catalog'[s] = DOMAIN c[s] \cup DOMAIN p[s]
              /\ \A k \in DOMAIN c[s] : catalog'[s][k] = c[s][k]
              /\ \A k \in DOMAIN p[s] \ DOMAIN c[s] : catalog'[s][k] = Stored(p[s][k])
            BY <3>2, <3>3, <4>2, AppliedTables
        <5>2. \A k \in DOMAIN p[s] : p[s][k] \in RawRow
            BY <3>2, <4>2, CatalogTables, TableRows
        <5>3. \A k \in DOMAIN p[s] : Stored(p[s][k]) \in {p[s][k], Disabled(p[s][k], s)}
            BY <4>2, <5>2, StoredRow
        <5> QED  BY <4>1, <5>1, <5>3
      <4>3. CASE s # "raw"
        <5>1. catalog'[s] = Union(c[s], p[s])
            BY <3>2, <3>3, <4>3, AppliedTables DEF Sections
        <5> QED  BY <4>1, <5>1 DEF Union
      <4> QED  BY <4>2, <4>3
    <3>6. Adds(request)
        BY <3>1, <3>4, <3>5
    <3>7. \A q \in DOMAIN receipts : Kept(q)
        BY <3>4
    <3> HIDE DEF Adds, Kept
    <3> QED  BY <3>4, <3>6, <3>7
  <2>3. PICK client \in Clients :
            \/ \E r \in Raws : RegisterRaw(client, r) \/ EnableRaw(client, r) \/ RemoveRaw(client, r)
            \/ \/ \E i \in Items : RegisterItem(client, i) \/ LookItem(client, i)
               \/ RemoveItem(client)
            \/ \/ \E parent \in Categories \cup {NoName}, name \in CategoryNames :
                     \/ LookParent(client, parent, name)
                     \/ \E node \in Categories : UpdateNode(client, node, name, parent)
               \/ \E node \in Categories : LookNode(client, node)
               \/ CreateNode(client) \/ RemoveNode(client)
            \/ \/ \E i \in Items : \/ Unassign(client, i)
                                   \/ \E node \in Categories : LookAssigned(client, i, node)
               \/ Assign(client)
            \/ \/ \E payload \in Payloads : PlanBatch(client, payload)
               \/ \E request \in RequestIds : RetryBatch(client, request)
               \/ GiveUp(client)
            \/ \E request \in RequestIds : ApplyBatch(client, request)
      BY Zenon DEF Next
  <2>4. ASSUME NEW r, RegisterRaw(client, r) \/ EnableRaw(client, r) \/ RemoveRaw(client, r)
        PROVE  UNCHANGED receipts
      BY <2>4 DEF RegisterRaw, EnableRaw, RemoveRaw, Write, Change
  <2>5. ASSUME NEW i, RegisterItem(client, i) \/ LookItem(client, i) \/ RemoveItem(client)
        PROVE  UNCHANGED receipts
      BY <2>5 DEF RegisterItem, LookItem, RemoveItem, Write, Change, Look
  <2>6. ASSUME NEW parent, NEW name, NEW node,
               LookParent(client, parent, name) \/ UpdateNode(client, node, name, parent)
               \/ LookNode(client, node) \/ CreateNode(client) \/ RemoveNode(client)
        PROVE  UNCHANGED receipts
      BY <2>6 DEF LookParent, UpdateNode, LookNode, CreateNode, RemoveNode, Write, Change, Look
  <2>7. ASSUME NEW i, NEW node,
               Unassign(client, i) \/ LookAssigned(client, i, node) \/ Assign(client)
        PROVE  UNCHANGED receipts
      BY <2>7 DEF Unassign, LookAssigned, Assign, Write, Change, Look
  <2>8. ASSUME NEW payload, NEW request,
               PlanBatch(client, payload) \/ RetryBatch(client, request) \/ GiveUp(client)
        PROVE  UNCHANGED receipts
      BY <2>8 DEF PlanBatch, RetryBatch, GiveUp
  <2> HIDE DEF Promise
  <2> QED  BY <2>1, <2>2, <2>3, <2>4, <2>5, <2>6, <2>7, <2>8
<1>2. CatalogInv /\ [Next]_vars => [/\ \A q \in DOMAIN receipts : Kept(q)
                                    /\ \A q \in DOMAIN receipts' \ DOMAIN receipts : Adds(q)]_vars
    BY <1>1
<1> QED  BY <1>2, Consistent, PTL DEF Spec, BatchAddsOnly

=============================================================================
