---------------------------- MODULE Declarations ----------------------------
(***************************************************************************)
(* The catalog of one metadata database: Raw datasets, Items with their    *)
(* inputs, the Items' category tree and the assignments to it, changed by  *)
(* several clients at once and by portable batches that are planned in one *)
(* call and applied, once per request, in a later one.                     *)
(*                                                                         *)
(* Every write is one SQLite transaction, but several calls look something *)
(* up before they open theirs.                                             *)
(***************************************************************************)
EXTENDS Integers, FiniteSets, Functions

CONSTANTS
    Raws, Items,    \* the names of Raw datasets and of Items
    Categories,     \* identities of category nodes
    CategoryNames,
    NoName,         \* no calendar, no parent category
    Payloads,       \* the batches a client may plan, each a catalog of its own
    RequestIds,
    Clients,
    MaxChanges      \* bound: calls and transactions

VARIABLES
    catalog,     \* the declaration tables
    receipts,    \* declaration_batch_receipts: the plan a request applied
    call,        \* what a client has looked up and not yet written
    plan,        \* the plan a client holds: its payload and the catalog it saw
    changes      \* counts calls

vars == <<catalog, receipts, call, plan, changes>>

(***************************************************************************)
(* The rows of the declaration tables.                                     *)
(***************************************************************************)
RawRow == [active : BOOLEAN, enabled : BOOLEAN, calendar : Raws \cup {NoName}]
ItemRow == [active : BOOLEAN, inputs : SUBSET (Raws \cup Items)]
NodeRow == [name : CategoryNames, parent : Categories \cup {NoName}]
Tables(keys, rows) == UNION {[S -> rows] : S \in SUBSET keys}
Catalogs == [raw : Tables(Raws, RawRow), items : Tables(Items, ItemRow),
             nodes : Tables(Categories, NodeRow), assigned : Tables(Items, Categories)]

\* A category identity is never the mark for none, and a batch is a catalog.
ASSUME DeclarationsAssumption ==
    /\ NoName \notin Categories
    /\ Payloads \subseteq Catalogs
    /\ MaxChanges \in Nat

Put(f, key, value) == [k \in DOMAIN f \cup {key} |-> IF k = key THEN value ELSE f[k]]

Idle == [op |-> "idle"]
NoPlan == [op |-> "none"]

-----------------------------------------------------------------------------
(* What the tables say.                                                    *)

Active(table, key) == key \in DOMAIN table /\ table[key].active
Declared(c, key) == Active(c.raw, key) \/ Active(c.items, key)
Edges(c, item) == IF item \in DOMAIN c.items THEN c.items[item].inputs \cap Items ELSE {}

\* _reaches follows item_dependencies, those of archived Items included.
Reaches(c, first, target) ==
    \A S \in SUBSET Items :
        (first \in S /\ \A i \in S : Edges(c, i) \subseteq S) => target \in S

\* Every part of the graph has a node without an edge into that part.
Acyclic(N, Successors(_)) == \A S \in (SUBSET N) \ {{}} : \E n \in S : Successors(n) \cap S = {}
AcyclicItems(c) == Acyclic(DOMAIN c.items, LAMBDA i : Edges(c, i))
Above(c, node) == IF node \in DOMAIN c.nodes THEN {c.nodes[node].parent} ELSE {}
AcyclicNodes(c) == Acyclic(DOMAIN c.nodes, LAMBDA n : Above(c, n))

Sibling(c, name, parent, except) ==
    \E n \in DOMAIN c.nodes \ {except} : c.nodes[n].name = name /\ c.nodes[n].parent = parent
Populated(c, node) ==
    \/ \E n \in DOMAIN c.nodes : c.nodes[n].parent = node
    \/ node \in Range(c.assigned)
DependedOn(c, key) == \E i \in DOMAIN c.items : c.items[i].active /\ key \in c.items[i].inputs

-----------------------------------------------------------------------------
(* Single declarations.                                                    *)

Change(c) == catalog' = c /\ UNCHANGED <<receipts, plan>>
Count == changes < MaxChanges /\ changes' = changes + 1
Write(client, c) == Count /\ Change(c) /\ call' = [call EXCEPT ![client] = Idle]
Look(client, op) ==
    /\ Count /\ call[client] = Idle
    /\ call' = [call EXCEPT ![client] = op]
    /\ UNCHANGED <<catalog, receipts, plan>>

RegisterRaw(client, r) ==
    /\ call[client] = Idle
    /\ \E calendar \in (Raws \ {r}) \cup {NoName} :
          Write(client, [catalog EXCEPT !.raw = Put(@, r,
             [active |-> TRUE, calendar |-> calendar,
              enabled |-> r \in DOMAIN catalog.raw => catalog.raw[r].enabled])])

EnableRaw(client, r) ==
    /\ call[client] = Idle /\ r \in DOMAIN catalog.raw
    /\ \E enabled \in BOOLEAN : Write(client, [catalog EXCEPT !.raw[r].enabled = enabled])

RemoveRaw(client, r) ==
    /\ call[client] = Idle /\ r \in DOMAIN catalog.raw
    /\ ~DependedOn(catalog, r)
    /\ \A s \in DOMAIN catalog.raw : catalog.raw[s].active => catalog.raw[s].calendar # r
    /\ Write(client, [catalog EXCEPT !.raw[r].active = FALSE, !.raw[r].enabled = FALSE])

\* register: the definition in one transaction, its category in the next.
RegisterItem(client, i) ==
    /\ call[client] = Idle
    /\ \E inputs \in SUBSET (Raws \cup (Items \ {i})), node \in Categories \cup {NoName} :
          /\ \A d \in inputs : Declared(catalog, d)
          /\ \A d \in inputs \cap Items : ~Reaches(catalog, d, i)
          /\ Count
          /\ Change([catalog EXCEPT !.items = Put(@, i, [active |-> TRUE, inputs |-> inputs])])
          /\ call' = [call EXCEPT ![client] =
                 IF node = NoName THEN Idle ELSE [op |-> "assign", key |-> i, node |-> node]]

LookItem(client, i) ==
    /\ Active(catalog.items, i)
    /\ Look(client, [op |-> "removeItem", key |-> i])
RemoveItem(client) ==
    /\ call[client].op = "removeItem"
    /\ LET i == call[client].key IN
       /\ ~DependedOn(catalog, i)
       /\ Write(client, [catalog EXCEPT !.items[i].active = FALSE,
                                        !.assigned = Restrict(@, DOMAIN @ \ {i})])

-----------------------------------------------------------------------------
(* The category tree.                                                      *)

MayCreate(c, name, parent) ==
    /\ parent \in DOMAIN c.nodes \cup {NoName}
    /\ ~Sibling(c, name, parent, NoName)

LookParent(client, parent, name) ==
    /\ parent \in DOMAIN catalog.nodes \cup {NoName}
    /\ Look(client, [op |-> "create", parent |-> parent, name |-> name])
CreateNode(client) ==
    /\ call[client].op = "create"
    /\ LET new == call[client] IN
       /\ MayCreate(catalog, new.name, new.parent)
       /\ \E node \in Categories \ DOMAIN catalog.nodes :
             Write(client, [catalog EXCEPT !.nodes = Put(@, node, [name |-> new.name, parent |-> new.parent])])

\* Fault: only the new parent itself is compared with the node.
MayMoveBelowChild(c, node, parent) ==
    parent \in (DOMAIN c.nodes \cup {NoName}) \ {node}
\* Where the walk from the new parent to its root leads: never back to the node.
MayMove(c, node, parent) ==
    /\ parent \in DOMAIN c.nodes \cup {NoName}
    /\ AcyclicNodes([c EXCEPT !.nodes[node].parent = parent])

UpdateNode(client, node, name, parent) ==
    /\ call[client] = Idle /\ node \in DOMAIN catalog.nodes
    /\ MayMove(catalog, node, parent)
    /\ ~Sibling(catalog, name, parent, node)
    /\ Write(client, [catalog EXCEPT !.nodes[node] = [name |-> name, parent |-> parent]])

LookNode(client, node) ==
    /\ node \in DOMAIN catalog.nodes
    /\ Look(client, [op |-> "removeNode", node |-> node])
RemoveNode(client) ==
    /\ call[client].op = "removeNode"
    /\ ~Populated(catalog, call[client].node)
    /\ Write(client, [catalog EXCEPT !.nodes = Restrict(@, DOMAIN @ \ {call[client].node})])

LookAssigned(client, i, node) ==
    /\ node \in DOMAIN catalog.nodes
    /\ Look(client, [op |-> "assign", key |-> i, node |-> node])
\* The foreign key refuses a category that is gone by now.
Assign(client) ==
    /\ call[client].op = "assign"
    /\ LET new == call[client] IN
       /\ Active(catalog.items, new.key) /\ new.node \in DOMAIN catalog.nodes
       /\ Write(client, [catalog EXCEPT !.assigned = Put(@, new.key, new.node)])
Unassign(client, i) ==
    /\ call[client] = Idle /\ Active(catalog.items, i)
    /\ Write(client, [catalog EXCEPT !.assigned = Restrict(@, DOMAIN @ \ {i})])

\* The transaction is refused, or the client goes away.
GiveUp(client) ==
    /\ call[client].op # "idle"
    /\ call' = [call EXCEPT ![client] = Idle]
    /\ UNCHANGED <<catalog, receipts, plan, changes>>

-----------------------------------------------------------------------------
(* Batches.                                                                *)

Sections == {"raw", "items", "nodes", "assigned"}
\* f with the rows of g it does not have.
Union(f, g) == [k \in DOMAIN f \cup DOMAIN g |-> IF k \in DOMAIN f THEN f[k] ELSE g[k]]
UnionOf(c, payload) == [s \in Sections |-> Union(c[s], payload[s])]

Conflicts(c, payload) ==
    \E s \in Sections : \E k \in DOMAIN c[s] \cap DOMAIN payload[s] : c[s][k] # payload[s][k]

\* _validate_union.
ValidUnion(u) ==
    /\ \A n \in DOMAIN u.nodes :
          /\ u.nodes[n].parent \in DOMAIN u.nodes \cup {NoName}
          /\ ~Sibling(u, u.nodes[n].name, u.nodes[n].parent, n)
    /\ AcyclicNodes(u)
    /\ \A r \in DOMAIN u.raw : u.raw[r].calendar \in DOMAIN u.raw \cup {NoName}
    /\ \A i \in DOMAIN u.items : \A d \in u.items[i].inputs :
          /\ d \in DOMAIN u.raw \cup DOMAIN u.items
          /\ u.items[i].active => Declared(u, d)
    /\ AcyclicItems(u)
    /\ \A k \in DOMAIN u.assigned :
          u.assigned[k] \in DOMAIN u.nodes /\ Active(u.items, k)

Valid(c, payload) == ~Conflicts(c, payload) /\ ValidUnion(UnionOf(c, payload))

\* plan_batch holds the catalog it read as expected_revision.
PlanBatch(client, payload) ==
    /\ Count /\ call[client] = Idle
    /\ plan' = [plan EXCEPT ![client] = [op |-> "apply", payload |-> payload, base |-> catalog]]
    /\ UNCHANGED <<catalog, receipts, call>>

\* Archiving a Raw addition also disables it.
Stored(row) == [row EXCEPT !.enabled = row.enabled /\ row.active]
Applied(c, payload) ==
    [UnionOf(c, payload) EXCEPT !.raw =
        [r \in DOMAIN @ |-> IF r \in DOMAIN c.raw THEN c.raw[r] ELSE Stored(payload.raw[r])]]
\* Every added Item, the archived ones too, is registered while its inputs are active.
Registrable(c, payload) ==
    \A i \in DOMAIN payload.items \ DOMAIN c.items : \A d \in payload.items[i].inputs :
        d \in DOMAIN c.raw \cup DOMAIN c.items => Declared(c, d)

\* Fault: the plan is not made again.
AcceptableOnce(c, p) == Valid(p.base, p.payload) /\ Registrable(p.base, p.payload)
\* A plan is applied to the catalog it was made for, whole and once per request.
Acceptable(c, p) == p.base = c /\ Valid(c, p.payload) /\ Registrable(c, p.payload)

ApplyBatch(client, request) ==
    /\ call[client] = Idle /\ plan[client] # NoPlan
    /\ request \notin DOMAIN receipts
    /\ Acceptable(catalog, plan[client])
    /\ Count
    /\ catalog' = Applied(catalog, plan[client].payload)
    /\ receipts' = Put(receipts, request, plan[client])
    /\ UNCHANGED <<call, plan>>

\* A retry returns the receipt; a stale plan, or another one's request, is refused.
RetryBatch(client, request) ==
    /\ call[client] = Idle /\ plan[client] # NoPlan
    /\ request \in DOMAIN receipts \/ ~Acceptable(catalog, plan[client])
    /\ plan' = [plan EXCEPT ![client] = NoPlan]
    /\ UNCHANGED <<catalog, receipts, call, changes>>

-----------------------------------------------------------------------------
Nothing == [s \in Sections |-> <<>>]

Init ==
    /\ catalog = Nothing /\ receipts = <<>>
    /\ call = [c \in Clients |-> Idle]
    /\ plan = [c \in Clients |-> NoPlan]
    /\ changes = 0

Next == \E client \in Clients :
    \/ \E r \in Raws : RegisterRaw(client, r) \/ EnableRaw(client, r) \/ RemoveRaw(client, r)
    \/ \E i \in Items : \/ RegisterItem(client, i) \/ LookItem(client, i) \/ Unassign(client, i)
                        \/ \E node \in Categories : LookAssigned(client, i, node)
    \/ \E parent \in Categories \cup {NoName}, name \in CategoryNames :
          \/ LookParent(client, parent, name)
          \/ \E node \in Categories : UpdateNode(client, node, name, parent)
    \/ \E node \in Categories : LookNode(client, node)
    \/ RemoveItem(client) \/ CreateNode(client) \/ RemoveNode(client) \/ Assign(client)
    \/ GiveUp(client)
    \/ \E payload \in Payloads : PlanBatch(client, payload)
    \/ \E request \in RequestIds : ApplyBatch(client, request) \/ RetryBatch(client, request)

Spec == Init /\ [][Next]_vars

-----------------------------------------------------------------------------
(* Properties.                                                             *)

\* Whatever the order of single calls and batches: active Items rest on active
\* declarations, no Item and no category is its own ancestor, siblings have names of
\* their own, and only active Items are assigned, to categories that are there.
CatalogHolds ==
    /\ \A i \in DOMAIN catalog.items : catalog.items[i].active =>
          \A d \in catalog.items[i].inputs : Declared(catalog, d)
    /\ AcyclicItems(catalog)
    /\ \A n \in DOMAIN catalog.nodes :
          /\ catalog.nodes[n].parent \in DOMAIN catalog.nodes \cup {NoName}
          /\ ~Sibling(catalog, catalog.nodes[n].name, catalog.nodes[n].parent, n)
    /\ AcyclicNodes(catalog)
    /\ \A k \in DOMAIN catalog.assigned :
          catalog.assigned[k] \in DOMAIN catalog.nodes /\ Active(catalog.items, k)

\* How a row of a batch may end up.
Disabled(row, s) == IF s = "raw" /\ ~row.active THEN [row EXCEPT !.enabled = FALSE] ELSE row
\* A step that adds a receipt leaves every declaration there was as it was, and adds those
\* of the batch, all of them, the enabled flag of an archived dataset apart; receipts stay.
BatchAddsOnly ==
    [][/\ \A q \in DOMAIN receipts : q \in DOMAIN receipts' /\ receipts'[q] = receipts[q]
       /\ \A q \in DOMAIN receipts' \ DOMAIN receipts : \A s \in Sections :
             /\ \A k \in DOMAIN catalog[s] : k \in DOMAIN catalog'[s] /\ catalog'[s][k] = catalog[s][k]
             /\ \A k \in DOMAIN receipts'[q].payload[s] :
                   /\ k \in DOMAIN catalog'[s]
                   /\ catalog'[s][k] \in {receipts'[q].payload[s][k], Disabled(receipts'[q].payload[s][k], s)}]_vars

=============================================================================
