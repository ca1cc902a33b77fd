----------------------------- MODULE RowUpdates -----------------------------
(* A database that changes one row at a time under one live query: what    *)
(* the triggers of a watched table report (ReactiveKysely.watchTable), and *)
(* what isChangeSubscriptionUpdate makes of it.  A statement on several    *)
(* rows is reported row by row, so one row at a time loses nothing: if no  *)
(* row of it is signalled, none of them changed the result.                *)
EXTENDS ChangeSubscription

CONSTANTS Query,      \* the live queries, a set of SELECT records
          RowsOfTable,\* per table and rowid, the rows it may hold
          Nullable    \* the columns that may hold NULL

VARIABLES db,     \* per table and rowid, a row or None
          live    \* the live query: itself, its subscription, and its class

Tables == DOMAIN RowsOfTable
RowId(table) == DOMAIN RowsOfTable[table]

ChangeRow(table, id, row) ==
    /\ db[table][id] # row
    /\ db' = [db EXCEPT ![table][id] = row]

Insert(table, id) ==
    /\ db[table][id] = None
    /\ \E row \in RowsOfTable[table][id] : ChangeRow(table, id, row)
    /\ UNCHANGED live

Update(table, id) ==
    /\ db[table][id] # None
    /\ \E row \in RowsOfTable[table][id] : ChangeRow(table, id, row)
    /\ UNCHANGED live

Delete(table, id) ==
    /\ db[table][id] # None
    /\ ChangeRow(table, id, None)
    /\ UNCHANGED live

(* The rows of a table that the query neither reads nor subscribes to by   *)
(* name stay as they are.                                                  *)
RowUpdate == \E table \in live.tables : \E id \in RowId(table) :
                Insert(table, id) \/ Update(table, id) \/ Delete(table, id)

(* The reports of a step, and whether one of them concerns the query. *)
Signalled ==
    \E table \in Tables : \E id \in RowId(table) :
        /\ db[table][id] # db'[table][id]
        /\ isChangeSubscriptionUpdate(live.sub, table,
                                      db[table][id], db'[table][id])

-----------------------------------------------------------------------------
(* Which queries a row at a time can decide about.  A column that decides  *)
(* the result must be selected, so that its change shows there, or pinned  *)
(* by the filter, so that the row starts or stops matching.                *)

RECURSIVE RefsOf(_)
RefsOf(node) ==
    CASE node.kind = "ReferenceNode" -> {node}
      [] node.kind = "JSONReferenceNode" -> {node.reference}
      [] node.kind \in {"AliasNode", "ParensNode"} -> RefsOf(node.node)
      [] node.kind = "RawNode" -> RefsOf(node.sql)
      [] node.kind \in {"AndNode", "OrNode", "BinaryOperationNode"} ->
            RefsOf(node.left) \cup RefsOf(node.right)
      [] node.kind = "UnaryOperationNode" -> RefsOf(node.operand)
      [] node.kind = "SelectQueryNode" ->
            UNION {RefsOf(s) : s \in ToSet(node.query.selections)} \cup
            (IF node.query.where = None THEN {} ELSE RefsOf(node.query.where))
      [] OTHER -> {}

Conditions(q) ==
    (IF q.where = None THEN {} ELSE {q.where}) \cup {j.on : j \in ToSet(q.joins)}

Items(q) == ToSet(q.from) \cup {j.item : j \in ToSet(q.joins)}

(* The queries whose rows q reads: CTEs and subqueries in FROM. *)
Nested(q) == {c.query : c \in ToSet(q.with)} \cup
             {item.query : item \in {i \in Items(q) : i.kind = "SelectQueryNode"}}

TableItems(q) == {i \in Items(q) : /\ i.kind = "TableNode"
                                   /\ \A c \in ToSet(q.with) : c.name # i.name}
RealTables(q) == {i.name : i \in TableItems(q)}
OneTable(q) == Cardinality(RealTables(q)) = 1

(* The real tables a reference may be to. *)
Owners(q, ref) ==
    {i.name : i \in {k \in TableItems(q) : ref.table \in {None, NameOf(k)}}}

(* The sets of references that a disjunct of a condition names. *)
RECURSIVE Disjuncts(_)
Disjuncts(node) ==
    CASE node.kind = "AndNode" ->
            {x \cup y : x \in Disjuncts(node.left), y \in Disjuncts(node.right)}
      [] node.kind = "OrNode" -> Disjuncts(node.left) \cup Disjuncts(node.right)
      [] node.kind = "ParensNode" -> Disjuncts(node.node)
      [] node.kind = "UnaryOperationNode" -> Disjuncts(node.operand)
      [] OTHER -> {RefsOf(node)}

(* WHERE compares with constants only, by =, in, != and not in, the last   *)
(* two on columns that are never NULL, and no column twice at once.        *)
RECURSIVE Exact(_)
Exact(node) ==
    CASE node.kind \in {"AndNode", "OrNode"} ->
            /\ Exact(node.left) /\ Exact(node.right)
            /\ node.kind = "AndNode" =>
                  {r.column : r \in RefsOf(node.left)} \cap
                  {r.column : r \in RefsOf(node.right)} = {}
      [] node.kind = "ParensNode" -> Exact(node.node)
      [] node.kind = "BinaryOperationNode" ->
            /\ node.left.kind \in {"ReferenceNode", "JSONReferenceNode"}
            /\ Scalar(node.operator, node.right) # AnyValue
            /\ node.operator \in {"!=", "not in"} =>
                  \A r \in RefsOf(node.left) : r.column \notin Nullable
      [] OTHER -> FALSE

(* Nothing else makes a row of a pinned table match. *)
Pinning(q) ==
    /\ q.where # None /\ q.having = None /\ Nested(q) = {}
    /\ Exact(q.where)
    /\ OneTable(q) \/ Cardinality(Disjuncts(q.where)) = 1

(* Selected or sorted by; an opaque expression may read anything, and a    *)
(* virtual table only offers what its own query selects.                   *)
Tracked(q, ref) ==
    \/ Owners(q, ref) = {}
    \/ \E s \in ToSet(q.selections \o q.orderBy) :
          \/ s.kind = "RawNode"
          \/ \E r \in RefsOf(s) :
                /\ s.kind # "JSONReferenceNode" /\ r.column \in {All, ref.column}
                /\ Owners(q, ref) \subseteq Owners(q, r)

(* A column of it is selected or sorted by as such.                        *)
Selected(q, item) ==
    \E s \in ToSet(q.selections \o q.orderBy) :
        s.kind # "RawNode" /\ \E r \in RefsOf(s) : item.name \in Owners(q, r)

(* Every table has to be present, or is named by every disjunct, or is     *)
(* selected from while nothing else is asked.  One table alone is, by any  *)
(* condition.                                                              *)
Reached(q) ==
    \/ OneTable(q) /\ (q.where # None \/ q.having # None)
    \/ \A i \in TableItems(q) :
          \/ \E j \in ToSet(q.joins) : j.item = i /\ j.type # "LeftJoin"
          \/ q.where # None /\ \A d \in Disjuncts(q.where) :
                \E r \in d : i.name \in Owners(q, r)
          \/ q.where = None /\ Selected(q, i)

(* Columns of several tables have qualifiers, and the subqueries of WHERE  *)
(* read the table of the query itself.                                     *)
Resolved(q) ==
    \A p \in Conditions(q) :
        IF OneTable(q)
        THEN \A n \in ToSet(SubqueriesOf(p)) : RealTables(n) = RealTables(q)
        ELSE SubqueriesOf(p) = <<>> /\ \A r \in RefsOf(p) : r.table # None

RECURSIVE Decided(_)
Decided(q) ==
    /\ Reached(q) /\ Resolved(q)
    /\ \A p \in Conditions(q) : \A r \in RefsOf(p) :
          Tracked(q, r) \/ (p = q.where /\ Pinning(q))
    /\ \A n \in Nested(q) :
          /\ Decided(n)
          /\ \/ \A p \in Conditions(n) : \A r \in RefsOf(p) : Tracked(n, r)
             \/ q.where = None /\ q.having = None /\ q.joins = <<>> /\ Len(q.from) = 1

RECURSIVE TablesRead(_)
TablesRead(q) ==
    RealTables(q) \cup UNION {TablesRead(n) :
        n \in Nested(q) \cup UNION {ToSet(SubqueriesOf(p)) : p \in Conditions(q)}}
TablesNamed(sub) ==
    LET named == changeSubscriptionTables(sub) IN IF named = All THEN {} ELSE named

InitRows ==
    /\ db = [t \in Tables |-> [i \in RowId(t) |-> None]]
    /\ \E q \in Query :
         live = [query |-> q, sub |-> build(q), decided |-> Decided(q),
                 tables |-> Tables \cap (TablesRead(q) \cup TablesNamed(build(q))),
                 pinned |-> Decided(q) /\ Pinning(q) /\ OneTable(q)]

SpecRows == InitRows /\ [][RowUpdate]_<<db, live>>

-----------------------------------------------------------------------------
(* Properties *)

ResultChanges == Result(live.query, db)' # Result(live.query, db)

TypeOK == /\ DOMAIN db = Tables
          /\ \A t \in Tables : \A i \in RowId(t) :
                db[t][i] \in RowsOfTable[t][i] \cup {None}
          /\ live.query \in Query

(* Of a query that a row at a time can decide about, no change of the      *)
(* result goes unreported: neither a row that enters or leaves it, nor a   *)
(* value of it, through joins, NULLs, JSON fields, negations, disjunctions *)
(* and absorbed subqueries alike (queryToChangeSubscription composed with  *)
(* isChangeSubscriptionUpdate).                                            *)
NoMissedChange ==
    [][live.decided /\ ~Signalled => ~ResultChanges]_<<db, live>>

(* Of a query on one table whose WHERE is all pinned, what is reported     *)
(* also changed the result: the debounced query never runs in vain.        *)
NoIdleSignal ==
    [][live.pinned /\ Signalled => ResultChanges]_<<db, live>>

(* What the documentation asks of every query: a live query re-emits when  *)
(* data changes that could affect the result, so a change that does affect *)
(* it is reported.                                                         *)
ReemitsOnChange ==
    [][~Signalled => ~ResultChanges]_<<db, live>>
=============================================================================
