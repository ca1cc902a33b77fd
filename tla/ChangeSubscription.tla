------------------------- MODULE ChangeSubscription -------------------------
(* How a live query decides which row changes concern it.                  *)
(* queryToChangeSubscription walks the SELECT and derives a subscription:  *)
(*   selection  All, or per table All or its columns, each with All or the *)
(*              set of the JSON keys read;                                 *)
(*   filter     All, or per table All or a set of entries: a row matches   *)
(*              an entry when every column of it satisfies its predicate.  *)
(* isChangeSubscriptionUpdate then decides from the old and the new row    *)
(* alone.  Arrays whose order nobody reads are sets, which is also what    *)
(* the dedupe keys of the code make of them.                               *)
EXTENDS SelectQuery

-----------------------------------------------------------------------------
(* Building up a subscription *)

initChangeSubscription == [filter |-> <<>>, selection |-> <<>>]

(* Columns already there are kept; All wins over a set of JSON keys. *)
selectTable(sub, table, column, fields) ==
    LET current == At(sub.selection, table, <<>>)
        merged == IF column \notin DOMAIN current THEN fields
                  ELSE IF current[column] = All \/ fields = All THEN All
                  ELSE current[column] \cup fields
    IN IF sub.selection = All \/ current = All THEN sub
       ELSE [sub EXCEPT !.selection =
                (table :> ((column :> merged) @@ current)) @@ @]

selectAllTable(sub, table) ==
    IF sub.selection = All THEN sub
    ELSE [sub EXCEPT !.selection = (table :> All) @@ @]

selectAll(sub) == [sub EXCEPT !.selection = All]

matchTable(sub, table, entry) ==
    IF sub.filter = All \/ At(sub.filter, table, {}) = All THEN sub
    ELSE [sub EXCEPT !.filter = (table :> (At(@, table, {}) \cup {entry})) @@ @]

matchAllTable(sub, table) ==
    IF sub.filter = All THEN sub
    ELSE [sub EXCEPT !.filter = (table :> All) @@ @]

matchAll(sub) == [sub EXCEPT !.filter = All]

matchAllTables(sub, tables) ==
    FoldSet(LAMBDA t, s : matchAllTable(s, t), sub, tables)

(* The tables a live query has to watch. *)
changeSubscriptionTables(sub) ==
    IF sub.filter = All \/ sub.selection = All THEN All
    ELSE DOMAIN sub.filter \cup DOMAIN sub.selection

-----------------------------------------------------------------------------
(* Column predicates and conjuncts *)

AnyValue == [kind |-> "all"]
Values(vs) == [kind |-> "values", values |-> vs]
NotValues(vs) == [kind |-> "not-values", values |-> vs]
Fields(fs) == [kind |-> "fields", fields |-> fs]

TablesAll(tables) == [kind |-> "tables-all", tables |-> tables]
Narrow(perTable, unqualified) ==
    [kind |-> "narrow", perTable |-> perTable, unqualified |-> unqualified]

MergeWith(f, g, Both(_, _)) ==
    [k \in DOMAIN f \cup DOMAIN g |->
        IF k \notin DOMAIN f THEN g[k]
        ELSE IF k \notin DOMAIN g THEN f[k] ELSE Both(f[k], g[k])]

(* Two predicates of one conjunction on one column. *)
RECURSIVE andMergeColumn(_, _)
andMergeColumn(a, b) ==
    CASE a.kind = "all" -> b
      [] a.kind # "all" /\ b.kind = "all" -> a
      [] a.kind = "fields" /\ b.kind = "fields" ->
            Fields(MergeWith(a.fields, b.fields, andMergeColumn))
      [] a.kind # "all" /\ b.kind # "all" /\ a.kind # b.kind
            /\ "fields" \in {a.kind, b.kind} -> AnyValue
      [] a.kind = b.kind /\ a.kind \in {"values", "not-values"} ->
            [a EXCEPT !.values = @ \cup b.values]
      [] {a.kind, b.kind} = {"values", "not-values"} ->
            IF a.kind = "values" THEN a ELSE b

(* A conjunct that covers every queried table constrains nothing. *)
andMerge(a, b, queried) ==
    LET identity(c) == c.kind = "tables-all" /\ queried \subseteq c.tables
        touched(c) == IF c.kind = "tables-all" THEN c.tables
                      ELSE DOMAIN c.perTable \cup
                           (IF c.unqualified = <<>> THEN {} ELSE queried)
        columns(f, g) == MergeWith(f, g, andMergeColumn)
    IN CASE identity(a) -> b
         [] ~identity(a) /\ identity(b) -> a
         [] ~identity(a) /\ ~identity(b) /\ "tables-all" \in {a.kind, b.kind} ->
               TablesAll(touched(a) \cup touched(b))
         [] a.kind = "narrow" /\ b.kind = "narrow" ->
               Narrow(MergeWith(a.perTable, b.perTable, columns),
                      columns(a.unqualified, b.unqualified))

(* NOT keeps the columns and forgets the values. *)
widenConjunctValues(c) ==
    IF c.kind = "tables-all" THEN c
    ELSE Narrow([t \in DOMAIN c.perTable |->
                    [k \in DOMAIN c.perTable[t] |-> AnyValue]],
                [k \in DOMAIN c.unqualified |-> AnyValue])

-----------------------------------------------------------------------------
(* The builder: what the walk has gathered so far.  virtual maps the names *)
(* of subqueries in FROM and of CTEs to their own subscriptions.           *)

NewBuilder ==
    [sub |-> initChangeSubscription, queried |-> {}, mandatory |-> {},
     selected |-> {}, absorbed |-> {}, aliases |-> <<>>, virtual |-> <<>>]

addSelectedColumn(b, table, column, fields) ==
    [b EXCEPT !.sub = selectTable(@, table, column, fields),
              !.selected = @ \cup {table}]

widenSelectedTable(b, table) ==
    [b EXCEPT !.sub = selectAllTable(@, table), !.selected = @ \cup {table}]

widenAllQueriedSelection(b) ==
    IF b.queried = {} THEN [b EXCEPT !.sub = selectAll(@)]
    ELSE FoldSet(LAMBDA t, x : widenSelectedTable(x, t), b, b.queried)

(* An alias stands for its table. *)
resolveTableName(b, ref) == At(b.aliases, ref, ref)

(* The table of a column: by its qualifier, or the only one queried. *)
resolveColumnRef(b, ref) ==
    IF ref.column = All THEN None
    ELSE IF ref.table # None THEN resolveTableName(b, ref.table)
    ELSE IF Cardinality(b.queried) = 1 THEN CHOOSE t \in b.queried : TRUE
    ELSE None

(* An entry that is there already is not pushed again. *)
addTableFilter(sub, table, entry) ==
    IF sub.filter # All /\ At(sub.filter, table, {}) # All
       /\ entry \notin At(sub.filter, table, {})
    THEN matchTable(sub, table, entry) ELSE sub

(* A reference into a virtual table is covered by what was absorbed. *)
selectRef(b, ref, fields) ==
    LET table == resolveColumnRef(b, ref)
    IN IF ref.table # None /\ ref.table \in DOMAIN b.virtual THEN b
       ELSE IF table = None THEN [b EXCEPT !.sub = selectAll(@)]
       ELSE addSelectedColumn(b, table, ref.column, fields)

FirstKey(keys) == IF keys = None \/ keys = <<>> THEN All ELSE {keys[1]}

RECURSIVE processSelection(_, _)
processSelection(b, node) ==
    IF b.sub.selection = All THEN b
    ELSE CASE node.kind = "ReferenceNode" /\ node.column = All ->
                IF node.table = None THEN widenAllQueriedSelection(b)
                ELSE IF node.table \in DOMAIN b.virtual THEN b
                ELSE widenSelectedTable(b, resolveTableName(b, node.table))
           [] node.kind = "ReferenceNode" /\ node.column # All ->
                selectRef(b, node, All)
           [] node.kind = "AliasNode" -> processSelection(b, node.node)
           [] node.kind = "JSONReferenceNode" ->
                selectRef(b, node.reference, FirstKey(node.keys))
           [] OTHER -> [b EXCEPT !.sub = selectAll(@)]

(* What is sorted by is as good as selected. *)
processOrderByItem(b, node) ==
    IF b.sub.selection = All THEN b
    ELSE CASE node.kind = "ReferenceNode" /\ node.column = All ->
                widenAllQueriedSelection(b)
           [] node.kind = "ReferenceNode" /\ node.column # All ->
                selectRef(b, node, All)
           [] node.kind = "JSONReferenceNode" ->
                selectRef(b, node.reference, FirstKey(node.keys))
           [] OTHER -> [b EXCEPT !.sub = selectAll(@)]

(* What a subquery in FROM or a CTE reads is read by the outer query. *)
absorbSubquery(b, name, sub) ==
    LET Selected(x, t) ==
            IF sub.selection[t] = All THEN widenSelectedTable(x, t)
            ELSE FoldSet(LAMBDA c, y : addSelectedColumn(y, t, c, All), x,
                         DOMAIN sub.selection[t])
        Matched(x, t) ==
            IF sub.filter[t] = All THEN matchAllTable(x, t)
            ELSE FoldSet(LAMBDA e, y : addTableFilter(y, t, e), x, sub.filter[t])
        named == [b EXCEPT !.virtual = (name :> sub) @@ @]
        selected ==
            IF sub.selection = All THEN [named EXCEPT !.sub = selectAll(@)]
            ELSE FoldSet(LAMBDA t, x : Selected(x, t),
                         [named EXCEPT !.absorbed = @ \cup DOMAIN sub.selection],
                         DOMAIN sub.selection)
    IN IF sub.filter = All THEN [selected EXCEPT !.sub = matchAll(@)]
       ELSE [selected EXCEPT !.sub =
                FoldSet(LAMBDA t, x : Matched(x, t), @, DOMAIN sub.filter)]

(* A subquery in WHERE: the columns it selects become entries that any     *)
(* value satisfies; its own filter joins them, unless it is a whole table  *)
(* that has entries already.                                               *)
collectSubqueryMatchers(b, sub) ==
    LET Selected(x, t) ==
            IF sub.selection[t] = All THEN matchAllTable(x, t)
            ELSE addTableFilter(x, t, [c \in DOMAIN sub.selection[t] |-> AnyValue])
        Matched(x, t) ==
            LET entries == IF x.filter = All THEN {} ELSE At(x.filter, t, {})
            IN IF sub.filter[t] # All
               THEN FoldSet(LAMBDA e, y : addTableFilter(y, t, e), x, sub.filter[t])
               ELSE IF entries # All /\ entries # {} THEN x
               ELSE matchAllTable(x, t)
        selected == IF sub.selection = All THEN matchAll(b.sub)
                    ELSE FoldSet(LAMBDA t, x : Selected(x, t), b.sub,
                                 DOMAIN sub.selection)
    IN [b EXCEPT !.sub =
          IF sub.filter = All THEN matchAll(selected)
          ELSE FoldSet(LAMBDA t, x : Matched(x, t), selected, DOMAIN sub.filter)]

-----------------------------------------------------------------------------
(* WHERE, as a set of conjuncts: its disjunctive normal form *)

(* What an operator and its right operand say of the value. *)
Scalar(operator, right) ==
    LET values == CASE right.kind = "ValueNode" /\ operator \in {"=", "!="} ->
                          {right.value}
                    [] right.kind = "ValueListNode"
                          /\ operator \in {"in", "not in"} -> right.values
                    [] OTHER -> None
    IN IF values = None THEN AnyValue
       ELSE IF operator \in {"=", "in"} THEN Values(values) ELSE NotValues(values)

processBinaryOp(b, node) ==
    LET isJson == node.left.kind = "JSONReferenceNode"
        ref == IF isJson THEN node.left.reference ELSE node.left
        keys == IF isJson /\ node.left.keys # None THEN node.left.keys ELSE <<>>
        column == FoldRight(LAMBDA k, acc : Fields(k :> acc), keys,
                            Scalar(node.operator, node.right))
        table == resolveColumnRef(b, ref)
    IN IF \/ node.left.kind \notin {"ReferenceNode", "JSONReferenceNode"}
          \/ ref.column = All
          \/ ref.table # None /\ ref.table \in DOMAIN b.virtual
       THEN TablesAll(b.queried)
       ELSE IF table # None THEN Narrow(table :> (ref.column :> column), <<>>)
       ELSE Narrow(<<>>, ref.column :> column)

(* Each conjunct of the one side with each of the other. *)
crossAnd(a, b, queried) == {andMerge(x, y, queried) : x \in a, y \in b}

RECURSIVE toDNF(_, _)
toDNF(b, node) ==
    CASE node.kind = "AndNode" ->
            crossAnd(toDNF(b, node.left), toDNF(b, node.right), b.queried)
      [] node.kind = "OrNode" -> toDNF(b, node.left) \cup toDNF(b, node.right)
      [] node.kind = "ParensNode" -> toDNF(b, node.node)
      [] node.kind = "BinaryOperationNode" -> {processBinaryOp(b, node)}
      [] node.kind = "UnaryOperationNode" ->
            {widenConjunctValues(c) : c \in toDNF(b, node.operand)}
      [] OTHER -> {TablesAll(b.queried)}

(* The subqueries of WHERE, in the order of the walk. *)
RECURSIVE SubqueriesOf(_)
SubqueriesOf(node) ==
    CASE node.kind \in {"AndNode", "OrNode"} ->
            SubqueriesOf(node.left) \o SubqueriesOf(node.right)
      [] node.kind = "ParensNode" -> SubqueriesOf(node.node)
      [] node.kind = "UnaryOperationNode" -> SubqueriesOf(node.operand)
      [] node.kind = "BinaryOperationNode" ->
            IF node.right.kind = "SelectQueryNode" THEN <<node.right.query>>
            ELSE <<>>
      [] OTHER -> <<>>

(* One disjunct: an entry for every table it names, where an unqualified   *)
(* column may belong to any; the mandatory tables it does not name match   *)
(* as a whole.                                                             *)
emitConjunct(b, c) ==
    LET affected == DOMAIN c.perTable \cup
                    (IF c.unqualified = <<>> THEN {} ELSE b.queried)
        entry(t) == MergeWith(At(c.perTable, t, <<>>), c.unqualified,
                              andMergeColumn)
        entries == FoldSet(LAMBDA t, x : addTableFilter(x, t, entry(t)), b.sub,
                           affected)
        wide == IF c.kind = "tables-all" THEN c.tables ELSE b.queried
    IN IF c.kind = "tables-all" \/ affected = {}
       THEN IF wide = {} THEN matchAll(b.sub) ELSE matchAllTables(b.sub, wide)
       ELSE matchAllTables(entries, b.mandatory \ affected)

(* Without WHERE every row of a table that is selected or has to be        *)
(* present counts, unless an absorbed subquery speaks for it.  HAVING is   *)
(* one more disjunct, of every queried table.                              *)
Conjuncts(b, query) ==
    LET scope == (b.selected \cup b.mandatory) \ b.absorbed
        matched == IF query.where # None THEN toDNF(b, query.where)
                   ELSE IF scope # {} THEN {TablesAll(scope)} ELSE {}
        wide == \E c \in matched : c.kind = "tables-all" /\ b.queried \subseteq c.tables
    IN IF query.having = None \/ wide THEN matched
       ELSE matched \cup {TablesAll(b.queried)}

-----------------------------------------------------------------------------
(* The walk *)

(* Mutant: only a cross join makes the rows of the joined table matter.    *)
isCrossJoin(type) == type = "CrossJoin"

isMandatoryJoin(type) == type \in {"InnerJoin", "CrossJoin", "LateralInnerJoin"}

RECURSIVE build(_)

(* A subquery is absorbed under its alias; the name of a CTE stands for    *)
(* the real tables behind it.                                              *)
registerFromItem(b, item) ==
    CASE item.kind = "SelectQueryNode" ->
            IF item.alias = None THEN b
            ELSE absorbSubquery(b, item.alias, build(item.query))
      [] item.kind = "TableNode" /\ item.name \in DOMAIN b.virtual ->
            LET sub == b.virtual[item.name]
            IN [b EXCEPT
                  !.queried = IF sub.selection = All THEN @
                              ELSE @ \cup DOMAIN sub.selection,
                  !.virtual = IF item.alias = None THEN @
                              ELSE (item.alias :> sub) @@ @]
      [] item.kind = "TableNode" /\ item.name \notin DOMAIN b.virtual ->
            [b EXCEPT
                !.queried = @ \cup {item.name},
                !.aliases = IF item.alias = None THEN @
                            ELSE (item.alias :> item.name) @@ @]

registerJoin(b, join) ==
    LET registered == registerFromItem(b, join.item)
    IN IF join.item.kind = "TableNode" /\ isMandatoryJoin(join.type)
       THEN [registered EXCEPT !.mandatory = @ \cup {join.item.name}]
       ELSE registered

collectTables(query) ==
    LET ctes == FoldLeft(LAMBDA b, c : absorbSubquery(b, c.name, build(c.query)),
                         NewBuilder, query.with)
    IN FoldLeft(registerJoin, FoldLeft(registerFromItem, ctes, query.from),
                query.joins)

buildMatchers(b, query) ==
    LET nested == IF query.where = None THEN <<>> ELSE SubqueriesOf(query.where)
        read == FoldLeft(LAMBDA x, q : collectSubqueryMatchers(x, build(q)), b,
                         nested)
    IN FoldSet(LAMBDA c, s : emitConjunct([read EXCEPT !.sub = s], c),
               read.sub, Conjuncts(read, query))

buildSelection(b, query) == FoldLeft(processSelection, b, query.selections)
buildOrderBySelection(b, query) == FoldLeft(processOrderByItem, b, query.orderBy)

build(query) ==
    buildMatchers(buildOrderBySelection(buildSelection(collectTables(query), query),
                                        query),
                  query)

-----------------------------------------------------------------------------
(* Deciding about one changed row *)

(* compileChangeSubscription, as the decision looks it up: what is filtered *)
(* and what is selected of one table.                                      *)
compiledFilter(sub, table) ==
    IF sub.filter = All THEN All ELSE At(sub.filter, table, {})
compiledSelection(sub, table) ==
    IF sub.selection = All THEN All ELSE At(sub.selection, table, <<>>)

RECURSIVE Satisfies(_, _)
Satisfies(predicate, value) ==
    CASE predicate.kind = "all" -> TRUE
      [] predicate.kind = "values" -> value \in predicate.values
      [] predicate.kind = "not-values" -> value \notin predicate.values
      [] predicate.kind = "fields" ->
            /\ value \notin {Null, None}
            /\ \A k \in DOMAIN predicate.fields :
                  Satisfies(predicate.fields[k], At(value, k, None))

(* Mutant: one column of an entry is enough.                               *)
rowMatchesAnyColumn(sub, table, row) ==
    LET entries == compiledFilter(sub, table)
    IN entries = All \/ \E e \in entries :
                            \E c \in DOMAIN e : Satisfies(e[c], At(row, c, None))

rowMatches(sub, table, row) ==
    LET entries == compiledFilter(sub, table)
    IN IF entries = All THEN TRUE
       ELSE \E e \in entries :
               \A c \in DOMAIN e : Satisfies(e[c], At(row, c, None))

(* A missing key of a JSON object is no different from a null. *)
JsonField(value, key) ==
    IF value \in {Null, None} THEN Null
    ELSE IF At(value, key, None) = None THEN Null ELSE value[key]

selectionChanged(sub, table, old, new) ==
    LET columns == compiledSelection(sub, table)
    IN IF columns = All THEN old # new
       ELSE \E c \in DOMAIN columns :
               IF columns[c] = All THEN At(old, c, Null) # At(new, c, Null)
               ELSE \E k \in columns[c] :
                       JsonField(At(old, c, Null), k) # JsonField(At(new, c, Null), k)

(* None stands for the row of an INSERT before and of a DELETE after. *)
isChangeSubscriptionUpdate(sub, table, old, new) ==
    LET oldMatches == old # None /\ rowMatches(sub, table, old)
        newMatches == new # None /\ rowMatches(sub, table, new)
    IN \/ oldMatches # newMatches
       \/ oldMatches /\ newMatches /\ selectionChanged(sub, table, old, new)
=============================================================================
