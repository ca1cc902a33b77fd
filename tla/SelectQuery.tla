---------------------------- MODULE SelectQuery ----------------------------
(* Kysely's SELECT nodes, as records, and what SQLite answers to them.     *)
(* Both are external: the code only walks the nodes, and this module is    *)
(* what its walk has to be right about.                                    *)
(*                                                                         *)
(* A query is a record of the clauses                                      *)
(*   with       sequence of [name, query]                                  *)
(*   from       sequence of items [kind, name or query, alias]             *)
(*   joins      sequence of [type, item, on]                               *)
(*   selections sequence of expressions,  orderBy  the same                *)
(*   where      a condition or None,      having   a group size or None    *)
(* Every column holds numbers, names or Null; a JSON column holds Null or  *)
(* a function from its keys.  GROUP BY groups equal result rows, and HAVING  *)
(* asks for groups of a least size.  LIMIT only cuts what ORDER BY sorted, *)
(* so a row of the result carries its sort keys and LIMIT is left out.     *)
EXTENDS Integers, SequencesExt

CONSTANTS All,    \* `*`: every column, every row, every table
          None,   \* an absent clause, alias or table qualifier
          Null    \* NULL

At(f, k, default) == IF k \in DOMAIN f THEN f[k] ELSE default

-----------------------------------------------------------------------------
(* Node constructors *)

Table(name) == [kind |-> "TableNode", name |-> name, alias |-> None]
TableAs(name, alias) == [kind |-> "TableNode", name |-> name, alias |-> alias]
QueryAs(query, alias) ==
    [kind |-> "SelectQueryNode", query |-> query, alias |-> alias]
Join(type, item, on) == [type |-> type, item |-> item, on |-> on]

Ref(table, column) ==
    [kind |-> "ReferenceNode", table |-> table, column |-> column]
JsonRef(ref, keys) ==
    [kind |-> "JSONReferenceNode", reference |-> ref, keys |-> keys]
Alias(node) == [kind |-> "AliasNode", node |-> node]
Raw(node) == [kind |-> "RawNode", sql |-> node]  \* sql`...`: opaque to the walk

Val(v) == [kind |-> "ValueNode", value |-> v]
List(vs) == [kind |-> "ValueListNode", values |-> vs]
Subquery(query) == [kind |-> "SelectQueryNode", query |-> query]
Op(left, operator, right) ==
    [kind |-> "BinaryOperationNode", left |-> left, operator |-> operator,
     right |-> right]
And(l, r) == [kind |-> "AndNode", left |-> l, right |-> r]
Or(l, r) == [kind |-> "OrNode", left |-> l, right |-> r]
Parens(p) == [kind |-> "ParensNode", node |-> p]
Not(p) == [kind |-> "UnaryOperationNode", operand |-> p]

Select(from, selections) ==
    [with |-> <<>>, from |-> from, joins |-> <<>>, selections |-> selections,
     where |-> None, having |-> None, orderBy |-> <<>>]
Where(query, p) ==
    [query EXCEPT !.where = IF @ = None THEN p ELSE And(@, p)]

-----------------------------------------------------------------------------
(* Evaluation.  A binding gives every alias of FROM and JOIN the identity  *)
(* and the row it stands for; an unmatched LEFT JOIN stands for no row.    *)

NameOf(item) == IF item.alias # None \/ item.kind # "TableNode"
                THEN item.alias ELSE item.name

ColumnOf(binding, ref) ==
    LET owners == IF ref.table # None THEN {ref.table}
                  ELSE {a \in DOMAIN binding : ref.column \in DOMAIN binding[a][2]}
    IN IF owners = {} THEN Null
       ELSE At(binding[CHOOSE a \in owners : TRUE][2], ref.column, Null)

RECURSIVE Value(_, _)
Value(e, binding) ==
    CASE e.kind = "ReferenceNode" /\ e.column = All ->
            IF e.table = None THEN [a \in DOMAIN binding |-> binding[a][2]]
            ELSE binding[e.table][2]
      [] e.kind = "ReferenceNode" /\ e.column # All -> ColumnOf(binding, e)
      [] e.kind = "JSONReferenceNode" ->
            FoldLeft(LAMBDA v, k : IF v = Null THEN Null ELSE At(v, k, Null),
                     ColumnOf(binding, e.reference), e.keys)
      [] e.kind = "AliasNode" -> Value(e.node, binding)
      [] e.kind = "RawNode" -> Value(e.sql, binding)
      [] e.kind = "ValueNode" -> e.value

Compare(operator, x, y) ==
    IF x = Null \/ y = Null THEN Null
    ELSE CASE operator = "=" -> x = y
           [] operator = "!=" -> x # y
           [] operator = ">" -> x > y

RECURSIVE Truth(_, _, _, _), Bindings(_, _, _)

(* What a subquery or a common table expression offers as rows. *)
DerivedRows(query, db, ctes) ==
    LET Plain(e) == IF e.kind = "AliasNode" THEN e.node ELSE e
        RowOf(b) ==
            [c \in UNION {IF Plain(s).column # All THEN {Plain(s).column}
                          ELSE UNION {DOMAIN b[a][2] : a \in DOMAIN b} :
                          s \in ToSet(query.selections)}
               |-> ColumnOf(b, Ref(None, c))]
    IN {<<b, RowOf(b)>> : b \in Bindings(query, db, ctes)}

RowsOf(item, db, ctes) ==
    IF item.kind = "SelectQueryNode" THEN DerivedRows(item.query, db, ctes)
    ELSE IF item.name \in DOMAIN ctes
         THEN DerivedRows(ctes[item.name], db, ctes)
         ELSE {<<i, db[item.name][i]>> : i \in {j \in DOMAIN db[item.name] :
                                                db[item.name][j] # None}}

(* SQL's three truth values: TRUE, FALSE and Null. *)
Truth(p, binding, db, ctes) ==
    CASE p.kind \in {"AndNode", "OrNode"} ->
            LET both == {Truth(p.left, binding, db, ctes),
                         Truth(p.right, binding, db, ctes)}
                decisive == (p.kind = "OrNode")
            IN IF decisive \in both THEN decisive
               ELSE IF Null \in both THEN Null ELSE ~decisive
      [] p.kind = "ParensNode" -> Truth(p.node, binding, db, ctes)
      [] p.kind = "UnaryOperationNode" ->
            LET t == Truth(p.operand, binding, db, ctes)
            IN IF t = Null THEN Null ELSE ~t
      [] p.kind = "RawNode" -> Truth(p.sql, binding, db, ctes)
      [] p.kind = "BinaryOperationNode" ->
            LET x == Value(p.left, binding)
                list == CASE p.right.kind = "ValueListNode" -> p.right.values
                          [] p.right.kind = "SelectQueryNode" ->
                                {Value(p.right.query.selections[1], b) :
                                   b \in Bindings(p.right.query, db, ctes)}
                          [] OTHER -> {}
            IN CASE x = Null -> Null
                 [] x # Null /\ p.operator = "in" -> x \in list
                 [] x # Null /\ p.operator = "not in" -> x \notin list
                 [] OTHER -> Compare(p.operator, x, Value(p.right, binding))

Bindings(query, db, outer) ==
    LET ctes == FoldLeft(LAMBDA acc, c : (c.name :> c.query) @@ acc, outer,
                         query.with)
        Cross(bs, item) == {b @@ (NameOf(item) :> r) :
                              b \in bs, r \in RowsOf(item, db, ctes)}
        Joined(bs, join) ==
            UNION {LET matches == {x \in Cross({b}, join.item) :
                                     Truth(join.on, x, db, ctes) = TRUE}
                   IN IF matches = {} /\ join.type = "LeftJoin"
                      THEN {b @@ (NameOf(join.item) :> <<None, <<>>>>)}
                      ELSE matches : b \in bs}
        product == FoldLeft(Joined, FoldLeft(Cross, {<<>>}, query.from),
                            query.joins)
    IN {b \in product :
          query.where = None \/ Truth(query.where, b, db, ctes) = TRUE}

(* The rows of the answer, each with the number of its occurrences. *)
Result(query, db) ==
    LET Out(b) == [i \in DOMAIN (query.selections \o query.orderBy) |->
                     Value((query.selections \o query.orderBy)[i], b)]
        bindings == Bindings(query, db, <<>>)
        count == [o \in {Out(b) : b \in bindings} |->
                    Cardinality({b \in bindings : Out(b) = o})]
    IN IF query.having = None THEN count
       ELSE [o \in {x \in DOMAIN count : count[x] >= query.having} |-> All]
=============================================================================
