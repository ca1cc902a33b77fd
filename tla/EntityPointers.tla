--------------------------- MODULE EntityPointers ---------------------------
(* Database.selectEntityPointersQuery: the query by which a resolver finds *)
(* entities of its cache (filterEntityPointers), and whose change          *)
(* subscription makes the operation live.  The filter of a resolver is a   *)
(* tree of fields; a leaf is a primitive or a $in list.                    *)
EXTENDS SelectQuery, SequencesExt

Equals(v) == [kind |-> "primitive", value |-> v]
InList(vs) == [kind |-> "$in", value |-> vs]
Subtree(f) == [kind |-> "fields", value |-> f]    \* nested WhereEntityData
Sort(order) == [kind |-> "sort", value |-> order]  \* "asc" or "desc"

RECURSIVE leaves(_, _)
leaves(tree, currentPath) ==
    FlattenSeq([i \in 1..Cardinality(DOMAIN tree) |->
        LET key == SetToSeq(DOMAIN tree)[i]
            newPath == Append(currentPath, key)
        IN  IF tree[key].kind = "fields" THEN leaves(tree[key].value, newPath)
            ELSE <<[path |-> newPath, leaf |-> tree[key]]>>])

(* NULL is a primitive too: it is compared with `=`. *)
whereEntityDataToConditions(where) == leaves(where, <<>>)
orderByEntityDataToOrders(orderBy) == leaves(orderBy, <<>>)

dataField(path) == JsonRef(Ref(None, "data"), path)
conditionOf(c) ==
    IF c.leaf.kind = "$in" THEN Op(dataField(c.path), "in", List(c.leaf.value))
                           ELSE Op(dataField(c.path), "=", Val(c.leaf.value))

selectEntityPointersQuery(typenames, where, orderBy) ==
    LET AddWhere(query, c) == Where(query, conditionOf(c))
        ofTypes == Where(Select(<<Table("entities")>>, <<Ref(None, "__ref")>>),
                         Op(Ref(None, "__typename"), "in", List(typenames)))
        filtered == FoldLeft(AddWhere, ofTypes, whereEntityDataToConditions(where))
        orders == orderByEntityDataToOrders(orderBy)
    IN  [filtered EXCEPT !.orderBy = [i \in DOMAIN orders |-> dataField(orders[i].path)]]

-----------------------------------------------------------------------------
(* The resolvers of the demonstration that find their entities this way.   *)

pointsTo(ref) == Subtree("__ref" :> Equals(ref))
NoTree == [key \in {} |-> None]

projects ==
    selectEntityPointersQuery({"Project"}, NoTree, "updatedAt" :> Sort("desc"))
workflowStates(team) ==
    selectEntityPointersQuery({"WorkflowState"}, "team" :> pointsTo(team),
                              "id" :> Sort("asc"))
=============================================================================
