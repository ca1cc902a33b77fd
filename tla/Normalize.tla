------------------------------ MODULE Normalize ------------------------------
(***************************************************************************)
(* From the result of an operation to rows: transformQueryData takes the   *)
(* response apart into entities, persistOperationResult and the upserts of *)
(* Database save them and the root fields.  RECURSIVE: for TLC's runs only.*)
(***************************************************************************)
EXTENDS Execute

Put(f, key, value) == (key :> value) @@ f

(* json_patch of SQLite.  Null is written as a sentinel string, so it does *)
(* not delete the key it is patched into.                                  *)
RECURSIVE jsonPatch(_, _)
jsonPatch(target, patch) ==
    IF patch.k # "object" THEN patch
    ELSE LET old == IF target.k = "object" THEN target.f ELSE [x \in {} |-> Null]
         IN  Object([key \in DOMAIN old \cup DOMAIN patch.f |->
                IF key \notin DOMAIN patch.f THEN old[key]
                ELSE jsonPatch(Get(target, key), patch.f[key])])

(* JSON.stringify leaves undefined properties out. *)
RECURSIVE stringify(_)
stringify(value) ==
    CASE value.k = "object" ->
            Object([key \in {x \in DOMAIN value.f : value.f[x] # Undefined} |->
                        stringify(value.f[key])])
      [] value.k = "list" ->
            List([i \in DOMAIN value.items |-> stringify(value.items[i])])
      [] OTHER -> value

(* The name a value is saved under: the arguments as the query gives them, *)
(* with the variables the caller provided.                                 *)
fieldKeyOfAlias(field, variables) ==
    getFullFieldName(field.alias, buildArgs(field, variables))
fieldKey(field, variables) == getFullFieldName(field.name, buildArgs(field, variables))

collectEntity(entities, object) ==
    LET ref == getEntityRef(object)
    IN  Put(entities, ref, IF ref \in DOMAIN entities
                           THEN Object(object.f @@ entities[ref].f) ELSE object)

(* op is [document, variables]; the results carry the entities met so far. *)
RECURSIVE processSelectionSet(_, _, _, _), transformNode(_, _, _, _)
processSelectionSet(op, selections, value, acc) ==
    IF selections = <<>> THEN acc
    ELSE LET sel == Head(selections)
             node == transformNode(op, sel.selections, Get(value, sel.alias), acc.entities)
             inner == IF sel.kind = "FragmentSpread"
                      THEN op.document.fragments[sel.name].selections
                      ELSE sel.selections
             next == IF sel.kind = "Field"
                     THEN [object |-> Put(acc.object, fieldKey(sel, op.variables), node.value),
                           entities |-> node.entities]
                     ELSE processSelectionSet(op, inner, value, acc)
         IN  processSelectionSet(op, Tail(selections), value, next)
transformNode(op, selections, value, entities) ==
    CASE value.k = "list" ->
            LET AddItem(acc, item) ==
                    LET node == transformNode(op, selections, item, acc.entities)
                    IN  [items |-> Append(acc.items, node.value), entities |-> node.entities]
                all == FoldLeft(AddItem, [items |-> <<>>, entities |-> entities], value.items)
            IN  [value |-> List(all.items), entities |-> all.entities]
      [] value.k = "object" ->
            LET read == processSelectionSet(op, selections, value,
                            [object |-> [x \in {} |-> Null], entities |-> entities])
                typename == Get(value, "__typename")
                object == IF /\ ~IsNullish(typename)
                             /\ IsNullish(Get(Object(read.object), Key("__typename")))
                          THEN Object(Put(read.object, Key("__typename"), typename))
                          ELSE Object(read.object)
            IN  IF isEntity(object)
                THEN [value |-> Pointer(getEntityRef(object)),
                      entities |-> collectEntity(read.entities, object)]
                ELSE [value |-> object, entities |-> read.entities]
      [] value.k = "json" ->
            [value |-> Object([x \in {} |-> Null]), entities |-> entities]
      [] OTHER -> [value |-> value, entities |-> entities]

transformQueryData(op, data) ==
    transformNode(op, op.document.selections, data, [x \in {} |-> Null])

-----------------------------------------------------------------------------
upsertEntities(table, entities) ==
    [ref \in DOMAIN table \cup DOMAIN entities |->
        IF ref \notin DOMAIN entities THEN table[ref]
        ELSE LET data == stringify(entities[ref])
             IN  IF ref \in DOMAIN table THEN jsonPatch(table[ref], data) ELSE data]

(* A root field that is undefined leaves its row without data: the         *)
(* statement gives that row NULL, which the schema refuses, unless no row  *)
(* has data and the default of the column applies.                         *)
canUpsertQueries(root) ==
    LET missing == {key \in DOMAIN root.f : root.f[key] = Undefined}
    IN  missing \in {{}, DOMAIN root.f}
upsertQueries(table, root) ==
    [key \in DOMAIN root.f |->
        IF root.f[key] = Undefined THEN Object([x \in {} |-> Null])
        ELSE stringify(root.f[key])] @@ table
=============================================================================
