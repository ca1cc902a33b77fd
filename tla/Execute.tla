------------------------------- MODULE Execute -------------------------------
(***************************************************************************)
(* The executor of queries without a schema (utils/graphql/execute.ts) and *)
(* the field resolver repliqlExchange gives it: the entities and queries   *)
(* tables, and the root fields for which the configuration has a resolver. *)
(* Fields of one level run concurrently and only read, so the result is a  *)
(* function of the tables.  RECURSIVE operators: for TLC's runs only.      *)
(***************************************************************************)
EXTENDS Sequences, SequencesExt, FiniteSets

CONSTANT PointerResolver   \* root fields resolved to the pointer [root field -> type]

(* JSON values, told apart by k. *)
Undefined == [k |-> "undefined"]
Null == [k |-> "null"]
Scalar(v) == [k |-> "scalar", v |-> v]
List(items) == [k |-> "list", items |-> items]
Object(f) == [k |-> "object", f |-> f]
JsonScalar(v) == [k |-> "json", v |-> v]   \* an object nothing is selected of
Thrown == [k |-> "thrown"]

IsNullish(value) == value \in {Undefined, Null}
Get(object, key) ==
    IF object.k = "object" /\ key \in DOMAIN object.f THEN object.f[key] ELSE Undefined

(* Documents: one operation and its fragments. *)
Variable(name) == [kind |-> "Variable", name |-> name]
Literal(v) == [kind |-> "Literal", value |-> Scalar(v)]
Arg(name, value) == [name |-> name, value |-> value]
Field(name, selections) ==
    [kind |-> "Field", name |-> name, alias |-> name, args |-> {},
     directives |-> {}, selections |-> selections]
Inline(typeCondition, selections) ==
    [kind |-> "InlineFragment", typeCondition |-> typeCondition,
     directives |-> {}, selections |-> selections]
Spread(name) == [kind |-> "FragmentSpread", name |-> name, directives |-> {}]
Directive(name, value) == [name |-> name, if |-> value]
VariableDef(name, default) == [name |-> name, default |-> default]

-----------------------------------------------------------------------------
(* The identity of a field with its arguments: stringifyVariables leaves   *)
(* undefined arguments out, but a call all of whose arguments are          *)
(* undefined stays a call.                                                 *)
getFullFieldName(name, args) ==
    [name |-> name, call |-> args # {},
     args |-> {a \in args : a.value # Undefined}]
Key(name) == getFullFieldName(name, {})

getEntityRef(object) == <<Get(object, Key("__typename")), Get(object, Key("id"))>>
Pointer(ref) == Object((Key("__ref") :> Scalar(ref)))
isEntityPointer(value) == Get(value, Key("__ref")) # Undefined
isEntity(value) == /\ Get(value, Key("__typename")).k = "scalar"
                   /\ Get(value, Key("id")).k = "scalar"
isEntityHandle(value) == isEntityPointer(value) \/ isEntity(value)
RefOf(handle) == IF isEntity(handle) THEN getEntityRef(handle)
                                     ELSE Get(handle, Key("__ref")).v

valueFromAST(node, variables) ==
    CASE node.kind = "Literal" -> node.value
      [] node.name \in DOMAIN variables -> variables[node.name]
      [] OTHER -> Undefined
buildArgs(node, variables) ==
    {Arg(a.name, valueFromAST(a.value, variables)) : a \in node.args}

coerceVariables(definitions, provided) ==
    LET known == {d \in ToSet(definitions) :
                    d.name \in DOMAIN provided \/ d.default # Undefined}
    IN  [name \in {d.name : d \in known} |->
            IF name \in DOMAIN provided THEN provided[name]
            ELSE (CHOOSE d \in known : d.name = name).default]

(* compile: spreads become inline fragments, with both directives. *)
RECURSIVE flattenSelectionSet(_, _)
flattenSelectionSet(selections, fragments) ==
    [i \in DOMAIN selections |->
        LET sel == selections[i]
        IN  IF sel.kind # "FragmentSpread"
            THEN [sel EXCEPT !.selections = flattenSelectionSet(@, fragments)]
            ELSE LET fragment == fragments[sel.name]
                 IN  [Inline(fragment.typeCondition,
                             flattenSelectionSet(fragment.selections, fragments))
                        EXCEPT !.directives = sel.directives \cup fragment.directives]]

directivesSwapped(directives, variables) ==
    \A d \in directives :
        valueFromAST(d.if, variables) # Scalar(IF d.name = "skip" THEN FALSE ELSE TRUE)
directivesPass(directives, variables) ==
    \A d \in directives :
        valueFromAST(d.if, variables) # Scalar(IF d.name = "skip" THEN TRUE ELSE FALSE)

(* The fields of a level in the order they come, whatever the type of the  *)
(* object is: there is no schema to test a type condition with.            *)
RECURSIVE collectFields(_, _)
collectFields(selections, variables) ==
    FlattenSeq([i \in DOMAIN selections |->
        LET sel == selections[i]
        IN  IF ~directivesPass(sel.directives, variables) THEN <<>>
            ELSE IF sel.kind = "Field" THEN <<sel>>
            ELSE collectFields(sel.selections, variables)])

mergeSelectionSets(nodes) == FlattenSeq([i \in DOMAIN nodes |-> nodes[i].selections])

(* The field resolver of repliqlExchange, for queries. *)
resolveRoot(db, name, args) ==
    IF name \in DOMAIN PointerResolver
    THEN Pointer(<<Scalar(PointerResolver[name]),
                   (CHOOSE a \in args : a.name = "id").value>>)
    ELSE LET fieldName == getFullFieldName(name, args)
         IN  IF fieldName \in DOMAIN db.queries THEN db.queries[fieldName] ELSE Thrown

fieldResolver(db, source, name, args) ==
    IF source = Undefined THEN resolveRoot(db, name, args)
    ELSE LET parent == IF isEntityHandle(source) /\ RefOf(source) \in DOMAIN db.entities
                       THEN db.entities[RefOf(source)] ELSE source
             value == Get(parent, getFullFieldName(name, args))
         IN  IF value = Undefined THEN Thrown ELSE value

(* A result is the data, and whether errors were reported on the way. *)
RECURSIVE executeSelectionSet(_, _, _, _), completeValue(_, _, _, _)
executeSelectionSet(db, source, selections, variables) ==
    LET nodes == collectFields(selections, variables)
        keys == {nodes[i].alias : i \in DOMAIN nodes}
        fieldNodes(key) == SelectSeq(nodes, LAMBDA n : n.alias = key)
        executeField(key) ==
            LET node == fieldNodes(key)[1]
                resolved == fieldResolver(db, source, node.name, buildArgs(node, variables))
            IN  IF resolved = Thrown THEN [data |-> Null, errors |-> TRUE]
                ELSE completeValue(db, resolved, mergeSelectionSets(fieldNodes(key)), variables)
        fields == [key \in keys |-> executeField(key)]
    IN  [data |-> Object([key \in keys |-> fields[key].data]),
         errors |-> \E key \in keys : fields[key].errors]
completeValue(db, value, selections, variables) ==
    CASE IsNullish(value) -> [data |-> Null, errors |-> FALSE]
      [] value.k = "list" ->
            LET items == [i \in DOMAIN value.items |->
                            completeValue(db, value.items[i], selections, variables)]
            IN  [data |-> List([i \in DOMAIN items |-> items[i].data]),
                 errors |-> \E i \in DOMAIN items : items[i].errors]
      [] selections # <<>> ->
            executeSelectionSet(db, value, selections, variables)
      [] OTHER -> [data |-> value, errors |-> FALSE]

execute(db, operation) ==
    executeSelectionSet(db, Undefined,
        flattenSelectionSet(operation.document.selections, operation.document.fragments),
        coerceVariables(operation.document.variables, operation.variables))
=============================================================================
