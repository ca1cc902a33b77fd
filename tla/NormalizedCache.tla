--------------------------- MODULE NormalizedCache ---------------------------
(***************************************************************************)
(* The normalized cache of repliqlExchange against a server: operations    *)
(* are sent, answered, delivered in any order, saved in two statements     *)
(* that nobody waits for, and executed at any time on what the tables      *)
(* hold.  What a local hit must show is the answer a GraphQL server gives, *)
(* which this module states for itself (Answer).                           *)
(***************************************************************************)
EXTENDS Normalize, Integers

CONSTANTS Operation,     \* [document, variables], the operations of the application
          Graph,         \* the states of the server, in the shape of the tables
          MaxResponses,  \* bound on the responses
          MaxChanges,    \* bound on the changes of the server
          MaxFaults      \* bound on the responses that cannot be saved

VARIABLES
    graph,      \* the state of the server
    responses,  \* the responses on their way, a set of [op, data]
    saving,     \* the results being saved, in the order they came
    db,         \* the entities and queries tables
    changes,    \* how often the server has changed
    sent, faults

vars == <<graph, responses, saving, db, changes, sent, faults>>

-----------------------------------------------------------------------------
(* A GraphQL server.  The selections of a level are a set here: the fields *)
(* with one response key are one field of the answer, which selects all    *)
(* that any of them selects, and a fragment is for the objects of its type.*)

Left(directives, variables) ==
    \E d \in directives : valueFromAST(d.if, variables) = Scalar(d.name = "skip")

RECURSIVE FieldsFor(_, _, _, _)
FieldsFor(op, variables, type, selections) ==
    LET here == {sel \in selections : ~Left(sel.directives, variables)}
        Within(sel) == IF sel.kind = "FragmentSpread"
                       THEN op.document.fragments[sel.name] ELSE sel
    IN  {sel \in here : sel.kind = "Field"} \cup
        UNION {LET inner == Within(sel)
               IN  IF /\ inner.typeCondition \in {"", type}
                      /\ ~Left(inner.directives, variables)
                   THEN FieldsFor(op, variables, type, ToSet(inner.selections)) ELSE {}
               : sel \in here \ {s \in here : s.kind = "Field"}}

RECURSIVE AnswerObject(_, _, _, _, _)
AnswerObject(op, variables, g, object, selections) ==
    LET type == Get(object, Key("__typename"))
        nodes == FieldsFor(op, variables, IF type = Undefined THEN "" ELSE type.v, selections)
        RECURSIVE Answered(_, _)
        Answered(value, subselections) ==
            CASE IsNullish(value) -> Null
              [] value.k = "list" ->
                    List([i \in DOMAIN value.items |-> Answered(value.items[i], subselections)])
              [] isEntityPointer(value) ->
                    AnswerObject(op, variables, g, g.entities[RefOf(value)], subselections)
              [] value.k = "object" /\ subselections # {} ->
                    AnswerObject(op, variables, g, value, subselections)
              [] OTHER -> value
    IN  Object([key \in {n.alias : n \in nodes} |->
            LET same == {n \in nodes : n.alias = key}
                node == CHOOSE n \in same : TRUE
                value == Get(object, getFullFieldName(node.name, buildArgs(node, variables)))
            IN  Answered(value, UNION {ToSet(n.selections) : n \in same})])

(* A variable that is undefined is one that is not there: for execute() so *)
(* that a default applies, and in a request, which is JSON.                *)
variableValues(op) ==
    Restrict(op.variables, {name \in DOMAIN op.variables : op.variables[name] # Undefined})

Answer(g, op) ==
    AnswerObject(op, coerceVariables(op.document.variables, variableValues(op)), g,
                 Object(g.queries), ToSet(op.document.selections))

(* mapTypeNames: what is sent asks every object for its type. *)
RECURSIVE withTypenames(_)
withTypenames(selections) ==
    LET formatted == [i \in DOMAIN selections |->
            IF selections[i].kind = "FragmentSpread" THEN selections[i]
            ELSE [selections[i] EXCEPT !.selections = withTypenames(@)]]
    IN  IF selections = <<>> THEN <<>> ELSE Append(formatted, Field("__typename", <<>>))
mapTypeNames(op) ==
    [op EXCEPT
        !.document.selections = [i \in DOMAIN @ |->
            IF @[i].kind = "FragmentSpread" THEN @[i]
            ELSE [@[i] EXCEPT !.selections = withTypenames(@)]],
        !.document.fragments = [name \in DOMAIN @ |->
            [@[name] EXCEPT !.selections = withTypenames(@)]]]

-----------------------------------------------------------------------------
Init ==
    /\ graph \in Graph
    /\ responses = {}
    /\ saving = <<>>
    /\ db = [entities |-> [x \in {} |-> Null], queries |-> [x \in {} |-> Null]]
    /\ changes = 0 /\ sent = 0 /\ faults = 0

ServerChanges ==
    /\ changes < MaxChanges
    /\ \E g \in Graph \ {graph} : graph' = g
    /\ changes' = changes + 1
    /\ UNCHANGED <<responses, saving, db, sent, faults>>

(* The operation is forwarded and the server answers it. *)
Fetch(op) ==
    /\ sent < MaxResponses
    /\ sent' = sent + 1
    /\ responses' = responses \cup {[op |-> op, data |-> Answer(graph, mapTypeNames(op))]}
    /\ UNCHANGED <<graph, saving, db, changes, faults>>

(* A result comes back: persistOperationResult takes it apart, and the     *)
(* statement on the entities is issued; the one on the queries follows.    *)
DeliverQueriesFirst(r) ==
    /\ responses' = responses \ {r}
    /\ LET normalized == transformQueryData(mapTypeNames(r.op), r.data)
       IN  /\ canUpsertQueries(normalized.value)
           /\ db' = [db EXCEPT !.queries = upsertQueries(@, normalized.value)]
           /\ saving' = Append(saving, [op |-> r.op, data |-> r.data,
                                        root |-> normalized.value])
    /\ UNCHANGED <<graph, changes, sent, faults>>
Deliver(r) ==
    /\ responses' = responses \ {r}
    /\ LET normalized == transformQueryData(mapTypeNames(r.op), r.data)
       IN  /\ db' = [db EXCEPT !.entities = upsertEntities(@, normalized.entities)]
           /\ saving' = Append(saving, [op |-> r.op, data |-> r.data,
                                        root |-> normalized.value])
    /\ UNCHANGED <<graph, changes, sent, faults>>

(* The statement on the queries table: a rejected one is not tried again,  *)
(* whether it fails of itself or not.                                      *)
SaveQueries ==
    /\ saving # <<>>
    /\ canUpsertQueries(saving[1].root)
    /\ db' = [db EXCEPT !.queries = upsertQueries(@, saving[1].root)]
    /\ saving' = Tail(saving)
    /\ UNCHANGED <<graph, responses, changes, sent, faults>>

SaveFails ==
    /\ saving # <<>>
    /\ \/ ~canUpsertQueries(saving[1].root) /\ UNCHANGED faults
       \/ faults < MaxFaults /\ faults' = faults + 1
    /\ saving' = Tail(saving)
    /\ UNCHANGED <<graph, responses, db, changes, sent>>

Next ==
    \/ ServerChanges
    \/ \E op \in Operation : Fetch(op)
    \/ \E r \in responses : Deliver(r)
    \/ SaveQueries
    \/ SaveFails

Spec == Init /\ [][Next]_vars

-----------------------------------------------------------------------------
executeOperation(tables, op) == execute(tables, [op EXCEPT !.variables = variableValues(op)])
Hit(op) == ~executeOperation(db, op).errors

(* The rows that the tables point to, at any depth. *)
RECURSIVE PointersIn(_)
PointersIn(value) ==
    CASE value.k = "list" -> UNION {PointersIn(value.items[i]) : i \in DOMAIN value.items}
      [] isEntityPointer(value) -> {RefOf(value)}
      [] value.k = "object" -> UNION {PointersIn(value.f[key]) : key \in DOMAIN value.f}
      [] OTHER -> {}

(* The rows of a table are addressed by the type and the id they hold. *)
TypeOK ==
    /\ graph \in Graph
    /\ \A ref \in DOMAIN db.entities :
          isEntity(db.entities[ref]) /\ getEntityRef(db.entities[ref]) = ref
    /\ \A r \in responses : r.op \in Operation
    /\ \A i \in DOMAIN saving : saving[i].op \in Operation
    /\ changes \in 0..MaxChanges /\ sent \in 0..MaxResponses /\ faults \in 0..MaxFaults

(* The two statements of persistOperationResult may be apart, and the      *)
(* second may never come: even so, every row is stored under its own       *)
(* reference and no row points to a row that is missing.                   *)
PointersResolve ==
    /\ TypeOK
    /\ \A value \in {db.queries[key] : key \in DOMAIN db.queries}
                       \cup {db.entities[ref] : ref \in DOMAIN db.entities} :
           PointersIn(value) \subseteq DOMAIN db.entities

(* A query that the tables answer without an error, whoever filled them    *)
(* and however far the saving is, gets the answer of the server when that  *)
(* has not changed: nothing left out, and no value of another field, of    *)
(* other arguments or of another entity.                                   *)
HitIsTheAnswer ==
    changes = 0 => \A op \in Operation : Hit(op) => executeOperation(db, op).data = Answer(graph, op)

(* What was just saved can be read: the operation that is executed after   *)
(* its fetch hits, and shows the response that came, whatever older state  *)
(* of the server the tables hold besides (repliqlExchange executes it      *)
(* again to know what to watch).                                           *)
ReadsWhatItSaved ==
    [][Len(saving) = 1 /\ SaveQueries =>
          LET op == saving[1].op
          IN  executeOperation(db', mapTypeNames(op)) = [data |-> saving[1].data, errors |-> FALSE]]_vars
=============================================================================
