---------------------------- MODULE MCRowUpdates ----------------------------
(* Users and posts, and the shapes of query the translation tells apart.   *)
EXTENDS RowUpdates, EntityPointers

Bit == {0, 1}
RowsByTable ==
    [users |-> <<[id : {1}, name : Bit, age : {0, 1, Null},
                  meta : {Null} \cup [{"tier", "plan"} -> Bit]],
                 [id : {2}, name : Bit, age : {1, Null}, meta : {Null}]>>,
     posts |-> <<[id : {1}, user_id : {1, 2}, title : Bit]>>,
     entities |-> [i \in 1..2 |-> [__ref : {i}, __typename : {"Project", "WorkflowState"},
                                   data : [id : {i}, updatedAt : Bit,
                                           team : [{"__ref"} -> Bit]]]]]
NullableColumns == {"age", "meta"}

id == Ref(None, "id")
name == Ref(None, "name")
age == Ref(None, "age")
tier == JsonRef(Ref(None, "meta"), <<"tier">>)
plan == JsonRef(Ref(None, "meta"), <<"plan">>)
uName == Ref("users", "name")
uId == Ref("users", "id")
uAge == Ref("users", "age")
pUser == Ref("posts", "user_id")
pTitle == Ref("posts", "title")

Users(selections) == Select(<<Table("users")>>, selections)
WithPosts(type, selections) ==
    [Users(selections) EXCEPT
        !.joins = <<Join(type, Table("posts"), Op(pUser, "=", uId))>>]

DecidedQueries ==
    {projects, workflowStates(1),
     selectEntityPointersQuery({"Project", "WorkflowState"},
                               "updatedAt" :> InList({1}), NoTree),
     Users(<<name>>),
     Users(<<Ref(None, All)>>),
     Where(Users(<<name>>), Op(age, "=", Val(1))),
     Where(Users(<<age>>), Op(age, ">", Val(0))),
     Where(Users(<<name, age>>), Op(age, "not in", List({0}))),
     Where(Users(<<age>>), Op(name, "!=", Val(1))),
     Where(Users(<<id>>), Or(Op(age, "=", Val(1)), Op(name, "=", Val(1)))),
     Where(Where(Users(<<tier>>), Op(age, "in", List({0, 1}))),
           Op(name, "not in", List({0}))),
     Where(Users(<<name, age>>), Not(Op(age, "=", Val(1)))),
     Where(Users(<<id>>), Op(tier, "=", Val(1))),
     Where(Users(<<id>>), Op(JsonRef(Ref(None, "meta"), <<"tier">>), "in", List({0, 1}))),
     [Users(<<Alias(name)>>) EXCEPT !.orderBy = <<age>>],
     [Users(<<name>>) EXCEPT !.having = 2],
     WithPosts("InnerJoin", <<uId, uName, pUser>>),
     WithPosts("LeftJoin", <<uName, uId, pUser, pTitle>>),
     Where(WithPosts("InnerJoin", <<uId, pUser, pTitle>>), Op(uAge, "=", Val(1))),
     Where(WithPosts("InnerJoin", <<uId, pUser>>),
           And(Op(uAge, "=", Val(1)), Op(pTitle, "=", Val(1)))),
     [Select(<<TableAs("users", "u"), Table("posts")>>,
             <<Ref("u", "name"), Ref("posts", All)>>) EXCEPT !.orderBy = <<pTitle>>],
     Where(Users(<<Raw(tier)>>), Raw(Op(age, "=", Val(1)))),
     Where(Users(<<name>>),
           And(Parens(Or(Op(name, "=", Val(0)), Op(age, "=", Val(0)))),
               Op(tier, "=", Val(1)))),
     Where(Users(<<id, age>>),
           Op(id, "in", Subquery(Where(Users(<<id>>), Op(age, "=", Val(1)))))),
     Select(<<QueryAs(Where(Users(<<id, name>>), Op(age, "=", Val(1))), "u")>>,
            <<Ref("u", "name")>>),
     [Select(<<Table("adults")>>, <<Ref("adults", "id")>>)
        EXCEPT !.with = <<[name |-> "adults",
                           query |-> Where(Users(<<id, age>>), Op(age, ">", Val(0)))]>>]}

(* The decision depends on a column that is neither selected nor pinned. *)
QuickStart == {Where(Users(<<id, name>>), Op(age, ">", Val(0)))}

=============================================================================
