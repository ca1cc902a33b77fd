-------------------------- MODULE MCNormalizedCache --------------------------
(* Users, posts and settings (an object without an id), and operations     *)
(* that reach them by several ways: lists, aliases, arguments, fragments,  *)
(* directives.  Objects that have an id are asked for it.                  *)
EXTENDS NormalizedCache

F(name) == Field(name, <<>>)
Aliased(alias, field) == [field EXCEPT !.alias = alias]
Call(name, value, selections) == [Field(name, selections) EXCEPT !.args = {Arg("id", value)}]
SkipIf(field) == [field EXCEPT !.directives = {Directive("skip", Variable("brief"))}]
Query(variables, selections) ==
    [variables |-> variables, selections |-> selections, fragments |-> [x \in {} |-> Null]]
With(op, name, value) == [op EXCEPT !.variables = (name :> Scalar(value))]
Missing(op, name) == [op EXCEPT !.variables = (name :> Undefined)]
Op(document) == [document |-> document, variables |-> [x \in {} |-> Null]]

U(id) == <<Scalar("User"), Scalar(id)>>
P(id) == <<Scalar("Post"), Scalar(id)>>
IdKey(name, id) == getFullFieldName(name, {Arg("id", Scalar(id))})
Obj(type, id, f) ==
    Object((Key("__typename") :> Scalar(type)) @@ (Key("id") :> Scalar(id)) @@ f)
Server(annName, author, post1, friend) ==
    [queries |->
        (Key("me") :> Pointer(U("1"))) @@
        (Key("posts") :> List(<<Pointer(P("1")), post1>>)) @@
        (Key("settings") :> Object((Key("__typename") :> Scalar("Settings")) @@
                                   (Key("theme") :> Scalar(annName)) @@
                                   (Key("user") :> Pointer(author)))) @@
        (IdKey("post", "1") :> Pointer(P("1"))) @@ (IdKey("post", "2") :> post1) @@
        (IdKey("item", "1") :> Pointer(P("1"))) @@ (IdKey("item", "2") :> Pointer(P("2"))),
     entities |->
        (U("1") :> Obj("User", "1", (Key("name") :> Scalar(annName)) @@
                                    (Key("friend") :> friend) @@
                                    (Key("meta") :> JsonScalar(annName)))) @@
        (U("2") :> Obj("User", "2", (Key("name") :> Null) @@
                                    (Key("friend") :> Pointer(U("1"))))) @@
        (P("1") :> Obj("Post", "1", (Key("author") :> Pointer(author)))) @@
        (P("2") :> Obj("Post", "2", (Key("author") :> Pointer(U("2")))))]

Graphs == {Server("ann", U("1"), Pointer(P("2")), Pointer(U("2"))),
           Server("eve", U("2"), Null, Null)}

NameOfUser == "UserName" :> Inline("User", <<F("name")>>)
Me == Op(Query(<<>>, <<Field("me", <<F("id"), Aliased("nick", F("name")),
                                     Field("friend", <<F("id"), F("name")>>)>>)>>))
Brief == Op(Query(<<VariableDef("brief", Scalar(FALSE))>>,
                  <<Field("me", <<F("id"), SkipIf(F("name"))>>)>>))
Post == Op([Query(<<VariableDef("id", Undefined)>>,
                  <<Call("post", Variable("id"),
                         <<F("id"), Field("author", <<F("id"), Spread("UserName")>>)>>)>>)
            EXCEPT !.fragments = NameOfUser])
Item == Op(Query(<<>>, <<Aliased("a", Call("item", Literal("1"), <<F("id"), Field("author", <<F("id")>>)>>)),
                         Aliased("b", Call("item", Literal("2"), <<F("id"), Field("author", <<F("id")>>)>>))>>))
Twice == Op(Query(<<>>, <<Field("me", <<F("id")>>), Field("me", <<F("name"), F("id")>>)>>))
Posts == Op(Query(<<>>, <<Field("posts", <<F("id"), Inline("Post", <<Field("author", <<F("id"), F("name")>>)>>)>>)>>))
Part == Op(Query(<<VariableDef("brief", Undefined)>>,
                 <<SkipIf(Field("me", <<F("id")>>)), Field("settings", <<F("theme")>>)>>))
Settings == Op(Query(<<>>, <<Field("settings", <<F("theme"), Field("user", <<F("id")>>)>>)>>))

Operations == {Me, With(Brief, "brief", TRUE), Missing(Brief, "brief"),
               With(Post, "id", "1"), With(Post, "id", "2"),
               Item, Twice, Posts, Settings, With(Part, "brief", TRUE)}
Resolvers == "item" :> "Post"
=============================================================================
