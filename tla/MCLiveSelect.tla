---------------------------- MODULE MCLiveSelect ----------------------------
(* One user, all of whose columns are selected, one of them ignored: an    *)
(* update of that one alone changes the answer and is not reported.        *)
EXTENDS LiveSelect

Row(n, v) == [c \in {"id", "name", "$v"} |->
                 CASE c = "id" -> 1 [] c = "name" -> n [] OTHER -> v]
SmallRows == [users |-> <<{Row(0, 0), Row(1, 0), Row(1, 1)}>>]

SmallQueries == {Select(<<Table("users")>>, <<Ref("users", All)>>)}
IgnoredColumns == {"$v"}
=============================================================================
