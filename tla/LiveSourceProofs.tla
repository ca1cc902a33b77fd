-------------------------- MODULE LiveSourceProofs --------------------------
(***************************************************************************)
(* Proofs about the subscribers of a live query and the source they share, *)
(* for any set of subscribers, whatever the query answers and whenever a   *)
(* change of it is reported.  The invariant follows an answer from the     *)
(* statement that reads it, through the hash, to the subscriber.           *)
(***************************************************************************)
EXTENDS LiveSource, SequenceTheorems, TLAPS

-----------------------------------------------------------------------------
(* The invariant.                                                          *)

(* Statements are answered in the order they were issued.                  *)
InOrder ==
    \A i, j \in DOMAIN runs : i < j /\ runs[j].read => runs[i].read

(* A subscriber has one first run.                                         *)
OneFirst ==
    \A i, j \in DOMAIN runs :
        runs[i].kind = "first" /\ IsFirst(runs[j], runs[i].by) => i = j

Awaited(r) == r.kind # "dropped" /\ r.read

HasResults == \A i \in DOMAIN runs : Awaited(runs[i]) => runs[i].result # Nothing

(* Nothing changed since the first run of a subscriber who missed nothing. *)
FirstIsCurrent ==
    \A i, j \in DOMAIN runs :
        /\ Awaited(runs[i]) /\ runs[i].kind = "first" /\ runs[i].by \notin missed
        /\ i <= j /\ Awaited(runs[j])
        => runs[j].result = answer

(* What a subscriber has been given, its own debounce left out.            *)
Given(s) == IF held[s] # Nothing THEN held[s] ELSE shown[s]

(* The hash is that of what every listener has been given, the late ones   *)
(* excepted.                                                               *)
HashIsGiven ==
    \A s \in Listening : lastSeen # Nothing /\ s \notin late => Given(s) = lastSeen

(* The source will run the query again.                                    *)
Pending == timer \/ \E i \in DOMAIN runs : IsUpdate(runs[i]) /\ ~runs[i].read

LastUpdate(i) ==
    IsUpdate(runs[i]) /\ \A j \in DOMAIN runs : i < j => ~IsUpdate(runs[j])

(* Unless it does, its last result on the way is the answer, and with none *)
(* on the way the listener has been given it.                              *)
UpdateIsCurrent ==
    ~Pending => \A i \in DOMAIN runs : LastUpdate(i) => runs[i].result = answer

GivenIsCurrent(s) ==
    Quiet => Given(s) = answer \/ (s \in late /\ lastSeen = answer)

ListenersAreCurrent ==
    \A s \in Listening \ missed : UpdateIsCurrent /\ GivenIsCurrent(s)

IInv ==
    /\ SourceTypeOK /\ InOrder /\ OneFirst /\ HasResults
    /\ FirstIsCurrent /\ HashIsGiven /\ ListenersAreCurrent
-----------------------------------------------------------------------------
(* Sequences of statements.  The results of a statement have no type of    *)
(* their own: they are whatever the query answers.                         *)

Statement(results) ==
    [kind : {"first", "update", "dropped"}, by : Subscriber \cup {Nothing},
     read : BOOLEAN, result : results]

IsStatements(q) == \E results : q \in Seq(Statement(results))

IsStatement(r) == \E results : r \in Statement(results)

LEMMA StatementsFacts ==
    ASSUME NEW q, IsStatements(q)
    PROVE  /\ Len(q) \in Nat
           /\ DOMAIN q = 1..Len(q)
           /\ q # <<>> => Len(q) # 0
           /\ \A i \in DOMAIN q : IsStatement(q[i])
<1>1. PICK results : q \in Seq(Statement(results))
  BY DEF IsStatements
<1>2. Len(q) \in Nat /\ DOMAIN q = 1..Len(q)
  BY <1>1, LenProperties
<1>3. q # <<>> => Len(q) # 0
  BY <1>1, EmptySeq
<1>4. \A i \in DOMAIN q : q[i] \in Statement(results)
  BY <1>1, <1>2, ElementOfSeq
<1>5. QED
  BY <1>2, <1>3, <1>4 DEF IsStatement

LEMMA StatementFacts ==
    ASSUME NEW r, IsStatement(r)
    PROVE  /\ r.kind \in {"first", "update", "dropped"}
           /\ r.by \in Subscriber \cup {Nothing}
           /\ r.read \in BOOLEAN
BY DEF IsStatement, Statement

(* A sequence of statements has the type of the invariant.                 *)
LEMMA StatementsAreTyped ==
    ASSUME NEW q
    PROVE  IsStatements(q) <=> q \in Seq(Statement({q[i].result : i \in DOMAIN q}))
<1> DEFINE own == {q[i].result : i \in DOMAIN q}
<1>1. ASSUME IsStatements(q) PROVE q \in Seq(Statement(own))
  <2>1. PICK results : q \in Seq(Statement(results))
    BY <1>1 DEF IsStatements
  <2>2. Len(q) \in Nat /\ DOMAIN q = 1..Len(q) /\ q \in [1..Len(q) -> Statement(results)]
    BY <2>1, LenProperties
  <2>3. \A i \in DOMAIN q : q[i] \in Statement(own)
    <3>1. TAKE i \in DOMAIN q
    <3>2. q[i] \in Statement(results) /\ q[i].result \in own
      BY <2>2
    <3>3. QED
      BY <3>2 DEF Statement
  <2>4. q \in [1..Len(q) -> Statement(own)]
    BY <2>2, <2>3
  <2>5. QED
    BY <2>2, <2>4
<1>2. QED
  BY <1>1 DEF IsStatements

LEMMA AppendStatement ==
    ASSUME NEW q, IsStatements(q), NEW e, IsStatement(e)
    PROVE  /\ IsStatements(Append(q, e))
           /\ DOMAIN Append(q, e) = 1..(Len(q) + 1)
           /\ \A i \in 1..Len(q) : Append(q, e)[i] = q[i]
           /\ Append(q, e)[Len(q) + 1] = e
<1>1. PICK A : q \in Seq(Statement(A))
  BY DEF IsStatements
<1>2. PICK B : e \in Statement(B)
  BY DEF IsStatement
<1> DEFINE C == Statement(A \cup B)
<1>3. Statement(A) \subseteq C /\ e \in C
  BY <1>2 DEF Statement
<1>4. q \in Seq(C)
  BY <1>1, <1>3, SeqMonotonic
<1> HIDE DEF C
<1>5. /\ Append(q, e) \in Seq(C)
      /\ Len(Append(q, e)) = Len(q) + 1
      /\ \A i \in 1..Len(q) : Append(q, e)[i] = q[i]
      /\ Append(q, e)[Len(q) + 1] = e
  BY <1>3, <1>4, AppendProperties
<1>6. IsStatements(Append(q, e))
  BY <1>5 DEF C, IsStatements
<1>7. QED
  BY <1>5, <1>6, StatementsFacts

LEMMA TailStatements ==
    ASSUME NEW q, IsStatements(q), q # <<>>
    PROVE  /\ IsStatements(Tail(q))
           /\ DOMAIN Tail(q) = 1..(Len(q) - 1)
           /\ \A i \in 1..(Len(q) - 1) : Tail(q)[i] = q[i + 1]
<1>1. PICK A : q \in Seq(Statement(A))
  BY DEF IsStatements
<1> DEFINE C == Statement(A)
<1> HIDE DEF C
<1>2. /\ Tail(q) \in Seq(C)
      /\ Len(Tail(q)) = Len(q) - 1
      /\ \A i \in 1..Len(Tail(q)) : Tail(q)[i] = q[i + 1]
  BY <1>1, HeadTailProperties DEF C
<1>3. IsStatements(Tail(q))
  BY <1>2 DEF C, IsStatements
<1>4. QED
  BY <1>2, <1>3, StatementsFacts

(* Statements replaced in place.                                           *)
LEMMA ReplacedStatements ==
    ASSUME NEW q, IsStatements(q), NEW p, DOMAIN p = DOMAIN q,
           p = [i \in DOMAIN p |-> p[i]],
           NEW R, \A i \in DOMAIN q : p[i] \in Statement(R)
    PROVE  IsStatements(p)
<1>1. Len(q) \in Nat /\ DOMAIN q = 1..Len(q)
  BY StatementsFacts
<1>2. p \in [1..Len(q) -> Statement(R)]
  BY <1>1
<1>3. p \in Seq(Statement(R))
  BY <1>1, <1>2
<1>4. QED
  BY <1>3 DEF IsStatements

-----------------------------------------------------------------------------
(* What a step makes of the statements.                                    *)

LEMMA RunsFacts ==
    ASSUME SourceTypeOK
    PROVE  /\ IsStatements(runs)
           /\ Len(runs) \in Nat
           /\ DOMAIN runs = 1..Len(runs)
           /\ runs # <<>> => 1 \in DOMAIN runs
           /\ \A i \in DOMAIN runs :
                 /\ IsStatement(runs[i])
                 /\ runs[i].kind \in {"first", "update", "dropped"}
                 /\ runs[i].by \in Subscriber \cup {Nothing}
                 /\ runs[i].read \in BOOLEAN
<1>1. IsStatements(runs)
  BY StatementsAreTyped DEF SourceTypeOK, Statement
<1>2. /\ Len(runs) \in Nat
      /\ DOMAIN runs = 1..Len(runs)
      /\ runs # <<>> => Len(runs) # 0
      /\ \A i \in DOMAIN runs : IsStatement(runs[i])
  BY <1>1, StatementsFacts
<1>3. QED
  BY <1>1, <1>2, StatementFacts

LEMMA Issued ==
    ASSUME SourceTypeOK, NEW kind \in {"first", "update"}, NEW who \in Subscriber \cup {Nothing},
           runs' = Issue(kind, who)
    PROVE  /\ IsStatements(runs')
           /\ DOMAIN runs' = 1..(Len(runs) + 1)
           /\ \A i \in DOMAIN runs : runs'[i] = runs[i]
           /\ LET e == runs'[Len(runs) + 1]
              IN e.kind = kind /\ e.by = who /\ ~e.read
<1> DEFINE e == [kind |-> kind, by |-> who, read |-> FALSE, result |-> Nothing]
<1>1. e \in Statement({Nothing})
  BY DEF Statement
<1>2. IsStatement(e)
  BY <1>1 DEF IsStatement
<1>3. e.kind = kind /\ e.by = who /\ ~e.read /\ runs' = Append(runs, e)
  BY DEF Issue
<1> HIDE DEF e
<1>4. QED
  BY <1>2, <1>3, RunsFacts, AppendStatement

LEMMA Taken ==
    ASSUME SourceTypeOK, runs # <<>>, runs' = Tail(runs)
    PROVE  /\ IsStatements(runs')
           /\ DOMAIN runs' = 1..(Len(runs) - 1)
           /\ \A i \in DOMAIN runs' : i + 1 \in DOMAIN runs /\ runs'[i] = runs[i + 1]
<1>1. /\ IsStatements(runs')
      /\ DOMAIN runs' = 1..(Len(runs) - 1)
      /\ \A i \in 1..(Len(runs) - 1) : runs'[i] = runs[i + 1]
  BY RunsFacts, TailStatements
<1>2. \A i \in 1..(Len(runs) - 1) : i + 1 \in 1..Len(runs)
  BY RunsFacts
<1>3. QED
  BY <1>1, <1>2, RunsFacts

LEMMA DroppedIsStatement ==
    ASSUME NEW read \in BOOLEAN
    PROVE  /\ Dropped(read) \in Statement({Nothing})
           /\ Dropped(read).kind = "dropped" /\ Dropped(read).read = read
BY DEF Dropped, Statement

LEMMA Replaced ==
    ASSUME SourceTypeOK, NEW k \in DOMAIN runs, NEW e, IsStatement(e),
           runs' = [runs EXCEPT ![k] = e]
    PROVE  /\ IsStatements(runs')
           /\ DOMAIN runs' = DOMAIN runs
           /\ runs'[k] = e
           /\ \A i \in DOMAIN runs : i # k => runs'[i] = runs[i]
<1>1. PICK A : runs \in Seq(Statement(A))
  BY RunsFacts DEF IsStatements
<1>2. PICK B : e \in Statement(B)
  BY DEF IsStatement
<1>3. Len(runs) \in Nat /\ DOMAIN runs = 1..Len(runs)
  BY RunsFacts
<1>4. /\ DOMAIN runs' = DOMAIN runs
      /\ runs'[k] = e
      /\ \A i \in DOMAIN runs : i # k => runs'[i] = runs[i]
      /\ runs' = [i \in DOMAIN runs' |-> runs'[i]]
  OBVIOUS
<1>5. \A i \in DOMAIN runs : runs'[i] \in Statement(A \cup B)
  <2>1. TAKE i \in DOMAIN runs
  <2>2. runs[i] \in Statement(A)
    BY <1>1, <1>3, ElementOfSeq
  <2>3. Statement(A) \subseteq Statement(A \cup B) /\ e \in Statement(A \cup B)
    BY <1>2 DEF Statement
  <2>4. QED
    BY <1>4, <2>2, <2>3
<1>6. IsStatements(runs)
  BY RunsFacts
<1>7. IsStatements(runs')
  BY <1>4, <1>5, <1>6, ReplacedStatements
<1>8. QED
  BY <1>4, <1>7

(* The statement i is the first one not answered yet.                      *)
LEMMA Executed ==
    ASSUME SourceTypeOK, RunQuery
    PROVE  \E k \in DOMAIN runs :
             /\ Executing(k)
             /\ missed' = IF IsUpdate(runs[k]) THEN missed \ Listening ELSE missed
             /\ IsStatements(runs') /\ DOMAIN runs' = DOMAIN runs
             /\ \A i \in DOMAIN runs : i # k => runs'[i] = runs[i]
             /\ runs'[k].kind = runs[k].kind /\ runs'[k].read
             /\ runs[k].kind # "dropped" =>
                   runs'[k].result = answer /\ runs'[k].by = runs[k].by
<1>1. PICK k \in DOMAIN runs :
        /\ Executing(k)
        /\ runs' = [runs EXCEPT ![k] = Answered(runs[k])]
        /\ missed' = IF IsUpdate(runs[k]) THEN missed \ Listening ELSE missed
  BY DEF RunQuery
<1> DEFINE e == Answered(runs[k])
<1>2. PICK A : runs[k] \in Statement(A)
  BY RunsFacts DEF IsStatement
<1>3. /\ IsStatement(e) /\ e.kind = runs[k].kind /\ e.read
      /\ runs[k].kind # "dropped" => e.result = answer /\ e.by = runs[k].by
  <2>1. CASE runs[k].kind = "dropped"
    <3>1. e = Dropped(TRUE)
      BY <2>1 DEF Answered
    <3>2. QED
      BY <2>1, <3>1, DroppedIsStatement DEF IsStatement
  <2>2. CASE runs[k].kind # "dropped"
    <3>1. e = [runs[k] EXCEPT !.read = TRUE, !.result = answer]
      BY <2>2 DEF Answered
    <3>2. e \in Statement({answer})
      BY <1>2, <3>1 DEF Statement
    <3>3. e.kind = runs[k].kind /\ e.read /\ e.result = answer /\ e.by = runs[k].by
      BY <1>2, <3>1 DEF Statement
    <3>4. QED
      BY <2>2, <3>2, <3>3 DEF IsStatement
  <2>3. QED
    BY <2>1, <2>2
<1> HIDE DEF e
<1>4. runs' = [runs EXCEPT ![k] = e]
  BY <1>1 DEF e
<1>5. QED
  BY <1>1, <1>3, <1>4, Replaced

LEMMA Failed ==
    ASSUME SourceTypeOK, RunFails
    PROVE  \E k \in DOMAIN runs :
             /\ Executing(k)
             /\ missed' = IF IsUpdate(runs[k]) THEN missed \cup Listening ELSE missed
             /\ IsStatements(runs') /\ DOMAIN runs' = DOMAIN runs
             /\ \A i \in DOMAIN runs : i # k => runs'[i] = runs[i]
             /\ runs'[k].kind = "dropped" /\ runs'[k].read
<1>1. PICK k \in DOMAIN runs :
        /\ Executing(k)
        /\ runs' = [runs EXCEPT ![k] = Dropped(TRUE)]
        /\ missed' = IF IsUpdate(runs[k]) THEN missed \cup Listening ELSE missed
  BY DEF RunFails
<1> DEFINE e == Dropped(TRUE)
<1>2. IsStatement(e) /\ e.kind = "dropped" /\ e.read
  BY DroppedIsStatement DEF IsStatement
<1>3. runs' = [runs EXCEPT ![k] = e]
  BY <1>1
<1> HIDE DEF e
<1>4. QED
  BY <1>1, <1>2, <1>3, Replaced

LEMMA Left ==
    ASSUME SourceTypeOK, NEW s \in Subscriber, Unsubscribe(s)
    PROVE  /\ IsStatements(runs') /\ DOMAIN runs' = DOMAIN runs
           /\ \A i \in DOMAIN runs :
                 IF IsFirst(runs[i], s) \/ (Listening = {s} /\ IsUpdate(runs[i]))
                 THEN runs'[i].kind = "dropped" /\ runs'[i].read = runs[i].read
                 ELSE runs'[i] = runs[i]
<1> DEFINE last == Listening = {s}
           left(r) == IsFirst(r, s) \/ (Listening = {s} /\ IsUpdate(r))
<1>1. runs' = [i \in DOMAIN runs |-> IF left(runs[i]) THEN Dropped(runs[i].read)
                                     ELSE runs[i]]
  BY DEF Unsubscribe, WithoutRunsOf
<1>2. PICK A : runs \in Seq(Statement(A))
  BY RunsFacts DEF IsStatements
<1>3. Len(runs) \in Nat /\ DOMAIN runs = 1..Len(runs)
  BY RunsFacts
<1> HIDE DEF left
<1>4. /\ DOMAIN runs' = DOMAIN runs
      /\ runs' = [i \in DOMAIN runs' |-> runs'[i]]
      /\ \A i \in DOMAIN runs :
            runs'[i] = IF left(runs[i]) THEN Dropped(runs[i].read) ELSE runs[i]
  BY <1>1
<1>5. \A i \in DOMAIN runs :
        /\ left(runs[i]) => runs'[i].kind = "dropped" /\ runs'[i].read = runs[i].read
        /\ runs'[i] \in Statement(A \cup {Nothing})
  <2>1. TAKE i \in DOMAIN runs
  <2>2. runs[i] \in Statement(A) /\ runs[i].read \in BOOLEAN
    BY <1>2, <1>3, RunsFacts, ElementOfSeq
  <2>3. /\ Statement(A) \subseteq Statement(A \cup {Nothing})
        /\ Statement({Nothing}) \subseteq Statement(A \cup {Nothing})
    BY DEF Statement
  <2>4. QED
    BY <1>4, <2>2, <2>3, DroppedIsStatement
<1>6. IsStatements(runs')
  BY <1>4, <1>5, RunsFacts, ReplacedStatements
<1>7. QED
  BY <1>4, <1>5, <1>6 DEF left

-----------------------------------------------------------------------------
(* The type invariant.                                                     *)

(* Who listens after a step of a subscriber.                               *)
LEMMA Listeners ==
    ASSUME SourceTypeOK, NEW s \in Subscriber
    PROVE  /\ Subscribe(s) => Listening' = Listening /\ s \notin Listening
           /\ StartListening(s) => /\ Listening' = Listening \cup {s}
                                   /\ s \notin Listening /\ phase[s] = "asked"
           /\ Unsubscribe(s) => Listening' = Listening \ {s}
<1>1. phase \in [Subscriber -> {"idle", "asked", "listening"}]
  BY DEF SourceTypeOK
<1>2. ASSUME Subscribe(s) PROVE Listening' = Listening /\ s \notin Listening
  BY <1>1, <1>2 DEF Subscribe, Listening
<1>3. ASSUME StartListening(s)
      PROVE  /\ Listening' = Listening \cup {s}
             /\ s \notin Listening /\ phase[s] = "asked"
  <2>1. runs # <<>> /\ IsFirst(runs[1], s)
    BY <1>3 DEF StartListening
  <2>2. phase[s] = "asked"
    BY <2>1, RunsFacts DEF SourceTypeOK, IsFirst
  <2>3. phase' = [phase EXCEPT ![s] = "listening"]
    BY <1>3 DEF StartListening
  <2>4. QED
    BY <1>1, <2>2, <2>3 DEF Listening
<1>4. ASSUME Unsubscribe(s) PROVE Listening' = Listening \ {s}
  BY <1>1, <1>4 DEF Unsubscribe, Listening
<1>5. QED
  BY <1>2, <1>3, <1>4

(* The runs of the source and of a subscriber have somebody to wait for    *)
(* them.                                                                   *)
RunsAreAwaited ==
    \A i \in DOMAIN runs :
        /\ IsUpdate(runs[i]) => Listening # {}
        /\ runs[i].kind = "first" => runs[i].by \in Subscriber
                                     /\ phase[runs[i].by] = "asked"

LEMMA RunsStayStatements ==
    ASSUME SourceTypeOK, [SourceNext]_vars
    PROVE  IsStatements(runs')
<1>1. ASSUME NEW s \in Subscriber, Subscribe(s) PROVE IsStatements(runs')
  <2>1. runs' = Issue("first", s)
    BY <1>1 DEF Subscribe
  <2>2. QED
    BY <2>1, Issued
<1>2. ASSUME NEW s \in Subscriber, StartListening(s) PROVE IsStatements(runs')
  BY <1>2, Taken DEF StartListening
<1>3. ASSUME NEW s \in Subscriber, Unsubscribe(s) PROVE IsStatements(runs')
  BY <1>3, Left
<1>4. ASSUME NEW s \in Subscriber, Release(s) PROVE IsStatements(runs')
  BY <1>4, RunsFacts DEF Release, sharedVars
<1>5. CASE RunQuery
  BY <1>5, Executed
<1>6. CASE RunFails
  BY <1>6, Failed
<1>7. CASE Ignore
  BY <1>7, Taken DEF Ignore
<1>8. CASE FireDebounce
  <2>1. runs' = Issue("update", Nothing)
    BY <1>8 DEF FireDebounce
  <2>2. QED
    BY <2>1, Issued
<1>9. CASE Emit
  BY <1>9, Taken DEF Emit
<1>10. ASSUME NEW reported \in BOOLEAN, RowChange(reported) PROVE IsStatements(runs')
  BY <1>10, RunsFacts DEF RowChange
<1>11. CASE UNCHANGED vars
  BY <1>11, RunsFacts DEF vars, sharedVars
<1>12. QED
  BY <1>1, <1>2, <1>3, <1>4, <1>5, <1>6, <1>7, <1>8, <1>9, <1>10, <1>11
  DEF SourceNext, SourceStep

LEMMA RunsStayAwaited ==
    ASSUME SourceTypeOK, OneFirst, [SourceNext]_vars
    PROVE  RunsAreAwaited'
<1> USE RunsFacts
<1>1. /\ RunsAreAwaited
      /\ phase \in [Subscriber -> {"idle", "asked", "listening"}]
      /\ Listening = {} => ~timer
  BY DEF SourceTypeOK, RunsAreAwaited
<1>2. ASSUME NEW s \in Subscriber, Subscribe(s) PROVE RunsAreAwaited'
  <2>1. /\ runs' = Issue("first", s) /\ phase' = [phase EXCEPT ![s] = "asked"]
        /\ Listening' = Listening /\ phase[s] = "idle"
    BY <1>2, Listeners DEF Subscribe
  <2>2. /\ DOMAIN runs' = 1..(Len(runs) + 1)
        /\ \A i \in DOMAIN runs : runs'[i] = runs[i]
        /\ runs'[Len(runs) + 1].kind = "first" /\ runs'[Len(runs) + 1].by = s
    BY <2>1, Issued
  <2>3. ASSUME NEW i \in DOMAIN runs'
        PROVE  /\ IsUpdate(runs'[i]) => Listening # {}
               /\ runs'[i].kind = "first" => runs'[i].by \in Subscriber
                                             /\ phase'[runs'[i].by] = "asked"
    <3>1. CASE i \in DOMAIN runs
      BY <1>1, <2>1, <2>2, <3>1 DEF RunsAreAwaited
    <3>2. CASE i = Len(runs) + 1
      BY <1>1, <2>1, <2>2, <3>2 DEF IsUpdate
    <3>3. QED
      BY <2>2, <3>1, <3>2
  <2>4. QED
    BY <2>1, <2>3 DEF RunsAreAwaited, IsUpdate
<1>3. ASSUME NEW s \in Subscriber, StartListening(s) PROVE RunsAreAwaited'
  <2>1. /\ runs # <<>> /\ IsFirst(runs[1], s) /\ runs' = Tail(runs)
        /\ phase' = [phase EXCEPT ![s] = "listening"]
        /\ s \in Listening'
    BY <1>3, Listeners DEF StartListening
  <2>2. /\ DOMAIN runs' = 1..(Len(runs) - 1)
        /\ \A i \in DOMAIN runs' : i + 1 \in DOMAIN runs /\ runs'[i] = runs[i + 1]
    BY <2>1, Taken
  <2>3. ASSUME NEW i \in DOMAIN runs', runs'[i].kind = "first"
        PROVE  runs'[i].by \in Subscriber /\ phase'[runs'[i].by] = "asked"
    <3>1. i + 1 \in DOMAIN runs /\ runs'[i] = runs[i + 1] /\ i + 1 # 1
      BY <2>2
    <3>2. 1 \in DOMAIN runs
      BY <2>1
    <3>3. runs[i + 1].by # s
      BY <2>1, <2>3, <3>1, <3>2 DEF OneFirst, IsFirst
    <3>4. QED
      BY <1>1, <2>1, <2>3, <3>1, <3>3 DEF RunsAreAwaited
  <2>4. QED
    BY <2>1, <2>3 DEF RunsAreAwaited
<1>4. ASSUME NEW s \in Subscriber, Unsubscribe(s) PROVE RunsAreAwaited'
  <2>1. /\ phase' = [phase EXCEPT ![s] = "idle"]
        /\ Listening' = Listening \ {s}
    BY <1>4, Listeners DEF Unsubscribe
  <2>2. ASSUME NEW i \in DOMAIN runs', runs'[i].kind # "dropped"
        PROVE  /\ i \in DOMAIN runs /\ runs'[i] = runs[i]
               /\ ~IsFirst(runs[i], s) /\ ~(Listening = {s} /\ IsUpdate(runs[i]))
    BY <1>4, <2>2, Left
  <2>3. ASSUME NEW i \in DOMAIN runs', IsUpdate(runs'[i])
        PROVE  Listening' # {}
    BY <1>1, <2>1, <2>2, <2>3 DEF RunsAreAwaited, IsUpdate
  <2>4. ASSUME NEW i \in DOMAIN runs', runs'[i].kind = "first"
        PROVE  runs'[i].by \in Subscriber /\ phase'[runs'[i].by] = "asked"
    BY <1>1, <2>1, <2>2, <2>4 DEF RunsAreAwaited, IsFirst
  <2>5. QED
    BY <2>3, <2>4 DEF RunsAreAwaited
<1>5. ASSUME NEW s \in Subscriber, Release(s) PROVE RunsAreAwaited'
  BY <1>1, <1>5 DEF Release, sharedVars, RunsAreAwaited, Listening
<1>6. CASE RunQuery
  <2>1. PICK k \in DOMAIN runs :
          /\ DOMAIN runs' = DOMAIN runs
          /\ \A i \in DOMAIN runs : i # k => runs'[i] = runs[i]
          /\ runs'[k].kind = runs[k].kind
          /\ runs[k].kind # "dropped" => runs'[k].by = runs[k].by
    BY <1>6, Executed
  <2>2. Listening' = Listening /\ phase' = phase
    BY <1>6 DEF RunQuery, subscriberVars, Listening
  <2>3. QED
    BY <1>1, <2>1, <2>2 DEF RunsAreAwaited, IsUpdate
<1>7. CASE RunFails
  <2>1. PICK k \in DOMAIN runs :
          /\ DOMAIN runs' = DOMAIN runs
          /\ \A i \in DOMAIN runs : i # k => runs'[i] = runs[i]
          /\ runs'[k].kind = "dropped"
    BY <1>7, Failed
  <2>2. Listening' = Listening /\ phase' = phase
    BY <1>7 DEF RunFails, subscriberVars, Listening
  <2>3. QED
    BY <1>1, <2>1, <2>2 DEF RunsAreAwaited, IsUpdate
<1>8. CASE Ignore \/ Emit
  <2>1. runs # <<>> /\ runs' = Tail(runs) /\ phase' = phase /\ Listening' = Listening
    BY <1>8 DEF Ignore, Emit, subscriberVars, Listening
  <2>2. \A i \in DOMAIN runs' : i + 1 \in DOMAIN runs /\ runs'[i] = runs[i + 1]
    BY <2>1, Taken
  <2>3. QED
    BY <1>1, <2>1, <2>2 DEF RunsAreAwaited, IsUpdate
<1>9. CASE FireDebounce
  <2>1. runs' = Issue("update", Nothing) /\ phase' = phase /\ Listening' = Listening
    BY <1>9 DEF FireDebounce, subscriberVars, Listening
  <2>2. Listening # {}
    BY <1>1, <1>9 DEF FireDebounce
  <2>3. /\ DOMAIN runs' = 1..(Len(runs) + 1)
        /\ \A i \in DOMAIN runs : runs'[i] = runs[i]
        /\ runs'[Len(runs) + 1].kind = "update"
    BY <2>1, Issued
  <2>4. \A i \in DOMAIN runs' : i \in DOMAIN runs \/ i = Len(runs) + 1
    BY <2>3
  <2>5. QED
    BY <1>1, <2>1, <2>2, <2>3, <2>4 DEF RunsAreAwaited, IsUpdate
<1>10. ASSUME NEW reported \in BOOLEAN, RowChange(reported) PROVE RunsAreAwaited'
  BY <1>1, <1>10 DEF RowChange, subscriberVars, RunsAreAwaited, Listening
<1>11. CASE UNCHANGED vars
  BY <1>1, <1>11 DEF vars, subscriberVars, sharedVars, RunsAreAwaited, Listening
<1>12. QED
  BY <1>2, <1>3, <1>4, <1>5, <1>6, <1>7, <1>8, <1>9, <1>10, <1>11
  DEF SourceNext, SourceStep

LEMMA ValuesStayTyped ==
    ASSUME SourceTypeOK, [SourceNext]_vars
    PROVE  /\ answer' # Nothing
           /\ phase' \in [Subscriber -> {"idle", "asked", "listening"}]
           /\ DOMAIN held' = Subscriber /\ DOMAIN shown' = Subscriber
           /\ timer' \in BOOLEAN
           /\ missed' \subseteq Subscriber
<1> USE DEF SourceTypeOK
<1>1. CASE /\ \E s \in Subscriber : \/ Subscribe(s)
                                     \/ StartListening(s) \/ Unsubscribe(s)
           /\ UNCHANGED answer
  BY <1>1 DEF Subscribe, StartListening, Unsubscribe
<1>2. CASE (\E s \in Subscriber : Release(s)) /\ UNCHANGED answer
  BY <1>2 DEF Release, sharedVars
<1>3. CASE (RunQuery \/ RunFails) /\ UNCHANGED answer
  <2>1. UNCHANGED <<answer, phase, held, shown, timer>>
    BY <1>3 DEF RunQuery, RunFails, subscriberVars
  <2>2. missed' \in {missed, missed \ Listening, missed \cup Listening}
    BY <1>3 DEF RunQuery, RunFails
  <2>3. QED
    BY <2>1, <2>2 DEF Listening
<1>4. CASE (Ignore \/ FireDebounce) /\ UNCHANGED answer
  BY <1>4 DEF Ignore, FireDebounce, subscriberVars
<1>5. CASE Emit /\ UNCHANGED answer
  BY <1>5 DEF Emit
<1>6. ASSUME NEW reported \in BOOLEAN, RowChange(reported)
      PROVE  /\ answer' # Nothing /\ UNCHANGED <<phase, held, shown>>
             /\ timer' \in BOOLEAN /\ missed' \subseteq Subscriber
  BY <1>6 DEF RowChange, subscriberVars, HasRead, Listening
<1>7. CASE UNCHANGED vars
  BY <1>7 DEF vars, subscriberVars, sharedVars
<1>8. QED
  BY <1>1, <1>2, <1>3, <1>4, <1>5, <1>6, <1>7 DEF SourceNext, SourceStep

(* What is under way for nobody is given up.                               *)
SourceRests ==
    /\ late \subseteq Listening
    /\ Listening = {} => ~timer /\ lastSeen = Nothing
    /\ \A s \in Subscriber : held[s] # Nothing => s \in Debouncing /\ phase[s] = "listening"

LEMMA SourceStillRests ==
    ASSUME SourceTypeOK, [SourceNext]_vars
    PROVE  SourceRests'
<1>1. /\ SourceRests
      /\ phase \in [Subscriber -> {"idle", "asked", "listening"}]
      /\ DOMAIN held = Subscriber
  BY DEF SourceTypeOK, SourceRests
<1>2. ASSUME NEW s \in Subscriber, Subscribe(s) PROVE SourceRests'
  <2>1. /\ UNCHANGED <<held, timer, lastSeen, late>> /\ Listening' = Listening
        /\ phase' = [phase EXCEPT ![s] = "asked"] /\ phase[s] = "idle"
    BY <1>2, Listeners DEF Subscribe
  <2>2. QED
    BY <1>1, <2>1 DEF SourceRests
<1>3. ASSUME NEW s \in Subscriber, StartListening(s) PROVE SourceRests'
  <2>1. /\ UNCHANGED <<held, timer>>
        /\ Listening' = Listening \cup {s}
        /\ phase' = [phase EXCEPT ![s] = "listening"]
        /\ late' \subseteq late \cup {s}
    BY <1>3, Listeners DEF StartListening
  <2>2. QED
    BY <1>1, <2>1 DEF SourceRests
<1>4. ASSUME NEW s \in Subscriber, Unsubscribe(s) PROVE SourceRests'
  <2>1. /\ Listening' = Listening \ {s}
        /\ phase' = [phase EXCEPT ![s] = "idle"]
        /\ held' = [held EXCEPT ![s] = Nothing]
        /\ late' = late \ {s}
        /\ timer' = (timer /\ Listening # {s})
        /\ lastSeen' = IF Listening = {s} THEN Nothing ELSE lastSeen
    BY <1>4, Listeners DEF Unsubscribe
  <2>2. Listening' = {} => Listening \in {{}, {s}}
    BY <2>1
  <2>3. Listening' = {} => ~timer' /\ lastSeen' = Nothing
    BY <1>1, <2>1, <2>2 DEF SourceRests
  <2>4. ASSUME NEW t \in Subscriber, held'[t] # Nothing
        PROVE  t \in Debouncing /\ phase'[t] = "listening"
    BY <1>1, <2>1, <2>4 DEF SourceRests
  <2>5. QED
    BY <1>1, <2>1, <2>3, <2>4 DEF SourceRests
<1>5. ASSUME NEW s \in Subscriber, Release(s) PROVE SourceRests'
  <2>1. /\ UNCHANGED <<phase, timer, lastSeen, late>> /\ Listening' = Listening
        /\ held' = [held EXCEPT ![s] = Nothing]
    BY <1>5 DEF Release, sharedVars, Listening
  <2>2. QED
    BY <1>1, <2>1 DEF SourceRests
<1>6. CASE RunQuery \/ RunFails \/ Ignore \/ UNCHANGED vars
  <2>1. UNCHANGED <<phase, held, timer, lastSeen, late>> /\ Listening' = Listening
    BY <1>6 DEF RunQuery, RunFails, Ignore, vars, subscriberVars, sharedVars, Listening
  <2>2. QED
    BY <1>1, <2>1 DEF SourceRests
<1>7. CASE FireDebounce
  <2>1. /\ UNCHANGED <<phase, held, lastSeen, late>> /\ Listening' = Listening
        /\ timer' = FALSE
    BY <1>7 DEF FireDebounce, subscriberVars, Listening
  <2>2. QED
    BY <1>1, <2>1 DEF SourceRests
<1>8. CASE Emit
  <2>1. /\ UNCHANGED <<phase, timer>> /\ Listening' = Listening
        /\ late' \subseteq late
        /\ runs # <<>> /\ IsUpdate(runs[1])
        /\ \A s \in Subscriber :
              held'[s] # held[s] => s \in Listening \cap Debouncing
    BY <1>1, <1>8 DEF Emit, Listening
  <2>2. Listening # {}
    BY <2>1, RunsFacts DEF SourceTypeOK
  <2>3. QED
    BY <1>1, <2>1, <2>2 DEF SourceRests, Listening
<1>9. ASSUME NEW reported \in BOOLEAN, RowChange(reported) PROVE SourceRests'
  <2>1. /\ UNCHANGED <<phase, held, lastSeen, late>> /\ Listening' = Listening
        /\ timer' = (timer \/ reported) /\ (reported => Listening # {})
    BY <1>9 DEF RowChange, subscriberVars, Listening
  <2>2. QED
    BY <1>1, <2>1 DEF SourceRests
<1>10. QED
  BY <1>2, <1>3, <1>4, <1>5, <1>6, <1>7, <1>8, <1>9 DEF SourceNext, SourceStep

LEMMA TypeStep ==
    ASSUME SourceTypeOK, OneFirst, [SourceNext]_vars
    PROVE  SourceTypeOK'
<1>1. IsStatements(runs')
  BY RunsStayStatements
<1>2. runs' \in Seq(Statement({runs'[i].result : i \in DOMAIN runs'}))
  BY <1>1, StatementsAreTyped
<1>3. RunsAreAwaited' /\ SourceRests'
  BY RunsStayAwaited, SourceStillRests
<1>4. QED
  BY <1>2, <1>3, ValuesStayTyped DEF SourceTypeOK, Statement, RunsAreAwaited,
     SourceRests

-----------------------------------------------------------------------------
(* The statements.                                                         *)

LEMMA InOrderStep ==
    ASSUME SourceTypeOK, InOrder, [SourceNext]_vars
    PROVE  InOrder'
<1> USE RunsFacts
<1>1. ASSUME NEW kind \in {"first", "update"}, NEW who \in Subscriber \cup {Nothing},
             runs' = Issue(kind, who)
      PROVE  InOrder'
  <2>1. /\ DOMAIN runs' = 1..(Len(runs) + 1)
        /\ \A i \in DOMAIN runs : runs'[i] = runs[i]
        /\ ~runs'[Len(runs) + 1].read
    BY <1>1, Issued
  <2>2. ASSUME NEW i \in DOMAIN runs', NEW j \in DOMAIN runs', i < j, runs'[j].read
        PROVE  runs'[i].read
    <3>1. j # Len(runs) + 1
      BY <2>1, <2>2
    <3>2. i \in DOMAIN runs /\ j \in DOMAIN runs
      BY <2>1, <2>2, <3>1
    <3>3. QED
      BY <2>1, <2>2, <3>2 DEF InOrder
  <2>3. QED
    BY <2>2 DEF InOrder
<1>2. ASSUME runs # <<>>, runs' = Tail(runs) PROVE InOrder'
  <2>1. /\ DOMAIN runs' = 1..(Len(runs) - 1)
        /\ \A i \in DOMAIN runs' : i + 1 \in DOMAIN runs /\ runs'[i] = runs[i + 1]
    BY <1>2, Taken
  <2>2. ASSUME NEW i \in DOMAIN runs', NEW j \in DOMAIN runs', i < j, runs'[j].read
        PROVE  runs'[i].read
    <3>1. i + 1 < j + 1
      BY <2>1, <2>2
    <3>2. QED
      BY <2>1, <2>2, <3>1 DEF InOrder
  <2>3. QED
    BY <2>2 DEF InOrder
<1>3. ASSUME NEW k \in DOMAIN runs, Executing(k), DOMAIN runs' = DOMAIN runs,
             \A i \in DOMAIN runs : i # k => runs'[i] = runs[i], runs'[k].read
      PROVE  InOrder'
  <2>1. \A i \in DOMAIN runs : i < k => runs[i].read
    <3>1. \A i \in DOMAIN runs : i < k => i \in 1..(k - 1)
      OBVIOUS
    <3>2. QED
      BY <1>3, <3>1 DEF Executing
  <2>2. ASSUME NEW i \in DOMAIN runs, NEW j \in DOMAIN runs, i < j, runs'[j].read
        PROVE  runs'[i].read
    <3>1. CASE i = k
      BY <1>3, <3>1
    <3>2. CASE i # k /\ j = k
      BY <1>3, <2>1, <2>2, <3>2
    <3>3. CASE i # k /\ j # k
      BY <1>3, <2>2, <3>3 DEF InOrder
    <3>4. QED
      BY <3>1, <3>2, <3>3
  <2>3. QED
    BY <1>3, <2>2 DEF InOrder
<1>4. ASSUME NEW s \in Subscriber, Subscribe(s) \/ StartListening(s) PROVE InOrder'
  BY <1>1, <1>2, <1>4 DEF Subscribe, StartListening
<1>5. ASSUME NEW s \in Subscriber, Unsubscribe(s) PROVE InOrder'
  <2>1. /\ DOMAIN runs' = DOMAIN runs
        /\ \A i \in DOMAIN runs : runs'[i].read = runs[i].read
    BY <1>5, Left
  <2>2. QED
    BY <2>1 DEF InOrder
<1>6. CASE RunQuery
  BY <1>3, <1>6, Executed
<1>7. CASE RunFails
  BY <1>3, <1>7, Failed
<1>8. CASE FireDebounce \/ Ignore \/ Emit
  BY <1>1, <1>2, <1>8 DEF FireDebounce, Ignore, Emit
<1>9. ASSUME \/ \E s \in Subscriber : Release(s)
             \/ \E reported \in BOOLEAN : RowChange(reported)
             \/ UNCHANGED vars
      PROVE  InOrder'
  BY <1>9 DEF Release, RowChange, vars, sharedVars, InOrder
<1>10. QED
  BY <1>4, <1>5, <1>6, <1>7, <1>8, <1>9 DEF SourceNext, SourceStep

LEMMA OneFirstStep ==
    ASSUME SourceTypeOK, OneFirst, [SourceNext]_vars
    PROVE  OneFirst'
<1> USE RunsFacts DEF IsFirst
<1>1. ASSUME NEW kind \in {"first", "update"}, NEW who \in Subscriber \cup {Nothing},
             runs' = Issue(kind, who),
             kind = "first" => who \in Subscriber /\ phase[who] = "idle"
      PROVE  OneFirst'
  <2>1. /\ DOMAIN runs' = 1..(Len(runs) + 1)
        /\ \A i \in DOMAIN runs : runs'[i] = runs[i]
        /\ runs'[Len(runs) + 1].kind = kind /\ runs'[Len(runs) + 1].by = who
    BY <1>1, Issued
  <2>2. kind = "first" => \A i \in DOMAIN runs : ~IsFirst(runs[i], who)
    BY <1>1 DEF SourceTypeOK
  <2>3. ASSUME NEW i \in DOMAIN runs', NEW j \in DOMAIN runs',
               runs'[i].kind = "first", IsFirst(runs'[j], runs'[i].by)
        PROVE  i = j
    <3>1. CASE i \in DOMAIN runs /\ j \in DOMAIN runs
      BY <2>1, <2>3, <3>1 DEF OneFirst
    <3>2. CASE i = Len(runs) + 1 /\ j \in DOMAIN runs
      BY <2>1, <2>2, <2>3, <3>2
    <3>3. CASE i \in DOMAIN runs /\ j = Len(runs) + 1
      BY <2>1, <2>2, <2>3, <3>3
    <3>4. QED
      BY <2>1, <3>1, <3>2, <3>3
  <2>4. QED
    BY <2>3 DEF OneFirst
<1>2. ASSUME runs # <<>>, runs' = Tail(runs) PROVE OneFirst'
  <2>1. /\ DOMAIN runs' = 1..(Len(runs) - 1)
        /\ \A i \in DOMAIN runs' : i + 1 \in DOMAIN runs /\ runs'[i] = runs[i + 1]
    BY <1>2, Taken
  <2>2. ASSUME NEW i \in DOMAIN runs', NEW j \in DOMAIN runs',
               runs'[i].kind = "first", IsFirst(runs'[j], runs'[i].by)
        PROVE  i = j
    <3>1. i + 1 = j + 1
      BY <2>1, <2>2 DEF OneFirst
    <3>2. QED
      BY <2>1, <3>1
  <2>3. QED
    BY <2>2 DEF OneFirst
<1>3. ASSUME DOMAIN runs' = DOMAIN runs,
             \A i \in DOMAIN runs :
                runs'[i].kind = "first" => runs[i].kind = "first" /\ runs'[i].by = runs[i].by
      PROVE  OneFirst'
  BY <1>3 DEF OneFirst
<1>4. ASSUME NEW s \in Subscriber, Subscribe(s) \/ StartListening(s) PROVE OneFirst'
  BY <1>1, <1>2, <1>4 DEF Subscribe, StartListening
<1>5. ASSUME NEW s \in Subscriber, Unsubscribe(s) PROVE OneFirst'
  <2>1. /\ DOMAIN runs' = DOMAIN runs
        /\ \A i \in DOMAIN runs : runs'[i].kind = "dropped" \/ runs'[i] = runs[i]
    BY <1>5, Left
  <2>2. QED
    BY <1>3, <2>1
<1>6. CASE RunQuery
  <2>1. PICK k \in DOMAIN runs :
          /\ DOMAIN runs' = DOMAIN runs
          /\ \A i \in DOMAIN runs : i # k => runs'[i] = runs[i]
          /\ runs'[k].kind = runs[k].kind
          /\ runs[k].kind # "dropped" => runs'[k].by = runs[k].by
    BY <1>6, Executed
  <2>2. QED
    BY <1>3, <2>1
<1>7. CASE RunFails
  <2>1. PICK k \in DOMAIN runs :
          /\ DOMAIN runs' = DOMAIN runs
          /\ \A i \in DOMAIN runs : i # k => runs'[i] = runs[i]
          /\ runs'[k].kind = "dropped"
    BY <1>7, Failed
  <2>2. QED
    BY <1>3, <2>1
<1>8. CASE FireDebounce \/ Ignore \/ Emit
  BY <1>1, <1>2, <1>8 DEF FireDebounce, Ignore, Emit
<1>9. ASSUME \/ \E s \in Subscriber : Release(s)
             \/ \E reported \in BOOLEAN : RowChange(reported)
             \/ UNCHANGED vars
      PROVE  OneFirst'
  BY <1>9 DEF Release, RowChange, vars, sharedVars, OneFirst
<1>10. QED
  BY <1>4, <1>5, <1>6, <1>7, <1>8, <1>9 DEF SourceNext, SourceStep

LEMMA HasResultsStep ==
    ASSUME SourceTypeOK, HasResults, [SourceNext]_vars
    PROVE  HasResults'
<1> USE RunsFacts DEF Awaited
<1>1. ASSUME NEW kind \in {"first", "update"}, NEW who \in Subscriber \cup {Nothing},
             runs' = Issue(kind, who)
      PROVE  HasResults'
  <2>1. /\ DOMAIN runs' = 1..(Len(runs) + 1)
        /\ \A i \in DOMAIN runs : runs'[i] = runs[i]
        /\ ~runs'[Len(runs) + 1].read
    BY <1>1, Issued
  <2>2. \A i \in DOMAIN runs' : i \in DOMAIN runs \/ i = Len(runs) + 1
    BY <2>1
  <2>3. QED
    BY <2>1, <2>2 DEF HasResults
<1>2. ASSUME runs # <<>>, runs' = Tail(runs) PROVE HasResults'
  BY <1>2, Taken DEF HasResults
<1>3. ASSUME NEW s \in Subscriber, Subscribe(s) \/ StartListening(s) PROVE HasResults'
  BY <1>1, <1>2, <1>3 DEF Subscribe, StartListening
<1>4. ASSUME NEW s \in Subscriber, Unsubscribe(s) PROVE HasResults'
  <2>1. /\ DOMAIN runs' = DOMAIN runs
        /\ \A i \in DOMAIN runs : runs'[i].kind = "dropped" \/ runs'[i] = runs[i]
    BY <1>4, Left
  <2>2. QED
    BY <2>1 DEF HasResults
<1>5. CASE RunQuery
  <2>1. PICK k \in DOMAIN runs :
          /\ DOMAIN runs' = DOMAIN runs
          /\ \A i \in DOMAIN runs : i # k => runs'[i] = runs[i]
          /\ runs'[k].kind = runs[k].kind
          /\ runs[k].kind # "dropped" => runs'[k].result = answer
    BY <1>5, Executed
  <2>2. answer # Nothing
    BY DEF SourceTypeOK
  <2>3. QED
    BY <2>1, <2>2 DEF HasResults
<1>6. CASE RunFails
  <2>1. PICK k \in DOMAIN runs :
          /\ DOMAIN runs' = DOMAIN runs
          /\ \A i \in DOMAIN runs : i # k => runs'[i] = runs[i]
          /\ runs'[k].kind = "dropped"
    BY <1>6, Failed
  <2>2. QED
    BY <2>1 DEF HasResults
<1>7. CASE FireDebounce \/ Ignore \/ Emit
  BY <1>1, <1>2, <1>7 DEF FireDebounce, Ignore, Emit
<1>8. ASSUME \/ \E s \in Subscriber : Release(s)
             \/ \E reported \in BOOLEAN : RowChange(reported)
             \/ UNCHANGED vars
      PROVE  HasResults'
  BY <1>8 DEF Release, RowChange, vars, sharedVars, HasResults
<1>9. QED
  BY <1>3, <1>4, <1>5, <1>6, <1>7, <1>8 DEF SourceNext, SourceStep

LEMMA FirstIsCurrentStep ==
    ASSUME SourceTypeOK, InOrder, FirstIsCurrent, [SourceNext]_vars
    PROVE  FirstIsCurrent'
<1> USE RunsFacts DEF Awaited
<1> DEFINE Firsts == {runs[i].by : i \in {n \in DOMAIN runs : runs[n].kind = "first"}}
<1>1. Firsts \cap Listening = {}
  BY DEF SourceTypeOK, Listening
<1>2. ASSUME NEW kind \in {"first", "update"}, NEW who \in Subscriber \cup {Nothing},
             runs' = Issue(kind, who), UNCHANGED answer, Firsts \cap missed \subseteq missed'
      PROVE  FirstIsCurrent'
  <2>1. /\ DOMAIN runs' = 1..(Len(runs) + 1)
        /\ \A i \in DOMAIN runs : runs'[i] = runs[i]
        /\ ~runs'[Len(runs) + 1].read
    BY <1>2, Issued
  <2>2. \A i \in DOMAIN runs' : i \in DOMAIN runs \/ i = Len(runs) + 1
    BY <2>1
  <2>3. ASSUME NEW i \in DOMAIN runs', NEW j \in DOMAIN runs',
               Awaited(runs'[i]), runs'[i].kind = "first", runs'[i].by \notin missed',
               i <= j, Awaited(runs'[j])
        PROVE  runs'[j].result = answer'
    <3>1. i \in DOMAIN runs /\ j \in DOMAIN runs
      BY <2>1, <2>2, <2>3
    <3>2. runs'[i] = runs[i] /\ runs'[j] = runs[j]
      BY <2>1, <3>1
    <3>3. runs[i].by \in Firsts
      BY <2>3, <3>1, <3>2
    <3>4. runs[i].by \notin missed
      BY <1>2, <2>3, <3>2, <3>3
    <3>5. QED
      BY <1>2, <2>3, <3>1, <3>2, <3>4 DEF FirstIsCurrent
  <2>4. QED
    BY <2>3 DEF FirstIsCurrent
<1>3. ASSUME runs # <<>>, runs' = Tail(runs), UNCHANGED <<answer, missed>>
      PROVE  FirstIsCurrent'
  <2>1. /\ DOMAIN runs' = 1..(Len(runs) - 1)
        /\ \A i \in DOMAIN runs' : i + 1 \in DOMAIN runs /\ runs'[i] = runs[i + 1]
    BY <1>3, Taken
  <2>2. ASSUME NEW i \in DOMAIN runs', NEW j \in DOMAIN runs',
               Awaited(runs'[i]), runs'[i].kind = "first", runs'[i].by \notin missed',
               i <= j, Awaited(runs'[j])
        PROVE  runs'[j].result = answer'
    <3>1. i + 1 <= j + 1
      BY <2>1, <2>2
    <3>2. QED
      BY <1>3, <2>1, <2>2, <3>1 DEF FirstIsCurrent
  <2>3. QED
    BY <2>2 DEF FirstIsCurrent
<1>4. ASSUME DOMAIN runs' = DOMAIN runs, UNCHANGED answer, Firsts \cap missed \subseteq missed',
             \A i \in DOMAIN runs : runs'[i].kind = "dropped" \/ runs'[i] = runs[i]
      PROVE  FirstIsCurrent'
  <2>1. ASSUME NEW i \in DOMAIN runs, NEW j \in DOMAIN runs,
               Awaited(runs'[i]), runs'[i].kind = "first", runs'[i].by \notin missed',
               i <= j, Awaited(runs'[j])
        PROVE  runs'[j].result = answer'
    <3>1. runs'[i] = runs[i] /\ runs'[j] = runs[j]
      BY <1>4, <2>1
    <3>2. runs[i].by \notin missed
      BY <1>4, <2>1, <3>1
    <3>3. QED
      BY <1>4, <2>1, <3>1, <3>2 DEF FirstIsCurrent
  <2>2. QED
    BY <1>4, <2>1 DEF FirstIsCurrent
<1>5. ASSUME NEW s \in Subscriber, Subscribe(s), UNCHANGED answer PROVE FirstIsCurrent'
  <2>1. runs' = Issue("first", s) /\ missed' = missed \ {s} /\ phase[s] = "idle"
    BY <1>5 DEF Subscribe
  <2>2. s \notin Firsts
    BY <2>1 DEF SourceTypeOK
  <2>3. QED
    BY <1>2, <1>5, <2>1, <2>2
<1>6. CASE FireDebounce /\ UNCHANGED answer
  BY <1>2, <1>6 DEF FireDebounce
<1>7. CASE (Ignore \/ Emit \/ \E s \in Subscriber : StartListening(s)) /\ UNCHANGED answer
  BY <1>3, <1>7 DEF Ignore, Emit, StartListening
<1>8. ASSUME NEW s \in Subscriber, Unsubscribe(s), UNCHANGED answer PROVE FirstIsCurrent'
  <2>1. /\ DOMAIN runs' = DOMAIN runs
        /\ \A i \in DOMAIN runs : runs'[i].kind = "dropped" \/ runs'[i] = runs[i]
    BY <1>8, Left
  <2>2. UNCHANGED missed
    BY <1>8 DEF Unsubscribe
  <2>3. QED
    BY <1>4, <1>8, <2>1, <2>2
<1>9. CASE RunFails /\ UNCHANGED answer
  <2>1. PICK k \in DOMAIN runs :
          /\ missed' = IF IsUpdate(runs[k]) THEN missed \cup Listening ELSE missed
          /\ DOMAIN runs' = DOMAIN runs
          /\ \A i \in DOMAIN runs : i # k => runs'[i] = runs[i]
          /\ runs'[k].kind = "dropped"
    BY <1>9, Failed
  <2>2. missed \subseteq missed'
    BY <2>1
  <2>3. QED
    BY <1>4, <1>9, <2>1, <2>2
<1>10. CASE RunQuery /\ UNCHANGED answer
  <2>1. PICK k \in DOMAIN runs :
          /\ Executing(k)
          /\ missed' = IF IsUpdate(runs[k]) THEN missed \ Listening ELSE missed
          /\ DOMAIN runs' = DOMAIN runs
          /\ \A i \in DOMAIN runs : i # k => runs'[i] = runs[i]
          /\ runs'[k].kind = runs[k].kind
          /\ runs[k].kind # "dropped" => runs'[k].result = answer
    BY <1>10, Executed
  <2>2. Firsts \cap missed \subseteq missed'
    BY <1>1, <2>1
  <2>3. ASSUME NEW i \in DOMAIN runs, NEW j \in DOMAIN runs,
               Awaited(runs'[i]), runs'[i].kind = "first", runs'[i].by \notin missed',
               i <= j, Awaited(runs'[j])
        PROVE  runs'[j].result = answer
    <3>1. CASE j = k
      BY <2>1, <2>3, <3>1
    <3>2. CASE j # k /\ i = k
      <4>1. runs[j].read /\ k < j
        BY <2>1, <2>3, <3>2
      <4>2. QED
        BY <2>1, <4>1 DEF InOrder, Executing
    <3>3. CASE j # k /\ i # k
      <4>1. runs'[i] = runs[i] /\ runs'[j] = runs[j]
        BY <2>1, <3>3
      <4>2. runs[i].by \notin missed
        BY <2>2, <2>3, <4>1
      <4>3. QED
        BY <2>3, <4>1, <4>2 DEF FirstIsCurrent
    <3>4. QED
      BY <3>1, <3>2, <3>3
  <2>4. QED
    BY <1>10, <2>1, <2>3 DEF FirstIsCurrent
<1>11. ASSUME NEW reported \in BOOLEAN, RowChange(reported) PROVE FirstIsCurrent'
  <2>1. runs' = runs
    BY <1>11 DEF RowChange
  <2>2. CASE answer' = answer
    BY <1>11, <2>1, <2>2 DEF RowChange, FirstIsCurrent
  <2>3. CASE answer' # answer
    <3>1. HasRead \subseteq missed'
      BY <1>11, <2>3 DEF RowChange
    <3>2. ASSUME NEW i \in DOMAIN runs, Awaited(runs[i]), runs[i].kind = "first"
          PROVE  runs[i].by \in missed'
      <4>1. runs[i].by \in Subscriber
        BY <3>2 DEF SourceTypeOK
      <4>2. runs[i].by \in HasRead
        BY <3>2, <4>1 DEF HasRead, IsFirst
      <4>3. QED
        BY <3>1, <4>2
    <3>3. QED
      BY <2>1, <3>2 DEF FirstIsCurrent
  <2>4. QED
    BY <2>2, <2>3
<1>12. CASE \/ (\E s \in Subscriber : Release(s)) /\ UNCHANGED answer
            \/ UNCHANGED vars
  BY <1>12 DEF Release, vars, sharedVars, FirstIsCurrent
<1>13. QED
  BY <1>5, <1>6, <1>7, <1>8, <1>9, <1>10, <1>11, <1>12 DEF SourceNext, SourceStep

-----------------------------------------------------------------------------
(* The hash.                                                               *)

(* A result that is let through goes to every listener.                    *)
LEMMA Emitted ==
    ASSUME SourceTypeOK, HasResults, Emit
    PROVE  /\ runs[1].result # Nothing /\ lastSeen' = runs[1].result
           /\ lastSeen = runs[1].result =>
                 late' = late /\ \A s \in Listening : Given(s)' = Given(s)
           /\ lastSeen # runs[1].result => \A s \in Listening : Given(s)' = runs[1].result
<1>1. 1 \in DOMAIN runs /\ Awaited(runs[1])
  BY RunsFacts DEF Emit, Awaited, IsUpdate
<1>2. runs[1].result # Nothing /\ lastSeen' = runs[1].result
  BY <1>1 DEF HasResults, Emit
<1>4. CASE lastSeen = runs[1].result
  <2>1. late' = late
    BY <1>4 DEF Emit
  <2>2. \A s \in Subscriber : held'[s] = held[s] /\ shown'[s] = shown[s]
    BY <1>4 DEF Emit
  <2>3. QED
    BY <1>2, <1>4, <2>1, <2>2 DEF Given, Listening
<1>5. CASE lastSeen # runs[1].result
  <2>1. /\ held' = [s \in Subscriber |-> IF s \in Listening \cap Debouncing
                                         THEN runs[1].result ELSE held[s]]
        /\ shown' = [s \in Subscriber |-> IF s \in Listening \ Debouncing
                                          THEN runs[1].result ELSE shown[s]]
    BY <1>5 DEF Emit
  <2>2. ASSUME NEW s \in Listening PROVE Given(s)' = runs[1].result
    <3>1. s \in Subscriber
      BY DEF Listening
    <3>2. CASE s \in Debouncing
      BY <1>2, <2>1, <3>1, <3>2 DEF Given
    <3>3. CASE s \notin Debouncing
      BY <2>1, <3>1, <3>3 DEF Given, SourceTypeOK
    <3>4. QED
      BY <3>2, <3>3
  <2>3. QED
    BY <1>2, <1>5, <2>2
<1>6. QED
  BY <1>4, <1>5

LEMMA Released ==
    ASSUME SourceTypeOK, NEW s \in Subscriber, Release(s), NEW t \in Subscriber
    PROVE  Given(t)' = Given(t)
BY DEF SourceTypeOK, Release, Given

LEMMA HashIsGivenStep ==
    ASSUME SourceTypeOK, HasResults, HashIsGiven, [SourceNext]_vars
    PROVE  HashIsGiven'
<1> USE DEF Given
<1>1. Listening \subseteq Subscriber /\ DOMAIN held = Subscriber /\ DOMAIN shown = Subscriber
  BY DEF Listening, SourceTypeOK
<1>2. ASSUME NEW s \in Subscriber, Subscribe(s) PROVE HashIsGiven'
  <2>1. /\ Listening' = Listening /\ s \notin Listening
        /\ UNCHANGED <<held, lastSeen, late>>
        /\ shown' = [shown EXCEPT ![s] = Nothing]
    BY <1>2, Listeners DEF Subscribe
  <2>2. QED
    BY <1>1, <2>1 DEF HashIsGiven
<1>3. ASSUME NEW s \in Subscriber, StartListening(s) PROVE HashIsGiven'
  <2>1. /\ Listening' = Listening \cup {s} /\ UNCHANGED held
        /\ \A t \in Listening : shown'[t] = shown[t]
    BY <1>1, <1>3, Listeners DEF StartListening
  <2>2. CASE Listening = {}
    BY <1>3, <2>2 DEF StartListening, HashIsGiven
  <2>3. CASE Listening # {}
    <3>1. lastSeen' = lastSeen /\ late' = late \cup {s}
      BY <1>3, <2>3 DEF StartListening
    <3>2. QED
      BY <2>1, <3>1 DEF HashIsGiven
  <2>4. QED
    BY <2>2, <2>3
<1>4. ASSUME NEW s \in Subscriber, Unsubscribe(s) PROVE HashIsGiven'
  <2>1. /\ Listening' = Listening \ {s} /\ late' = late \ {s} /\ shown' = shown
        /\ \A t \in Listening \ {s} : held'[t] = held[t]
        /\ lastSeen' \in {Nothing, lastSeen}
    BY <1>1, <1>4, Listeners DEF Unsubscribe
  <2>2. QED
    BY <2>1 DEF HashIsGiven
<1>5. ASSUME NEW s \in Subscriber, Release(s) PROVE HashIsGiven'
  <2>1. Listening' = Listening /\ UNCHANGED <<lastSeen, late>>
    BY <1>5 DEF Release, sharedVars, Listening
  <2>2. \A t \in Listening : Given(t)' = Given(t)
    BY <1>1, <1>5, Released
  <2>3. QED
    BY <2>1, <2>2 DEF HashIsGiven
<1>6. CASE Emit
  <2>1. Listening' = Listening
    BY <1>6 DEF Emit, Listening
  <2>2. CASE lastSeen = runs[1].result
    BY <1>6, <2>1, <2>2, Emitted DEF HashIsGiven
  <2>3. CASE lastSeen # runs[1].result
    BY <1>6, <2>1, <2>3, Emitted DEF HashIsGiven
  <2>4. QED
    BY <2>2, <2>3
<1>7. ASSUME \/ RunQuery \/ RunFails \/ Ignore \/ FireDebounce
             \/ \E reported \in BOOLEAN : RowChange(reported)
             \/ UNCHANGED vars
      PROVE  HashIsGiven'
  <2>1. Listening' = Listening /\ UNCHANGED <<held, shown, lastSeen, late>>
    BY <1>7 DEF RunQuery, RunFails, Ignore, FireDebounce, RowChange, vars,
       subscriberVars, sharedVars, Listening
  <2>2. QED
    BY <2>1 DEF HashIsGiven
<1>8. QED
  BY <1>2, <1>3, <1>4, <1>5, <1>6, <1>7 DEF SourceNext, SourceStep

-----------------------------------------------------------------------------
(* The listeners.                                                          *)

(* The updates on their way are the same, or one place further on.         *)
LEMMA UpdatesStay ==
    ASSUME SourceTypeOK, DOMAIN runs' = DOMAIN runs, UNCHANGED <<answer, timer>>,
           \A i \in DOMAIN runs :
              IsUpdate(runs[i]) \/ IsUpdate(runs'[i]) => runs'[i] = runs[i]
    PROVE  (UpdateIsCurrent => UpdateIsCurrent') /\ (Quiet' => Quiet)
<1>1. Quiet' => Quiet
  BY DEF Quiet
<1>2. ASSUME UpdateIsCurrent, ~Pending' PROVE UpdateIsCurrent'
  <2>1. ~Pending
    BY <1>2 DEF Pending
  <2>2. ASSUME NEW i \in DOMAIN runs, LastUpdate(i)' PROVE runs'[i].result = answer
    <3>1. runs'[i] = runs[i] /\ LastUpdate(i)
      BY <2>2 DEF LastUpdate
    <3>2. QED
      BY <1>2, <2>1, <3>1 DEF UpdateIsCurrent
  <2>3. QED
    BY <2>2 DEF UpdateIsCurrent
<1>3. QED
  BY <1>1, <1>2 DEF UpdateIsCurrent

LEMMA UpdatesMoveOn ==
    ASSUME SourceTypeOK, runs # <<>>, runs' = Tail(runs), runs[1].read,
           UNCHANGED <<answer, timer>>
    PROVE  /\ UpdateIsCurrent => UpdateIsCurrent'
           /\ Quiet' /\ ~IsUpdate(runs[1]) => Quiet
           /\ Quiet' /\ IsUpdate(runs[1]) => ~Pending /\ LastUpdate(1)
<1>1. /\ DOMAIN runs = 1..Len(runs) /\ Len(runs) \in Nat /\ 1 \in DOMAIN runs
      /\ DOMAIN runs' = 1..(Len(runs) - 1)
      /\ \A i \in DOMAIN runs' : i + 1 \in DOMAIN runs /\ runs'[i] = runs[i + 1]
  BY RunsFacts, Taken
<1>2. ASSUME NEW i \in DOMAIN runs, i # 1
      PROVE  i - 1 \in DOMAIN runs' /\ runs'[i - 1] = runs[i]
  <2>1. i - 1 \in DOMAIN runs' /\ (i - 1) + 1 = i
    BY <1>1, <1>2
  <2>2. QED
    BY <1>1, <2>1
<1>3. ASSUME Quiet' PROVE ~timer /\ \A i \in DOMAIN runs : i # 1 => ~IsUpdate(runs[i])
  BY <1>2, <1>3 DEF Quiet
<1>4. ASSUME UpdateIsCurrent, ~Pending' PROVE UpdateIsCurrent'
  <2>1. ~Pending
    BY <1>2, <1>4 DEF Pending
  <2>2. ASSUME NEW i \in DOMAIN runs', LastUpdate(i)' PROVE runs'[i].result = answer
    <3>1. i + 1 \in DOMAIN runs /\ runs'[i] = runs[i + 1]
      BY <1>1
    <3>2. ASSUME NEW j \in DOMAIN runs, i + 1 < j PROVE ~IsUpdate(runs[j])
      <4>1. i < j - 1 /\ j # 1
        BY <1>1, <3>2
      <4>2. QED
        BY <1>2, <2>2, <4>1 DEF LastUpdate
    <3>3. LastUpdate(i + 1)
      BY <2>2, <3>1, <3>2 DEF LastUpdate
    <3>4. QED
      BY <1>4, <2>1, <3>1, <3>3 DEF UpdateIsCurrent
  <2>3. QED
    BY <2>2 DEF UpdateIsCurrent
<1>5. Quiet' /\ ~IsUpdate(runs[1]) => Quiet
  BY <1>3 DEF Quiet
<1>6. Quiet' /\ IsUpdate(runs[1]) => ~Pending /\ LastUpdate(1)
  BY <1>1, <1>3 DEF Pending, LastUpdate
<1>7. QED
  BY <1>4, <1>5, <1>6 DEF UpdateIsCurrent

(* The first run of a new subscriber is not an update.                     *)
LEMMA UpdatesStayWhenAsked ==
    ASSUME SourceTypeOK, NEW s \in Subscriber, runs' = Issue("first", s),
           UNCHANGED <<answer, timer>>
    PROVE  (UpdateIsCurrent => UpdateIsCurrent') /\ (Quiet' => Quiet)
<1>1. /\ DOMAIN runs = 1..Len(runs) /\ Len(runs) \in Nat
      /\ DOMAIN runs' = 1..(Len(runs) + 1)
      /\ \A i \in DOMAIN runs : i \in DOMAIN runs' /\ runs'[i] = runs[i]
      /\ ~IsUpdate(runs'[Len(runs) + 1])
  BY RunsFacts, Issued DEF IsUpdate
<1>2. \A i \in DOMAIN runs' : i \in DOMAIN runs \/ i = Len(runs) + 1
  BY <1>1
<1>3. Quiet' => Quiet
  BY <1>1 DEF Quiet
<1>4. ASSUME UpdateIsCurrent, ~Pending' PROVE UpdateIsCurrent'
  <2>1. ~Pending
    BY <1>1, <1>4 DEF Pending
  <2>2. ASSUME NEW i \in DOMAIN runs', LastUpdate(i)' PROVE runs'[i].result = answer
    <3>1. i \in DOMAIN runs /\ runs'[i] = runs[i]
      BY <1>1, <1>2, <2>2 DEF LastUpdate
    <3>2. LastUpdate(i)
      BY <1>1, <2>2, <3>1 DEF LastUpdate
    <3>3. QED
      BY <1>4, <2>1, <3>1, <3>2 DEF UpdateIsCurrent
  <2>3. QED
    BY <2>2 DEF UpdateIsCurrent
<1>5. QED
  BY <1>3, <1>4 DEF UpdateIsCurrent

(* What holds of the listeners holds of those who have missed no more.     *)
LEMMA ListenersStayCurrent ==
    ASSUME ListenersAreCurrent, UpdateIsCurrent => UpdateIsCurrent', Quiet' => Quiet,
           UNCHANGED answer, Listening' \subseteq Listening, missed \subseteq missed',
           \A s \in Listening' : Given(s)' = Given(s) /\ (s \in late => s \in late'),
           Listening' # {} => lastSeen' = lastSeen
    PROVE  ListenersAreCurrent'
BY DEF ListenersAreCurrent, GivenIsCurrent

LEMMA ListenersAreCurrentWhenAsked ==
    ASSUME SourceTypeOK, ListenersAreCurrent, NEW s \in Subscriber, Subscribe(s),
           UNCHANGED answer
    PROVE  ListenersAreCurrent'
<1>1. /\ runs' = Issue("first", s) /\ missed' = missed \ {s}
      /\ UNCHANGED <<held, timer, lastSeen, late>>
      /\ shown' = [shown EXCEPT ![s] = Nothing]
      /\ Listening' = Listening /\ s \notin Listening
  BY Listeners DEF Subscribe
<1>2. (UpdateIsCurrent => UpdateIsCurrent') /\ (Quiet' => Quiet)
  BY <1>1, UpdatesStayWhenAsked
<1>3. \A t \in Listening : Given(t)' = Given(t)
  BY <1>1 DEF Given, Listening, SourceTypeOK
<1>4. QED
  BY <1>1, <1>2, <1>3 DEF ListenersAreCurrent, GivenIsCurrent

(* What the newcomer has read is the answer, and so is every update that   *)
(* has been read since.                                                    *)
LEMMA ListenersAreCurrentWhenStarted ==
    ASSUME SourceTypeOK, FirstIsCurrent, ListenersAreCurrent,
           NEW s \in Subscriber, StartListening(s), UNCHANGED answer
    PROVE  ListenersAreCurrent'
<1>1. /\ runs # <<>> /\ runs[1].read /\ IsFirst(runs[1], s) /\ runs' = Tail(runs)
      /\ shown' = [shown EXCEPT ![s] = runs[1].result]
      /\ UNCHANGED <<held, timer, missed>>
      /\ Listening' = Listening \cup {s} /\ s \notin Listening /\ phase[s] = "asked"
  BY Listeners DEF StartListening
<1>2. /\ UpdateIsCurrent => UpdateIsCurrent'
      /\ Quiet' => Quiet
  BY <1>1, UpdatesMoveOn DEF IsFirst, IsUpdate
<1>3. ASSUME NEW t \in Listening \ missed PROVE UpdateIsCurrent' /\ GivenIsCurrent(t)'
  <2>1. lastSeen' = lastSeen /\ late' = late \cup {s}
    BY <1>3 DEF StartListening
  <2>2. Given(t)' = Given(t)
    BY <1>1, <1>3 DEF Given, Listening, SourceTypeOK
  <2>3. QED
    BY <1>2, <1>3, <2>1, <2>2 DEF ListenersAreCurrent, GivenIsCurrent
<1>4. ASSUME s \notin missed PROVE UpdateIsCurrent' /\ GivenIsCurrent(s)'
  <2>1. /\ DOMAIN runs = 1..Len(runs) /\ Len(runs) \in Nat /\ 1 \in DOMAIN runs
        /\ DOMAIN runs' = 1..(Len(runs) - 1)
        /\ \A i \in DOMAIN runs' : i + 1 \in DOMAIN runs /\ runs'[i] = runs[i + 1]
    BY <1>1, RunsFacts, Taken
  <2>2. ASSUME NEW j \in DOMAIN runs, Awaited(runs[j]) PROVE runs[j].result = answer
    <3>1. Awaited(runs[1]) /\ runs[1].kind = "first" /\ runs[1].by \notin missed
      BY <1>1, <1>4 DEF Awaited, IsFirst
    <3>2. 1 <= j
      BY <2>1
    <3>3. QED
      BY <2>1, <2>2, <3>1, <3>2 DEF FirstIsCurrent
  <2>3. UpdateIsCurrent'
    <3>1. ASSUME ~Pending', NEW i \in DOMAIN runs', IsUpdate(runs'[i])
          PROVE  runs'[i].result = answer
      <4>1. runs'[i].read
        BY <3>1 DEF Pending
      <4>2. Awaited(runs[i + 1])
        BY <2>1, <3>1, <4>1 DEF Awaited, IsUpdate
      <4>3. QED
        BY <2>1, <2>2, <4>2
    <3>2. QED
      BY <3>1 DEF UpdateIsCurrent, LastUpdate
  <2>4. runs[1].result = answer
    BY <1>1, <2>1, <2>2 DEF Awaited, IsFirst
  <2>5. held[s] = Nothing
    BY <1>1 DEF SourceTypeOK
  <2>6. Given(s)' = answer
    BY <1>1, <2>4, <2>5 DEF Given, SourceTypeOK
  <2>7. QED
    BY <2>3, <2>6 DEF GivenIsCurrent
<1>5. QED
  BY <1>1, <1>3, <1>4 DEF ListenersAreCurrent

LEMMA ListenersAreCurrentWhenLeft ==
    ASSUME SourceTypeOK, ListenersAreCurrent, NEW s \in Subscriber, Unsubscribe(s),
           UNCHANGED answer
    PROVE  ListenersAreCurrent'
<1>1. /\ Listening' = Listening \ {s} /\ UNCHANGED <<shown, missed>>
      /\ held' = [held EXCEPT ![s] = Nothing] /\ late' = late \ {s}
      /\ timer' = (timer /\ Listening # {s})
      /\ lastSeen' = IF Listening = {s} THEN Nothing ELSE lastSeen
  BY Listeners DEF Unsubscribe
<1>2. CASE Listening' = {}
  BY <1>2 DEF ListenersAreCurrent
<1>3. CASE Listening' # {}
  <2>1. Listening # {s}
    BY <1>1, <1>3
  <2>2. /\ DOMAIN runs' = DOMAIN runs
        /\ \A i \in DOMAIN runs :
              IF IsFirst(runs[i], s) THEN runs'[i].kind = "dropped"
                                     ELSE runs'[i] = runs[i]
    BY <2>1, Left
  <2>3. timer' = timer
    BY <1>1, <2>1 DEF SourceTypeOK
  <2>4. (UpdateIsCurrent => UpdateIsCurrent') /\ (Quiet' => Quiet)
    <3>1. \A i \in DOMAIN runs :
            IsUpdate(runs[i]) \/ IsUpdate(runs'[i]) => runs'[i] = runs[i]
      BY <2>2 DEF IsUpdate, IsFirst
    <3>2. QED
      BY <2>2, <2>3, <3>1, UpdatesStay
  <2>5. \A t \in Listening' : Given(t)' = Given(t) /\ (t \in late => t \in late')
    BY <1>1 DEF Given, Listening, SourceTypeOK
  <2>6. QED
    BY <1>1, <2>1, <2>4, <2>5, ListenersStayCurrent
<1>4. QED
  BY <1>2, <1>3

(* Unless the source runs again, the update that is read is the last one.  *)
LEMMA ListenersAreCurrentWhenRun ==
    ASSUME SourceTypeOK, InOrder, ListenersAreCurrent, RunQuery, UNCHANGED answer
    PROVE  ListenersAreCurrent'
<1>1. PICK k \in DOMAIN runs :
        /\ Executing(k)
        /\ missed' = IF IsUpdate(runs[k]) THEN missed \ Listening ELSE missed
        /\ DOMAIN runs' = DOMAIN runs
        /\ \A i \in DOMAIN runs : i # k => runs'[i] = runs[i]
        /\ runs'[k].kind = runs[k].kind
        /\ runs[k].kind # "dropped" => runs'[k].result = answer
  BY Executed
<1>2. UNCHANGED <<phase, held, shown, timer, lastSeen, late>> /\ Listening' = Listening
  BY DEF RunQuery, subscriberVars, Listening
<1>3. CASE IsUpdate(runs[k])
  <2>1. ~Quiet'
    BY <1>1, <1>3 DEF Quiet, IsUpdate
  <2>2. ASSUME ~Pending', NEW i \in DOMAIN runs, LastUpdate(i)'
        PROVE  runs'[i].result = answer
    <3>1. i \in Nat /\ k \in Nat
      BY RunsFacts
    <3>2. ~(i < k)
      BY <1>1, <1>3, <2>2 DEF LastUpdate, IsUpdate
    <3>3. ~(k < i)
      <4>1. ASSUME k < i PROVE FALSE
        <5>1. runs'[i] = runs[i] /\ runs'[i].read
          BY <1>1, <2>2, <3>1, <4>1 DEF Pending, LastUpdate
        <5>2. runs[k].read
          BY <4>1, <5>1 DEF InOrder
        <5>3. QED
          BY <1>1, <5>2 DEF Executing
      <4>2. QED
        BY <4>1
    <3>4. i = k
      BY <3>1, <3>2, <3>3
    <3>5. QED
      BY <1>1, <1>3, <3>4 DEF IsUpdate
  <2>3. QED
    BY <1>1, <2>1, <2>2 DEF ListenersAreCurrent, UpdateIsCurrent, GivenIsCurrent
<1>4. CASE ~IsUpdate(runs[k])
  <2>1. \A i \in DOMAIN runs :
          IsUpdate(runs[i]) \/ IsUpdate(runs'[i]) => runs'[i] = runs[i]
    BY <1>1, <1>4 DEF IsUpdate
  <2>2. (UpdateIsCurrent => UpdateIsCurrent') /\ (Quiet' => Quiet)
    BY <1>1, <1>2, <2>1, UpdatesStay
  <2>3. \A s \in Listening' : Given(s)' = Given(s)
    BY <1>2 DEF Given
  <2>4. QED
    BY <1>1, <1>2, <1>4, <2>2, <2>3, ListenersStayCurrent
<1>5. QED
  BY <1>3, <1>4

LEMMA ListenersAreCurrentWhenFailed ==
    ASSUME SourceTypeOK, ListenersAreCurrent, RunFails, UNCHANGED answer
    PROVE  ListenersAreCurrent'
<1>1. PICK k \in DOMAIN runs :
        /\ missed' = IF IsUpdate(runs[k]) THEN missed \cup Listening ELSE missed
        /\ DOMAIN runs' = DOMAIN runs
        /\ \A i \in DOMAIN runs : i # k => runs'[i] = runs[i]
        /\ runs'[k].kind = "dropped"
  BY Failed
<1>2. UNCHANGED <<phase, held, shown, timer, lastSeen, late>> /\ Listening' = Listening
  BY DEF RunFails, subscriberVars, Listening
<1>3. CASE IsUpdate(runs[k])
  BY <1>1, <1>2, <1>3 DEF ListenersAreCurrent
<1>4. CASE ~IsUpdate(runs[k])
  <2>1. \A i \in DOMAIN runs :
          IsUpdate(runs[i]) \/ IsUpdate(runs'[i]) => runs'[i] = runs[i]
    BY <1>1, <1>4 DEF IsUpdate
  <2>2. (UpdateIsCurrent => UpdateIsCurrent') /\ (Quiet' => Quiet)
    BY <1>1, <1>2, <2>1, UpdatesStay
  <2>3. \A s \in Listening' : Given(s)' = Given(s)
    BY <1>2 DEF Given
  <2>4. QED
    BY <1>1, <1>2, <1>4, <2>2, <2>3, ListenersStayCurrent
<1>5. QED
  BY <1>3, <1>4

(* The last result is given, or it is the one they were given before; only *)
(* who came late was not.                                                  *)
LEMMA ListenersAreCurrentWhenEmitted ==
    ASSUME SourceTypeOK, HasResults, HashIsGiven, ListenersAreCurrent, Emit, UNCHANGED answer
    PROVE  ListenersAreCurrent'
<1>1. /\ runs # <<>> /\ runs[1].read /\ IsUpdate(runs[1]) /\ runs' = Tail(runs)
      /\ UNCHANGED <<phase, timer, missed>> /\ Listening' = Listening
  BY DEF Emit, Listening
<1>2. 1 \in DOMAIN runs
  BY <1>1, RunsFacts
<1>3. /\ UpdateIsCurrent => UpdateIsCurrent'
      /\ Quiet' => ~Pending /\ LastUpdate(1)
  BY <1>1, UpdatesMoveOn
<1>4. ASSUME NEW s \in Listening \ missed PROVE UpdateIsCurrent' /\ GivenIsCurrent(s)'
  <2>1. UpdateIsCurrent
    BY <1>4 DEF ListenersAreCurrent
  <2>2. ASSUME Quiet' PROVE runs[1].result = answer
    BY <1>2, <1>3, <2>1, <2>2 DEF UpdateIsCurrent
  <2>3. CASE lastSeen # runs[1].result
    <3>1. Given(s)' = runs[1].result
      BY <1>4, <2>3, Emitted
    <3>2. QED
      BY <1>3, <2>1, <2>2, <3>1 DEF GivenIsCurrent
  <2>4. CASE lastSeen = runs[1].result
    <3>1. /\ runs[1].result # Nothing /\ lastSeen' = runs[1].result
          /\ late' = late /\ Given(s)' = Given(s)
      BY <1>4, <2>4, Emitted
    <3>2. s \notin late => Given(s) = runs[1].result
      BY <1>4, <2>4, <3>1 DEF HashIsGiven
    <3>3. QED
      BY <1>3, <2>1, <2>2, <3>1, <3>2 DEF GivenIsCurrent
  <2>5. QED
    BY <2>3, <2>4
<1>5. QED
  BY <1>1, <1>4 DEF ListenersAreCurrent

LEMMA ListenersAreCurrentWhenFired ==
    ASSUME SourceTypeOK, FireDebounce PROVE ListenersAreCurrent'
<1>1. /\ DOMAIN runs' = 1..(Len(runs) + 1)
      /\ IsUpdate(runs'[Len(runs) + 1]) /\ ~runs'[Len(runs) + 1].read
  BY Issued DEF FireDebounce, IsUpdate
<1>2. Len(runs) + 1 \in DOMAIN runs'
  BY <1>1, RunsFacts
<1>3. Pending' /\ ~Quiet'
  BY <1>1, <1>2 DEF Pending, Quiet
<1>4. QED
  BY <1>3 DEF ListenersAreCurrent, UpdateIsCurrent, GivenIsCurrent

(* A change is reported, and the source runs again, or it is missed.       *)
LEMMA ListenersAreCurrentWhenChanged ==
    ASSUME SourceTypeOK, ListenersAreCurrent, NEW reported \in BOOLEAN, RowChange(reported)
    PROVE  ListenersAreCurrent'
<1>1. /\ UNCHANGED <<phase, held, shown, runs, lastSeen, late>>
      /\ Listening' = Listening /\ timer' = (timer \/ reported)
  BY DEF RowChange, subscriberVars, Listening
<1>2. CASE reported
  <2>1. Pending' /\ ~Quiet'
    BY <1>1, <1>2 DEF Pending, Quiet
  <2>2. QED
    BY <2>1 DEF ListenersAreCurrent, UpdateIsCurrent, GivenIsCurrent
<1>3. CASE ~reported /\ answer' # answer
  BY <1>1, <1>3 DEF RowChange, ListenersAreCurrent
<1>4. CASE ~reported /\ answer' = answer
  <2>1. timer' = timer /\ missed' = missed
    BY <1>1, <1>4 DEF RowChange, SourceTypeOK
  <2>2. (UpdateIsCurrent => UpdateIsCurrent') /\ (Quiet' => Quiet)
    BY <1>1, <1>4, <2>1, UpdatesStay
  <2>3. \A s \in Listening' : Given(s)' = Given(s)
    BY <1>1 DEF Given
  <2>4. QED
    BY <1>1, <1>4, <2>1, <2>2, <2>3, ListenersStayCurrent
<1>5. QED
  BY <1>2, <1>3, <1>4

LEMMA ListenersAreCurrentStep ==
    ASSUME IInv, [SourceNext]_vars
    PROVE  ListenersAreCurrent'
<1> USE DEF IInv
<1>1. ASSUME NEW s \in Subscriber, Release(s), UNCHANGED answer PROVE ListenersAreCurrent'
  <2>1. /\ UNCHANGED <<phase, timer, runs, lastSeen, missed, late>>
        /\ Listening' = Listening
    BY <1>1 DEF Release, sharedVars, Listening
  <2>2. \A t \in Listening' : Given(t)' = Given(t)
    BY <1>1, <2>1, Released DEF Listening
  <2>3. (UpdateIsCurrent => UpdateIsCurrent') /\ (Quiet' => Quiet)
    BY <1>1, <2>1, UpdatesStay
  <2>4. QED
    BY <1>1, <2>1, <2>2, <2>3, ListenersStayCurrent
<1>2. CASE Ignore /\ UNCHANGED answer
  <2>1. /\ runs # <<>> /\ runs[1].read /\ ~IsUpdate(runs[1]) /\ runs' = Tail(runs)
        /\ UNCHANGED <<phase, held, shown, timer, lastSeen, missed, late>>
        /\ Listening' = Listening
    BY <1>2 DEF Ignore, subscriberVars, IsUpdate, Listening
  <2>2. (UpdateIsCurrent => UpdateIsCurrent') /\ (Quiet' => Quiet)
    BY <1>2, <2>1, UpdatesMoveOn
  <2>3. \A t \in Listening' : Given(t)' = Given(t)
    BY <2>1 DEF Given
  <2>4. QED
    BY <1>2, <2>1, <2>2, <2>3, ListenersStayCurrent
<1>3. CASE UNCHANGED vars
  <2>1. UNCHANGED <<answer, phase, held, shown, timer, runs, lastSeen, missed, late>>
        /\ Listening' = Listening
    BY <1>3 DEF vars, subscriberVars, sharedVars, Listening
  <2>2. (UpdateIsCurrent => UpdateIsCurrent') /\ (Quiet' => Quiet)
    BY <2>1, UpdatesStay
  <2>3. \A t \in Listening' : Given(t)' = Given(t)
    BY <2>1 DEF Given
  <2>4. QED
    BY <2>1, <2>2, <2>3, ListenersStayCurrent
<1>4. QED
  BY <1>1, <1>2, <1>3, ListenersAreCurrentWhenAsked, ListenersAreCurrentWhenStarted,
     ListenersAreCurrentWhenLeft, ListenersAreCurrentWhenRun,
     ListenersAreCurrentWhenFailed, ListenersAreCurrentWhenEmitted,
     ListenersAreCurrentWhenFired, ListenersAreCurrentWhenChanged
  DEF SourceNext, SourceStep

-----------------------------------------------------------------------------
(* The theorems.                                                           *)

LEMMA InitIsCurrent == InitSource => IInv
<1> SUFFICES ASSUME InitSource PROVE IInv
  OBVIOUS
<1>1. /\ answer # Nothing /\ phase = [s \in Subscriber |-> "idle"]
      /\ held = [s \in Subscriber |-> Nothing] /\ shown = [s \in Subscriber |-> Nothing]
      /\ timer = FALSE /\ lastSeen = Nothing /\ missed = {} /\ late = {}
      /\ Listening = {} /\ DOMAIN runs = {}
  BY DEF InitSource, Listening
<1>2. runs \in Seq([kind : {"first", "update", "dropped"},
                    by : Subscriber \cup {Nothing}, read : BOOLEAN,
                    result : {runs[i].result : i \in DOMAIN runs}])
  BY DEF InitSource
<1>3. SourceTypeOK
  BY <1>1, <1>2 DEF SourceTypeOK
<1>4. QED
  BY <1>1, <1>3 DEF IInv, InOrder, OneFirst, HasResults, FirstIsCurrent, HashIsGiven,
     ListenersAreCurrent

LEMMA SourceStaysCurrent == IInv /\ [SourceNext]_vars => IInv'
<1> SUFFICES ASSUME IInv, [SourceNext]_vars PROVE IInv'
  OBVIOUS
<1>1. SourceTypeOK'
  BY TypeStep DEF IInv
<1>2. InOrder' /\ OneFirst' /\ HasResults'
  BY InOrderStep, OneFirstStep, HasResultsStep DEF IInv
<1>3. FirstIsCurrent' /\ HashIsGiven' /\ ListenersAreCurrent'
  BY FirstIsCurrentStep, HashIsGivenStep, ListenersAreCurrentStep DEF IInv
<1>4. QED
  BY <1>1, <1>2, <1>3 DEF IInv

THEOREM SourceInvariant == SourceSpec => []IInv
BY InitIsCurrent, SourceStaysCurrent, PTL DEF SourceSpec

(* In every reachable state values have their types, the source debounces, *)
(* runs the query and remembers a hash only while somebody listens, a      *)
(* first run is under way only for a subscriber that awaits it, and a      *)
(* result is held back only for a listener that debounces: the             *)
(* subscription and its clean-up in ReactiveKysely.liveQuery.              *)
THEOREM TypeCorrect == SourceSpec => []SourceTypeOK
<1>1. IInv => SourceTypeOK
  BY DEF IInv
<1>2. QED
  BY <1>1, SourceInvariant, PTL

(* Whatever the query answers and however many subscribers come and go, a  *)
(* source with nothing left to do has given every listener the current     *)
(* answer, unless a change was never reported to that listener, or it      *)
(* joined after the hash of that very answer was taken:                    *)
(* ReactiveKysely.liveQuery loses nothing between a first run, the         *)
(* debounce, the update runs and the shared hash.                          *)
THEOREM QuietSourceIsCurrent == SourceSpec => []QuietIsCurrent
<1>1. IInv => QuietIsCurrent
  <2> SUFFICES ASSUME IInv, NEW s \in Listening, Quiet, held[s] = Nothing, s \notin missed
               PROVE  ShowsAnswer(s)
    BY DEF QuietIsCurrent
  <2>1. Given(s) = shown[s]
    BY DEF Given
  <2>2. QED
    BY <2>1 DEF IInv, ListenersAreCurrent, GivenIsCurrent, ShowsAnswer
<1>2. QED
  BY <1>1, SourceInvariant, PTL

=============================================================================
