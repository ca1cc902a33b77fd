------------------------- MODULE SharedExchangeProofs -------------------------
(***************************************************************************)
(* The books of the hub agree, a subscription that tabs share has one tab  *)
(* that fetches it, and what a tab asks for is not forgotten, for any      *)
(* number of tabs and operations.                                          *)
(***************************************************************************)
EXTENDS SharedExchange, TLAPS, SequenceTheorems, FiniteSetTheorems

(* The hub keeps its tabs and subscribers in Sets, and of each tab only    *)
(* finitely many operations.                                               *)
SetsOK ==
    /\ IsOrderedSet(spokes)
    /\ \A h \in Handle : IsOrderedSet(subscribers[h])
    /\ \A t \in Tab : IsFiniteSet(spokeOps[t])

Registers(queue) == {i \in 1..Len(queue) : queue[i].type = "register"}

(* On the way to the hub, a tab registers once, when it is not registered  *)
(* yet, and before it asks for any operation.                              *)
RegistersFirst(queue, registered) ==
    /\ \A i \in Registers(queue) : ~registered /\ \A j \in Registers(queue) : j = i
    /\ \A i \in 1..Len(queue) :
           queue[i].type = "execute" => registered \/ \E j \in Registers(queue) : j < i

(* Only a tab that is alive has callbacks to take and operations to fetch, *)
(* and it is registered or about to be.                                    *)
PortsOf(t) ==
    /\ RegistersFirst(toHub[t], Registered(t))
    /\ alive[t] = "alive" => Registered(t) \/ Registers(toHub[t]) # {}
    /\ alive[t] # "alive" => toTab[t] = <<>> /\ fetching[t] = {}
    /\ alive[t] = "new" => toHub[t] = <<>> /\ ~Registered(t)

PortsOK == \A t \in Tab : PortsOf(t)

(* A subscription enters the wrapped exchange once, and while it is there  *)
(* no tab was told to fetch it.                                            *)
EntersOnce ==
    \A h \in Subscription : working[h] > 0 => working[h] = 1 /\ forwarding[h] = None

ExchangeInv == SetsOK /\ BooksAgree /\ PortsOK /\ EntersOnce /\ OneUpstream

-----------------------------------------------------------------------------
(* Sequences and ordered sets *)

LEMMA ElementsOfSeq ==
    ASSUME NEW S, NEW s \in Seq(S)
    PROVE  /\ Len(s) \in Nat
           /\ ToSet(s) = {s[i] : i \in 1..Len(s)}
           /\ ToSet(s) \subseteq S
           /\ s = <<>> <=> ToSet(s) = {}
           /\ s # <<>> => s[1] \in ToSet(s)
<1>1. Len(s) \in Nat /\ DOMAIN s = 1..Len(s) /\ \A i \in 1..Len(s) : s[i] \in S
  BY LenProperties, ElementOfSeq
<1>2. s = <<>> <=> Len(s) = 0
  BY EmptySeq, LenProperties
<1>3. ToSet(s) = {s[i] : i \in 1..Len(s)}
  BY <1>1 DEF ToSet
<1>4. s # <<>> => s[1] \in ToSet(s)
  <2>1. s # <<>> => 1 \in 1..Len(s)
    BY <1>1, <1>2
  <2>. QED  BY <1>3, <2>1
<1>5. s = <<>> => ToSet(s) = {}
  BY <1>1, <1>2, <1>3
<1>. QED  BY <1>1, <1>3, <1>4, <1>5

LEMMA ElementsOfAppend ==
    ASSUME NEW S, NEW s \in Seq(S), NEW x \in S
    PROVE  /\ Append(s, x) \in Seq(S)
           /\ Append(s, x) # <<>>
           /\ ToSet(Append(s, x)) = ToSet(s) \cup {x}
<1>1. /\ Append(s, x) \in Seq(S) /\ Len(Append(s, x)) = Len(s) + 1 /\ Len(s) \in Nat
      /\ \A i \in 1..Len(s) : Append(s, x)[i] = s[i]
      /\ Append(s, x)[Len(s) + 1] = x
  BY AppendProperties, LenProperties
<1>2. ToSet(Append(s, x)) = {Append(s, x)[i] : i \in 1..Len(Append(s, x))}
  BY <1>1, ElementsOfSeq
<1>3. ToSet(s) = {s[i] : i \in 1..Len(s)}
  BY ElementsOfSeq
<1>4. 1..Len(Append(s, x)) = (1..Len(s)) \cup {Len(s) + 1}
  BY <1>1
<1>5. ToSet(Append(s, x)) = ToSet(s) \cup {x}
  BY <1>1, <1>2, <1>3, <1>4
<1>. QED  BY <1>1, <1>5, ElementsOfSeq

LEMMA AddIsUnion ==
    ASSUME NEW S, NEW s \in Seq(S), IsOrderedSet(s), NEW x \in S
    PROVE  /\ Add(s, x) \in Seq(S)
           /\ IsOrderedSet(Add(s, x))
           /\ ToSet(Add(s, x)) = ToSet(s) \cup {x}
<1>1. CASE x \in ToSet(s)
  BY <1>1 DEF Add
<1>2. CASE x \notin ToSet(s)
  <2>. DEFINE longer == Append(s, x)
  <2>1. Add(s, x) = longer
    BY <1>2 DEF Add
  <2>2. longer \in Seq(S) /\ ToSet(longer) = ToSet(s) \cup {x}
    BY ElementsOfAppend
  <2>3. /\ DOMAIN longer = 1..Len(longer) /\ DOMAIN s = 1..Len(s)
        /\ Len(longer) = Len(s) + 1 /\ Len(s) \in Nat
        /\ \A i \in 1..Len(s) : longer[i] = s[i]
        /\ longer[Len(s) + 1] = x
    BY <2>2, AppendProperties, LenProperties
  <2>4. \A i \in 1..Len(s) : s[i] # x
    BY <1>2, <2>3 DEF ToSet
  <2>. HIDE DEF longer
  <2>5. IsOrderedSet(longer)
    <3>. SUFFICES ASSUME NEW i \in 1..Len(longer), NEW j \in 1..Len(longer),
                         longer[i] = longer[j]
                  PROVE  i = j
      BY <2>3 DEF IsOrderedSet
    <3>1. CASE i = Len(s) + 1
      BY <2>3, <2>4, <3>1
    <3>2. CASE i # Len(s) + 1 /\ j = Len(s) + 1
      BY <2>3, <2>4, <3>2
    <3>3. CASE i # Len(s) + 1 /\ j # Len(s) + 1
      <4>1. i \in 1..Len(s) /\ j \in 1..Len(s)
        BY <2>3, <3>3
      <4>2. s[i] = s[j]
        BY <2>3, <4>1
      <4>. QED  BY <2>3, <4>1, <4>2 DEF IsOrderedSet
    <3>. QED  BY <3>1, <3>2, <3>3
  <2>. QED  BY <2>1, <2>2, <2>5
<1>. QED  BY <1>1, <1>2

LEMMA DeleteIsDifference ==
    ASSUME NEW S, NEW s \in Seq(S), IsOrderedSet(s), NEW x
    PROVE  /\ Delete(s, x) \in Seq(S)
           /\ IsOrderedSet(Delete(s, x))
           /\ ToSet(Delete(s, x)) = ToSet(s) \ {x}
<1>1. CASE x \notin ToSet(s)
  BY <1>1 DEF Delete
<1>2. CASE x \in ToSet(s)
  <2>. DEFINE k == CHOOSE i \in DOMAIN s : s[i] = x
              front == SubSeq(s, 1, k - 1)
              back == SubSeq(s, k + 1, Len(s))
              rest == Delete(s, x)
  <2>1. /\ k \in 1..Len(s) /\ s[k] = x
        /\ Len(s) \in Nat /\ DOMAIN s = 1..Len(s)
    BY <1>2, LenProperties DEF ToSet
  <2>2. rest = front \o back
    BY <1>2 DEF Delete, RemoveAt
  <2>. HIDE DEF k, rest
  <2>3. /\ front \in Seq(S) /\ Len(front) = k - 1
        /\ \A i \in 1..(k - 1) : front[i] = s[i]
    BY <2>1, SubSeqProperties
  <2>4. /\ back \in Seq(S) /\ Len(back) = Len(s) - k
        /\ \A i \in 1..(Len(s) - k) : back[i] = s[k + i]
    <3>. DEFINE m == k + 1
    <3>1. m \in Int /\ Len(s) \in Int /\ \A i \in m..Len(s) : s[i] \in S
      BY <2>1, ElementOfSeq
    <3>2. /\ back \in Seq(S) /\ Len(back) = IF m <= Len(s) THEN Len(s) - m + 1 ELSE 0
          /\ \A i \in 1..(Len(s) - m + 1) : back[i] = s[m + i - 1]
      <4>. HIDE DEF m
      <4>1. back = SubSeq(s, m, Len(s))
        BY DEF m
      <4>. HIDE DEF back
      <4>. QED  BY <3>1, <4>1, SubSeqProperties
    <3>. HIDE DEF back
    <3>3. k \in Int /\ Len(s) \in Int /\ k <= Len(s)
      BY <2>1
    <3>4. Len(s) - m + 1 = Len(s) - k
      BY <3>3
    <3>5. ~(m <= Len(s)) => Len(s) - k = 0
      BY <3>3
    <3>6. Len(back) = Len(s) - k
      <4>. HIDE DEF m
      <4>. QED  BY <3>2, <3>4, <3>5
    <3>7. \A i \in 1..(Len(s) - k) : m + i - 1 = k + i
      BY <3>3
    <3>. HIDE DEF m
    <3>8. \A i \in 1..(Len(s) - k) : back[i] = s[k + i]
      BY <3>2, <3>4, <3>7
    <3>. QED  BY <3>2, <3>6, <3>8
  <2>. HIDE DEF front, back
  <2>. DEFINE both == front \o back
  <2>5. /\ rest \in Seq(S) /\ Len(rest) = Len(s) - 1
        /\ DOMAIN rest = 1..Len(rest)
        /\ \A i \in 1..Len(rest) :
               rest[i] = IF i <= k - 1 THEN front[i] ELSE back[i - (k - 1)]
    <3>1. /\ both \in Seq(S) /\ Len(both) = Len(front) + Len(back)
          /\ \A i \in 1..(Len(front) + Len(back)) :
                 both[i] = IF i <= Len(front) THEN front[i] ELSE back[i - Len(front)]
      BY <2>3, <2>4, ConcatProperties
    <3>. HIDE DEF both
    <3>2. rest = both
      BY <2>2 DEF both
    <3>3. Len(front) + Len(back) = Len(s) - 1
      BY <2>1, <2>3, <2>4
    <3>. QED  BY <2>3, <3>1, <3>2, <3>3, LenProperties
  <2>6. \A i \in 1..Len(rest) : rest[i] = IF i < k THEN s[i] ELSE s[i + 1]
    <3>. SUFFICES ASSUME NEW i \in 1..Len(rest)
                  PROVE  rest[i] = IF i < k THEN s[i] ELSE s[i + 1]
      OBVIOUS
    <3>1. CASE i < k
      BY <2>1, <2>3, <2>5, <3>1
    <3>2. CASE ~(i < k)
      <4>1. rest[i] = back[i - (k - 1)]
        BY <2>1, <2>5, <3>2
      <4>2. i - (k - 1) \in 1..(Len(s) - k) /\ k + (i - (k - 1)) = i + 1
        BY <2>1, <2>5, <3>2
      <4>. QED  BY <2>4, <3>2, <4>1, <4>2
    <3>. QED  BY <3>1, <3>2
  <2>7. IsOrderedSet(rest)
    <3>. SUFFICES ASSUME NEW i \in 1..Len(rest), NEW j \in 1..Len(rest), rest[i] = rest[j]
                  PROVE  i = j
      BY <2>5 DEF IsOrderedSet
    <3>. DEFINE place(n) == IF n < k THEN n ELSE n + 1
    <3>1. place(i) \in 1..Len(s) /\ place(j) \in 1..Len(s)
      BY <2>1, <2>5
    <3>2. s[place(i)] = s[place(j)]
      BY <2>6
    <3>3. place(i) = place(j)
      BY <2>1, <3>1, <3>2 DEF IsOrderedSet
    <3>. QED  BY <2>1, <2>5, <3>3
  <2>8. ToSet(rest) \subseteq ToSet(s) \ {x}
    <3>. SUFFICES ASSUME NEW i \in 1..Len(rest) PROVE rest[i] \in ToSet(s) /\ rest[i] # x
      BY <2>5, ElementsOfSeq
    <3>. DEFINE j == IF i < k THEN i ELSE i + 1
    <3>1. j \in 1..Len(s) /\ j # k /\ rest[i] = s[j]
      BY <2>1, <2>5, <2>6
    <3>. HIDE DEF j
    <3>2. s[j] # s[k]
      BY <2>1, <3>1 DEF IsOrderedSet
    <3>. QED  BY <2>1, <3>1, <3>2 DEF ToSet
  <2>9. ToSet(s) \ {x} \subseteq ToSet(rest)
    <3>. SUFFICES ASSUME NEW j \in 1..Len(s), s[j] # x PROVE s[j] \in ToSet(rest)
      BY ElementsOfSeq
    <3>. DEFINE i == IF j < k THEN j ELSE j - 1
    <3>1. j # k
      BY <2>1
    <3>2. i \in 1..Len(rest) /\ j = (IF i < k THEN i ELSE i + 1)
      BY <2>1, <2>5, <3>1
    <3>. HIDE DEF i
    <3>3. rest[i] = s[j]
      BY <2>6, <3>2
    <3>. QED  BY <2>5, <3>2, <3>3 DEF ToSet
  <2>. QED  BY <2>5, <2>7, <2>8, <2>9 DEF rest
<1>. QED  BY <1>1, <1>2

(* A finite set can be put in order.                                       *)
LEMMA SetToSeqHasTheElements ==
    ASSUME NEW S, IsFiniteSet(S)
    PROVE  SetToSeq(S) \in Seq(S) /\ ToSet(SetToSeq(S)) = S
<1>. DEFINE n == Cardinality(S)
            s == SetToSeq(S)
<1>1. n \in Nat /\ ExistsBijection(1..n, S)
  BY FS_CardinalityType
<1>2. \E f \in [1..n -> S] : IsInjective(f)
  BY <1>1 DEF ExistsBijection, Bijection, Injection
<1>3. s \in [1..n -> S] /\ IsInjective(s)
  BY <1>2 DEF SetToSeq
<1>. HIDE DEF s
<1>4. s \in Seq(S)
  BY <1>1, <1>3, SeqDef
<1>5. s \in Surjection(1..n, S)
  <2>1. s \in Injection(1..n, S)
    BY <1>3 DEF Injection
  <2>2. Cardinality(1..n) = n
    BY <1>1, FS_Interval
  <2>. QED  BY <2>1, <2>2, FS_Injection
<1>6. ToSet(s) = S
  BY <1>3, <1>5 DEF Surjection, ToSet
<1>. QED  BY <1>4, <1>6 DEF s

-----------------------------------------------------------------------------
(* The ports *)

Told(type, h) == [type |-> type, handle |-> h]

(* What the last message of a queue that says yes or no says, or else what *)
(* held before them.                                                       *)
LastSays(queue, yes, no, before) ==
    LET Denied(from) == \E i \in from..Len(queue) : queue[i] = no
    IN  \/ before /\ ~Denied(1)
        \/ \E i \in 1..Len(queue) : queue[i] = yes /\ ~Denied(i + 1)

(* The first message of a queue decides before the others are looked at,   *)
(* the last one after them.                                                *)
LEMMA LastSaysTheFirst ==
    ASSUME NEW S, NEW queue \in Seq(S), queue # <<>>, NEW yes, NEW no, yes # no,
           NEW before \in BOOLEAN, NEW then \in BOOLEAN,
           then <=> Head(queue) = yes \/ (before /\ Head(queue) # no)
    PROVE  LastSays(queue, yes, no, before) <=> LastSays(Tail(queue), yes, no, then)
<1>. DEFINE n == Len(queue)
            rest == Tail(queue)
<1>1. n \in Nat /\ n >= 1 /\ Len(rest) = n - 1
  BY HeadTailProperties, EmptySeq, LenProperties
<1>2. \A i \in 1..(n - 1) : rest[i] = queue[i + 1]
  BY <1>1, HeadTailProperties
<1>3. Head(queue) = queue[1]
  BY <1>1
<1>. HIDE DEF rest, n
<1>. DEFINE Stop(from) == \E i \in from..n : queue[i] = no
            StopRest(from) == \E i \in from..Len(rest) : rest[i] = no
<1>4. \A k \in 1..n : StopRest(k) <=> Stop(k + 1)
  <2>. SUFFICES ASSUME NEW k \in 1..n PROVE StopRest(k) <=> Stop(k + 1)
    OBVIOUS
  <2>1. ASSUME NEW i \in k..Len(rest), rest[i] = no PROVE Stop(k + 1)
    <3>1. i + 1 \in (k + 1)..n /\ queue[i + 1] = no
      BY <1>1, <1>2, <2>1
    <3>. QED  BY <3>1
  <2>2. ASSUME NEW i \in (k + 1)..n, queue[i] = no PROVE StopRest(k)
    <3>1. i - 1 \in k..Len(rest) /\ i - 1 \in 1..(n - 1) /\ (i - 1) + 1 = i
      BY <1>1
    <3>2. rest[i - 1] = no
      BY <1>2, <2>2, <3>1
    <3>. QED  BY <3>1, <3>2
  <2>. QED  BY <2>1, <2>2
<1>5. Stop(1) <=> Head(queue) = no \/ Stop(2)
  BY <1>1, <1>3
<1>6. LastSays(queue, yes, no, before) <=>
        \/ before /\ ~Stop(1)
        \/ \E i \in 1..n : queue[i] = yes /\ ~Stop(i + 1)
  BY DEF LastSays, n
<1>7. LastSays(rest, yes, no, then) <=>
        \/ then /\ ~StopRest(1)
        \/ \E i \in 1..Len(rest) : rest[i] = yes /\ ~StopRest(i + 1)
  BY DEF LastSays
<1>8. (\E i \in 1..Len(rest) : rest[i] = yes /\ ~StopRest(i + 1)) <=>
      (\E i \in 2..n : queue[i] = yes /\ ~Stop(i + 1))
  <2>1. ASSUME NEW i \in 1..Len(rest), rest[i] = yes, ~StopRest(i + 1)
        PROVE  i + 1 \in 2..n /\ queue[i + 1] = yes /\ ~Stop((i + 1) + 1)
    <3>1. i + 1 \in 1..n /\ i + 1 \in 2..n /\ i \in 1..(n - 1)
      BY <1>1
    <3>. HIDE DEF Stop, StopRest
    <3>. QED  BY <1>2, <1>4, <2>1, <3>1
  <2>2. ASSUME NEW i \in 2..n, queue[i] = yes, ~Stop(i + 1)
        PROVE  i - 1 \in 1..Len(rest) /\ rest[i - 1] = yes
               /\ ~StopRest((i - 1) + 1)
    <3>1. i - 1 \in 1..Len(rest) /\ i - 1 \in 1..(n - 1) /\ (i - 1) + 1 = i /\ i \in 1..n
      BY <1>1
    <3>. HIDE DEF Stop, StopRest
    <3>. QED  BY <1>2, <1>4, <2>2, <3>1
  <2>. HIDE DEF Stop, StopRest
  <2>. QED  BY <2>1, <2>2
<1>. HIDE DEF StopRest
<1>9. StopRest(1) <=> Stop(2)
  BY <1>1, <1>4
<1>10. (\E i \in 1..n : queue[i] = yes /\ ~Stop(i + 1)) <=>
         \/ Head(queue) = yes /\ ~Stop(2)
         \/ \E i \in 2..n : queue[i] = yes /\ ~Stop(i + 1)
  <2>. HIDE DEF Stop
  <2>1. 1..n = {1} \cup 2..n
    BY <1>1
  <2>. QED  BY <1>3, <2>1
<1>. HIDE DEF Stop
<1>11. LastSays(rest, yes, no, then) <=>
         \/ then /\ ~Stop(2)
         \/ \E i \in 2..n : queue[i] = yes /\ ~Stop(i + 1)
  BY <1>7, <1>8, <1>9
<1>. QED  BY <1>5, <1>6, <1>10, <1>11 DEF rest

LEMMA LastSaysOneMore ==
    ASSUME NEW S, NEW queue \in Seq(S), NEW m \in S, NEW yes, NEW no, yes # no,
           NEW before \in BOOLEAN
    PROVE  LastSays(Append(queue, m), yes, no, before) <=>
               \/ m = yes
               \/ LastSays(queue, yes, no, before) /\ m # no
<1>. DEFINE n == Len(queue)
            longer == Append(queue, m)
<1>1. /\ n \in Nat /\ Len(longer) = n + 1
      /\ \A i \in 1..n : longer[i] = queue[i]
      /\ longer[n + 1] = m
  BY AppendProperties, LenProperties
<1>. HIDE DEF longer, n
<1>. DEFINE Stop(from) == \E i \in from..n : queue[i] = no
            StopLonger(from) == \E i \in from..Len(longer) : longer[i] = no
<1>2. ASSUME NEW k \in 1..(n + 1)
      PROVE  StopLonger(k) <=> Stop(k) \/ m = no
  <2>1. k..Len(longer) = (k..n) \cup {n + 1}
    BY <1>1
  <2>2. \A i \in k..n : longer[i] = queue[i]
    BY <1>1
  <2>. QED  BY <1>1, <2>1, <2>2
<1>3. ~StopLonger(n + 2)
  BY <1>1
<1>4. LastSays(queue, yes, no, before) <=>
        \/ before /\ ~Stop(1)
        \/ \E i \in 1..n : queue[i] = yes /\ ~Stop(i + 1)
  BY DEF LastSays, n
<1>5. LastSays(longer, yes, no, before) <=>
        \/ before /\ ~StopLonger(1)
        \/ \E i \in 1..Len(longer) : longer[i] = yes /\ ~StopLonger(i + 1)
  BY DEF LastSays
<1>. HIDE DEF Stop, StopLonger
<1>6. 1..Len(longer) = (1..n) \cup {n + 1} /\ 1 \in 1..(n + 1) /\ (n + 1) + 1 = n + 2
      /\ \A i \in 1..n : i + 1 \in 1..(n + 1)
  BY <1>1
<1>7. LastSays(longer, yes, no, before) <=>
        \/ before /\ ~StopLonger(1)
        \/ \E i \in 1..n : longer[i] = yes /\ ~StopLonger(i + 1)
        \/ longer[n + 1] = yes
  BY <1>3, <1>5, <1>6
<1>8. (\E i \in 1..n : longer[i] = yes /\ ~StopLonger(i + 1)) <=>
      (\E i \in 1..n : queue[i] = yes /\ ~Stop(i + 1))
      /\ m # no
  BY <1>1, <1>2, <1>6
<1>9. StopLonger(1) <=> Stop(1) \/ m = no
  BY <1>2, <1>6
<1>. QED  BY <1>1, <1>4, <1>7, <1>8, <1>9 DEF longer

LEMMA CarriesIsLastSays ==
    ASSUME NEW queue, NEW h, NEW fetches
    PROVE  CarriesAfter(queue, h, fetches) <=>
               LastSays(queue, Told("onForward", h), Told("onTeardown", h), h \in fetches)
BY DEF CarriesAfter, LastSays, Told

LEMMA CarriesAfterTheFirst ==
    ASSUME NEW queue \in Seq(Callback), queue # <<>>, NEW h, NEW fetches, NEW then,
           h \in then <=> \/ Head(queue) = Told("onForward", h)
                          \/ h \in fetches /\ Head(queue) # Told("onTeardown", h)
    PROVE  CarriesAfter(queue, h, fetches) <=> CarriesAfter(Tail(queue), h, then)
<1>. DEFINE yes == Told("onForward", h)
            no == Told("onTeardown", h)
            before == h \in fetches
            after == h \in then
<1>1. yes # no
  BY DEF Told
<1>2. LastSays(queue, yes, no, before) <=> LastSays(Tail(queue), yes, no, after)
  <2>1. after <=> Head(queue) = yes \/ (before /\ Head(queue) # no)
    OBVIOUS
  <2>2. before \in BOOLEAN /\ after \in BOOLEAN
    OBVIOUS
  <2>. HIDE DEF yes, no, before, after
  <2>. QED  BY <1>1, <2>1, <2>2, LastSaysTheFirst
<1>. QED  BY <1>2, CarriesIsLastSays

LEMMA CarriesAfterOneMore ==
    ASSUME NEW queue \in Seq(Callback), NEW m \in Callback, NEW h, NEW fetches
    PROVE  CarriesAfter(Append(queue, m), h, fetches) <=>
               \/ m = Told("onForward", h)
               \/ CarriesAfter(queue, h, fetches) /\ m # Told("onTeardown", h)
<1>. DEFINE yes == Told("onForward", h)
            no == Told("onTeardown", h)
            before == h \in fetches
<1>1. yes # no
  BY DEF Told
<1>2. LastSays(Append(queue, m), yes, no, before) <=>
          m = yes \/ (LastSays(queue, yes, no, before) /\ m # no)
  <2>1. before \in BOOLEAN
    OBVIOUS
  <2>. HIDE DEF yes, no, before
  <2>. QED  BY <1>1, <2>1, LastSaysOneMore
<1>. QED  BY <1>2, CarriesIsLastSays

(* A run of callbacks that start a fetch, and none that stop one.          *)
LEMMA CarriesAfterForwards ==
    ASSUME NEW queue \in Seq(Callback), NEW more \in Seq(Callback),
           \A m \in ToSet(more) : m.type = "onForward",
           NEW h, NEW fetches
    PROVE  CarriesAfter(queue \o more, h, fetches) <=>
               \/ Told("onForward", h) \in ToSet(more)
               \/ CarriesAfter(queue, h, fetches)
<1>. DEFINE n == Len(queue)
            k == Len(more)
            longer == queue \o more
<1>1. /\ n \in Nat /\ k \in Nat /\ Len(longer) = n + k
      /\ \A i \in 1..(n + k) : longer[i] = IF i <= n THEN queue[i] ELSE more[i - n]
      /\ ToSet(more) = {more[i] : i \in 1..k}
  <2>1. n \in Nat /\ k \in Nat
    BY LenProperties
  <2>2. /\ Len(longer) = n + k
        /\ \A i \in 1..(n + k) : longer[i] = IF i <= n THEN queue[i] ELSE more[i - n]
    BY ConcatProperties
  <2>3. ToSet(more) = {more[i] : i \in 1..k}
    BY ElementsOfSeq
  <2>. HIDE DEF longer, n, k
  <2>. QED  BY <2>1, <2>2, <2>3
<1>. HIDE DEF longer, n, k
<1>2. ASSUME NEW i \in (n + 1)..(n + k)
      PROVE  longer[i] # Told("onTeardown", h)
  <2>1. i - n \in 1..k /\ i \in 1..(n + k) /\ ~(i <= n)
    BY <1>1
  <2>2. longer[i] = more[i - n]
    BY <1>1, <2>1
  <2>3. longer[i].type = "onForward"
    BY <1>1, <2>1, <2>2
  <2>. QED  BY <2>3 DEF Told
<1>. DEFINE Stop(from) == \E i \in from..n : queue[i] = Told("onTeardown", h)
            StopLonger(from) == \E i \in from..Len(longer) : longer[i] = Told("onTeardown", h)
<1>3. ASSUME NEW j \in 1..(n + 1)
      PROVE  StopLonger(j) <=> Stop(j)
  <2>1. j..Len(longer) = (j..n) \cup (n + 1)..(n + k)
    BY <1>1
  <2>2. \A i \in j..n : longer[i] = queue[i]
    BY <1>1
  <2>. QED  BY <1>2, <2>1, <2>2
<1>4. ASSUME NEW j \in (n + 1)..(n + k)
      PROVE  ~StopLonger(j + 1)
  <2>1. \A i \in (j + 1)..Len(longer) : i \in (n + 1)..(n + k)
    BY <1>1
  <2>. QED  BY <1>2, <2>1
<1>5. CarriesAfter(queue, h, fetches) <=>
        \/ h \in fetches /\ ~Stop(1)
        \/ \E i \in 1..n : queue[i] = Told("onForward", h) /\ ~Stop(i + 1)
  BY DEF CarriesAfter, Told, n
<1>6. CarriesAfter(longer, h, fetches) <=>
        \/ h \in fetches /\ ~StopLonger(1)
        \/ \E i \in 1..Len(longer) : longer[i] = Told("onForward", h) /\ ~StopLonger(i + 1)
  BY DEF CarriesAfter, Told
<1>. HIDE DEF Stop, StopLonger
<1>7. /\ 1..Len(longer) = (1..n) \cup (n + 1)..(n + k) /\ 1 \in 1..(n + 1)
      /\ \A i \in 1..n : i + 1 \in 1..(n + 1) /\ longer[i] = queue[i]
  BY <1>1
<1>8. (\E i \in (n + 1)..(n + k) : longer[i] = Told("onForward", h))
        <=> Told("onForward", h) \in ToSet(more)
  <2>1. ASSUME NEW i \in (n + 1)..(n + k), longer[i] = Told("onForward", h)
        PROVE  Told("onForward", h) \in ToSet(more)
    <3>1. i - n \in 1..k /\ longer[i] = more[i - n]
      BY <1>1
    <3>. QED  BY <1>1, <2>1, <3>1
  <2>2. ASSUME NEW i \in 1..k, more[i] = Told("onForward", h)
        PROVE  \E j \in (n + 1)..(n + k) : longer[j] = Told("onForward", h)
    <3>1. n + i \in (n + 1)..(n + k) /\ n + i \in 1..(n + k) /\ ~(n + i <= n)
          /\ (n + i) - n = i
      BY <1>1
    <3>2. longer[n + i] = more[i]
      BY <1>1, <3>1
    <3>. QED  BY <2>2, <3>1, <3>2
  <2>. QED  BY <1>1, <2>1, <2>2
<1>9. CarriesAfter(longer, h, fetches) <=>
        \/ h \in fetches /\ ~StopLonger(1)
        \/ \E i \in 1..n : longer[i] = Told("onForward", h) /\ ~StopLonger(i + 1)
        \/ \E i \in (n + 1)..(n + k) : longer[i] = Told("onForward", h)
  BY <1>4, <1>6, <1>7
<1>. QED  BY <1>3, <1>5, <1>7, <1>8, <1>9 DEF longer

(* What the hub hears of a tab in order stays in order: a call is taken    *)
(* from the front ...                                                      *)
LEMMA RegistersFirstTail ==
    ASSUME NEW queue \in Seq(Message), queue # <<>>, NEW before \in BOOLEAN,
           NEW after \in BOOLEAN, after <=> before \/ Head(queue).type = "register",
           RegistersFirst(queue, before)
    PROVE  /\ RegistersFirst(Tail(queue), after)
           /\ before \/ Registers(queue) # {} => after \/ Registers(Tail(queue)) # {}
<1>. DEFINE n == Len(queue)
            rest == Tail(queue)
<1>1. /\ n \in Nat /\ n >= 1 /\ Len(rest) = n - 1 /\ Head(queue) = queue[1]
      /\ \A i \in 1..(n - 1) : rest[i] = queue[i + 1]
  <2>1. n \in Nat /\ n >= 1 /\ Len(rest) = n - 1
    BY HeadTailProperties, EmptySeq, LenProperties
  <2>2. \A i \in 1..Len(rest) : rest[i] = queue[i + 1]
    BY HeadTailProperties
  <2>3. Head(queue) = queue[1]
    BY <2>1
  <2>. HIDE DEF rest, n
  <2>. QED  BY <2>1, <2>2, <2>3
<1>2. Registers(queue) = {i \in 1..n : queue[i].type = "register"}
  BY DEF Registers
<1>3. Registers(rest) = {i \in 1..(n - 1) : rest[i].type = "register"}
  BY <1>1 DEF Registers
<1>. HIDE DEF rest
<1>4. \A i \in 1..(n - 1) : /\ i + 1 \in 1..n
                            /\ i \in Registers(rest) <=> i + 1 \in Registers(queue)
  BY <1>1, <1>2, <1>3
<1>5. 1 \in Registers(queue) <=> Head(queue).type = "register"
  BY <1>1, <1>2
<1>6. /\ \A i \in Registers(queue) : ~before /\ \A j \in Registers(queue) : j = i
      /\ \A i \in 1..n :
             queue[i].type = "execute" => before \/ \E j \in Registers(queue) : j < i
  BY DEF RegistersFirst
<1>. HIDE DEF n
<1>7. ASSUME NEW i \in Registers(rest)
      PROVE  ~after /\ \A j \in Registers(rest) : j = i
  <2>1. i \in 1..(n - 1) /\ i + 1 \in Registers(queue) /\ i + 1 # 1
    BY <1>1, <1>3, <1>4
  <2>2. ~before /\ 1 \notin Registers(queue)
    BY <1>6, <2>1
  <2>3. ASSUME NEW j \in Registers(rest) PROVE j = i
    <3>1. j \in 1..(n - 1) /\ j + 1 \in Registers(queue)
      BY <1>3, <1>4
    <3>2. j + 1 = i + 1
      BY <1>6, <2>1, <3>1
    <3>. QED  BY <1>1, <2>1, <3>1, <3>2
  <2>. QED  BY <1>5, <2>2, <2>3
<1>8. ASSUME NEW i \in 1..Len(rest), rest[i].type = "execute"
      PROVE  after \/ \E j \in Registers(rest) : j < i
  <2>1. i \in 1..(n - 1) /\ i + 1 \in 1..n /\ queue[i + 1].type = "execute"
    BY <1>1, <1>8
  <2>2. before \/ \E j \in Registers(queue) : j < i + 1
    BY <1>6, <2>1
  <2>3. CASE before
    BY <2>3
  <2>4. ASSUME NEW j \in Registers(queue), j < i + 1
        PROVE  after \/ \E x \in Registers(rest) : x < i
    <3>1. CASE j = 1
      BY <1>5, <3>1
    <3>2. CASE j # 1
      <4>1. j - 1 \in 1..(n - 1) /\ (j - 1) + 1 = j /\ j - 1 < i
        BY <1>1, <1>2, <2>1, <2>4, <3>2
      <4>. QED  BY <1>4, <4>1
    <3>. QED  BY <3>1, <3>2
  <2>. QED  BY <2>2, <2>3, <2>4
<1>9. ASSUME NEW j \in Registers(queue)
      PROVE  after \/ Registers(rest) # {}
  <2>1. CASE j = 1
    BY <1>5, <2>1
  <2>2. CASE j # 1
    <3>1. j - 1 \in 1..(n - 1) /\ (j - 1) + 1 = j
      BY <1>1, <1>2, <2>2
    <3>. QED  BY <1>4, <3>1
  <2>. QED  BY <2>1, <2>2
<1>. QED  BY <1>7, <1>8, <1>9 DEF RegistersFirst, rest

(* ... and added at the back, an operation by a tab that registers.        *)
LEMMA RegistersFirstAppend ==
    ASSUME NEW queue \in Seq(Message), NEW m \in Message, NEW registered \in BOOLEAN,
           RegistersFirst(queue, registered), m.type # "register",
           registered \/ Registers(queue) # {}
    PROVE  /\ RegistersFirst(Append(queue, m), registered)
           /\ Registers(Append(queue, m)) = Registers(queue)
<1>. DEFINE n == Len(queue)
            longer == Append(queue, m)
<1>1. /\ n \in Nat /\ Len(longer) = n + 1
      /\ \A i \in 1..n : longer[i] = queue[i]
      /\ longer[n + 1] = m
  BY AppendProperties, LenProperties
<1>2. Registers(queue) = {i \in 1..n : queue[i].type = "register"}
  BY DEF Registers
<1>3. Registers(longer) = {i \in 1..(n + 1) : longer[i].type = "register"}
  BY <1>1 DEF Registers
<1>. HIDE DEF longer, n
<1>4. Registers(longer) = Registers(queue)
  BY <1>1, <1>2, <1>3
<1>5. ASSUME NEW i \in 1..Len(longer), longer[i].type = "execute"
      PROVE  registered \/ \E j \in Registers(queue) : j < i
  <2>1. CASE i \in 1..n
    BY <1>1, <1>5, <2>1 DEF RegistersFirst, n
  <2>2. CASE i = n + 1
    BY <1>1, <1>2, <2>2
  <2>. QED  BY <1>1, <2>1, <2>2
<1>. QED  BY <1>4, <1>5 DEF RegistersFirst, longer

-----------------------------------------------------------------------------
(* What the steps of a tab preserve *)

LEMMA InvParts ==
    ExchangeInv <=> /\ SetsOK /\ TypeOK /\ (\A h \in Handle : BooksAgreeOn(h))
                    /\ PortsOK /\ EntersOnce /\ OneUpstream
BY DEF ExchangeInv, BooksAgree

LEMMA InitInv == Init => ExchangeInv
<1>. SUFFICES ASSUME Init PROVE ExchangeInv
  OBVIOUS
<1>1. /\ ToSet(<<>>) = {} /\ IsOrderedSet(<<>>) /\ IsFiniteSet({})
      /\ \A S : <<>> \in Seq(S)
  BY EmptySeq, FS_EmptySet DEF ToSet, IsOrderedSet
<1>2. SetsOK
  BY <1>1 DEF Init, SetsOK
<1>3. TypeOK
  BY <1>1, ConstantsAssumption DEF Init, TypeOK
<1>4. ASSUME NEW h \in Handle PROVE BooksAgreeOn(h)
  BY <1>1 DEF Init, BooksAgreeOn, Registered
<1>5. PortsOK
  BY <1>1, EmptySeq DEF Init, PortsOK, PortsOf, RegistersFirst, Registers, Registered
<1>6. EntersOnce
  BY DEF Init, EntersOnce, Handle
<1>7. OneUpstream
  BY ConstantsAssumption DEF Init, OneUpstream, Handle
<1>. QED  BY <1>2, <1>3, <1>4, <1>5, <1>6, <1>7, InvParts

(* A step that leaves the hub alone leaves its books in order.             *)
LEMMA HubUnchanged ==
    ASSUME ExchangeInv, UNCHANGED hubVars
    PROVE  /\ SetsOK' /\ (\A h \in Handle : BooksAgreeOn(h)') /\ EntersOnce'
           /\ \A t \in Tab : Registered(t)' <=> Registered(t)
<1>1. SetsOK'
  BY InvParts DEF SetsOK, hubVars
<1>2. ASSUME NEW h \in Handle PROVE BooksAgreeOn(h)'
  BY InvParts DEF BooksAgreeOn, hubVars, Registered
<1>3. EntersOnce'
  BY InvParts DEF EntersOnce, hubVars
<1>4. \A t \in Tab : Registered(t)' <=> Registered(t)
  BY DEF hubVars, Registered
<1>. QED  BY <1>1, <1>2, <1>3, <1>4

LEMMA Messages ==
    ASSUME NEW h \in Handle
    PROVE  /\ \A type \in {"execute", "teardown", "resolve"} : Told(type, h) \in Message
           /\ \A type \in {"onResult", "onForward", "onTeardown", "onReexecute"} :
                  Told(type, h) \in Callback
BY DEF Told, Message, Callback

(* A tab that is alive calls the hub.                                      *)
LEMMA CallKeepsPort ==
    ASSUME ExchangeInv, NEW t \in Tab, alive[t] = "alive", NEW h \in Handle,
           NEW type \in {"execute", "teardown", "resolve"}, Call(t, type, h),
           UNCHANGED hubVars
    PROVE  /\ toHub' \in [Tab -> Seq(Message)]
           /\ \A u \in Tab : u # t => toHub'[u] = toHub[u]
           /\ RegistersFirst(toHub'[t], Registered(t)')
           /\ Registered(t)' \/ Registers(toHub'[t]) # {}
<1>1. TypeOK /\ PortsOf(t)
  BY InvParts DEF PortsOK
<1>2. Told(type, h) \in Message /\ Told(type, h).type # "register"
  BY Messages DEF Told
<1>3. toHub' = [toHub EXCEPT ![t] = Append(@, Told(type, h))]
  BY DEF Call, Told
<1>4. toHub \in [Tab -> Seq(Message)] /\ toHub[t] \in Seq(Message)
  BY <1>1 DEF TypeOK
<1>5. toHub'[t] = Append(toHub[t], Told(type, h))
  BY <1>3, <1>4
<1>6. toHub'[t] \in Seq(Message)
  BY <1>2, <1>4, <1>5, AppendProperties
<1>7. toHub' \in [Tab -> Seq(Message)] /\ \A u \in Tab : u # t => toHub'[u] = toHub[u]
  BY <1>3, <1>4, <1>5, <1>6
<1>8. Registered(t) \in BOOLEAN /\ (Registered(t)' <=> Registered(t))
  BY HubUnchanged DEF Registered
<1>9. RegistersFirst(toHub'[t], Registered(t)) /\ Registers(toHub'[t]) = Registers(toHub[t])
  BY <1>1, <1>2, <1>4, <1>5, <1>8, RegistersFirstAppend DEF PortsOf
<1>. QED  BY <1>1, <1>7, <1>8, <1>9 DEF PortsOf, Registered, hubVars

LEMMA SameUpstream ==
    ASSUME OneUpstream, UNCHANGED <<subscribers, forwarding>>,
           \A t \in Tab, h \in Subscription : alive'[t] = "alive" =>
               alive[t] = "alive" /\ (Carries(t, h)' <=> Carries(t, h))
    PROVE  OneUpstream'
BY DEF OneUpstream

LEMMA NothingCarried ==
    ASSUME NEW h, NEW fetches, h \notin fetches
    PROVE  ~CarriesAfter(<<>>, h, fetches)
<1>1. Len(<<>>) = 0
  BY EmptySeq
<1>. QED  BY <1>1 DEF CarriesAfter

LEMMA ConnectKeepsInv ==
    ASSUME ExchangeInv, NEW t \in Tab, Connect(t)
    PROVE  ExchangeInv'
<1>1. SetsOK /\ TypeOK /\ PortsOK /\ OneUpstream /\ \A h \in Handle : BooksAgreeOn(h)
  BY InvParts
<1>2. /\ SetsOK' /\ (\A h \in Handle : BooksAgreeOn(h)') /\ EntersOnce'
      /\ \A u \in Tab : Registered(u)' <=> Registered(u)
  BY HubUnchanged DEF Connect
<1>. DEFINE first == [type |-> "connect", handle |-> None]
            calls == <<first, Registration>>
<1>3. /\ calls \in Seq(Message) /\ Len(calls) = 2
      /\ calls[1].type = "connect" /\ calls[2].type = "register"
  BY DEF Message, Registration
<1>. HIDE DEF calls
<1>4. toHub' = [toHub EXCEPT ![t] = calls]
  BY DEF Connect, calls
<1>5. TypeOK'
  <2>1. toHub' \in [Tab -> Seq(Message)]
    BY <1>1, <1>3, <1>4 DEF TypeOK
  <2>2. alive' \in [Tab -> {"new", "alive", "dead"}]
    BY <1>1 DEF Connect, TypeOK
  <2>. QED  BY <1>1, <2>1, <2>2 DEF Connect, TypeOK, hubVars, counters
<1>6. ~Registered(t) /\ toTab[t] = <<>> /\ fetching[t] = {}
  BY <1>1 DEF Connect, PortsOK, PortsOf
<1>7. PortsOK'
  <2>. SUFFICES ASSUME NEW u \in Tab PROVE PortsOf(u)'
    BY DEF PortsOK
  <2>1. CASE u = t
    <3>1. toHub'[t] = calls /\ alive'[t] = "alive" /\ ~Registered(t)'
      BY <1>1, <1>2, <1>4, <1>6 DEF Connect, TypeOK
    <3>2. Registers(calls) = {2}
      BY <1>3 DEF Registers
    <3>3. RegistersFirst(calls, FALSE)
      BY <1>3, <3>2 DEF RegistersFirst
    <3>4. RegistersFirst(toHub'[t], Registered(t)')
      BY <3>1, <3>3 DEF RegistersFirst
    <3>. QED  BY <2>1, <3>1, <3>2, <3>4 DEF PortsOf
  <2>2. CASE u # t
    <3>1. toHub'[u] = toHub[u] /\ alive'[u] = alive[u]
      BY <1>1, <1>4, <2>2 DEF Connect, TypeOK
    <3>2. PortsOf(u)
      BY <1>1 DEF PortsOK
    <3>. QED  BY <1>2, <3>1, <3>2 DEF PortsOf, Connect, Registered, hubVars
  <2>. QED  BY <2>1, <2>2
<1>8. OneUpstream'
  <2>. SUFFICES ASSUME NEW h \in Subscription
                PROVE  /\ \A u \in Tab : alive'[u] = "alive" =>
                              (Carries(u, h)' <=> forwarding'[h] = u)
                       /\ forwarding'[h] # None => forwarding'[h] \in ToSet(subscribers'[h])
    BY DEF OneUpstream
  <2>1. /\ forwarding[h] # None => forwarding[h] \in ToSet(subscribers[h])
        /\ h \in Handle
    BY <1>1 DEF OneUpstream, Handle
  <2>2. t \notin ToSet(subscribers[h])
    BY <1>1, <1>6, <2>1 DEF BooksAgreeOn
  <2>3. ~Carries(t, h)'
    <3>1. toTab'[t] = <<>> /\ h \notin fetching'[t]
      BY <1>6 DEF Connect
    <3>. QED  BY <3>1, NothingCarried DEF Carries
  <2>4. forwarding[h] # t
    BY <2>1, <2>2, ConstantsAssumption
  <2>5. \A u \in Tab \ {t} : alive'[u] = alive[u] /\ (Carries(u, h)' <=> Carries(u, h))
    BY <1>1 DEF Carries, Connect, TypeOK
  <2>. QED  BY <1>1, <2>1, <2>3, <2>4, <2>5 DEF OneUpstream, Connect, hubVars
<1>. QED  BY <1>2, <1>5, <1>7, <1>8 DEF ExchangeInv, BooksAgree

(* A tab calls the hub: the ports stay in order.                           *)
LEMMA CallKeepsPorts ==
    ASSUME ExchangeInv, NEW t \in Tab, alive[t] = "alive", NEW h \in Handle,
           NEW type \in {"execute", "teardown", "resolve"}, Call(t, type, h),
           UNCHANGED <<alive, hubVars>>,
           \A u \in Tab : alive[u] # "alive" => /\ toTab'[u] = toTab[u]
                                              /\ fetching'[u] = fetching[u]
    PROVE  PortsOK' /\ toHub' \in [Tab -> Seq(Message)]
<1>1. PortsOK
  BY InvParts
<1>2. UNCHANGED hubVars /\ alive' = alive
  OBVIOUS
<1>3. /\ toHub' \in [Tab -> Seq(Message)]
      /\ \A u \in Tab : u # t => toHub'[u] = toHub[u]
      /\ RegistersFirst(toHub'[t], Registered(t)')
      /\ Registered(t)' \/ Registers(toHub'[t]) # {}
  BY <1>2, CallKeepsPort
<1>4. ASSUME NEW u \in Tab PROVE PortsOf(u)'
  <2>1. PortsOf(u)
    BY <1>1 DEF PortsOK
  <2>2. CASE u = t
    BY <1>2, <1>3, <2>2 DEF PortsOf
  <2>3. CASE u # t
    <3>1. toHub'[u] = toHub[u] /\ alive'[u] = alive[u]
      BY <1>2, <1>3, <2>3
    <3>. QED  BY <1>2, <2>1, <3>1 DEF PortsOf, Registered, hubVars
  <2>. QED  BY <2>2, <2>3
<1>. QED  BY <1>3, <1>4 DEF PortsOK

LEMMA ExecuteKeepsInv ==
    ASSUME ExchangeInv, NEW t \in Tab, NEW h \in Handle, Execute(t, h)
    PROVE  ExchangeInv'
<1>1. TypeOK /\ OneUpstream
  BY InvParts
<1>2. SetsOK' /\ (\A x \in Handle : BooksAgreeOn(x)') /\ EntersOnce'
  BY HubUnchanged DEF Execute
<1>3. PortsOK' /\ toHub' \in [Tab -> Seq(Message)]
  BY CallKeepsPorts DEF Execute, Dispatch
<1>4. TypeOK'
  BY <1>1, <1>3 DEF Execute, Dispatch, TypeOK, hubVars
<1>5. OneUpstream'
  BY <1>1, SameUpstream DEF Execute, hubVars, Carries
<1>. QED  BY <1>2, <1>3, <1>4, <1>5 DEF ExchangeInv, BooksAgree

LEMMA TeardownKeepsInv ==
    ASSUME ExchangeInv, NEW t \in Tab, NEW h \in Handle, Teardown(t, h)
    PROVE  ExchangeInv'
<1>1. TypeOK /\ OneUpstream
  BY InvParts
<1>2. SetsOK' /\ (\A x \in Handle : BooksAgreeOn(x)') /\ EntersOnce'
  BY HubUnchanged DEF Teardown
<1>3. PortsOK' /\ toHub' \in [Tab -> Seq(Message)]
  BY CallKeepsPorts DEF Teardown
<1>4. TypeOK'
  BY <1>1, <1>3 DEF Teardown, TypeOK, hubVars, counters
<1>5. OneUpstream'
  BY <1>1, SameUpstream DEF Teardown, hubVars, Carries
<1>. QED  BY <1>2, <1>3, <1>4, <1>5 DEF ExchangeInv, BooksAgree

LEMMA ResolveKeepsInv ==
    ASSUME ExchangeInv, NEW t \in Tab, NEW h \in Handle, Resolve(t, h)
    PROVE  ExchangeInv'
<1>1. TypeOK /\ PortsOK /\ OneUpstream
  BY InvParts
<1>2. SetsOK' /\ (\A x \in Handle : BooksAgreeOn(x)') /\ EntersOnce'
  BY HubUnchanged DEF Resolve
<1>3. alive[t] = "alive"
  BY <1>1 DEF Resolve, PortsOK, PortsOf
<1>4. /\ fetching' \in [Tab -> SUBSET Handle]
      /\ \A u \in Tab : u # t => fetching'[u] = fetching[u]
      /\ \A u \in Tab, x \in Subscription : x \in fetching'[u] <=> x \in fetching[u]
      /\ updates' \in Nat
  <2>1. fetching \in [Tab -> SUBSET Handle] /\ updates \in Nat
    BY <1>1 DEF TypeOK
  <2>2. CASE h \in Query
    <3>1. fetching' = [fetching EXCEPT ![t] = @ \ {h}] /\ updates' = updates
      BY <2>2 DEF Resolve
    <3>2. h \notin Subscription
      BY <2>2, ConstantsAssumption
    <3>. QED  BY <2>1, <3>1, <3>2
  <2>3. CASE h \notin Query
    BY <2>1, <2>3 DEF Resolve
  <2>. QED  BY <2>2, <2>3
<1>5. PortsOK' /\ toHub' \in [Tab -> Seq(Message)]
  BY <1>3, <1>4, CallKeepsPorts DEF Resolve
<1>6. TypeOK'
  BY <1>1, <1>4, <1>5 DEF Resolve, TypeOK, hubVars
<1>7. ASSUME NEW u \in Tab, NEW x \in Subscription
      PROVE  Carries(u, x)' <=> Carries(u, x)
  <2>1. toTab' = toTab
    BY DEF Resolve
  <2>. QED  BY <1>4, <2>1 DEF Carries, CarriesAfter
<1>8. OneUpstream'
  BY <1>1, <1>7, SameUpstream DEF Resolve, hubVars
<1>. QED  BY <1>2, <1>5, <1>6, <1>8 DEF ExchangeInv, BooksAgree

LEMMA DieKeepsInv ==
    ASSUME ExchangeInv, NEW t \in Tab, Die(t)
    PROVE  ExchangeInv'
<1>1. TypeOK /\ PortsOK /\ OneUpstream
  BY InvParts
<1>2. SetsOK' /\ (\A x \in Handle : BooksAgreeOn(x)') /\ EntersOnce'
  BY HubUnchanged DEF Die
<1>3. TypeOK'
  BY <1>1, EmptySeq DEF Die, TypeOK, hubVars
<1>4. ASSUME NEW u \in Tab PROVE PortsOf(u)'
  BY <1>1 DEF Die, TypeOK, PortsOK, PortsOf, Registered, hubVars
<1>5. OneUpstream'
  <2>1. \A u \in Tab, x \in Subscription : alive'[u] = "alive" =>
            alive[u] = "alive" /\ (Carries(u, x)' <=> Carries(u, x))
    BY <1>1 DEF Die, TypeOK, Carries
  <2>. QED  BY <1>1, <2>1, SameUpstream DEF Die, hubVars
<1>. QED  BY <1>2, <1>3, <1>4, <1>5 DEF ExchangeInv, BooksAgree, PortsOK

(* A tab takes a callback.                                                 *)
LEMMA TakeCallbackKeeps ==
    ASSUME TypeOK, NEW t \in Tab, NEW type, NEW h, TakeCallback(t, type, h),
           NEW x, \A u \in Tab : u # t => fetching'[u] = fetching[u],
           x \in fetching'[t] <=> \/ Told(type, h) = Told("onForward", x)
                                  \/ x \in fetching[t] /\ Told(type, h) # Told("onTeardown", x)
    PROVE  /\ toTab' \in [Tab -> Seq(Callback)]
           /\ \A u \in Tab : toTab[u] = <<>> => toTab'[u] = <<>> /\ u # t
           /\ \A u \in Tab : Carries(u, x)' <=> Carries(u, x)
<1>1. /\ toTab \in [Tab -> Seq(Callback)] /\ toTab[t] \in Seq(Callback) /\ toTab[t] # <<>>
      /\ Head(toTab[t]) = Told(type, h)
  BY DEF TypeOK, TakeCallback, Told
<1>2. Tail(toTab[t]) \in Seq(Callback)
  BY <1>1, HeadTailProperties
<1>3. /\ toTab'[t] = Tail(toTab[t]) /\ \A u \in Tab : u # t => toTab'[u] = toTab[u]
      /\ toTab' \in [Tab -> Seq(Callback)]
  BY <1>1, <1>2 DEF TakeCallback
<1>4. Carries(t, x)' <=> Carries(t, x)
  <2>. DEFINE then == fetching'[t]
  <2>1. x \in then <=> \/ Head(toTab[t]) = Told("onForward", x)
                       \/ x \in fetching[t] /\ Head(toTab[t]) # Told("onTeardown", x)
    BY <1>1
  <2>. HIDE DEF then
  <2>2. CarriesAfter(toTab[t], x, fetching[t]) <=> CarriesAfter(Tail(toTab[t]), x, then)
    BY <1>1, <2>1, CarriesAfterTheFirst
  <2>. QED  BY <1>3, <2>2 DEF Carries, then
<1>5. \A u \in Tab : u # t => (Carries(u, x)' <=> Carries(u, x))
  BY <1>3 DEF Carries
<1>. QED  BY <1>1, <1>3, <1>4, <1>5

LEMMA TabTakesKeepsInv ==
    ASSUME ExchangeInv, NEW t \in Tab, NEW h \in Handle,
           OnResult(t, h) \/ OnForward(t, h) \/ OnForwardTeardown(t, h)
    PROVE  ExchangeInv'
<1>1. TypeOK /\ PortsOK /\ OneUpstream
  BY InvParts
<1>2. /\ SetsOK' /\ (\A x \in Handle : BooksAgreeOn(x)') /\ EntersOnce'
      /\ \A u \in Tab : Registered(u)' <=> Registered(u)
  BY HubUnchanged DEF OnResult, OnForward, OnForwardTeardown
<1>3. UNCHANGED <<alive, ops, toHub, watched, hubVars, counters>>
  BY DEF OnResult, OnForward, OnForwardTeardown
<1>4. \A u \in Tab : u # t => fetching'[u] = fetching[u]
  BY <1>1 DEF OnResult, OnForward, OnForwardTeardown, TypeOK
<1>5. PICK type \in {"onResult", "onForward", "onTeardown"} :
        /\ TakeCallback(t, type, h)
        /\ \A x \in Handle : x \in fetching'[t] <=>
              \/ type = "onForward" /\ x = h
              \/ x \in fetching[t] /\ ~(type = "onTeardown" /\ x = h)
  <2>1. CASE OnResult(t, h)
    <3>1. TakeCallback(t, "onResult", h) /\ fetching' = fetching
      BY <2>1 DEF OnResult
    <3>. QED  BY <3>1
  <2>2. CASE OnForward(t, h)
    <3>1. /\ TakeCallback(t, "onForward", h) /\ fetching'[t] = fetching[t] \cup {h}
      BY <1>1, <2>2 DEF OnForward, TypeOK
    <3>. QED  BY <3>1
  <2>3. CASE OnForwardTeardown(t, h)
    <3>1. /\ TakeCallback(t, "onTeardown", h) /\ fetching'[t] = fetching[t] \ {h}
      BY <1>1, <2>3 DEF OnForwardTeardown, TypeOK
    <3>. QED  BY <3>1
  <2>. QED  BY <2>1, <2>2, <2>3
<1>6. ASSUME NEW x \in Handle
      PROVE  /\ toTab' \in [Tab -> Seq(Callback)]
             /\ \A u \in Tab : toTab[u] = <<>> => toTab'[u] = <<>> /\ u # t
             /\ \A u \in Tab : Carries(u, x)' <=> Carries(u, x)
  <2>1. /\ Told(type, h) = Told("onForward", x) <=> type = "onForward" /\ x = h
        /\ Told(type, h) = Told("onTeardown", x) <=> type = "onTeardown" /\ x = h
    BY DEF Told
  <2>2. x \in fetching'[t] <=>
           \/ Told(type, h) = Told("onForward", x)
           \/ x \in fetching[t] /\ Told(type, h) # Told("onTeardown", x)
    BY <1>5, <2>1
  <2>. QED  BY <1>1, <1>4, <1>5, <2>2, TakeCallbackKeeps
<1>7. TypeOK'
  <2>1. fetching' \in [Tab -> SUBSET Handle] /\ answered' \in [Tab -> SUBSET Handle]
    <3>1. CASE OnResult(t, h)
      <4>1. fetching' = fetching /\ answered' = [answered EXCEPT ![t] = @ \cup ({h} \cap ops[t])]
        BY <3>1 DEF OnResult
      <4>. QED  BY <1>1, <4>1 DEF TypeOK
    <3>2. CASE OnForward(t, h)
      BY <1>1, <3>2 DEF OnForward, TypeOK
    <3>3. CASE OnForwardTeardown(t, h)
      BY <1>1, <3>3 DEF OnForwardTeardown, TypeOK
    <3>. QED  BY <3>1, <3>2, <3>3
  <2>2. toTab' \in [Tab -> Seq(Callback)]
    BY <1>6
  <2>. QED  BY <1>1, <1>3, <2>1, <2>2 DEF TypeOK, hubVars, counters
<1>8. ASSUME NEW u \in Tab PROVE PortsOf(u)'
  <2>1. alive[u] # "alive" => toTab'[u] = <<>> /\ fetching'[u] = {}
    BY <1>1, <1>4, <1>6 DEF PortsOK, PortsOf
  <2>. QED  BY <1>1, <1>3, <2>1 DEF PortsOK, PortsOf, Registered, hubVars
<1>9. OneUpstream'
  BY <1>1, <1>3, <1>6, SameUpstream DEF hubVars, Handle
<1>. QED  BY <1>2, <1>7, <1>8, <1>9 DEF ExchangeInv, BooksAgree, PortsOK

LEMMA OnReexecuteKeepsInv ==
    ASSUME ExchangeInv, NEW t \in Tab, NEW h \in Handle, OnReexecute(t, h)
    PROVE  ExchangeInv'
<1>1. TypeOK /\ PortsOK /\ OneUpstream
  BY InvParts
<1>2. SetsOK' /\ (\A x \in Handle : BooksAgreeOn(x)') /\ EntersOnce'
  BY HubUnchanged DEF OnReexecute
<1>3. TakeCallback(t, "onReexecute", h) /\ fetching' = fetching /\ alive' = alive
      /\ UNCHANGED hubVars
  BY DEF OnReexecute
<1>4. ASSUME NEW x
      PROVE  /\ toTab' \in [Tab -> Seq(Callback)]
             /\ \A u \in Tab : toTab[u] = <<>> => toTab'[u] = <<>> /\ u # t
             /\ \A u \in Tab : Carries(u, x)' <=> Carries(u, x)
  <2>1. /\ Told("onReexecute", h) # Told("onForward", x)
        /\ Told("onReexecute", h) # Told("onTeardown", x)
    BY DEF Told
  <2>. QED  BY <1>1, <1>3, <2>1, TakeCallbackKeeps
<1>5. alive[t] = "alive"
  BY <1>1, <1>3 DEF TakeCallback, PortsOK, PortsOf
<1>6. \A u \in Tab : alive[u] # "alive" => toTab'[u] = toTab[u]
  BY <1>1, <1>4 DEF PortsOK, PortsOf
<1>7. PortsOK' /\ toHub' \in [Tab -> Seq(Message)]
  <2>1. CASE h \in ops[t]
    <3>1. Call(t, "execute", h)
      BY <2>1 DEF OnReexecute, Dispatch
    <3>. QED  BY <1>3, <1>5, <1>6, <3>1, CallKeepsPorts
  <2>2. CASE h \notin ops[t]
    <3>1. toHub' = toHub
      BY <2>2 DEF OnReexecute
    <3>. QED  BY <1>1, <1>3, <1>6, <3>1 DEF TypeOK, PortsOK, PortsOf, Registered,
                 hubVars
  <2>. QED  BY <2>1, <2>2
<1>8. TypeOK'
  <2>1. ops' \in [Tab -> SUBSET Handle] /\ answered' \in [Tab -> SUBSET Handle]
    <3>1. CASE h \in ops[t]
      <4>1. /\ ops' = [ops EXCEPT ![t] = @ \cup {h}]
            /\ answered' = [answered EXCEPT ![t] = @ \ {h}]
        BY <3>1 DEF OnReexecute, Dispatch
      <4>. QED  BY <1>1, <4>1 DEF TypeOK
    <3>2. CASE h \notin ops[t]
      BY <1>1, <3>2 DEF OnReexecute, TypeOK
    <3>. QED  BY <3>1, <3>2
  <2>2. toTab' \in [Tab -> Seq(Callback)]
    BY <1>4
  <2>3. UNCHANGED <<watched, hubVars, counters>>
    BY DEF OnReexecute
  <2>. QED  BY <1>1, <1>3, <1>7, <2>1, <2>2, <2>3 DEF TypeOK, hubVars, counters
<1>9. OneUpstream'
  BY <1>1, <1>3, <1>4, SameUpstream DEF hubVars
<1>. QED  BY <1>2, <1>7, <1>8, <1>9 DEF ExchangeInv, BooksAgree

-----------------------------------------------------------------------------
(* What the steps of the hub preserve *)

(* The hub takes a call of a tab: the ports stay in order, and a tab that  *)
(* asks for an operation is registered.                                    *)
LEMMA HearKeepsPorts ==
    ASSUME ExchangeInv, NEW t \in Tab, NEW type, NEW h, Hear(t, type, h),
           UNCHANGED <<alive, fetching>>,
           \A u \in Tab : alive[u] # "alive" => toTab'[u] = toTab[u],
           \A u \in Tab :
               Registered(u)' <=> Registered(u) \/ (type = "register" /\ u = t)
    PROVE  /\ PortsOK' /\ toHub' \in [Tab -> Seq(Message)]
           /\ type = "execute" => Registered(t)
           /\ type = "register" => ~Registered(t)
<1>1. TypeOK /\ PortsOf(t) /\ \A u \in Tab : PortsOf(u)
  BY InvParts DEF PortsOK
<1>. DEFINE queue == toHub[t]
<1>2. /\ toHub \in [Tab -> Seq(Message)] /\ queue \in Seq(Message) /\ queue # <<>>
      /\ Head(queue) = Told(type, h) /\ toHub' = [toHub EXCEPT ![t] = Tail(queue)]
  BY <1>1 DEF TypeOK, Hear, Told
<1>3. Tail(queue) \in Seq(Message) /\ Len(queue) \in Nat /\ Len(queue) >= 1
  BY <1>2, HeadTailProperties, EmptySeq
<1>4. /\ toHub'[t] = Tail(queue) /\ toHub' \in [Tab -> Seq(Message)]
      /\ \A u \in Tab : u # t => toHub'[u] = toHub[u]
  BY <1>2, <1>3
<1>5. Head(queue).type = type /\ queue[1].type = type
  BY <1>2, <1>3 DEF Told
<1>6. RegistersFirst(queue, Registered(t))
      /\ (alive[t] = "alive" => Registered(t) \/ Registers(queue) # {})
  BY <1>1 DEF PortsOf
<1>. HIDE DEF queue
<1>7. Registered(t) \in BOOLEAN /\ Registered(t)' \in BOOLEAN
      /\ (Registered(t)' <=> Registered(t) \/ Head(queue).type = "register")
  BY <1>5 DEF Registered
<1>8. /\ RegistersFirst(Tail(queue), Registered(t)')
      /\ Registered(t) \/ Registers(queue) # {} =>
             Registered(t)' \/ Registers(Tail(queue)) # {}
  BY <1>2, <1>6, <1>7, RegistersFirstTail
<1>9. type = "register" => ~Registered(t)
  <2>1. type = "register" => 1 \in Registers(queue)
    BY <1>3, <1>5 DEF Registers
  <2>. QED  BY <1>6, <2>1 DEF RegistersFirst
<1>10. type = "execute" => Registered(t)
  <2>1. 1 \in 1..Len(queue) /\ \A j \in Registers(queue) : ~(j < 1)
    BY <1>3 DEF Registers
  <2>. QED  BY <1>5, <1>6, <2>1 DEF RegistersFirst
<1>11. ASSUME NEW u \in Tab PROVE PortsOf(u)'
  <2>1. PortsOf(u)
    BY <1>1
  <2>2. CASE u = t
    <3>1. alive[t] # "new"
      BY <1>1, <1>2 DEF PortsOf, queue
    <3>. QED  BY <1>4, <1>6, <1>8, <2>1, <2>2, <3>1 DEF PortsOf
  <2>3. CASE u # t
    <3>1. toHub'[u] = toHub[u] /\ (Registered(u)' <=> Registered(u))
      BY <1>4, <2>3
    <3>. QED  BY <2>1, <3>1 DEF PortsOf, RegistersFirst
  <2>. QED  BY <2>2, <2>3
<1>. QED  BY <1>4, <1>9, <1>10, <1>11 DEF PortsOK

LEMMA OnConnectTabKeepsInv ==
    ASSUME ExchangeInv, NEW t \in Tab, OnConnectTab(t)
    PROVE  ExchangeInv'
<1>1. TypeOK /\ OneUpstream
  BY InvParts
<1>2. /\ SetsOK' /\ (\A x \in Handle : BooksAgreeOn(x)') /\ EntersOnce'
      /\ \A u \in Tab : Registered(u)' <=> Registered(u)
  BY HubUnchanged DEF OnConnectTab
<1>3. Hear(t, "connect", None) /\ UNCHANGED <<alive, fetching, toTab, hubVars>>
  BY DEF OnConnectTab, tabVars
<1>4. PortsOK' /\ toHub' \in [Tab -> Seq(Message)]
  BY <1>2, <1>3, HearKeepsPorts
<1>5. TypeOK'
  BY <1>1, <1>4 DEF OnConnectTab, TypeOK, tabVars, hubVars, counters
<1>6. OneUpstream'
  BY <1>1, <1>3, SameUpstream DEF hubVars, Carries
<1>. QED  BY <1>2, <1>4, <1>5, <1>6 DEF ExchangeInv, BooksAgree

LEMMA RegisterKeepsInv ==
    ASSUME ExchangeInv, NEW t \in Tab, Register(t)
    PROVE  ExchangeInv'
<1>1. /\ SetsOK /\ TypeOK /\ EntersOnce /\ OneUpstream
      /\ \A h \in Handle : BooksAgreeOn(h)
  BY InvParts
<1>2. /\ spokes' \in Seq(Tab) /\ IsOrderedSet(spokes')
      /\ ToSet(spokes') = ToSet(spokes) \cup {t}
  BY <1>1, AddIsUnion DEF Register, SetsOK, TypeOK
<1>3. \A u \in Tab : Registered(u)' <=> Registered(u) \/ u = t
  BY <1>2 DEF Registered
<1>4. PortsOK' /\ toHub' \in [Tab -> Seq(Message)] /\ ~Registered(t)
  <2>1. Hear(t, "register", None) /\ UNCHANGED <<alive, fetching, toTab>>
    BY DEF Register, tabVars
  <2>. QED  BY <1>3, <2>1, HearKeepsPorts
<1>5. /\ spokeOps' \in [Tab -> SUBSET Handle] /\ spokeOps'[t] = {}
      /\ \A u \in Tab : u # t => spokeOps'[u] = spokeOps[u]
  BY <1>1 DEF Register, TypeOK
<1>6. TypeOK'
  BY <1>1, <1>2, <1>4, <1>5 DEF Register, TypeOK, tabVars, counters
<1>7. SetsOK'
  BY <1>1, <1>2, <1>5, FS_EmptySet DEF Register, SetsOK
<1>8. ASSUME NEW h \in Handle PROVE BooksAgreeOn(h)'
  <2>1. BooksAgreeOn(h)
    BY <1>1
  <2>2. ASSUME NEW u \in Tab
        PROVE  u \in ToSet(subscribers'[h]) <=> Registered(u)' /\ h \in spokeOps'[u]
    BY <1>3, <1>4, <1>5, <2>1 DEF Register, BooksAgreeOn
  <2>. QED  BY <2>1, <2>2 DEF Register, BooksAgreeOn
<1>9. EntersOnce' /\ OneUpstream'
  BY <1>1, SameUpstream DEF Register, EntersOnce, tabVars, Carries
<1>. QED  BY <1>4, <1>6, <1>7, <1>8, <1>9 DEF ExchangeInv, BooksAgree

LEMMA ExecuteOperationKeepsInv ==
    ASSUME ExchangeInv, NEW t \in Tab, NEW h \in Handle, ExecuteOperation(t, h)
    PROVE  ExchangeInv'
<1>1. /\ SetsOK /\ TypeOK /\ EntersOnce /\ OneUpstream
      /\ \A x \in Handle : BooksAgreeOn(x)
  BY InvParts
<1>2. \A u \in Tab : Registered(u)' <=> Registered(u)
  BY DEF ExecuteOperation, Registered
<1>3. PortsOK' /\ toHub' \in [Tab -> Seq(Message)] /\ Registered(t)
  <2>1. Hear(t, "execute", h) /\ UNCHANGED <<alive, fetching, toTab>>
    BY DEF ExecuteOperation, tabVars
  <2>. QED  BY <1>2, <2>1, HearKeepsPorts
<1>4. /\ subscribers' \in [Handle -> Seq(Tab)] /\ IsOrderedSet(subscribers'[h])
      /\ ToSet(subscribers'[h]) = ToSet(subscribers[h]) \cup {t}
      /\ subscribers'[h] # <<>>
      /\ \A x \in Handle : x # h => subscribers'[x] = subscribers[x]
  <2>1. subscribers' = [subscribers EXCEPT ![h] = Add(@, t)]
    BY DEF ExecuteOperation
  <2>2. subscribers \in [Handle -> Seq(Tab)] /\ IsOrderedSet(subscribers[h])
    BY <1>1 DEF TypeOK, SetsOK
  <2>3. /\ Add(subscribers[h], t) \in Seq(Tab) /\ IsOrderedSet(Add(subscribers[h], t))
        /\ ToSet(Add(subscribers[h], t)) = ToSet(subscribers[h]) \cup {t}
    BY <2>2, AddIsUnion
  <2>4. Add(subscribers[h], t) # <<>>
    BY <2>3, ElementsOfSeq
  <2>. QED  BY <2>1, <2>2, <2>3, <2>4
<1>5. /\ spokeOps' \in [Tab -> SUBSET Handle] /\ spokeOps'[t] = spokeOps[t] \cup {h}
      /\ \A u \in Tab : u # t => spokeOps'[u] = spokeOps[u]
  BY <1>1, <1>3 DEF ExecuteOperation, TypeOK
<1>6. /\ working' \in [Handle -> Nat]
      /\ \A x \in Handle : x # h => working'[x] = working[x]
      /\ h \in Subscription =>
            IF h \in active THEN working'[h] = working[h] ELSE working'[h] = working[h] + 1
  <2>1. working \in [Handle -> Nat] /\ (h \in Subscription => h \notin Query)
    BY <1>1, ConstantsAssumption DEF TypeOK
  <2>2. CASE h \in Query \/ h \notin active
    BY <2>1, <2>2 DEF ExecuteOperation, Enters
  <2>3. CASE ~(h \in Query \/ h \notin active)
    BY <2>1, <2>3 DEF ExecuteOperation
  <2>. QED  BY <2>2, <2>3
<1>7. TypeOK'
  BY <1>1, <1>3, <1>4, <1>5, <1>6 DEF ExecuteOperation, TypeOK, tabVars, counters
<1>8. SetsOK'
  <2>1. IsFiniteSet(spokeOps[t]) /\ IsFiniteSet(spokeOps[t] \cup {h})
    BY <1>1, FS_AddElement DEF SetsOK
  <2>. QED  BY <1>1, <1>4, <1>5, <2>1 DEF ExecuteOperation, SetsOK
<1>9. ASSUME NEW x \in Handle PROVE BooksAgreeOn(x)'
  <2>1. BooksAgreeOn(x)
    BY <1>1
  <2>2. ASSUME NEW u \in Tab
        PROVE  u \in ToSet(subscribers'[x]) <=> Registered(u)' /\ x \in spokeOps'[u]
    <3>1. CASE x = h
      BY <1>2, <1>3, <1>4, <1>5, <2>1, <3>1 DEF BooksAgreeOn
    <3>2. CASE x # h
      BY <1>2, <1>4, <1>5, <2>1, <3>2 DEF BooksAgreeOn
    <3>. QED  BY <3>1, <3>2
  <2>3. active' = active \cup {h} /\ forwarding' = forwarding /\ pending' = pending
    BY DEF ExecuteOperation
  <2>. QED  BY <1>4, <1>6, <2>1, <2>2, <2>3 DEF BooksAgreeOn
<1>10. EntersOnce'
  <2>. SUFFICES ASSUME NEW x \in Subscription, working'[x] > 0
                PROVE  working'[x] = 1 /\ forwarding'[x] = None
    BY DEF EntersOnce
  <2>1. x \in Handle /\ forwarding'[x] = forwarding[x] /\ BooksAgreeOn(x)
        /\ working[x] \in Nat
    BY <1>1 DEF ExecuteOperation, Handle, TypeOK
  <2>2. CASE x = h /\ h \notin active
    <3>1. ~(working[x] > 0) /\ forwarding[x] = None
      BY <2>1, <2>2 DEF BooksAgreeOn
    <3>. QED  BY <1>6, <2>1, <2>2, <3>1
  <2>3. CASE ~(x = h /\ h \notin active)
    BY <1>1, <1>6, <2>1, <2>3 DEF EntersOnce
  <2>. QED  BY <2>2, <2>3
<1>11. OneUpstream'
  <2>. SUFFICES ASSUME NEW x \in Subscription
                PROVE  /\ \A u \in Tab : alive'[u] = "alive" =>
                              (Carries(u, x)' <=> forwarding'[x] = u)
                       /\ forwarding'[x] # None => forwarding'[x] \in ToSet(subscribers'[x])
    BY DEF OneUpstream
  <2>1. ToSet(subscribers[x]) \subseteq ToSet(subscribers'[x])
    BY <1>4 DEF Handle
  <2>. QED  BY <1>1, <2>1 DEF OneUpstream, ExecuteOperation, tabVars, Carries
<1>. QED  BY <1>3, <1>7, <1>8, <1>9, <1>10, <1>11 DEF ExchangeInv, BooksAgree

(* A callback that says nothing of a fetch changes no fetch.               *)
LEMMA BroadcastKeeps ==
    ASSUME TypeOK, PortsOK, NEW h \in Handle, Broadcast(h), UNCHANGED <<alive, fetching>>
    PROVE  /\ toTab' \in [Tab -> Seq(Callback)]
           /\ \A u \in Tab : alive[u] # "alive" => toTab'[u] = toTab[u]
           /\ \A u \in Tab : \A x : Carries(u, x)' <=> Carries(u, x)
<1>. DEFINE said == Told("onResult", h)
<1>1. said \in Callback /\ \A x : said # Told("onForward", x) /\ said # Told("onTeardown", x)
  BY Messages DEF Told
<1>2. \A u \in Tab : \/ toTab'[u] = toTab[u]
                     \/ toTab'[u] = Append(toTab[u], said) /\ alive[u] = "alive"
  BY DEF Broadcast, Told
<1>. HIDE DEF said
<1>3. ASSUME NEW u \in Tab
      PROVE  /\ toTab'[u] \in Seq(Callback)
             /\ \A x : Carries(u, x)' <=> Carries(u, x)
  <2>1. toTab[u] \in Seq(Callback)
    BY DEF TypeOK
  <2>2. CASE toTab'[u] = toTab[u]
    BY <2>1, <2>2 DEF Carries
  <2>3. CASE toTab'[u] = Append(toTab[u], said)
    <3>1. Append(toTab[u], said) \in Seq(Callback)
      BY <1>1, <2>1, AppendProperties
    <3>2. ASSUME NEW x
          PROVE  CarriesAfter(Append(toTab[u], said), x, fetching[u])
                     <=> CarriesAfter(toTab[u], x, fetching[u])
      BY <1>1, <2>1, CarriesAfterOneMore
    <3>. QED  BY <2>3, <3>1, <3>2 DEF Carries
  <2>. QED  BY <1>2, <2>2, <2>3
<1>4. toTab' = [u \in Tab |-> toTab'[u]]
  BY DEF Broadcast
<1>5. toTab' \in [Tab -> Seq(Callback)]
  BY <1>3, <1>4
<1>. QED  BY <1>2, <1>3, <1>5

LEMMA ResolveForwardedKeepsInv ==
    ASSUME ExchangeInv, NEW t \in Tab, NEW h \in Handle, ResolveForwarded(t, h)
    PROVE  ExchangeInv'
<1>1. TypeOK /\ PortsOK /\ OneUpstream
  BY InvParts
<1>2. /\ SetsOK' /\ (\A x \in Handle : BooksAgreeOn(x)') /\ EntersOnce'
      /\ \A u \in Tab : Registered(u)' <=> Registered(u)
  BY HubUnchanged DEF ResolveForwarded
<1>3. Hear(t, "resolve", h) /\ UNCHANGED <<alive, fetching, hubVars>>
  BY DEF ResolveForwarded, tabVars
<1>4. /\ toTab' \in [Tab -> Seq(Callback)]
      /\ \A u \in Tab : alive[u] # "alive" => toTab'[u] = toTab[u]
      /\ \A u \in Tab, x \in Subscription : Carries(u, x)' <=> Carries(u, x)
  <2>1. CASE h \in pending
    BY <1>1, <1>3, <2>1, BroadcastKeeps DEF ResolveForwarded
  <2>2. CASE h \notin pending
    BY <1>1, <1>3, <2>2 DEF ResolveForwarded, TypeOK, Carries
  <2>. QED  BY <2>1, <2>2
<1>5. PortsOK' /\ toHub' \in [Tab -> Seq(Message)]
  BY <1>2, <1>3, <1>4, HearKeepsPorts
<1>6. TypeOK'
  BY <1>1, <1>4, <1>5 DEF ResolveForwarded, TypeOK, tabVars, hubVars, counters
<1>7. OneUpstream'
  BY <1>1, <1>3, <1>4, SameUpstream DEF hubVars
<1>. QED  BY <1>2, <1>5, <1>6, <1>7 DEF ExchangeInv, BooksAgree

(* A callback that the hub posts comes last, if its tab is alive.          *)
LEMMA PostIsLast ==
    ASSUME NEW queues \in [Tab -> Seq(Callback)], NEW t \in Tab, NEW h \in Handle,
           NEW type \in {"onResult", "onForward", "onTeardown", "onReexecute"}
    PROVE  /\ Post(queues, t, type, h) \in [Tab -> Seq(Callback)]
           /\ \A u \in Tab : u # t \/ alive[u] # "alive" =>
                  Post(queues, t, type, h)[u] = queues[u]
           /\ alive[t] = "alive" => \A x, F :
                  CarriesAfter(Post(queues, t, type, h)[t], x, F) <=>
                      \/ type = "onForward" /\ x = h
                      \/ CarriesAfter(queues[t], x, F) /\ ~(type = "onTeardown" /\ x = h)
<1>. DEFINE posted == Post(queues, t, type, h)
            m == Told(type, h)
<1>1. m \in Callback /\ queues[t] \in Seq(Callback)
  BY Messages
<1>2. posted = IF alive[t] = "alive" THEN [queues EXCEPT ![t] = Append(@, m)] ELSE queues
  BY DEF Post, Told
<1>3. Append(queues[t], m) \in Seq(Callback)
  BY <1>1, AppendProperties
<1>. HIDE DEF posted
<1>4. CASE alive[t] # "alive"
  BY <1>2, <1>4 DEF posted
<1>5. CASE alive[t] = "alive"
  <2>1. /\ posted[t] = Append(queues[t], m) /\ posted \in [Tab -> Seq(Callback)]
        /\ \A u \in Tab : u # t => posted[u] = queues[u]
    BY <1>2, <1>3, <1>5
  <2>2. ASSUME NEW x, NEW F
        PROVE  CarriesAfter(Append(queues[t], m), x, F) <=>
                   \/ type = "onForward" /\ x = h
                   \/ CarriesAfter(queues[t], x, F) /\ ~(type = "onTeardown" /\ x = h)
    <3>1. /\ m = Told("onForward", x) <=> type = "onForward" /\ x = h
          /\ m = Told("onTeardown", x) <=> type = "onTeardown" /\ x = h
      BY DEF Told
    <3>2. CarriesAfter(Append(queues[t], m), x, F) <=>
             \/ m = Told("onForward", x)
             \/ CarriesAfter(queues[t], x, F) /\ m # Told("onTeardown", x)
      BY <1>1, CarriesAfterOneMore
    <3>. QED  BY <3>1, <3>2
  <2>. QED  BY <1>5, <2>1, <2>2 DEF posted
<1>. QED  BY <1>4, <1>5

(* Nothing that was posted before is lost.                                 *)
LEMMA PostKeepsMessages ==
    ASSUME NEW queues \in [Tab -> Seq(Callback)], NEW t \in Tab, NEW h \in Handle,
           NEW type \in {"onResult", "onForward", "onTeardown", "onReexecute"}
    PROVE  /\ \A u \in Tab : ToSet(queues[u]) \subseteq ToSet(Post(queues, t, type, h)[u])
           /\ alive[t] = "alive" => Told(type, h) \in ToSet(Post(queues, t, type, h)[t])
<1>. DEFINE m == Told(type, h)
<1>1. m \in Callback /\ queues[t] \in Seq(Callback)
  BY Messages
<1>2. Post(queues, t, type, h) =
          IF alive[t] = "alive" THEN [queues EXCEPT ![t] = Append(@, m)] ELSE queues
  BY DEF Post, Told
<1>3. ToSet(Append(queues[t], m)) = ToSet(queues[t]) \cup {m}
  BY <1>1, ElementsOfAppend
<1>. HIDE DEF m
<1>4. CASE alive[t] = "alive"
  <2>1. /\ Post(queues, t, type, h)[t] = Append(queues[t], m)
        /\ \A u \in Tab : u # t => Post(queues, t, type, h)[u] = queues[u]
    BY <1>2, <1>4
  <2>. QED  BY <1>3, <1>4, <2>1 DEF m
<1>5. CASE alive[t] # "alive"
  BY <1>2, <1>5
<1>. QED  BY <1>4, <1>5

(* A step of the hub that no call of a tab starts leaves the ports alone.  *)
LEMMA QuietKeepsPorts ==
    ASSUME ExchangeInv, UNCHANGED <<alive, fetching, toHub, spokes>>,
           \A u \in Tab : alive[u] # "alive" => toTab'[u] = toTab[u]
    PROVE  PortsOK'
<1>1. PortsOK
  BY InvParts
<1>2. ASSUME NEW u \in Tab PROVE PortsOf(u)'
  BY <1>1 DEF PortsOK, PortsOf, Registered
<1>. QED  BY <1>2 DEF PortsOK

LEMMA HitKeepsInv ==
    ASSUME ExchangeInv, NEW h \in Handle, Hit(h)
    PROVE  ExchangeInv'
<1>1. /\ SetsOK /\ TypeOK /\ PortsOK /\ EntersOnce /\ OneUpstream
      /\ \A x \in Handle : BooksAgreeOn(x)
  BY InvParts
<1>2. UNCHANGED <<alive, fetching, toHub, spokes, spokeOps, subscribers, active, forwarding,
                  pending>>
  BY DEF Hit, tabVars
<1>3. /\ toTab' \in [Tab -> Seq(Callback)]
      /\ \A u \in Tab : alive[u] # "alive" => toTab'[u] = toTab[u]
      /\ \A u \in Tab, x \in Subscription : Carries(u, x)' <=> Carries(u, x)
  BY <1>1, <1>2, BroadcastKeeps DEF Hit
<1>4. PortsOK'
  BY <1>2, <1>3, QuietKeepsPorts
<1>5. /\ working' \in [Handle -> Nat]
      /\ \A x \in Handle : working'[x] > 0 => working[x] > 0
      /\ \A x \in Subscription : working'[x] = working[x]
  <2>1. h \notin Subscription /\ working \in [Handle -> Nat] /\ working[h] > 0
    BY <1>1, ConstantsAssumption DEF Hit, TypeOK
  <2>2. working' = [working EXCEPT ![h] = working[h] - 1] /\ working[h] - 1 \in Nat
    BY <2>1 DEF Hit
  <2>. QED  BY <2>1, <2>2 DEF Handle
<1>6. TypeOK'
  BY <1>1, <1>3, <1>5 DEF Hit, TypeOK, tabVars, counters
<1>7. SetsOK' /\ EntersOnce'
  BY <1>1, <1>2, <1>5 DEF SetsOK, EntersOnce
<1>8. ASSUME NEW x \in Handle PROVE BooksAgreeOn(x)'
  BY <1>1, <1>2, <1>5 DEF BooksAgreeOn, Registered
<1>9. OneUpstream'
  BY <1>1, <1>2, <1>3, SameUpstream
<1>. QED  BY <1>4, <1>6, <1>7, <1>8, <1>9 DEF ExchangeInv, BooksAgree

(* The tab that an operation goes to is its first subscriber; without one, *)
(* the first that is registered.                                           *)
LEMMA TabForIsRegistered ==
    ASSUME ExchangeInv, NEW h \in Handle
    PROVE  /\ TabFor(h) # None => TabFor(h) \in Tab
           /\ h \in active => TabFor(h) \in ToSet(subscribers[h]) /\ TabFor(h) \in Tab
<1>1. /\ spokes \in Seq(Tab) /\ subscribers[h] \in Seq(Tab) /\ BooksAgreeOn(h)
  BY InvParts DEF TypeOK
<1>2. /\ ToSet(spokes) \subseteq Tab /\ ToSet(subscribers[h]) \subseteq Tab
      /\ spokes # <<>> => spokes[1] \in ToSet(spokes)
      /\ subscribers[h] # <<>> => subscribers[h][1] \in ToSet(subscribers[h])
  BY <1>1, ElementsOfSeq
<1>3. TabFor(h) # None => TabFor(h) \in Tab
  BY <1>2 DEF TabFor, FallbackSpoke, OwnerSpoke, Registered
<1>4. h \in active => TabFor(h) \in ToSet(subscribers[h])
  <2>. SUFFICES ASSUME h \in active PROVE TabFor(h) \in ToSet(subscribers[h])
    OBVIOUS
  <2>1. OwnerSpoke(h) \in ToSet(subscribers[h]) /\ OwnerSpoke(h) \in Tab
    BY <1>1, <1>2 DEF OwnerSpoke, BooksAgreeOn
  <2>2. Registered(OwnerSpoke(h))
    BY <1>1, <2>1 DEF BooksAgreeOn
  <2>. QED  BY <2>1, <2>2 DEF TabFor
<1>. QED  BY <1>2, <1>3, <1>4

LEMMA ReexecuteOperationKeepsInv ==
    ASSUME ExchangeInv, NEW h \in Handle, ReexecuteOperation(h)
    PROVE  ExchangeInv'
<1>1. TypeOK /\ OneUpstream
  BY InvParts
<1>2. SetsOK' /\ (\A x \in Handle : BooksAgreeOn(x)') /\ EntersOnce'
  BY HubUnchanged DEF ReexecuteOperation
<1>3. UNCHANGED <<alive, fetching, toHub, hubVars>>
  BY DEF ReexecuteOperation, tabVars
<1>. DEFINE t == TabFor(h)
<1>4. t \in Tab /\ toTab \in [Tab -> Seq(Callback)]
      /\ toTab' = Post(toTab, t, "onReexecute", h)
  BY <1>1, TabForIsRegistered DEF ReexecuteOperation, TypeOK
<1>. HIDE DEF t
<1>5. /\ toTab' \in [Tab -> Seq(Callback)]
      /\ \A u \in Tab : u # t \/ alive[u] # "alive" => toTab'[u] = toTab[u]
      /\ alive[t] = "alive" => \A x, F :
             CarriesAfter(toTab'[t], x, F) <=> CarriesAfter(toTab[t], x, F)
  <2>1. /\ toTab' \in [Tab -> Seq(Callback)]
        /\ \A u \in Tab : u # t \/ alive[u] # "alive" => toTab'[u] = toTab[u]
        /\ alive[t] = "alive" => \A x, F :
               CarriesAfter(toTab'[t], x, F) <=>
                   \/ "onReexecute" = "onForward" /\ x = h
                   \/ CarriesAfter(toTab[t], x, F) /\ ~("onReexecute" = "onTeardown" /\ x = h)
    <3>. DEFINE posted == Post(toTab, t, "onReexecute", h)
    <3>1. /\ posted \in [Tab -> Seq(Callback)]
          /\ \A u \in Tab : u # t \/ alive[u] # "alive" => posted[u] = toTab[u]
          /\ alive[t] = "alive" => \A x, F :
                 CarriesAfter(posted[t], x, F) <=>
                     \/ "onReexecute" = "onForward" /\ x = h
                     \/ CarriesAfter(toTab[t], x, F) /\ ~("onReexecute" = "onTeardown" /\ x = h)
      BY <1>4, PostIsLast
    <3>2. toTab' = posted
      BY <1>4
    <3>. HIDE DEF posted
    <3>. QED  BY <3>1, <3>2
  <2>. QED  BY <2>1
<1>6. PortsOK'
  BY <1>3, <1>5, QuietKeepsPorts DEF hubVars
<1>7. \A u \in Tab, x \in Subscription : Carries(u, x)' <=> Carries(u, x)
  BY <1>3, <1>4, <1>5 DEF Carries
<1>8. TypeOK'
  BY <1>1, <1>5 DEF ReexecuteOperation, TypeOK, tabVars, hubVars
<1>9. OneUpstream'
  BY <1>1, <1>3, <1>7, SameUpstream DEF hubVars
<1>. QED  BY <1>2, <1>6, <1>8, <1>9 DEF ExchangeInv, BooksAgree

(* A subscription is forwarded once: no tab was told of it before, and its *)
(* first subscriber is now.                                                *)
LEMMA ForwardKeepsInv ==
    ASSUME ExchangeInv, NEW h \in Handle, Forward(h)
    PROVE  ExchangeInv'
<1>1. /\ SetsOK /\ TypeOK /\ PortsOK /\ EntersOnce /\ OneUpstream
      /\ \A x \in Handle : BooksAgreeOn(x)
  BY InvParts
<1>2. UNCHANGED <<alive, fetching, toHub, spokes, spokeOps, subscribers, active>>
  BY DEF Forward, tabVars
<1>. DEFINE t == TabFor(h)
<1>3. h \in active /\ t \in ToSet(subscribers[h]) /\ t \in Tab /\ t # None
  BY <1>1, TabForIsRegistered, ConstantsAssumption DEF Forward, BooksAgreeOn
<1>4. /\ forwarding' = [forwarding EXCEPT ![h] = t] /\ pending' = pending \cup {h}
      /\ toTab' = Post(toTab, t, "onForward", h)
      /\ toTab \in [Tab -> Seq(Callback)] /\ forwarding \in [Handle -> Tab \cup {None}]
  BY <1>1, <1>3 DEF Forward, TypeOK
<1>. HIDE DEF t
<1>5. /\ toTab' \in [Tab -> Seq(Callback)]
      /\ \A u \in Tab : u # t \/ alive[u] # "alive" => toTab'[u] = toTab[u]
      /\ alive[t] = "alive" => \A x, F :
             CarriesAfter(toTab'[t], x, F) <=> x = h \/ CarriesAfter(toTab[t], x, F)
  <2>1. /\ toTab' \in [Tab -> Seq(Callback)]
        /\ \A u \in Tab : u # t \/ alive[u] # "alive" => toTab'[u] = toTab[u]
        /\ alive[t] = "alive" => \A x, F :
               CarriesAfter(toTab'[t], x, F) <=>
                   \/ "onForward" = "onForward" /\ x = h
                   \/ CarriesAfter(toTab[t], x, F) /\ ~("onForward" = "onTeardown" /\ x = h)
    <3>. DEFINE posted == Post(toTab, t, "onForward", h)
    <3>1. /\ posted \in [Tab -> Seq(Callback)]
          /\ \A u \in Tab : u # t \/ alive[u] # "alive" => posted[u] = toTab[u]
          /\ alive[t] = "alive" => \A x, F :
                 CarriesAfter(posted[t], x, F) <=>
                     \/ "onForward" = "onForward" /\ x = h
                     \/ CarriesAfter(toTab[t], x, F) /\ ~("onForward" = "onTeardown" /\ x = h)
      BY <1>3, <1>4, PostIsLast
    <3>2. toTab' = posted
      BY <1>4
    <3>. HIDE DEF posted
    <3>. QED  BY <3>1, <3>2
  <2>. QED  BY <2>1
<1>6. PortsOK'
  BY <1>2, <1>5, QuietKeepsPorts
<1>7. /\ working' \in [Handle -> Nat] /\ working[h] > 0
      /\ \A x \in Handle : x # h => working'[x] = working[x]
      /\ working'[h] = working[h] - 1
  BY <1>1 DEF Forward, TypeOK
<1>8. TypeOK'
  BY <1>1, <1>3, <1>4, <1>5, <1>7 DEF Forward, TypeOK, tabVars, counters
<1>9. SetsOK'
  BY <1>1, <1>2 DEF SetsOK
<1>10. ASSUME NEW x \in Handle PROVE BooksAgreeOn(x)'
  BY <1>1, <1>2, <1>3, <1>4, <1>7 DEF BooksAgreeOn, Registered
<1>11. EntersOnce'
  <2>1. \A x \in Handle : working[x] \in Nat
    BY <1>1 DEF TypeOK
  <2>. QED  BY <1>1, <1>4, <1>7, <2>1 DEF EntersOnce, Handle
<1>12. OneUpstream'
  <2>. SUFFICES ASSUME NEW x \in Subscription
                PROVE  /\ \A u \in Tab : alive'[u] = "alive" =>
                              (Carries(u, x)' <=> forwarding'[x] = u)
                       /\ forwarding'[x] # None => forwarding'[x] \in ToSet(subscribers'[x])
    BY DEF OneUpstream
  <2>1. CASE x = h
    <3>1. \A u \in Tab : alive[u] = "alive" => ~Carries(u, x)
      BY <1>1, <1>7, <2>1, ConstantsAssumption DEF EntersOnce, OneUpstream
    <3>2. forwarding'[x] = t
      BY <1>4, <2>1
    <3>3. \A u \in Tab : alive[u] = "alive" => (Carries(u, x)' <=> u = t)
      BY <1>2, <1>3, <1>5, <2>1, <3>1 DEF Carries
    <3>. QED  BY <1>2, <1>3, <2>1, <3>2, <3>3
  <2>2. CASE x # h
    <3>1. forwarding'[x] = forwarding[x]
      BY <1>4, <2>2 DEF Handle
    <3>2. \A u \in Tab : Carries(u, x)' <=> Carries(u, x)
      BY <1>2, <1>3, <1>5, <2>2 DEF Carries
    <3>. QED  BY <1>1, <1>2, <3>1, <3>2 DEF OneUpstream
  <2>. QED  BY <2>1, <2>2
<1>. QED  BY <1>6, <1>8, <1>9, <1>10, <1>11, <1>12 DEF ExchangeInv, BooksAgree

-----------------------------------------------------------------------------
(* What leaving preserves *)

(* Who stays when t leaves, and who is to fetch then.                      *)
LEMMA WhoRemains ==
    ASSUME ExchangeInv, NEW t \in Tab, NEW h \in Handle
    PROVE  /\ Remaining(t, h) \in Seq(Tab) /\ IsOrderedSet(Remaining(t, h))
           /\ ToSet(Remaining(t, h)) = ToSet(subscribers[h]) \ {t}
           /\ ToSet(subscribers[h]) \subseteq Tab
           /\ Remaining(t, h) = <<>> <=> ToSet(subscribers[h]) \subseteq {t}
           /\ Successor(t, h) # None =>
                  HandsOff(t, h) /\ Successor(t, h) \in ToSet(subscribers[h]) \ {t}
           /\ HandsOff(t, h) => Successor(t, h) # None
<1>1. subscribers[h] \in Seq(Tab) /\ IsOrderedSet(subscribers[h]) /\ BooksAgreeOn(h)
  BY InvParts DEF TypeOK, SetsOK
<1>. DEFINE rest == Remaining(t, h)
<1>2. /\ rest \in Seq(Tab) /\ IsOrderedSet(rest)
      /\ ToSet(rest) = ToSet(subscribers[h]) \ {t}
  BY <1>1, DeleteIsDifference DEF Remaining
<1>. HIDE DEF rest
<1>3. /\ ToSet(subscribers[h]) \subseteq Tab
      /\ rest = <<>> <=> ToSet(rest) = {}
      /\ rest # <<>> => rest[1] \in ToSet(rest)
  BY <1>1, <1>2, ElementsOfSeq
<1>4. Successor(t, h) = IF HandsOff(t, h) /\ Registered(rest[1]) THEN rest[1] ELSE None
  BY DEF Successor, rest
<1>5. HandsOff(t, h) => rest # <<>>
  BY DEF HandsOff, rest
<1>6. HandsOff(t, h) => rest[1] \in ToSet(subscribers[h]) \ {t} /\ Registered(rest[1])
  BY <1>1, <1>2, <1>3, <1>5 DEF BooksAgreeOn
<1>7. HandsOff(t, h) => Successor(t, h) = rest[1] /\ rest[1] # None
  BY <1>3, <1>4, <1>6, ConstantsAssumption
<1>. QED  BY <1>2, <1>3, <1>4, <1>6, <1>7 DEF rest

(* A tab that leaves does not fetch any more: its successor does, if it    *)
(* fetched a subscription that has one.                                    *)
LEMMA SuccessorFetches ==
    ASSUME ExchangeInv, NEW t \in Tab, NEW H \in SUBSET Handle, Leave(t, H),
           NEW h \in Subscription, h \in H
    PROVE  /\ forwarding'[h] = IF forwarding[h] = t THEN Successor(t, h) ELSE forwarding[h]
           /\ Successor(t, h) # None => forwarding[h] = t
           /\ Successor(t, h) # t
           /\ forwarding'[h] # None => forwarding'[h] \in ToSet(subscribers'[h])
           /\ forwarding[h] = t => /\ Registered(t) /\ h \in active
                                   /\ HandsOff(t, h) \/ Remaining(t, h) = <<>>
<1>1. /\ TypeOK /\ BooksAgreeOn(h) /\ h \in Handle
      /\ forwarding[h] # None => forwarding[h] \in ToSet(subscribers[h])
  BY InvParts DEF OneUpstream, Handle
<1>2. /\ ToSet(Remaining(t, h)) = ToSet(subscribers[h]) \ {t}
      /\ ToSet(subscribers[h]) \subseteq Tab
      /\ Remaining(t, h) = <<>> <=> ToSet(subscribers[h]) \subseteq {t}
      /\ Successor(t, h) # None =>
             HandsOff(t, h) /\ Successor(t, h) \in ToSet(subscribers[h]) \ {t}
      /\ HandsOff(t, h) => Successor(t, h) # None
  BY <1>1, WhoRemains
<1>3. /\ subscribers'[h] = Remaining(t, h)
      /\ forwarding'[h] = IF Remaining(t, h) = <<>> THEN None
                          ELSE IF Successor(t, h) # None THEN Successor(t, h)
                          ELSE forwarding[h]
  BY <1>1 DEF Leave
<1>4. t # None
  BY ConstantsAssumption
<1>5. Successor(t, h) # None => forwarding[h] = t /\ Remaining(t, h) # <<>>
  BY <1>2 DEF HandsOff
<1>6. forwarding[h] = t => t \in ToSet(subscribers[h]) /\ Registered(t) /\ h \in active
  BY <1>1, <1>4 DEF BooksAgreeOn
<1>7. forwarding[h] = t => HandsOff(t, h) \/ Remaining(t, h) = <<>>
  BY <1>6 DEF HandsOff
<1>8. forwarding'[h] = IF forwarding[h] = t THEN Successor(t, h) ELSE forwarding[h]
  BY <1>1, <1>2, <1>3, <1>4, <1>5, <1>7
<1>9. forwarding'[h] # None => forwarding'[h] \in ToSet(subscribers'[h])
  BY <1>1, <1>2, <1>3, <1>8
<1>. QED  BY <1>2, <1>4, <1>5, <1>6, <1>7, <1>8, <1>9

(* The books of the hub agree after t left the operations H, if they are   *)
(* all it had or it stays registered.                                      *)
LEMMA LeaveKeepsBooks ==
    ASSUME ExchangeInv, NEW t \in Tab, NEW H \in SUBSET Handle, Leave(t, H),
           spokeOps' = [spokeOps EXCEPT ![t] = @ \ H],
           \A u \in Tab : u # t => (Registered(u)' <=> Registered(u)),
           \/ Registered(t)' <=> Registered(t)
           \/ spokeOps[t] \subseteq H
    PROVE  /\ subscribers' \in [Handle -> Seq(Tab)] /\ spokeOps' \in [Tab -> SUBSET Handle]
           /\ active' \subseteq Handle /\ pending' \subseteq Handle
           /\ forwarding' \in [Handle -> Tab \cup {None}] /\ working' \in [Handle -> Nat]
           /\ \A h \in Handle : IsOrderedSet(subscribers'[h])
           /\ \A u \in Tab : IsFiniteSet(spokeOps'[u])
           /\ \A h \in Handle : BooksAgreeOn(h)'
           /\ EntersOnce'
<1>1. /\ SetsOK /\ TypeOK /\ EntersOnce /\ OneUpstream
      /\ \A h \in Handle : BooksAgreeOn(h)
  BY InvParts
<1>2. /\ subscribers' = [h \in Handle |-> IF h \in H THEN Remaining(t, h) ELSE subscribers[h]]
      /\ active' = active \ {h \in H : Remaining(t, h) = <<>>}
      /\ pending' = pending \ {h \in H : Remaining(t, h) = <<>>}
      /\ working' = [h \in Handle |-> IF h \in H /\ Remaining(t, h) = <<>> THEN 0
                                      ELSE working[h]]
      /\ forwarding' = [h \in Handle |->
              IF h \in H /\ Remaining(t, h) = <<>> THEN None
              ELSE IF h \in H /\ Successor(t, h) # None THEN Successor(t, h)
              ELSE forwarding[h]]
  BY DEF Leave
<1>3. \A h \in Handle :
        /\ Remaining(t, h) \in Seq(Tab) /\ IsOrderedSet(Remaining(t, h))
        /\ ToSet(Remaining(t, h)) = ToSet(subscribers[h]) \ {t}
        /\ Successor(t, h) \in Tab \cup {None}
        /\ Successor(t, h) # None => HandsOff(t, h)
  BY WhoRemains
<1>4. subscribers' \in [Handle -> Seq(Tab)] /\ \A h \in Handle : IsOrderedSet(subscribers'[h])
  BY <1>1, <1>2, <1>3 DEF TypeOK, SetsOK
<1>5. /\ active' \subseteq Handle /\ pending' \subseteq Handle
      /\ forwarding' \in [Handle -> Tab \cup {None}] /\ working' \in [Handle -> Nat]
  BY <1>1, <1>2, <1>3 DEF TypeOK
<1>6. /\ spokeOps' \in [Tab -> SUBSET Handle] /\ spokeOps'[t] = spokeOps[t] \ H
      /\ \A u \in Tab : u # t => spokeOps'[u] = spokeOps[u]
  BY <1>1 DEF TypeOK
<1>7. \A u \in Tab : IsFiniteSet(spokeOps'[u])
  <2>1. IsFiniteSet(spokeOps[t] \ H)
    BY <1>1, FS_Difference DEF SetsOK
  <2>. QED  BY <1>1, <1>6, <2>1 DEF SetsOK
<1>8. ASSUME NEW h \in Handle PROVE BooksAgreeOn(h)'
  <2>1. BooksAgreeOn(h)
    BY <1>1
  <2>2. ASSUME NEW u \in Tab
        PROVE  u \in ToSet(subscribers'[h]) <=> Registered(u)' /\ h \in spokeOps'[u]
    <3>1. CASE u # t
      BY <1>2, <1>3, <1>6, <2>1, <3>1 DEF BooksAgreeOn
    <3>2. CASE u = t /\ h \in H
      BY <1>2, <1>3, <1>6, <3>2
    <3>3. CASE u = t /\ h \notin H
      BY <1>2, <1>6, <2>1, <3>3 DEF BooksAgreeOn
    <3>. QED  BY <3>1, <3>2, <3>3
  <2>3. CASE h \in H /\ Remaining(t, h) = <<>>
    <3>1. /\ subscribers'[h] = <<>> /\ h \notin active' /\ h \notin pending'
          /\ working'[h] = 0 /\ forwarding'[h] = None
      BY <1>2, <2>3
    <3>. QED  BY <2>2, <3>1 DEF BooksAgreeOn
  <2>4. CASE h \in H /\ Remaining(t, h) # <<>>
    <3>1. /\ subscribers'[h] = Remaining(t, h) /\ (h \in active' <=> h \in active)
          /\ (h \in pending' <=> h \in pending) /\ working'[h] = working[h]
          /\ forwarding'[h] = IF Successor(t, h) # None THEN Successor(t, h)
                              ELSE forwarding[h]
      BY <1>2, <2>4
    <3>2. h \in active
      <4>1. subscribers[h] \in Seq(Tab) /\ ToSet(Remaining(t, h)) # {}
        BY <1>1, <1>3, <2>4, ElementsOfSeq DEF TypeOK
      <4>2. subscribers[h] # <<>>
        BY <1>3, <4>1, ElementsOfSeq
      <4>. QED  BY <2>1, <4>2 DEF BooksAgreeOn
    <3>3. forwarding'[h] # None <=> forwarding[h] # None
      BY <1>3, <3>1, ConstantsAssumption DEF HandsOff
    <3>. QED  BY <2>1, <2>2, <2>4, <3>1, <3>2, <3>3 DEF BooksAgreeOn
  <2>5. CASE h \notin H
    <3>1. /\ subscribers'[h] = subscribers[h] /\ (h \in active' <=> h \in active)
          /\ (h \in pending' <=> h \in pending) /\ working'[h] = working[h]
          /\ forwarding'[h] = forwarding[h]
      BY <1>2, <2>5
    <3>. QED  BY <2>1, <2>2, <3>1 DEF BooksAgreeOn
  <2>. QED  BY <2>3, <2>4, <2>5
<1>9. EntersOnce'
  <2>. SUFFICES ASSUME NEW h \in Subscription, working'[h] > 0
                PROVE  working'[h] = 1 /\ forwarding'[h] = None
    BY DEF EntersOnce
  <2>1. h \in Handle /\ working'[h] = working[h] /\ ~(h \in H /\ Remaining(t, h) = <<>>)
    BY <1>2 DEF Handle
  <2>2. working[h] = 1 /\ forwarding[h] = None
    BY <1>1, <2>1 DEF EntersOnce
  <2>3. Successor(t, h) = None
    BY <1>3, <2>1, <2>2, ConstantsAssumption DEF HandsOff
  <2>. QED  BY <1>2, <2>1, <2>2, <2>3
<1>. QED  BY <1>4, <1>5, <1>6, <1>7, <1>8, <1>9

(* What the tabs are told when t leaves h: t to stop, if it must, and then  *)
(* its successor to fetch.                                                 *)
StopsFetching(t, h) ==
    Registered(t) /\ h \in active /\ (HandsOff(t, h) \/ Remaining(t, h) = <<>>)

LEMMA TeardownTells ==
    ASSUME ExchangeInv, NEW t \in Tab, NEW h \in Handle, TeardownOperation(t, h)
    PROVE  /\ toTab' \in [Tab -> Seq(Callback)]
           /\ \A u \in Tab : ToSet(toTab[u]) \subseteq ToSet(toTab'[u])
           /\ \A u \in Tab : alive[u] # "alive" => toTab'[u] = toTab[u]
           /\ \A u \in Tab : alive[u] = "alive" => \A x :
                  Carries(u, x)' <=>
                      \/ u = Successor(t, h) /\ x = h
                      \/ Carries(u, x) /\ ~(u = t /\ StopsFetching(t, h) /\ x = h)
<1>. DEFINE left == TellLeft(toTab, t, h)
            toldLeft == StopsFetching(t, h)
            next == Successor(t, h)
<1>1. toTab \in [Tab -> Seq(Callback)]
  BY InvParts DEF TypeOK
<1>2. /\ left \in [Tab -> Seq(Callback)]
      /\ \A u \in Tab : u # t \/ alive[u] # "alive" => left[u] = toTab[u]
      /\ \A u \in Tab : ToSet(toTab[u]) \subseteq ToSet(left[u])
      /\ alive[t] = "alive" => \A x, F :
             CarriesAfter(left[t], x, F) <=>
                 CarriesAfter(toTab[t], x, F) /\ ~(toldLeft /\ x = h)
  <2>1. CASE toldLeft
    <3>. DEFINE posted == Post(toTab, t, "onTeardown", h)
    <3>1. /\ posted \in [Tab -> Seq(Callback)]
          /\ \A u \in Tab : u # t \/ alive[u] # "alive" => posted[u] = toTab[u]
          /\ alive[t] = "alive" => \A x, F :
                 CarriesAfter(posted[t], x, F) <=>
                     \/ "onTeardown" = "onForward" /\ x = h
                     \/ CarriesAfter(toTab[t], x, F) /\ ~("onTeardown" = "onTeardown" /\ x = h)
      BY <1>1, PostIsLast
    <3>2. left = posted
      BY <2>1 DEF TellLeft, StopsFetching
    <3>3. \A u \in Tab : ToSet(toTab[u]) \subseteq ToSet(posted[u])
      BY <1>1, PostKeepsMessages
    <3>. HIDE DEF posted, left, toldLeft
    <3>. QED  BY <2>1, <3>1, <3>2, <3>3
  <2>2. CASE ~toldLeft
    <3>1. left = toTab
      BY <2>2 DEF TellLeft, StopsFetching
    <3>. HIDE DEF left, toldLeft
    <3>. QED  BY <1>1, <2>2, <3>1
  <2>. QED  BY <2>1, <2>2
<1>3. toTab' = IF next # None THEN Post(left, next, "onForward", h) ELSE left
  BY DEF TeardownOperation, TellSuccessor
<1>4. next # None => next \in Tab /\ next # t
  BY WhoRemains
<1>. HIDE DEF left, next, toldLeft
<1>5. /\ toTab' \in [Tab -> Seq(Callback)]
      /\ \A u \in Tab : u # next \/ alive[u] # "alive" => toTab'[u] = left[u]
      /\ \A u \in Tab : ToSet(left[u]) \subseteq ToSet(toTab'[u])
      /\ next # None /\ alive[next] = "alive" => \A x, F :
             CarriesAfter(toTab'[next], x, F) <=> x = h \/ CarriesAfter(left[next], x, F)
  <2>1. CASE next # None
    <3>. DEFINE posted == Post(left, next, "onForward", h)
    <3>1. /\ posted \in [Tab -> Seq(Callback)]
          /\ \A u \in Tab : u # next \/ alive[u] # "alive" => posted[u] = left[u]
          /\ alive[next] = "alive" => \A x, F :
                 CarriesAfter(posted[next], x, F) <=>
                     \/ "onForward" = "onForward" /\ x = h
                     \/ CarriesAfter(left[next], x, F) /\ ~("onForward" = "onTeardown" /\ x = h)
      BY <1>2, <1>4, <2>1, PostIsLast
    <3>2. toTab' = posted
      BY <1>3, <2>1
    <3>3. \A u \in Tab : ToSet(left[u]) \subseteq ToSet(posted[u])
      BY <1>2, <1>4, <2>1, PostKeepsMessages
    <3>. HIDE DEF posted
    <3>. QED  BY <3>1, <3>2, <3>3
  <2>2. CASE next = None
    BY <1>2, <1>3, <2>2
  <2>. QED  BY <2>1, <2>2
<1>6. ASSUME NEW u \in Tab, alive[u] = "alive", NEW x
      PROVE  Carries(u, x)' <=>
                 \/ u = next /\ x = h
                 \/ Carries(u, x) /\ ~(u = t /\ toldLeft /\ x = h)
  <2>1. Carries(u, x)' <=> CarriesAfter(toTab'[u], x, fetching[u])
    <3>1. fetching' = fetching
      BY DEF TeardownOperation, tabVars
    <3>. QED  BY <3>1 DEF Carries
  <2>2. CarriesAfter(left[u], x, fetching[u]) <=>
            Carries(u, x) /\ ~(u = t /\ toldLeft /\ x = h)
    BY <1>2, <1>6 DEF Carries
  <2>3. CASE u = next
    <3>1. next # None
      BY <2>3, ConstantsAssumption
    <3>. QED  BY <1>5, <1>6, <2>1, <2>2, <2>3, <3>1
  <2>4. CASE u # next
    BY <1>5, <2>1, <2>2, <2>4
  <2>. QED  BY <2>3, <2>4
<1>7. \A u \in Tab : alive[u] # "alive" => toTab'[u] = toTab[u]
  BY <1>2, <1>5
<1>8. \A u \in Tab : ToSet(toTab[u]) \subseteq ToSet(toTab'[u])
  BY <1>2, <1>5
<1>. QED  BY <1>5, <1>6, <1>7, <1>8 DEF next, toldLeft

LEMMA TeardownOperationKeepsInv ==
    ASSUME ExchangeInv, NEW t \in Tab, NEW h \in Handle, TeardownOperation(t, h)
    PROVE  ExchangeInv'
<1>1. /\ SetsOK /\ TypeOK /\ OneUpstream /\ \A x \in Handle : BooksAgreeOn(x)
  BY InvParts
<1>2. /\ Leave(t, {h}) /\ {h} \in SUBSET Handle
      /\ Hear(t, "teardown", h)
      /\ spokeOps' = [spokeOps EXCEPT ![t] = @ \ {h}]
      /\ UNCHANGED <<alive, fetching, spokes>>
  BY DEF TeardownOperation, tabVars
<1>3. \A u \in Tab : Registered(u)' <=> Registered(u)
  BY <1>2 DEF Registered
<1>4. /\ subscribers' \in [Handle -> Seq(Tab)] /\ spokeOps' \in [Tab -> SUBSET Handle]
      /\ active' \subseteq Handle /\ pending' \subseteq Handle
      /\ forwarding' \in [Handle -> Tab \cup {None}] /\ working' \in [Handle -> Nat]
      /\ \A x \in Handle : IsOrderedSet(subscribers'[x])
      /\ \A u \in Tab : IsFiniteSet(spokeOps'[u])
      /\ \A x \in Handle : BooksAgreeOn(x)'
      /\ EntersOnce'
  BY <1>2, <1>3, LeaveKeepsBooks
<1>5. SetsOK'
  BY <1>1, <1>2, <1>4 DEF SetsOK
<1>. DEFINE next == Successor(t, h)
<1>6. /\ toTab' \in [Tab -> Seq(Callback)]
      /\ \A u \in Tab : alive[u] # "alive" => toTab'[u] = toTab[u]
      /\ \A u \in Tab : alive[u] = "alive" => \A x :
             Carries(u, x)' <=>
                 \/ u = next /\ x = h
                 \/ Carries(u, x) /\ ~(u = t /\ StopsFetching(t, h) /\ x = h)
  BY TeardownTells
<1>7. PortsOK' /\ toHub' \in [Tab -> Seq(Message)]
  BY <1>2, <1>3, <1>6, HearKeepsPorts
<1>8. TypeOK'
  BY <1>1, <1>2, <1>4, <1>6, <1>7 DEF TypeOK, TeardownOperation, tabVars, counters
<1>9. OneUpstream'
  <2>. SUFFICES ASSUME NEW x \in Subscription
                PROVE  /\ \A u \in Tab : alive'[u] = "alive" =>
                              (Carries(u, x)' <=> forwarding'[x] = u)
                       /\ forwarding'[x] # None => forwarding'[x] \in ToSet(subscribers'[x])
    BY DEF OneUpstream
  <2>1. /\ \A u \in Tab : alive[u] = "alive" => (Carries(u, x) <=> forwarding[x] = u)
        /\ forwarding[x] # None => forwarding[x] \in ToSet(subscribers[x])
        /\ x \in Handle
    BY <1>1 DEF OneUpstream, Handle
  <2>2. ASSUME NEW u \in Tab, alive[u] = "alive"
        PROVE  Carries(u, x)' <=>
                   \/ u = next /\ x = h
                   \/ Carries(u, x) /\ ~(u = t /\ StopsFetching(t, h) /\ x = h)
    BY <1>6, <2>2
  <2>3. CASE x # h
    <3>1. forwarding'[x] = forwarding[x] /\ subscribers'[x] = subscribers[x]
      BY <1>2, <2>1, <2>3 DEF Leave
    <3>. QED  BY <1>2, <2>1, <2>2, <2>3, <3>1
  <2>4. CASE x = h
    <3>1. /\ forwarding'[x] = IF forwarding[x] = t THEN next ELSE forwarding[x]
          /\ next # None => forwarding[x] = t
          /\ next # t
          /\ forwarding'[x] # None => forwarding'[x] \in ToSet(subscribers'[x])
          /\ forwarding[x] = t => StopsFetching(t, h)
      BY <1>2, <2>4, SuccessorFetches DEF next, StopsFetching
    <3>2. ASSUME NEW u \in Tab, alive[u] = "alive"
          PROVE  Carries(u, x)' <=> forwarding'[x] = u
      BY <2>1, <2>2, <2>4, <3>1, <3>2, ConstantsAssumption
    <3>. QED  BY <1>2, <3>1, <3>2
  <2>. QED  BY <2>3, <2>4
<1>. QED  BY <1>4, <1>5, <1>7, <1>8, <1>9 DEF ExchangeInv, BooksAgree

(* The callbacks that a successor of a dead tab gets.                      *)
LEMMA ForwardsAreTold ==
    ASSUME NEW H \in SUBSET Handle, IsFiniteSet(H), NEW C, C = {Told("onForward", h) : h \in H}
    PROVE  /\ SetToSeq(C) \in Seq(Callback)
           /\ \A m \in ToSet(SetToSeq(C)) : m.type = "onForward"
           /\ \A h : Told("onForward", h) \in ToSet(SetToSeq(C)) <=> h \in H
<1>. DEFINE f == [h \in H |-> Told("onForward", h)]
<1>1. f \in Surjection(H, C)
  BY DEF Surjection
<1>2. IsFiniteSet(C)
  BY <1>1, FS_Surjection
<1>3. SetToSeq(C) \in Seq(C) /\ ToSet(SetToSeq(C)) = C
  BY <1>2, SetToSeqHasTheElements
<1>4. C \subseteq Callback
  BY Messages
<1>5. \A h : Told("onForward", h) \in C <=> h \in H
  BY DEF Told
<1>6. \A m \in C : m.type = "onForward"
  BY DEF Told
<1>. HIDE DEF f
<1>. QED  BY <1>3, <1>4, <1>5, <1>6, SeqMonotonic

LEMMA OnDisconnectTabKeepsInv ==
    ASSUME ExchangeInv, NEW t \in Tab, OnDisconnectTab(t)
    PROVE  ExchangeInv'
<1>1. /\ SetsOK /\ TypeOK /\ PortsOK /\ OneUpstream /\ \A x \in Handle : BooksAgreeOn(x)
  BY InvParts
<1>2. alive[t] = "dead" /\ toHub[t] = <<>> /\ UNCHANGED <<alive, fetching, toHub>>
  BY DEF OnDisconnectTab, tabVars
<1>3. CASE ~Registered(t)
  <2>1. UNCHANGED <<hubVars, toTab>>
    BY <1>3 DEF OnDisconnectTab
  <2>2. SetsOK' /\ (\A x \in Handle : BooksAgreeOn(x)') /\ EntersOnce'
    BY <2>1, HubUnchanged
  <2>3. PortsOK'
    BY <1>2, <2>1, QuietKeepsPorts DEF hubVars
  <2>4. TypeOK'
    BY <1>1, <2>1 DEF OnDisconnectTab, TypeOK, tabVars, hubVars, counters
  <2>5. OneUpstream'
    BY <1>1, <1>2, <2>1, SameUpstream DEF hubVars, Carries
  <2>. QED  BY <2>2, <2>3, <2>4, <2>5 DEF ExchangeInv, BooksAgree
<1>4. CASE Registered(t)
  <2>. DEFINE H == spokeOps[t]
              next(u) == {x \in H : Successor(t, x) = u /\ alive[u] = "alive"}
              told(u) == SetToSeq({Told("onForward", x) : x \in next(u)})
  <2>1. /\ Leave(t, H) /\ H \in SUBSET Handle /\ spokes' = Delete(spokes, t)
        /\ toTab' = [u \in Tab |-> toTab[u] \o told(u)]
        /\ spokeOps' = [spokeOps EXCEPT ![t] = {}]
    BY <1>1, <1>4 DEF OnDisconnectTab, TypeOK, Told
  <2>2. spokeOps' = [spokeOps EXCEPT ![t] = @ \ H]
    BY <2>1
  <2>3. /\ spokes' \in Seq(Tab) /\ IsOrderedSet(spokes')
        /\ ToSet(spokes') = ToSet(spokes) \ {t}
    BY <1>1, <2>1, DeleteIsDifference DEF TypeOK, SetsOK
  <2>4. \A u \in Tab : Registered(u)' <=> Registered(u) /\ u # t
    BY <2>3 DEF Registered
  <2>5. /\ subscribers' \in [Handle -> Seq(Tab)] /\ spokeOps' \in [Tab -> SUBSET Handle]
        /\ active' \subseteq Handle /\ pending' \subseteq Handle
        /\ forwarding' \in [Handle -> Tab \cup {None}] /\ working' \in [Handle -> Nat]
        /\ \A x \in Handle : IsOrderedSet(subscribers'[x])
        /\ \A u \in Tab : IsFiniteSet(spokeOps'[u])
        /\ \A x \in Handle : BooksAgreeOn(x)'
        /\ EntersOnce'
    BY <2>1, <2>2, <2>4, LeaveKeepsBooks
  <2>6. SetsOK'
    BY <2>3, <2>5 DEF SetsOK
  <2>7. ASSUME NEW u \in Tab
        PROVE  /\ told(u) \in Seq(Callback)
               /\ \A m \in ToSet(told(u)) : m.type = "onForward"
               /\ \A x : Told("onForward", x) \in ToSet(told(u)) <=> x \in next(u)
    <3>. DEFINE N == next(u)
                C == {Told("onForward", x) : x \in N}
    <3>1. N \in SUBSET H /\ IsFiniteSet(N) /\ N \in SUBSET Handle
      BY <1>1, <2>1, FS_Subset DEF SetsOK
    <3>. HIDE DEF N
    <3>2. /\ SetToSeq(C) \in Seq(Callback)
          /\ \A m \in ToSet(SetToSeq(C)) : m.type = "onForward"
          /\ \A x : Told("onForward", x) \in ToSet(SetToSeq(C)) <=> x \in N
      BY <3>1, ForwardsAreTold
    <3>. QED  BY <3>2 DEF N
  <2>. HIDE DEF told
  <2>8. ASSUME NEW u \in Tab
        PROVE  /\ toTab'[u] \in Seq(Callback)
               /\ \A x : Carries(u, x)' <=> x \in next(u) \/ Carries(u, x)
    <3>. HIDE DEF next
    <3>1. toTab[u] \in Seq(Callback) /\ toTab'[u] = toTab[u] \o told(u)
      BY <1>1, <2>1 DEF TypeOK
    <3>2. toTab[u] \o told(u) \in Seq(Callback)
      BY <2>7, <3>1, ConcatProperties
    <3>3. ASSUME NEW x
          PROVE  CarriesAfter(toTab[u] \o told(u), x, fetching[u]) <=>
                     \/ Told("onForward", x) \in ToSet(told(u))
                     \/ CarriesAfter(toTab[u], x, fetching[u])
      BY <2>7, <3>1, CarriesAfterForwards
    <3>. QED  BY <1>2, <2>7, <3>1, <3>2, <3>3 DEF Carries
  <2>9. toTab' \in [Tab -> Seq(Callback)]
    BY <2>1, <2>8
  <2>10. ASSUME NEW u \in Tab, alive[u] # "alive"
         PROVE  toTab'[u] = <<>>
    <3>1. next(u) = {} /\ toTab[u] = <<>>
      BY <1>1, <2>10 DEF PortsOK, PortsOf
    <3>2. told(u) = <<>>
      <4>1. ToSet(told(u)) = {}
        <5>1. \A m \in ToSet(told(u)) : FALSE
          <6>1. {Told("onForward", x) : x \in next(u)} = {} /\ IsFiniteSet({})
            BY <3>1, FS_EmptySet
          <6>. QED  BY <6>1, SetToSeqHasTheElements DEF told
        <5>. QED  BY <5>1
      <4>. QED  BY <2>7, <4>1, ElementsOfSeq
    <3>3. toTab'[u] = <<>> \o <<>>
      BY <2>1, <3>1, <3>2
    <3>. QED  BY <3>3, ConcatEmptySeq, EmptySeq
  <2>11. ASSUME NEW u \in Tab PROVE PortsOf(u)'
    <3>1. PortsOf(u) /\ (alive[u] # "alive" => toTab[u] = <<>>)
      BY <1>1 DEF PortsOK, PortsOf
    <3>2. CASE u = t
      <4>1. Registers(<<>>) = {} /\ Len(<<>>) = 0
        BY EmptySeq DEF Registers
      <4>2. RegistersFirst(toHub'[t], Registered(t)')
        BY <1>2, <4>1 DEF RegistersFirst
      <4>. QED  BY <1>2, <2>10, <3>1, <3>2, <4>2 DEF PortsOf
    <3>3. CASE u # t
      <4>1. Registered(u)' <=> Registered(u)
        BY <2>4, <3>3
      <4>. QED  BY <1>2, <2>10, <3>1, <4>1 DEF PortsOf, RegistersFirst
    <3>. QED  BY <3>2, <3>3
  <2>12. TypeOK'
    BY <1>1, <1>2, <2>3, <2>5, <2>9 DEF TypeOK, OnDisconnectTab, tabVars, counters
  <2>13. OneUpstream'
    <3>. SUFFICES ASSUME NEW x \in Subscription
                  PROVE  /\ \A u \in Tab : alive'[u] = "alive" =>
                                (Carries(u, x)' <=> forwarding'[x] = u)
                         /\ forwarding'[x] # None => forwarding'[x] \in ToSet(subscribers'[x])
      BY DEF OneUpstream
    <3>1. /\ \A u \in Tab : alive[u] = "alive" => (Carries(u, x) <=> forwarding[x] = u)
          /\ forwarding[x] # None => forwarding[x] \in ToSet(subscribers[x])
          /\ x \in Handle
      BY <1>1 DEF OneUpstream, Handle
    <3>2. CASE x \notin H
      <4>1. forwarding'[x] = forwarding[x] /\ subscribers'[x] = subscribers[x]
        BY <2>1, <3>1, <3>2 DEF Leave
      <4>. QED  BY <1>2, <2>8, <3>1, <3>2, <4>1
    <3>3. CASE x \in H
      <4>1. /\ forwarding'[x] = IF forwarding[x] = t THEN Successor(t, x) ELSE forwarding[x]
            /\ Successor(t, x) # None => forwarding[x] = t
            /\ Successor(t, x) # t
            /\ forwarding'[x] # None => forwarding'[x] \in ToSet(subscribers'[x])
        BY <2>1, <3>3, SuccessorFetches
      <4>2. ASSUME NEW u \in Tab, alive[u] = "alive"
            PROVE  Carries(u, x)' <=> forwarding'[x] = u
        <5>1. u # t /\ u # None
          BY <1>2, <4>2, ConstantsAssumption
        <5>2. Carries(u, x)' <=> Successor(t, x) = u \/ forwarding[x] = u
          BY <2>8, <3>1, <3>3, <4>2
        <5>. QED  BY <4>1, <5>1, <5>2
      <4>. QED  BY <1>2, <4>1, <4>2
    <3>. QED  BY <3>2, <3>3
  <2>. QED  BY <2>5, <2>6, <2>11, <2>12, <2>13 DEF ExchangeInv, BooksAgree, PortsOK
<1>. QED  BY <1>3, <1>4

-----------------------------------------------------------------------------
(* What the tabs and the hub agree on *)

(* The hub will count t among the subscribers of h once it has taken the   *)
(* calls of the port.                                                      *)
WillSubscribe(t, h) ==
    LastSays(toHub[t], Told("execute", h), Told("teardown", h), t \in ToSet(subscribers[h]))

(* A tab that has not died is with exactly the operations that it will     *)
(* subscribe to.                                                           *)
TabsAgree ==
    \A t \in Tab : alive[t] # "dead" => \A h \in Handle : h \in ops[t] <=> WillSubscribe(t, h)

(* The bound on deaths counts them. *)
NoneDied == deaths = 0 => \A t \in Tab : alive[t] # "dead"

(* A subscription that somebody is with is inside the wrapped exchange, or *)
(* was forwarded.                                                          *)
ActiveIsUpstream == \A h \in Subscription : h \in active => working[h] > 0 \/ h \in pending

LEMMA StaysInTail ==
    ASSUME NEW S, NEW queue \in Seq(S), queue # <<>>, NEW m \in ToSet(queue), m # Head(queue)
    PROVE  m \in ToSet(Tail(queue))
<1>. DEFINE rest == Tail(queue)
<1>1. /\ rest \in Seq(S) /\ Len(queue) \in Nat /\ Len(queue) >= 1
      /\ Len(rest) = Len(queue) - 1
      /\ Head(queue) = queue[1]
      /\ \A i \in 1..Len(rest) : rest[i] = queue[i + 1]
  <2>1. /\ rest \in Seq(S) /\ Len(rest) = Len(queue) - 1 /\ Len(queue) \in Nat
        /\ Len(queue) >= 1
    BY HeadTailProperties, EmptySeq, LenProperties
  <2>2. \A i \in 1..Len(rest) : rest[i] = queue[i + 1]
    BY HeadTailProperties
  <2>. QED  BY <2>1, <2>2
<1>2. /\ ToSet(queue) = {queue[i] : i \in 1..Len(queue)}
      /\ ToSet(rest) = {rest[i] : i \in 1..Len(rest)}
  BY <1>1, ElementsOfSeq
<1>3. PICK i \in 1..Len(queue) : m = queue[i]
  BY <1>2
<1>. HIDE DEF rest
<1>4. i - 1 \in 1..Len(rest) /\ (i - 1) + 1 = i
  BY <1>1, <1>3
<1>5. m = rest[i - 1]
  BY <1>1, <1>3, <1>4
<1>. QED  BY <1>2, <1>4, <1>5 DEF rest

LEMMA ToldIsUnique ==
    ASSUME NEW type, NEW x, NEW other, NEW y
    PROVE  Told(type, x) = Told(other, y) <=> type = other /\ x = y
BY DEF Told

(* A tab calls the hub ...                                                 *)
LEMMA CallIsHeardLast ==
    ASSUME TypeOK, NEW t \in Tab, NEW x \in Handle,
           NEW type \in {"execute", "teardown", "resolve"}, Call(t, type, x),
           UNCHANGED subscribers
    PROVE  /\ \A u \in Tab : ToSet(toHub[u]) \subseteq ToSet(toHub'[u])
           /\ Told(type, x) \in ToSet(toHub'[t])
           /\ \A h : WillSubscribe(t, h)' <=>
                  \/ type = "execute" /\ x = h
                  \/ WillSubscribe(t, h) /\ ~(type = "teardown" /\ x = h)
           /\ \A u \in Tab : u # t => \A h : (WillSubscribe(u, h)' <=> WillSubscribe(u, h))
<1>. DEFINE m == Told(type, x)
<1>1. m \in Message /\ toHub[t] \in Seq(Message) /\ toHub \in [Tab -> Seq(Message)]
  BY Messages DEF TypeOK
<1>2. /\ toHub'[t] = Append(toHub[t], m)
      /\ \A u \in Tab : u # t => toHub'[u] = toHub[u]
  BY <1>1 DEF Call, Told
<1>. HIDE DEF m
<1>3. ToSet(toHub'[t]) = ToSet(toHub[t]) \cup {m}
  BY <1>1, <1>2, ElementsOfAppend
<1>4. ASSUME NEW h
      PROVE  WillSubscribe(t, h)' <=>
                  \/ type = "execute" /\ x = h
                  \/ WillSubscribe(t, h) /\ ~(type = "teardown" /\ x = h)
  <2>. DEFINE yes == Told("execute", h)
              no == Told("teardown", h)
              before == t \in ToSet(subscribers[h])
  <2>1. yes # no /\ before \in BOOLEAN
    BY ToldIsUnique
  <2>2. LastSays(Append(toHub[t], m), yes, no, before) <=>
            \/ m = yes
            \/ LastSays(toHub[t], yes, no, before) /\ m # no
    <3>. HIDE DEF yes, no, before
    <3>. QED  BY <1>1, <2>1, LastSaysOneMore
  <2>3. (m = yes <=> type = "execute" /\ x = h) /\ (m = no <=> type = "teardown" /\ x = h)
    BY ToldIsUnique DEF m
  <2>4. WillSubscribe(t, h)' <=> LastSays(Append(toHub[t], m), yes, no, before)
    BY <1>2 DEF WillSubscribe
  <2>5. WillSubscribe(t, h) <=> LastSays(toHub[t], yes, no, before)
    BY DEF WillSubscribe
  <2>. HIDE DEF yes, no, before
  <2>. QED  BY <2>2, <2>3, <2>4, <2>5
<1>5. \A u \in Tab : u # t => \A h : (WillSubscribe(u, h)' <=> WillSubscribe(u, h))
  BY <1>2 DEF WillSubscribe
<1>. QED  BY <1>2, <1>3, <1>4, <1>5 DEF m

(* ... and the hub does what the call says.                                *)
LEMMA HearingKeepsWill ==
    ASSUME TypeOK, NEW t \in Tab, NEW type, NEW x, Hear(t, type, x), NEW h,
           t \in ToSet(subscribers'[h]) <=>
               \/ type = "execute" /\ x = h
               \/ t \in ToSet(subscribers[h]) /\ ~(type = "teardown" /\ x = h),
           \A u \in Tab : u # t =>
               (u \in ToSet(subscribers'[h]) <=> u \in ToSet(subscribers[h]))
    PROVE  \A u \in Tab : WillSubscribe(u, h)' <=> WillSubscribe(u, h)
<1>. DEFINE yes == Told("execute", h)
            no == Told("teardown", h)
            before == t \in ToSet(subscribers[h])
            then == t \in ToSet(subscribers'[h])
            queue == toHub[t]
<1>1. /\ toHub \in [Tab -> Seq(Message)] /\ queue \in Seq(Message) /\ queue # <<>>
      /\ Head(queue) = Told(type, x) /\ toHub' = [toHub EXCEPT ![t] = Tail(queue)]
  BY DEF TypeOK, Hear, Told
<1>2. toHub'[t] = Tail(queue) /\ \A u \in Tab : u # t => toHub'[u] = toHub[u]
  BY <1>1
<1>3. /\ Head(queue) = yes <=> type = "execute" /\ x = h
      /\ Head(queue) = no <=> type = "teardown" /\ x = h
      /\ yes # no /\ before \in BOOLEAN /\ then \in BOOLEAN
  BY <1>1, ToldIsUnique
<1>4. (WillSubscribe(t, h) <=> LastSays(queue, yes, no, before))
      /\ (WillSubscribe(t, h)' <=> LastSays(Tail(queue), yes, no, then))
  BY <1>2 DEF WillSubscribe
<1>5. then <=> Head(queue) = yes \/ (before /\ Head(queue) # no)
  BY <1>3
<1>6. LastSays(queue, yes, no, before) <=> LastSays(Tail(queue), yes, no, then)
  <2>. HIDE DEF yes, no, before, then, queue
  <2>. QED  BY <1>1, <1>3, <1>5, LastSaysTheFirst
<1>7. ASSUME NEW u \in Tab, u # t PROVE WillSubscribe(u, h)' <=> WillSubscribe(u, h)
  <2>1. toHub'[u] = toHub[u]
        /\ (u \in ToSet(subscribers'[h]) <=> u \in ToSet(subscribers[h]))
    BY <1>2, <1>7
  <2>. QED  BY <2>1 DEF WillSubscribe, LastSays
<1>. HIDE DEF yes, no, before, then, queue
<1>. QED  BY <1>4, <1>6, <1>7

(* Of the calls that wait, only the one that is taken is gone.             *)
LEMMA HearingKeepsCalls ==
    ASSUME TypeOK, NEW t \in Tab, NEW type, NEW x, Hear(t, type, x)
    PROVE  \A u \in Tab : \A m \in ToSet(toHub[u]) :
               m # Told(type, x) => m \in ToSet(toHub'[u])
<1>1. /\ toHub \in [Tab -> Seq(Message)] /\ toHub[t] \in Seq(Message) /\ toHub[t] # <<>>
      /\ Head(toHub[t]) = Told(type, x) /\ toHub' = [toHub EXCEPT ![t] = Tail(toHub[t])]
  BY DEF TypeOK, Hear, Told
<1>2. toHub'[t] = Tail(toHub[t]) /\ \A u \in Tab : u # t => toHub'[u] = toHub[u]
  BY <1>1
<1>3. \A m \in ToSet(toHub[t]) : m # Told(type, x) => m \in ToSet(Tail(toHub[t]))
  BY <1>1, StaysInTail
<1>. QED  BY <1>2, <1>3

(* ToSet of the subscribers after a step of the hub.                       *)
LEMMA SubscribersAfterExecute ==
    ASSUME ExchangeInv, NEW t \in Tab, NEW x \in Handle, ExecuteOperation(t, x), NEW h \in Handle
    PROVE  \A u \in Tab : u \in ToSet(subscribers'[h]) <=>
               (u = t /\ h = x) \/ u \in ToSet(subscribers[h])
<1>1. /\ subscribers \in [Handle -> Seq(Tab)] /\ IsOrderedSet(subscribers[x])
      /\ subscribers' = [subscribers EXCEPT ![x] = Add(@, t)]
  BY InvParts DEF SetsOK, TypeOK, ExecuteOperation
<1>2. ToSet(Add(subscribers[x], t)) = ToSet(subscribers[x]) \cup {t}
  BY <1>1, AddIsUnion
<1>3. subscribers'[h] = IF h = x THEN Add(subscribers[x], t) ELSE subscribers[h]
  BY <1>1
<1>. QED  BY <1>2, <1>3

LEMMA SubscribersAfterLeave ==
    ASSUME ExchangeInv, NEW t \in Tab, NEW H \in SUBSET Handle, Leave(t, H), NEW h \in Handle
    PROVE  \A u \in Tab : u \in ToSet(subscribers'[h]) <=>
               u \in ToSet(subscribers[h]) /\ ~(u = t /\ h \in H)
<1>1. ToSet(Remaining(t, h)) = ToSet(subscribers[h]) \ {t}
  BY WhoRemains
<1>2. subscribers'[h] = IF h \in H THEN Remaining(t, h) ELSE subscribers[h]
  BY DEF Leave
<1>. QED  BY <1>1, <1>2

LEMMA AgreedBefore ==
    ASSUME TabsAgree,
           \A u \in Tab : alive'[u] # "dead" =>
               /\ alive[u] # "dead" /\ ops'[u] = ops[u]
               /\ \A h \in Handle : WillSubscribe(u, h)' <=> WillSubscribe(u, h)
    PROVE  TabsAgree'
BY DEF TabsAgree

LEMMA DispatchAgrees ==
    ASSUME TypeOK, TabsAgree, NEW t \in Tab, NEW x \in Handle, Dispatch(t, x),
           UNCHANGED <<alive, subscribers>>
    PROVE  TabsAgree'
<1>1. /\ \A h : WillSubscribe(t, h)' <=> x = h \/ WillSubscribe(t, h)
      /\ \A u \in Tab : u # t => \A h : (WillSubscribe(u, h)' <=> WillSubscribe(u, h))
  <2>1. Call(t, "execute", x) /\ UNCHANGED subscribers
    BY DEF Dispatch
  <2>. QED  BY <2>1, CallIsHeardLast
<1>2. ops'[t] = ops[t] \cup {x} /\ \A u \in Tab : u # t => ops'[u] = ops[u]
  BY DEF Dispatch, TypeOK
<1>. QED  BY <1>1, <1>2 DEF TabsAgree

LEMMA TeardownAgrees ==
    ASSUME TypeOK, TabsAgree, NEW t \in Tab, NEW x \in Handle, Teardown(t, x)
    PROVE  TabsAgree'
<1>1. /\ \A h : WillSubscribe(t, h)' <=> WillSubscribe(t, h) /\ x # h
      /\ \A u \in Tab : u # t => \A h : (WillSubscribe(u, h)' <=> WillSubscribe(u, h))
  <2>1. Call(t, "teardown", x) /\ UNCHANGED subscribers
    BY DEF Teardown, hubVars
  <2>. QED  BY <2>1, CallIsHeardLast
<1>2. ops'[t] = ops[t] \ {x} /\ alive' = alive /\ \A u \in Tab : u # t => ops'[u] = ops[u]
  BY DEF Teardown, TypeOK
<1>. QED  BY <1>1, <1>2 DEF TabsAgree

LEMMA ConnectAgrees ==
    ASSUME ExchangeInv, TabsAgree, NEW t \in Tab, Connect(t)
    PROVE  TabsAgree'
<1>. DEFINE calls == <<[type |-> "connect", handle |-> None], Registration>>
<1>1. /\ alive[t] = "new" /\ toHub[t] = <<>> /\ ~Registered(t)
      /\ toHub' = [toHub EXCEPT ![t] = calls] /\ toHub \in [Tab -> Seq(Message)]
      /\ alive' = [alive EXCEPT ![t] = "alive"] /\ UNCHANGED <<ops, subscribers>>
      /\ alive \in [Tab -> {"new", "alive", "dead"}]
  BY InvParts DEF Connect, PortsOK, PortsOf, TypeOK, hubVars
<1>2. ASSUME NEW h \in Handle
      PROVE  ~WillSubscribe(t, h) /\ ~WillSubscribe(t, h)'
  <2>1. t \notin ToSet(subscribers[h])
    BY <1>1, InvParts DEF BooksAgreeOn
  <2>2. Len(<<>>) = 0 /\ Len(calls) = 2 /\ calls[1].type = "connect"
        /\ calls[2].type = "register"
    BY EmptySeq DEF Registration
  <2>3. \A i \in 1..2 : calls[i] # Told("execute", h)
    BY <2>2 DEF Told
  <2>4. toHub'[t] = calls
    BY <1>1
  <2>. HIDE DEF calls
  <2>5. ~WillSubscribe(t, h)
    BY <1>1, <2>1, <2>2 DEF WillSubscribe, LastSays
  <2>6. ~WillSubscribe(t, h)'
    BY <1>1, <2>1, <2>2, <2>3, <2>4 DEF WillSubscribe, LastSays
  <2>. QED  BY <2>5, <2>6
<1>3. ASSUME NEW u \in Tab, u # t
      PROVE  alive'[u] = alive[u] /\ \A h \in Handle : WillSubscribe(u, h)' <=> WillSubscribe(u, h)
  <2>1. toHub'[u] = toHub[u] /\ alive'[u] = alive[u]
    BY <1>1, <1>3
  <2>. QED  BY <1>1, <2>1 DEF WillSubscribe
<1>. HIDE DEF calls
<1>. QED  BY <1>1, <1>2, <1>3, AgreedBefore

LEMMA HearingAgrees ==
    ASSUME ExchangeInv, TabsAgree, NEW t \in Tab, HubTakes(t)
    PROVE  TabsAgree'
<1>1. TypeOK /\ UNCHANGED <<alive, ops>>
  BY InvParts DEF HubTakes, OnConnectTab, Register, ExecuteOperation, TeardownOperation,
     ResolveForwarded, tabVars
<1>2. SUFFICES ASSUME NEW h \in Handle
               PROVE  \A u \in Tab : WillSubscribe(u, h)' <=> WillSubscribe(u, h)
  BY <1>1, AgreedBefore
<1>3. CASE OnConnectTab(t) \/ Register(t)
  <2>1. subscribers' = subscribers
    BY <1>3 DEF OnConnectTab, Register, hubVars
  <2>2. PICK type \in {"connect", "register"} : Hear(t, type, None)
    BY <1>3 DEF OnConnectTab, Register
  <2>. QED  BY <1>1, <2>1, <2>2, HearingKeepsWill
<1>4. ASSUME NEW x \in Handle, ExecuteOperation(t, x)
      PROVE  \A u \in Tab : WillSubscribe(u, h)' <=> WillSubscribe(u, h)
  <2>1. Hear(t, "execute", x)
    BY <1>4 DEF ExecuteOperation
  <2>2. \A u \in Tab : u \in ToSet(subscribers'[h]) <=>
            (u = t /\ h = x) \/ u \in ToSet(subscribers[h])
    BY <1>4, SubscribersAfterExecute
  <2>. QED  BY <1>1, <2>1, <2>2, HearingKeepsWill
<1>5. ASSUME NEW x \in Handle, TeardownOperation(t, x)
      PROVE  \A u \in Tab : WillSubscribe(u, h)' <=> WillSubscribe(u, h)
  <2>1. Hear(t, "teardown", x) /\ Leave(t, {x})
    BY <1>5 DEF TeardownOperation
  <2>2. \A u \in Tab : u \in ToSet(subscribers'[h]) <=>
            u \in ToSet(subscribers[h]) /\ ~(u = t /\ h \in {x})
    BY <2>1, SubscribersAfterLeave
  <2>. QED  BY <1>1, <2>1, <2>2, HearingKeepsWill
<1>6. ASSUME NEW x \in Handle, ResolveForwarded(t, x)
      PROVE  \A u \in Tab : WillSubscribe(u, h)' <=> WillSubscribe(u, h)
  <2>1. Hear(t, "resolve", x) /\ subscribers' = subscribers
    BY <1>6 DEF ResolveForwarded, hubVars
  <2>2. "resolve" # "execute" /\ "resolve" # "teardown"
        /\ \A u \in Tab : u \in ToSet(subscribers'[h]) <=> u \in ToSet(subscribers[h])
    BY <2>1
  <2>. QED  BY <1>1, <2>1, <2>2, HearingKeepsWill
<1>. QED  BY <1>3, <1>4, <1>5, <1>6 DEF HubTakes

LEMMA DisconnectAgrees ==
    ASSUME ExchangeInv, TabsAgree, NEW t \in Tab, OnDisconnectTab(t)
    PROVE  TabsAgree'
<1>1. alive[t] = "dead" /\ UNCHANGED <<alive, ops, toHub>>
  BY DEF OnDisconnectTab, tabVars
<1>2. ASSUME NEW u \in Tab, u # t, NEW h \in Handle
      PROVE  WillSubscribe(u, h)' <=> WillSubscribe(u, h)
  <2>1. u \in ToSet(subscribers'[h]) <=> u \in ToSet(subscribers[h])
    <3>1. CASE Registered(t)
      <4>1. Leave(t, spokeOps[t]) /\ spokeOps[t] \in SUBSET Handle
        BY <3>1, InvParts DEF OnDisconnectTab, TypeOK
      <4>. QED  BY <1>2, <4>1, SubscribersAfterLeave
    <3>2. CASE ~Registered(t)
      BY <3>2 DEF OnDisconnectTab, hubVars
    <3>. QED  BY <3>1, <3>2
  <2>. QED  BY <1>1, <2>1 DEF WillSubscribe, LastSays
<1>. QED  BY <1>1, <1>2, AgreedBefore

LEMMA TabsAgreeStep == ExchangeInv /\ TabsAgree /\ [Next]_vars => TabsAgree'
<1>. SUFFICES ASSUME ExchangeInv, TabsAgree, [Next]_vars PROVE TabsAgree'
  OBVIOUS
<1>1. TypeOK
  BY InvParts
<1>2. ASSUME UNCHANGED <<alive, ops, toHub, subscribers>> PROVE TabsAgree'
  <2>1. \A u \in Tab, h \in Handle : WillSubscribe(u, h)' <=> WillSubscribe(u, h)
    BY <1>2 DEF WillSubscribe
  <2>. QED  BY <1>2, <2>1, AgreedBefore
<1>3. CASE UNCHANGED vars
  BY <1>2, <1>3 DEF vars, tabVars, hubVars
<1>4. ASSUME NEW t \in Tab, Connect(t) \/ OnDisconnectTab(t) \/ HubTakes(t) PROVE TabsAgree'
  BY <1>4, ConnectAgrees, DisconnectAgrees, HearingAgrees
<1>5. ASSUME NEW t \in Tab, Die(t) PROVE TabsAgree'
  <2>1. /\ alive' = [alive EXCEPT ![t] = "dead"] /\ ops' = [ops EXCEPT ![t] = {}]
        /\ UNCHANGED <<toHub, subscribers>>
    BY <1>5 DEF Die, hubVars
  <2>2. \A u \in Tab, h \in Handle : WillSubscribe(u, h)' <=> WillSubscribe(u, h)
    BY <2>1 DEF WillSubscribe
  <2>3. \A u \in Tab : alive'[u] # "dead" => u # t /\ alive'[u] = alive[u] /\ ops'[u] = ops[u]
    BY <1>1, <2>1 DEF TypeOK
  <2>. QED  BY <2>2, <2>3, AgreedBefore
<1>6. ASSUME NEW t \in Tab, TabTakes(t) PROVE TabsAgree'
  <2>1. PICK h \in Handle : OnResult(t, h) \/ OnForward(t, h)
                            \/ OnForwardTeardown(t, h) \/ OnReexecute(t, h)
    BY <1>6 DEF TabTakes
  <2>2. CASE OnReexecute(t, h) /\ h \in ops[t]
    BY <1>1, <2>2, DispatchAgrees DEF OnReexecute, hubVars
  <2>3. CASE ~(OnReexecute(t, h) /\ h \in ops[t])
    BY <1>2, <2>1, <2>3 DEF OnResult, OnForward, OnForwardTeardown, OnReexecute, hubVars
  <2>. QED  BY <2>2, <2>3
<1>7. ASSUME NEW t \in Tab, NEW h \in Handle, Execute(t, h) PROVE TabsAgree'
  BY <1>1, <1>7, DispatchAgrees DEF Execute, hubVars
<1>8. ASSUME NEW t \in Tab, NEW h \in Handle, Teardown(t, h) PROVE TabsAgree'
  BY <1>1, <1>8, TeardownAgrees
<1>9. ASSUME NEW t \in Tab, NEW h \in Handle, Resolve(t, h) PROVE TabsAgree'
  <2>1. Call(t, "resolve", h) /\ UNCHANGED <<alive, ops>> /\ UNCHANGED subscribers
    BY <1>9 DEF Resolve, hubVars
  <2>2. \A u \in Tab, x \in Handle : WillSubscribe(u, x)' <=> WillSubscribe(u, x)
    BY <1>1, <2>1, CallIsHeardLast
  <2>. QED  BY <2>1, <2>2, AgreedBefore
<1>10. ASSUME NEW h \in Handle, Hit(h) \/ Forward(h) \/ ReexecuteOperation(h) PROVE TabsAgree'
  BY <1>2, <1>10 DEF Hit, Forward, ReexecuteOperation, tabVars, hubVars
<1>. QED  BY <1>3, <1>4, <1>5, <1>6, <1>7, <1>8, <1>9, <1>10 DEF Next

LEMMA NoneDiedStep == TypeOK /\ NoneDied /\ [Next]_vars => NoneDied'
<1>. SUFFICES ASSUME TypeOK, NoneDied, [Next]_vars PROVE NoneDied'
  OBVIOUS
<1>1. CASE UNCHANGED <<alive, deaths>>
  BY <1>1 DEF NoneDied
<1>2. ASSUME NEW t \in Tab, Connect(t) PROVE NoneDied'
  <2>1. alive' = [alive EXCEPT ![t] = "alive"] /\ deaths' = deaths
    BY <1>2 DEF Connect, counters
  <2>. QED  BY <2>1 DEF NoneDied, TypeOK
<1>3. ASSUME NEW t \in Tab, Die(t) PROVE NoneDied'
  BY <1>3 DEF Die, NoneDied, TypeOK
<1>4. ASSUME NEW t \in Tab, OnDisconnectTab(t) \/ TabTakes(t) \/ HubTakes(t)
      PROVE  UNCHANGED <<alive, deaths>>
  BY <1>4 DEF OnDisconnectTab, TabTakes, HubTakes, OnResult, OnForward,
     OnForwardTeardown,
     OnReexecute, OnConnectTab, Register, ExecuteOperation, TeardownOperation,
     ResolveForwarded, tabVars, counters
<1>5. ASSUME NEW t \in Tab, NEW h \in Handle, Execute(t, h) \/ Teardown(t, h) \/ Resolve(t, h)
      PROVE  UNCHANGED <<alive, deaths>>
  BY <1>5 DEF Execute, Teardown, Resolve, counters
<1>6. ASSUME NEW h \in Handle, Hit(h) \/ Forward(h) \/ ReexecuteOperation(h)
      PROVE  UNCHANGED <<alive, deaths>>
  BY <1>6 DEF Hit, Forward, ReexecuteOperation, tabVars, counters
<1>7. CASE UNCHANGED vars
  BY <1>1, <1>7 DEF vars, tabVars, counters
<1>. QED  BY <1>1, <1>2, <1>3, <1>4, <1>5, <1>6, <1>7 DEF Next

(* What the last to leave takes with it, and what the others keep.         *)
LEMMA LeaveKeepsWork ==
    ASSUME NEW t \in Tab, NEW H \in SUBSET Handle, Leave(t, H), NEW h \in Handle
    PROVE  \/ h \in H /\ Remaining(t, h) = <<>> /\ h \notin active' /\ subscribers'[h] = <<>>
           \/ /\ ~(h \in H /\ Remaining(t, h) = <<>>)
              /\ h \in active' <=> h \in active
              /\ h \in pending' <=> h \in pending
              /\ working'[h] = working[h]
BY DEF Leave

LEMMA ActiveIsUpstreamStep ==
    ExchangeInv /\ ActiveIsUpstream /\ [Next]_vars => ActiveIsUpstream'
<1>. SUFFICES ASSUME ExchangeInv, ActiveIsUpstream, [Next]_vars,
                     NEW h \in Subscription, h \in active'
              PROVE  working'[h] > 0 \/ h \in pending'
  BY DEF ActiveIsUpstream
<1>1. /\ TypeOK /\ h \in Handle /\ h \notin Query /\ BooksAgreeOn(h) /\ working[h] \in Nat
      /\ working \in [Handle -> Nat]
      /\ h \in active => working[h] > 0 \/ h \in pending
  BY InvParts, ConstantsAssumption DEF Handle, TypeOK, ActiveIsUpstream
<1>2. CASE UNCHANGED <<active, pending, working>>
  BY <1>1, <1>2
<1>3. ASSUME NEW t \in Tab, NEW x \in Handle, ExecuteOperation(t, x)
      PROVE  working'[h] > 0 \/ h \in pending'
  <2>1. pending' = pending /\ active' = active \cup {x}
    BY <1>3 DEF ExecuteOperation
  <2>2. CASE x = h /\ h \notin active
    <3>1. working' = [working EXCEPT ![h] = @ + 1]
      BY <1>3, <2>2 DEF ExecuteOperation, Enters
    <3>. QED  BY <1>1, <3>1
  <2>3. CASE h \in active
    <3>1. working'[h] \in Nat /\ working'[h] >= working[h]
      <4>1. CASE x \in Query \/ x \notin active
        BY <1>1, <1>3, <4>1 DEF ExecuteOperation, Enters
      <4>2. CASE ~(x \in Query \/ x \notin active)
        BY <1>1, <1>3, <4>2 DEF ExecuteOperation
      <4>. QED  BY <4>1, <4>2
    <3>. QED  BY <1>1, <2>1, <2>3, <3>1
  <2>. QED  BY <2>1, <2>2, <2>3
<1>4. ASSUME NEW t \in Tab, NEW H \in SUBSET Handle, Leave(t, H)
      PROVE  working'[h] > 0 \/ h \in pending'
  BY <1>1, <1>4, LeaveKeepsWork
<1>5. ASSUME NEW x \in Handle, Forward(x) PROVE working'[h] > 0 \/ h \in pending'
  <2>1. active' = active /\ h \in active
    BY <1>5 DEF Forward
  <2>2. CASE x = h
    <3>1. TabFor(h) # None
      BY <1>1, <2>1, TabForIsRegistered, ConstantsAssumption
    <3>2. pending' = pending \cup {h}
      BY <1>5, <2>2, <3>1 DEF Forward
    <3>. QED  BY <3>2
  <2>3. CASE x # h
    <3>1. working' = [working EXCEPT ![x] = @ - 1] /\ pending \subseteq pending'
      BY <1>5 DEF Forward
    <3>2. working'[h] = working[h]
      BY <1>1, <2>3, <3>1
    <3>. QED  BY <1>1, <2>1, <3>1, <3>2
  <2>. QED  BY <2>2, <2>3
<1>6. ASSUME NEW x \in Handle, Hit(x) PROVE working'[h] > 0 \/ h \in pending'
  <2>1. /\ x \in Query /\ working' = [working EXCEPT ![x] = @ - 1]
        /\ active' = active /\ pending' = pending
    BY <1>6 DEF Hit
  <2>2. working'[h] = working[h]
    BY <1>1, <2>1
  <2>. QED  BY <1>1, <2>1, <2>2
<1>7. CASE UNCHANGED vars
  BY <1>2, <1>7 DEF vars, hubVars
<1>8. ASSUME NEW t \in Tab, Connect(t) \/ Die(t) \/ TabTakes(t) \/ OnConnectTab(t) \/ Register(t)
      PROVE  UNCHANGED <<active, pending, working>>
  BY <1>8 DEF Connect, Die, TabTakes, OnResult, OnForward, OnForwardTeardown,
     OnReexecute,
     OnConnectTab, Register, hubVars
<1>9. ASSUME NEW t \in Tab, OnDisconnectTab(t) PROVE working'[h] > 0 \/ h \in pending'
  <2>1. CASE Registered(t)
    <3>1. Leave(t, spokeOps[t]) /\ spokeOps[t] \in SUBSET Handle
      BY <1>1, <1>9, <2>1 DEF OnDisconnectTab, TypeOK
    <3>. QED  BY <1>4, <3>1
  <2>2. CASE ~Registered(t)
    BY <1>2, <1>9, <2>2 DEF OnDisconnectTab, hubVars
  <2>. QED  BY <2>1, <2>2
<1>10. ASSUME NEW t \in Tab, NEW x \in Handle, TeardownOperation(t, x)
       PROVE  working'[h] > 0 \/ h \in pending'
  <2>1. Leave(t, {x}) /\ {x} \in SUBSET Handle
    BY <1>10 DEF TeardownOperation
  <2>. QED  BY <1>4, <2>1
<1>11. ASSUME NEW t \in Tab, NEW x \in Handle,
              Execute(t, x) \/ Teardown(t, x) \/ Resolve(t, x) \/ ResolveForwarded(t, x)
       PROVE  UNCHANGED <<active, pending, working>>
  BY <1>11 DEF Execute, Teardown, Resolve, ResolveForwarded, hubVars
<1>12. ASSUME NEW x \in Handle, ReexecuteOperation(x)
       PROVE  UNCHANGED <<active, pending, working>>
  BY <1>12 DEF ReexecuteOperation, hubVars
<1>. QED  BY <1>2, <1>3, <1>5, <1>6, <1>7, <1>8, <1>9, <1>10, <1>11, <1>12
          DEF Next, HubTakes

-----------------------------------------------------------------------------
(* No operation is forgotten *)

(* A tab asks the hub for h, or the wrapped exchange works on it, or it    *)
(* was forwarded and a tab fetches it, is told to or has answered, or the  *)
(* result is on the port of the tab.                                       *)
OnItsWay(t, h) ==
    \/ Told("execute", h) \in ToSet(toHub[t])
    \/ working[h] > 0
    \/ h \in pending /\ \E u \in Tab : Carries(u, h) \/ Told("resolve", h) \in ToSet(toHub[u])
    \/ Told("onResult", h) \in ToSet(toTab[t])

(* While no tab has died, a query that has not been answered is on its way *)
(* to its answer.                                                          *)
NoQueryIsForgotten ==
    deaths = 0 => \A t \in Tab, h \in Query : h \in ops[t] \ answered[t] => OnItsWay(t, h)

(* Whoever has died, a subscription that a tab is with is asked for, is    *)
(* inside the wrapped exchange, or has a tab that the hub takes for it.    *)
NoSubscriptionIsForgotten ==
    \A t \in Tab, h \in Subscription :
        alive[t] = "alive" /\ h \in ops[t] =>
            \/ Told("execute", h) \in ToSet(toHub[t])
            \/ working[h] > 0
            \/ forwarding[h] # None

CareInv == ExchangeInv /\ TabsAgree /\ NoneDied /\ ActiveIsUpstream /\ NoQueryIsForgotten

(* What a tab is with it has asked for, or is a subscriber of.             *)
LEMMA AskedOrSubscribed ==
    ASSUME TypeOK, TabsAgree, NEW t \in Tab, alive[t] # "dead", NEW h \in Handle, h \in ops[t]
    PROVE  Told("execute", h) \in ToSet(toHub[t]) \/ t \in ToSet(subscribers[h])
<1>1. WillSubscribe(t, h)
  BY DEF TabsAgree
<1>2. ToSet(toHub[t]) = {toHub[t][i] : i \in 1..Len(toHub[t])}
  BY ElementsOfSeq DEF TypeOK
<1>. QED  BY <1>1, <1>2 DEF WillSubscribe, LastSays

LEMMA SubscribersAreAlive ==
    ASSUME ExchangeInv, NoneDied, deaths = 0, NEW t \in Tab, NEW h \in Handle,
           t \in ToSet(subscribers[h])
    PROVE  Registered(t) /\ alive[t] = "alive" /\ h \in active
<1>1. Registered(t)
  BY InvParts DEF BooksAgreeOn
<1>2. alive[t] = "alive"
  BY <1>1, InvParts DEF PortsOK, PortsOf, NoneDied, TypeOK
<1>3. h \in active
  <2>1. subscribers[h] \in Seq(Tab)
    BY InvParts DEF TypeOK
  <2>2. subscribers[h] # <<>>
    BY <2>1, ElementsOfSeq
  <2>. QED  BY <2>2, InvParts DEF BooksAgreeOn
<1>. QED  BY <1>1, <1>2, <1>3

(* What was on its way and has not been moved still is.                    *)
LEMMA StaysOnItsWay ==
    ASSUME NEW t \in Tab, NEW h \in Query, OnItsWay(t, h),
           Told("execute", h) \in ToSet(toHub[t]) => Told("execute", h) \in ToSet(toHub'[t]),
           working[h] > 0 => working'[h] > 0,
           h \in pending => h \in pending',
           \A u \in Tab : Carries(u, h) =>
               Carries(u, h)' \/ Told("resolve", h) \in ToSet(toHub'[u]),
           \A u \in Tab : Told("resolve", h) \in ToSet(toHub[u]) =>
               Told("resolve", h) \in ToSet(toHub'[u]),
           Told("onResult", h) \in ToSet(toTab[t]) => Told("onResult", h) \in ToSet(toTab'[t])
    PROVE  OnItsWay(t, h)'
BY DEF OnItsWay

(* A result goes to every subscriber, and no callback is lost.             *)
LEMMA BroadcastReaches ==
    ASSUME TypeOK, NEW h \in Handle, Broadcast(h)
    PROVE  /\ \A u \in Tab : ToSet(toTab[u]) \subseteq ToSet(toTab'[u])
           /\ \A u \in Tab : u \in ToSet(subscribers[h]) /\ Registered(u) /\ alive[u] = "alive"
                  => Told("onResult", h) \in ToSet(toTab'[u])
<1>. DEFINE said == Told("onResult", h)
<1>1. said \in Callback
  BY Messages
<1>2. \A u \in Tab :
          toTab'[u] = IF u \in ToSet(subscribers[h]) /\ Registered(u) /\ alive[u] = "alive"
                      THEN Append(toTab[u], said) ELSE toTab[u]
  BY DEF Broadcast, Told
<1>. HIDE DEF said
<1>3. ASSUME NEW u \in Tab PROVE ToSet(Append(toTab[u], said)) = ToSet(toTab[u]) \cup {said}
  BY <1>1, ElementsOfAppend DEF TypeOK
<1>. QED  BY <1>2, <1>3 DEF said

(* After a broadcast of h, whoever waits for it has the result on its      *)
(* port, or asks anew.                                                     *)
LEMMA BroadcastAnswers ==
    ASSUME ExchangeInv, TabsAgree, NoneDied, deaths = 0, NEW h \in Query, Broadcast(h),
           NEW t \in Tab, h \in ops[t]
    PROVE  Told("execute", h) \in ToSet(toHub[t]) \/ Told("onResult", h) \in ToSet(toTab'[t])
<1>1. h \in Handle /\ TypeOK /\ alive[t] # "dead"
  BY InvParts DEF Handle, NoneDied
<1>2. CASE t \in ToSet(subscribers[h])
  <2>1. Registered(t) /\ alive[t] = "alive"
    BY <1>1, <1>2, SubscribersAreAlive
  <2>. QED  BY <1>1, <1>2, <2>1, BroadcastReaches
<1>. QED  BY <1>1, <1>2, AskedOrSubscribed

-----------------------------------------------------------------------------
(* What the hub does with what is on its way *)

(* A call that the hub takes and that is no call for h leaves h on its way.*)
LEMMA HearingCares ==
    ASSUME CareInv, NEW t \in Tab, NEW h \in Query, OnItsWay(t, h),
           NEW u \in Tab, NEW type, NEW x, Hear(u, type, x), x # h,
           working'[h] = working[h], h \in pending => h \in pending',
           \A s \in Tab : Carries(s, h) => Carries(s, h)',
           Told("onResult", h) \in ToSet(toTab[t]) => Told("onResult", h) \in ToSet(toTab'[t])
    PROVE  OnItsWay(t, h)'
<1>1. \A s \in Tab : \A m \in ToSet(toHub[s]) : m # Told(type, x) => m \in ToSet(toHub'[s])
  BY InvParts, HearingKeepsCalls DEF CareInv
<1>2. Told("execute", h) # Told(type, x) /\ Told("resolve", h) # Told(type, x)
  BY ToldIsUnique
<1>. QED  BY <1>1, <1>2, StaysOnItsWay

LEMMA ExecuteOperationCares ==
    ASSUME CareInv, NEW t \in Tab, NEW h \in Query, OnItsWay(t, h),
           NEW u \in Tab, NEW x \in Handle, ExecuteOperation(u, x)
    PROVE  OnItsWay(t, h)'
<1>1. /\ Hear(u, "execute", x) /\ UNCHANGED <<fetching, toTab, pending>>
      /\ working \in [Handle -> Nat] /\ h \in Handle
      /\ x \in Query \/ x \notin active => working' = [working EXCEPT ![x] = @ + 1]
      /\ ~(x \in Query \/ x \notin active) => working' = working
  BY InvParts DEF CareInv, ExecuteOperation, Enters, tabVars, TypeOK, Handle
<1>2. CASE x = h
  <2>1. working'[h] = working[h] + 1 /\ working[h] \in Nat
    BY <1>1, <1>2
  <2>2. working'[h] > 0
    BY <2>1
  <2>. QED  BY <2>2 DEF OnItsWay
<1>3. CASE x # h
  <2>1. working'[h] = working[h]
    BY <1>1, <1>3
  <2>2. \A s \in Tab : Carries(s, h) => Carries(s, h)'
    BY <1>1 DEF Carries
  <2>. QED  BY <1>1, <1>3, <2>1, <2>2, HearingCares
<1>. QED  BY <1>2, <1>3

(* Nobody stops a query that another tab waits for; if the last to leave   *)
(* is back already, it has asked anew.                                     *)
LEMMA TeardownOperationCares ==
    ASSUME CareInv, TabsAgree', deaths = 0, NEW t \in Tab, NEW h \in Query, h \in ops[t],
           OnItsWay(t, h), NEW u \in Tab, NEW x \in Handle, TeardownOperation(u, x)
    PROVE  OnItsWay(t, h)'
<1>1. /\ ExchangeInv /\ TypeOK /\ TypeOK' /\ h \in Handle /\ h \notin Subscription
      /\ Hear(u, "teardown", x) /\ Leave(u, {x}) /\ {x} \in SUBSET Handle
      /\ UNCHANGED <<alive, ops>> /\ \A s \in Tab : alive[s] # "dead"
  <2>1. ExchangeInv'
    BY TeardownOperationKeepsInv DEF CareInv
  <2>2. TypeOK'
    BY <2>1 DEF ExchangeInv, BooksAgree
  <2>. QED  BY <2>2, InvParts, ConstantsAssumption
            DEF CareInv, NoneDied, TeardownOperation, tabVars, Handle
<1>2. CASE x = h /\ Remaining(u, h) = <<>>
  <2>1. subscribers'[h] = <<>>
    BY <1>1, <1>2 DEF Leave
  <2>2. t \notin ToSet(subscribers'[h])
    <3>1. subscribers'[h] \in Seq(Tab)
      BY <1>1 DEF TypeOK
    <3>. QED  BY <2>1, <3>1, ElementsOfSeq
  <2>3. (Told("execute", h) \in ToSet(toHub[t]) \/ t \in ToSet(subscribers[h]))'
    <3>1. (TypeOK /\ TabsAgree /\ alive[t] # "dead" /\ h \in ops[t])'
      BY <1>1
    <3>2. TypeOK' /\ TabsAgree' /\ alive'[t] # "dead" /\ h \in ops'[t]
      BY <3>1
    <3>3. WillSubscribe(t, h)'
      BY <1>1, <3>2 DEF TabsAgree
    <3>4. toHub'[t] \in Seq(Message)
      BY <1>1 DEF TypeOK
    <3>5. ToSet(toHub'[t]) = {toHub'[t][i] : i \in 1..Len(toHub'[t])}
      BY <3>4, ElementsOfSeq
    <3>. QED  BY <3>3, <3>5 DEF WillSubscribe, LastSays
  <2>. QED  BY <2>2, <2>3 DEF OnItsWay
<1>3. CASE ~(x = h /\ Remaining(u, h) = <<>>)
  <2>1. working'[h] = working[h] /\ (h \in pending => h \in pending')
    BY <1>1, <1>3, LeaveKeepsWork
  <2>2. x = h => ~StopsFetching(u, h)
    BY <1>1, <1>3 DEF StopsFetching, HandsOff
  <2>3. /\ \A s \in Tab : ToSet(toTab[s]) \subseteq ToSet(toTab'[s])
        /\ \A s \in Tab : alive[s] # "alive" => toTab'[s] = toTab[s]
        /\ \A s \in Tab : alive[s] = "alive" => \A y :
               Carries(s, y)' <=> \/ s = Successor(u, x) /\ y = x
                                  \/ Carries(s, y) /\ ~(s = u /\ StopsFetching(u, x) /\ y = x)
    BY <1>1, TeardownTells
  <2>4. ASSUME NEW s \in Tab, Carries(s, h) PROVE Carries(s, h)'
    <3>1. CASE alive[s] = "alive"
      BY <2>2, <2>3, <2>4, <3>1
    <3>2. CASE alive[s] # "alive"
      <4>1. toTab'[s] = toTab[s] /\ fetching' = fetching
        BY <2>3, <3>2 DEF TeardownOperation, tabVars
      <4>. QED  BY <2>4, <4>1 DEF Carries
    <3>. QED  BY <3>1, <3>2
  <2>5. \A s \in Tab : \A m \in ToSet(toHub[s]) :
            m # Told("teardown", x) => m \in ToSet(toHub'[s])
    BY <1>1, HearingKeepsCalls
  <2>6. Told("execute", h) # Told("teardown", x) /\ Told("resolve", h) # Told("teardown", x)
    BY ToldIsUnique
  <2>. QED  BY <2>1, <2>3, <2>4, <2>5, <2>6, StaysOnItsWay
<1>. QED  BY <1>2, <1>3

LEMMA ResolveForwardedCares ==
    ASSUME CareInv, deaths = 0, NEW t \in Tab, NEW h \in Query, h \in ops[t], OnItsWay(t, h),
           NEW u \in Tab, NEW x \in Handle, ResolveForwarded(u, x)
    PROVE  OnItsWay(t, h)'
<1>1. /\ ExchangeInv /\ TypeOK /\ PortsOK /\ TabsAgree /\ NoneDied /\ h \in Handle
      /\ Hear(u, "resolve", x) /\ UNCHANGED <<alive, fetching, working, pending>>
      /\ x \in pending => Broadcast(x)
      /\ x \notin pending => toTab' = toTab
  BY InvParts DEF CareInv, ResolveForwarded, tabVars, hubVars, Handle
<1>2. /\ \A s \in Tab : ToSet(toTab[s]) \subseteq ToSet(toTab'[s])
      /\ \A s \in Tab : Carries(s, h) => Carries(s, h)'
  <2>1. CASE x \in pending
    BY <1>1, <2>1, BroadcastReaches, BroadcastKeeps
  <2>2. CASE x \notin pending
    BY <1>1, <2>2 DEF Carries
  <2>. QED  BY <2>1, <2>2
<1>3. CASE x # h
  BY <1>1, <1>2, <1>3, HearingCares
<1>4. CASE x = h /\ h \in pending
  <2>1. Told("execute", h) \in ToSet(toHub[t]) \/ Told("onResult", h) \in ToSet(toTab'[t])
    BY <1>1, <1>4, BroadcastAnswers
  <2>2. Told("execute", h) \in ToSet(toHub[t]) => Told("execute", h) \in ToSet(toHub'[t])
    <3>1. Told("execute", h) # Told("resolve", x)
      BY ToldIsUnique
    <3>. QED  BY <1>1, <3>1, HearingKeepsCalls
  <2>. QED  BY <2>1, <2>2 DEF OnItsWay
<1>5. CASE x = h /\ h \notin pending
  <2>1. Told("execute", h) # Told("resolve", x)
    BY ToldIsUnique
  <2>2. Told("execute", h) \in ToSet(toHub[t]) => Told("execute", h) \in ToSet(toHub'[t])
    BY <1>1, <2>1, HearingKeepsCalls
  <2>. QED  BY <1>1, <1>5, <2>2 DEF OnItsWay
<1>. QED  BY <1>3, <1>4, <1>5

LEMMA HitCares ==
    ASSUME CareInv, deaths = 0, NEW t \in Tab, NEW h \in Query, h \in ops[t], OnItsWay(t, h),
           NEW x \in Handle, Hit(x)
    PROVE  OnItsWay(t, h)'
<1>1. /\ ExchangeInv /\ TypeOK /\ PortsOK /\ TabsAgree /\ NoneDied /\ h \in Handle
      /\ Broadcast(x) /\ x \in Query /\ UNCHANGED <<alive, fetching, toHub, pending>>
      /\ working' = [working EXCEPT ![x] = @ - 1]
  BY InvParts DEF CareInv, Hit, tabVars, Handle
<1>2. CASE x = h
  <2>1. Told("execute", h) \in ToSet(toHub[t]) \/ Told("onResult", h) \in ToSet(toTab'[t])
    BY <1>1, <1>2, BroadcastAnswers
  <2>. QED  BY <1>1, <2>1 DEF OnItsWay
<1>3. CASE x # h
  <2>1. working'[h] = working[h]
    BY <1>1, <1>3 DEF TypeOK
  <2>2. /\ \A s \in Tab : ToSet(toTab[s]) \subseteq ToSet(toTab'[s])
        /\ \A s \in Tab : Carries(s, h) => Carries(s, h)'
    BY <1>1, BroadcastReaches, BroadcastKeeps
  <2>. QED  BY <1>1, <2>1, <2>2, StaysOnItsWay
<1>. QED  BY <1>2, <1>3

(* A callback other than to stop a fetch takes nothing off its way.        *)
LEMMA PostCares ==
    ASSUME TypeOK, NEW h \in Handle, NEW t \in Tab, NEW type \in {"onForward", "onReexecute"},
           toTab' = Post(toTab, t, type, h), UNCHANGED fetching
    PROVE  /\ \A u \in Tab : ToSet(toTab[u]) \subseteq ToSet(toTab'[u])
           /\ \A u \in Tab : \A x : Carries(u, x) => Carries(u, x)'
           /\ type = "onForward" /\ alive[t] = "alive" => Carries(t, h)'
<1>. DEFINE posted == Post(toTab, t, type, h)
<1>1. /\ toTab \in [Tab -> Seq(Callback)]
      /\ type \in {"onResult", "onForward", "onTeardown", "onReexecute"}
      /\ type # "onTeardown"
  BY DEF TypeOK
<1>2. /\ posted \in [Tab -> Seq(Callback)]
      /\ \A u \in Tab : u # t \/ alive[u] # "alive" => posted[u] = toTab[u]
      /\ alive[t] = "alive" => \A x, F :
             CarriesAfter(posted[t], x, F) <=>
                 \/ type = "onForward" /\ x = h
                 \/ CarriesAfter(toTab[t], x, F) /\ ~(type = "onTeardown" /\ x = h)
  <2>1. CASE type = "onForward"
    <3>1. /\ Post(toTab, t, "onForward", h) \in [Tab -> Seq(Callback)]
          /\ \A u \in Tab : u # t \/ alive[u] # "alive" =>
                 Post(toTab, t, "onForward", h)[u] = toTab[u]
          /\ alive[t] = "alive" => \A x, F :
                 CarriesAfter(Post(toTab, t, "onForward", h)[t], x, F) <=>
                     \/ "onForward" = "onForward" /\ x = h
                     \/ CarriesAfter(toTab[t], x, F) /\ ~("onForward" = "onTeardown" /\ x = h)
      BY <1>1, PostIsLast
    <3>. QED  BY <2>1, <3>1
  <2>2. CASE type = "onReexecute"
    <3>1. /\ Post(toTab, t, "onReexecute", h) \in [Tab -> Seq(Callback)]
          /\ \A u \in Tab : u # t \/ alive[u] # "alive" =>
                 Post(toTab, t, "onReexecute", h)[u] = toTab[u]
          /\ alive[t] = "alive" => \A x, F :
                 CarriesAfter(Post(toTab, t, "onReexecute", h)[t], x, F) <=>
                     \/ "onReexecute" = "onForward" /\ x = h
                     \/ CarriesAfter(toTab[t], x, F) /\ ~("onReexecute" = "onTeardown" /\ x = h)
      BY <1>1, PostIsLast
    <3>. QED  BY <2>2, <3>1
  <2>. QED  BY <2>1, <2>2
<1>3. \A u \in Tab : ToSet(toTab[u]) \subseteq ToSet(posted[u])
  BY <1>1, PostKeepsMessages
<1>4. toTab' = posted /\ fetching' = fetching
  OBVIOUS
<1>. HIDE DEF posted
<1>5. ASSUME NEW u \in Tab, NEW x, Carries(u, x) PROVE Carries(u, x)'
  <2>1. CASE u # t \/ alive[u] # "alive"
    BY <1>2, <1>4, <1>5, <2>1 DEF Carries
  <2>2. CASE u = t /\ alive[u] = "alive"
    BY <1>1, <1>2, <1>4, <1>5, <2>2 DEF Carries
  <2>. QED  BY <2>1, <2>2
<1>6. type = "onForward" /\ alive[t] = "alive" => Carries(t, h)'
  BY <1>2, <1>4 DEF Carries
<1>. QED  BY <1>3, <1>4, <1>5, <1>6

(* What is forwarded goes to a subscriber, which is alive.                 *)
LEMMA ForwardCares ==
    ASSUME CareInv, deaths = 0, NEW t \in Tab, NEW h \in Query, OnItsWay(t, h),
           NEW x \in Handle, Forward(x)
    PROVE  OnItsWay(t, h)'
<1>1. /\ ExchangeInv /\ TypeOK /\ NoneDied /\ h \in Handle /\ BooksAgreeOn(x)
      /\ working[x] > 0 /\ working' = [working EXCEPT ![x] = @ - 1]
      /\ UNCHANGED <<alive, fetching, toHub>>
  BY InvParts DEF CareInv, Forward, tabVars, Handle
<1>2. PICK u \in Tab : u = TabFor(x) /\ u # None /\ alive[u] = "alive"
  <2>1. x \in active
    BY <1>1 DEF BooksAgreeOn
  <2>2. TabFor(x) \in Tab /\ TabFor(x) \in ToSet(subscribers[x])
    BY <1>1, <2>1, TabForIsRegistered
  <2>. QED  BY <1>1, <2>2, SubscribersAreAlive, ConstantsAssumption
<1>3. pending' = pending \cup {x} /\ toTab' = Post(toTab, u, "onForward", x)
  BY <1>2 DEF Forward
<1>4. /\ \A s \in Tab : ToSet(toTab[s]) \subseteq ToSet(toTab'[s])
      /\ \A s \in Tab : \A y : Carries(s, y) => Carries(s, y)'
      /\ Carries(u, x)'
  BY <1>1, <1>2, <1>3, PostCares
<1>5. CASE x = h
  BY <1>3, <1>4, <1>5 DEF OnItsWay
<1>6. CASE x # h
  <2>1. working'[h] = working[h]
    BY <1>1, <1>6 DEF TypeOK
  <2>. QED  BY <1>1, <1>3, <1>4, <2>1, StaysOnItsWay
<1>. QED  BY <1>5, <1>6

(* What a tab does with what is on its way                                 *)

(* Of the callbacks that wait, only the one that is taken is gone.         *)
LEMMA TakingKeepsCallbacks ==
    ASSUME TypeOK, NEW t \in Tab, NEW type, NEW x, TakeCallback(t, type, x)
    PROVE  \A u \in Tab : \A m \in ToSet(toTab[u]) :
               (u = t /\ m = Told(type, x)) \/ m \in ToSet(toTab'[u])
<1>1. /\ toTab \in [Tab -> Seq(Callback)] /\ toTab[t] \in Seq(Callback) /\ toTab[t] # <<>>
      /\ Head(toTab[t]) = Told(type, x) /\ toTab' = [toTab EXCEPT ![t] = Tail(toTab[t])]
  BY DEF TypeOK, TakeCallback, Told
<1>2. toTab'[t] = Tail(toTab[t]) /\ \A u \in Tab : u # t => toTab'[u] = toTab[u]
  BY <1>1
<1>3. \A m \in ToSet(toTab[t]) : m # Told(type, x) => m \in ToSet(Tail(toTab[t]))
  BY <1>1, StaysInTail
<1>. QED  BY <1>2, <1>3

(* An operation that is dispatched is asked for, whether it waits for its  *)
(* first result or for another.                                            *)
LEMMA DispatchCares ==
    ASSUME TypeOK, NEW u \in Tab, NEW x \in Handle, Dispatch(u, x), UNCHANGED subscribers,
           NEW t \in Tab, NEW h \in Query, h \in ops'[t] \ answered'[t]
    PROVE  /\ \A s \in Tab : ToSet(toHub[s]) \subseteq ToSet(toHub'[s])
           /\ Told("execute", h) \in ToSet(toHub'[t]) \/ h \in ops[t] \ answered[t]
<1>1. Call(u, "execute", x)
  BY DEF Dispatch
<1>2. /\ \A s \in Tab : ToSet(toHub[s]) \subseteq ToSet(toHub'[s])
      /\ Told("execute", x) \in ToSet(toHub'[u])
  BY <1>1, CallIsHeardLast
<1>3. (u = t /\ x = h) \/ h \in ops[t] \ answered[t]
  BY DEF Dispatch, TypeOK
<1>. QED  BY <1>2, <1>3

LEMMA TabTakesCares ==
    ASSUME CareInv, NEW t \in Tab, NEW h \in Query, h \in ops'[t] \ answered'[t],
           h \in ops[t] \ answered[t] => OnItsWay(t, h), NEW u \in Tab, TabTakes(u)
    PROVE  OnItsWay(t, h)'
<1>1. TypeOK /\ h \in Handle /\ UNCHANGED <<working, pending, subscribers>>
  BY InvParts DEF CareInv, Handle, TabTakes, OnResult, OnForward, OnForwardTeardown,
     OnReexecute, hubVars
<1>2. PICK x \in Handle : \/ OnResult(u, x) \/ OnForward(u, x)
                          \/ OnForwardTeardown(u, x) \/ OnReexecute(u, x)
  BY DEF TabTakes
<1>3. PICK type \in {"onResult", "onForward", "onTeardown", "onReexecute"} :
        /\ TakeCallback(u, type, x)
        /\ \A s \in Tab : s # u => fetching'[s] = fetching[s]
        /\ h \in fetching'[u] <=> \/ type = "onForward" /\ h = x
                                  \/ h \in fetching[u] /\ ~(type = "onTeardown" /\ h = x)
        /\ type = "onResult" => OnResult(u, x)
  <2>1. CASE OnResult(u, x)
    <3>1. TakeCallback(u, "onResult", x) /\ fetching' = fetching
      BY <2>1 DEF OnResult
    <3>. QED  BY <2>1, <3>1
  <2>2. CASE OnForward(u, x)
    <3>1. TakeCallback(u, "onForward", x) /\ fetching' = [fetching EXCEPT ![u] = @ \cup {x}]
      BY <2>2 DEF OnForward
    <3>2. fetching'[u] = fetching[u] \cup {x} /\ \A s \in Tab : s # u => fetching'[s] = fetching[s]
      BY <1>1, <3>1 DEF TypeOK
    <3>. QED  BY <3>1, <3>2
  <2>3. CASE OnForwardTeardown(u, x)
    <3>1. TakeCallback(u, "onTeardown", x) /\ fetching' = [fetching EXCEPT ![u] = @ \ {x}]
      BY <2>3 DEF OnForwardTeardown
    <3>2. fetching'[u] = fetching[u] \ {x} /\ \A s \in Tab : s # u => fetching'[s] = fetching[s]
      BY <1>1, <3>1 DEF TypeOK
    <3>. QED  BY <3>1, <3>2
  <2>4. CASE OnReexecute(u, x)
    <3>1. TakeCallback(u, "onReexecute", x) /\ fetching' = fetching
      BY <2>4 DEF OnReexecute
    <3>. QED  BY <3>1
  <2>. QED  BY <1>2, <2>1, <2>2, <2>3, <2>4
<1>4. \A s \in Tab : Carries(s, h)' <=> Carries(s, h)
  <2>1. /\ Told(type, x) = Told("onForward", h) <=> type = "onForward" /\ h = x
        /\ Told(type, x) = Told("onTeardown", h) <=> type = "onTeardown" /\ h = x
    BY DEF Told
  <2>2. h \in fetching'[u] <=>
           \/ Told(type, x) = Told("onForward", h)
           \/ h \in fetching[u] /\ Told(type, x) # Told("onTeardown", h)
    BY <1>3, <2>1
  <2>. QED  BY <1>1, <1>3, <2>2, TakeCallbackKeeps
<1>5. /\ \A s \in Tab : ToSet(toHub[s]) \subseteq ToSet(toHub'[s])
      /\ Told("execute", h) \in ToSet(toHub'[t]) \/ h \in ops[t] \ answered[t]
  <2>1. CASE OnReexecute(u, x) /\ x \in ops[u]
    <3>1. Dispatch(u, x)
      BY <2>1 DEF OnReexecute
    <3>. QED  BY <1>1, <3>1, DispatchCares
  <2>2. CASE OnReexecute(u, x) /\ x \notin ops[u]
    BY <2>2 DEF OnReexecute
  <2>3. CASE OnResult(u, x)
    <3>1. /\ ops' = ops /\ toHub' = toHub
          /\ answered' = [answered EXCEPT ![u] = @ \cup ({x} \cap ops[u])]
      BY <2>3 DEF OnResult
    <3>2. answered[t] \subseteq answered'[t]
      BY <1>1, <3>1 DEF TypeOK
    <3>. QED  BY <3>1, <3>2
  <2>4. CASE OnForward(u, x) \/ OnForwardTeardown(u, x)
    BY <2>4 DEF OnForward, OnForwardTeardown
  <2>. QED  BY <1>2, <2>1, <2>2, <2>3, <2>4
<1>6. Told("onResult", h) \in ToSet(toTab[t]) => Told("onResult", h) \in ToSet(toTab'[t])
  <2>1. ~(u = t /\ type = "onResult" /\ x = h)
    <3>. SUFFICES ASSUME u = t, type = "onResult", x = h PROVE FALSE
      OBVIOUS
    <3>1. answered' = [answered EXCEPT ![t] = @ \cup ({h} \cap ops[t])] /\ ops' = ops
      BY <1>3 DEF OnResult
    <3>2. h \in answered'[t]
      BY <1>1, <3>1 DEF TypeOK
    <3>. QED  BY <3>2
  <2>2. \A s \in Tab : \A m \in ToSet(toTab[s]) :
            (s = u /\ m = Told(type, x)) \/ m \in ToSet(toTab'[s])
    BY <1>1, <1>3, TakingKeepsCallbacks
  <2>3. Told("onResult", h) = Told(type, x) => type = "onResult" /\ x = h
    BY DEF Told
  <2>. QED  BY <2>1, <2>2, <2>3
<1>7. CASE Told("execute", h) \in ToSet(toHub'[t])
  BY <1>7 DEF OnItsWay
<1>8. CASE h \in ops[t] \ answered[t]
  BY <1>1, <1>4, <1>5, <1>6, <1>8, StaysOnItsWay
<1>. QED  BY <1>5, <1>7, <1>8

(* A fetch is over when its result is on its way to the hub.               *)
LEMMA ResolveCares ==
    ASSUME CareInv, NEW t \in Tab, NEW h \in Query, OnItsWay(t, h),
           NEW u \in Tab, NEW x \in Handle, Resolve(u, x)
    PROVE  OnItsWay(t, h)'
<1>1. /\ TypeOK /\ Call(u, "resolve", x) /\ UNCHANGED subscribers
      /\ UNCHANGED <<toTab, working, pending>>
  BY InvParts DEF CareInv, Resolve, hubVars
<1>2. /\ \A s \in Tab : ToSet(toHub[s]) \subseteq ToSet(toHub'[s])
      /\ Told("resolve", x) \in ToSet(toHub'[u])
  BY <1>1, CallIsHeardLast
<1>3. ASSUME NEW s \in Tab, Carries(s, h)
      PROVE  Carries(s, h)' \/ Told("resolve", h) \in ToSet(toHub'[s])
  <2>1. CASE s = u /\ x = h
    BY <1>2, <2>1
  <2>2. CASE ~(s = u /\ x = h)
    <3>1. h \in fetching'[s] <=> h \in fetching[s]
      <4>1. CASE x \in Query
        BY <1>1, <2>2, <4>1 DEF Resolve, TypeOK
      <4>2. CASE x \notin Query
        BY <4>2 DEF Resolve
      <4>. QED  BY <4>1, <4>2
    <3>. QED  BY <1>1, <1>3, <3>1 DEF Carries, CarriesAfter
  <2>. QED  BY <2>1, <2>2
<1>. QED  BY <1>1, <1>2, <1>3, StaysOnItsWay

LEMMA NoQueryIsForgottenStep ==
    CareInv /\ TabsAgree' /\ [Next]_vars => NoQueryIsForgotten'
<1>. SUFFICES ASSUME CareInv, TabsAgree', [Next]_vars, deaths' = 0,
                     NEW t \in Tab, NEW h \in Query, h \in ops'[t] \ answered'[t]
              PROVE  OnItsWay(t, h)'
  BY DEF NoQueryIsForgotten
<1>1. ExchangeInv /\ TypeOK /\ h \in Handle
  BY InvParts DEF CareInv, Handle
<1>2. deaths = 0 /\ h \in ops[t] \ answered[t] => OnItsWay(t, h)
  BY DEF CareInv, NoQueryIsForgotten
<1>3. CASE UNCHANGED vars
  <2>1. UNCHANGED <<deaths, ops, answered, fetching, toHub, toTab, working, pending>>
    BY <1>3 DEF vars, tabVars, hubVars, counters
  <2>. QED  BY <1>2, <2>1 DEF OnItsWay, Carries
<1>4. ASSUME NEW u \in Tab, Connect(u) PROVE OnItsWay(t, h)'
  <2>1. /\ UNCHANGED <<deaths, ops, answered, fetching, toTab, working, pending>>
        /\ toHub[u] = <<>> /\ \A s \in Tab : s # u => toHub'[s] = toHub[s]
    BY <1>1, <1>4, InvParts DEF Connect, hubVars, counters, PortsOK, PortsOf, TypeOK
  <2>2. \A s \in Tab : ToSet(toHub[s]) \subseteq ToSet(toHub'[s])
    <3>1. ToSet(toHub[u]) = {}
      BY <1>1, <2>1, ElementsOfSeq DEF TypeOK
    <3>. QED  BY <2>1, <3>1
  <2>3. \A s \in Tab : Carries(s, h) => Carries(s, h)'
    BY <2>1 DEF Carries
  <2>. QED  BY <1>2, <2>1, <2>2, <2>3, StaysOnItsWay
<1>5. ASSUME NEW u \in Tab, Die(u) PROVE FALSE
  BY <1>1, <1>5 DEF Die, TypeOK
<1>6. ASSUME NEW u \in Tab, OnDisconnectTab(u) PROVE FALSE
  BY <1>6 DEF OnDisconnectTab, counters, CareInv, NoneDied
<1>7. ASSUME NEW u \in Tab, TabTakes(u) PROVE OnItsWay(t, h)'
  <2>1. deaths' = deaths
    BY <1>7 DEF TabTakes, OnResult, OnForward, OnForwardTeardown, OnReexecute, counters
  <2>. QED  BY <1>2, <1>7, <2>1, TabTakesCares
<1>8. ASSUME NEW u \in Tab, OnConnectTab(u) \/ Register(u) PROVE OnItsWay(t, h)'
  <2>1. UNCHANGED <<deaths, ops, answered, fetching, toTab, working, pending>>
    BY <1>8 DEF OnConnectTab, Register, tabVars, hubVars, counters
  <2>2. PICK type \in {"connect", "register"} : Hear(u, type, None)
    BY <1>8 DEF OnConnectTab, Register
  <2>3. \A s \in Tab : \A m \in ToSet(toHub[s]) : m # Told(type, None) => m \in ToSet(toHub'[s])
    BY <1>1, <2>2, HearingKeepsCalls
  <2>4. Told("execute", h) # Told(type, None) /\ Told("resolve", h) # Told(type, None)
    BY <2>2, ToldIsUnique
  <2>5. \A s \in Tab : Carries(s, h) => Carries(s, h)'
    BY <2>1 DEF Carries
  <2>. QED  BY <1>2, <2>1, <2>3, <2>4, <2>5, StaysOnItsWay
<1>9. ASSUME NEW u \in Tab, NEW x \in Handle,
             ExecuteOperation(u, x) \/ TeardownOperation(u, x) \/ ResolveForwarded(u, x)
      PROVE  OnItsWay(t, h)'
  <2>1. UNCHANGED <<deaths, ops, answered>>
    BY <1>9 DEF ExecuteOperation, TeardownOperation, ResolveForwarded, tabVars, counters
  <2>2. deaths = 0 /\ h \in ops[t] /\ OnItsWay(t, h)
    BY <1>2, <2>1
  <2>. QED  BY <1>9, <2>2, ExecuteOperationCares, TeardownOperationCares,
               ResolveForwardedCares
<1>10. ASSUME NEW u \in Tab, NEW x \in Handle, Execute(u, x) PROVE OnItsWay(t, h)'
  <2>1. Dispatch(u, x) /\ UNCHANGED <<deaths, fetching, toTab, working, pending, subscribers>>
    BY <1>10 DEF Execute, hubVars
  <2>2. /\ \A s \in Tab : ToSet(toHub[s]) \subseteq ToSet(toHub'[s])
        /\ Told("execute", h) \in ToSet(toHub'[t]) \/ h \in ops[t] \ answered[t]
    BY <1>1, <2>1, DispatchCares
  <2>3. \A s \in Tab : Carries(s, h) => Carries(s, h)'
    BY <2>1 DEF Carries
  <2>4. CASE Told("execute", h) \in ToSet(toHub'[t])
    BY <2>4 DEF OnItsWay
  <2>5. CASE h \in ops[t] \ answered[t]
    BY <1>2, <2>1, <2>2, <2>3, <2>5, StaysOnItsWay
  <2>. QED  BY <2>2, <2>4, <2>5
<1>11. ASSUME NEW u \in Tab, NEW x \in Handle, Teardown(u, x) PROVE OnItsWay(t, h)'
  <2>1. /\ Call(u, "teardown", x) /\ UNCHANGED <<deaths, fetching, toTab, working, pending>>
        /\ UNCHANGED subscribers
    BY <1>11 DEF Teardown, hubVars, counters
  <2>2. \A s \in Tab : ToSet(toHub[s]) \subseteq ToSet(toHub'[s])
    BY <1>1, <2>1, CallIsHeardLast
  <2>3. h \in ops[t] \ answered[t]
    BY <1>1, <1>11 DEF Teardown, TypeOK
  <2>4. \A s \in Tab : Carries(s, h) => Carries(s, h)'
    BY <2>1 DEF Carries
  <2>. QED  BY <1>2, <2>1, <2>2, <2>3, <2>4, StaysOnItsWay
<1>12. ASSUME NEW u \in Tab, NEW x \in Handle, Resolve(u, x) PROVE OnItsWay(t, h)'
  <2>1. UNCHANGED <<deaths, ops, answered>>
    BY <1>12 DEF Resolve
  <2>. QED  BY <1>2, <1>12, <2>1, ResolveCares
<1>13. ASSUME NEW x \in Handle, Hit(x) \/ Forward(x) PROVE OnItsWay(t, h)'
  <2>1. UNCHANGED <<deaths, ops, answered>>
    BY <1>13 DEF Hit, Forward, tabVars, counters
  <2>2. deaths = 0 /\ h \in ops[t] /\ OnItsWay(t, h)
    BY <1>2, <2>1
  <2>. QED  BY <1>13, <2>2, HitCares, ForwardCares
<1>14. ASSUME NEW x \in Handle, ReexecuteOperation(x) PROVE OnItsWay(t, h)'
  <2>1. /\ UNCHANGED <<deaths, ops, answered, toHub, working, pending>> /\ UNCHANGED fetching
        /\ TabFor(x) # None
    BY <1>14 DEF ReexecuteOperation, tabVars, hubVars
  <2>2. PICK u \in Tab : u = TabFor(x)
    BY <1>1, <2>1, TabForIsRegistered
  <2>3. toTab' = Post(toTab, u, "onReexecute", x)
    BY <1>14, <2>2 DEF ReexecuteOperation
  <2>4. /\ \A s \in Tab : ToSet(toTab[s]) \subseteq ToSet(toTab'[s])
        /\ \A s \in Tab : \A y : Carries(s, y) => Carries(s, y)'
    BY <1>1, <2>1, <2>3, PostCares
  <2>. QED  BY <1>2, <2>1, <2>4, StaysOnItsWay
<1>. QED  BY <1>3, <1>4, <1>5, <1>6, <1>7, <1>8, <1>9, <1>10, <1>11, <1>12, <1>13, <1>14
          DEF Next, HubTakes

LEMMA InitCares == Init => CareInv
<1>. SUFFICES ASSUME Init PROVE CareInv
  OBVIOUS
<1>1. ExchangeInv
  BY InitInv
<1>2. \A t \in Tab, h \in Handle : ~WillSubscribe(t, h)
  BY EmptySeq DEF Init, WillSubscribe, LastSays, ToSet
<1>3. TabsAgree
  BY <1>2 DEF Init, TabsAgree
<1>4. NoneDied /\ ActiveIsUpstream /\ NoQueryIsForgotten
  BY DEF Init, NoneDied, ActiveIsUpstream, NoQueryIsForgotten
<1>. QED  BY <1>1, <1>3, <1>4 DEF CareInv

-----------------------------------------------------------------------------
(* The theorems *)

LEMMA StutterKeepsInv ==
    ASSUME ExchangeInv, UNCHANGED vars
    PROVE  ExchangeInv'
<1>1. TypeOK /\ PortsOK /\ OneUpstream
  BY InvParts
<1>2. /\ SetsOK' /\ (\A h \in Handle : BooksAgreeOn(h)') /\ EntersOnce'
      /\ \A t \in Tab : Registered(t)' <=> Registered(t)
  BY HubUnchanged DEF vars
<1>3. TypeOK'
  BY <1>1 DEF TypeOK, vars, tabVars, hubVars, counters
<1>4. UNCHANGED <<alive, fetching, toHub, toTab, spokes, subscribers, forwarding>>
  BY DEF vars, tabVars, hubVars
<1>5. PortsOK'
  BY <1>1, <1>4 DEF PortsOK, PortsOf, Registered
<1>6. OneUpstream'
  BY <1>1, <1>4, SameUpstream DEF Carries
<1>. QED  BY <1>2, <1>3, <1>5, <1>6, InvParts DEF ExchangeInv, BooksAgree

LEMMA NextKeepsInv == ExchangeInv /\ [Next]_vars => ExchangeInv'
<1>. SUFFICES ASSUME ExchangeInv, [Next]_vars PROVE ExchangeInv'
  OBVIOUS
<1>1. CASE UNCHANGED vars
  BY <1>1, StutterKeepsInv
<1>2. ASSUME NEW t \in Tab, Connect(t) \/ Die(t) \/ OnDisconnectTab(t) PROVE ExchangeInv'
  BY <1>2, ConnectKeepsInv, DieKeepsInv, OnDisconnectTabKeepsInv
<1>3. ASSUME NEW t \in Tab, TabTakes(t) PROVE ExchangeInv'
  <2>1. PICK h \in Handle : \/ OnResult(t, h) \/ OnForward(t, h)
                            \/ OnForwardTeardown(t, h) \/ OnReexecute(t, h)
    BY <1>3 DEF TabTakes
  <2>. QED  BY <2>1, TabTakesKeepsInv, OnReexecuteKeepsInv
<1>4. ASSUME NEW t \in Tab, HubTakes(t) PROVE ExchangeInv'
  <2>1. CASE OnConnectTab(t) \/ Register(t)
    BY <2>1, OnConnectTabKeepsInv, RegisterKeepsInv
  <2>2. ASSUME NEW h \in Handle, \/ ExecuteOperation(t, h) \/ TeardownOperation(t, h)
                                 \/ ResolveForwarded(t, h)
        PROVE  ExchangeInv'
    BY <2>2, ExecuteOperationKeepsInv, TeardownOperationKeepsInv,
       ResolveForwardedKeepsInv
  <2>. QED  BY <1>4, <2>1, <2>2 DEF HubTakes
<1>5. ASSUME NEW t \in Tab, NEW h \in Handle, Execute(t, h) \/ Teardown(t, h) \/ Resolve(t, h)
      PROVE  ExchangeInv'
  BY <1>5, ExecuteKeepsInv, TeardownKeepsInv, ResolveKeepsInv
<1>6. ASSUME NEW h \in Handle, Hit(h) \/ Forward(h) \/ ReexecuteOperation(h)
      PROVE  ExchangeInv'
  BY <1>6, HitKeepsInv, ForwardKeepsInv, ReexecuteOperationKeepsInv
<1>. QED  BY <1>1, <1>2, <1>3, <1>4, <1>5, <1>6 DEF Next

LEMMA InvHolds == Spec => []ExchangeInv
BY InitInv, NextKeepsInv, PTL DEF Spec

(* The maps of SharedExchangeService agree after every message, teardown   *)
(* and death of a tab, and nothing is left of an operation that nobody     *)
(* subscribes to any more.                                                 *)
THEOREM BooksOfTheHubAgree == Spec => []BooksAgree
<1>1. ExchangeInv => BooksAgree
  BY DEF ExchangeInv
<1>. QED  BY <1>1, InvHolds, PTL

(* A subscription is fetched by one living tab at most, the one the hub    *)
(* takes for it, and that one is a subscriber: with the forwards and the   *)
(* teardowns that are still on their way to the tabs, for any number of    *)
(* tabs that join, leave and die.                                          *)
THEOREM OneTabFetches == Spec => []OneUpstream
<1>1. ExchangeInv => OneUpstream
  BY DEF ExchangeInv
<1>. QED  BY <1>1, InvHolds, PTL

LEMMA CareHolds == Spec => []CareInv
<1>1. CareInv /\ [Next]_vars => CareInv'
  <2>. SUFFICES ASSUME CareInv, [Next]_vars PROVE CareInv'
    OBVIOUS
  <2>1. ExchangeInv' /\ TabsAgree' /\ ActiveIsUpstream'
    BY NextKeepsInv, TabsAgreeStep, ActiveIsUpstreamStep DEF CareInv
  <2>2. NoneDied'
    BY NoneDiedStep, InvParts DEF CareInv
  <2>3. NoQueryIsForgotten'
    BY <2>1, NoQueryIsForgottenStep
  <2>. QED  BY <2>1, <2>2, <2>3 DEF CareInv
<1>. QED  BY <1>1, InitCares, PTL DEF Spec

(* While no tab has died, a query that a tab waits for is asked for, or    *)
(* inside the wrapped exchange, or fetched by a tab, or its result is on   *)
(* its way: however tabs share queries, leave them, ask for them again and *)
(* are answered, no message and no Map entry that a tab depends on is      *)
(* dropped.                                                                *)
THEOREM QueriesAreOnTheirWay == Spec => []NoQueryIsForgotten
<1>1. CareInv => NoQueryIsForgotten
  BY DEF CareInv
<1>. QED  BY <1>1, CareHolds, PTL

(* A subscription that a living tab is with is asked for, or inside the    *)
(* wrapped exchange, or the hub takes a tab for it, which fetches it then  *)
(* (OneTabFetches): whoever leaves or dies, no teardown ends it for those  *)
(* that stay.                                                              *)
THEOREM SubscriptionsHaveATab == Spec => []NoSubscriptionIsForgotten
<1>1. CareInv => NoSubscriptionIsForgotten
  <2>. SUFFICES ASSUME CareInv, NEW t \in Tab, NEW h \in Subscription,
                       alive[t] = "alive", h \in ops[t]
                PROVE  \/ Told("execute", h) \in ToSet(toHub[t])
                       \/ working[h] > 0
                       \/ forwarding[h] # None
    BY DEF NoSubscriptionIsForgotten
  <2>1. TypeOK /\ h \in Handle /\ BooksAgreeOn(h) /\ TabsAgree /\ ActiveIsUpstream
    BY InvParts DEF CareInv, Handle
  <2>2. CASE t \in ToSet(subscribers[h])
    <3>1. subscribers[h] # <<>>
      BY <2>1, <2>2, ElementsOfSeq DEF TypeOK
    <3>2. h \in active
      BY <2>1, <3>1 DEF BooksAgreeOn
    <3>. QED  BY <2>1, <3>2 DEF ActiveIsUpstream, BooksAgreeOn
  <2>. QED  BY <2>1, <2>2, AskedOrSubscribed
<1>. QED  BY <1>1, CareHolds, PTL

=============================================================================
