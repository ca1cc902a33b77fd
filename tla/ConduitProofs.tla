---------------------------- MODULE ConduitProofs ----------------------------
(***************************************************************************)
(* Proofs about module Conduit, for any set of pages and callbacks, any    *)
(* number of calls and departures, and any clock.                          *)
(***************************************************************************)
EXTENDS Conduit, TLAPS, SequenceTheorems, WellFoundedInduction

-----------------------------------------------------------------------------
(* Ports.                                                                  *)

LEMMA SeqIndex ==
    ASSUME NEW S, NEW s \in Seq(S)
    PROVE  Len(s) \in Nat /\ DOMAIN s = 1 .. Len(s) /\ \A i \in DOMAIN s : s[i] \in S
BY LenProperties, ElementOfSeq

LEMMA ItemsType ==
    ASSUME NEW S, NEW s \in Seq(S)
    PROVE  Items(s) \subseteq S
BY SeqIndex DEF Items

LEMMA ItemsEmpty == Items(<<>>) = {}
BY DEF Items

LEMMA ItemsAppend ==
    ASSUME NEW S, NEW s \in Seq(S), NEW e \in S
    PROVE  Items(Append(s, e)) = Items(s) \cup {e}
<1>1. /\ Append(s, e) \in Seq(S) /\ Len(Append(s, e)) = Len(s) + 1
      /\ \A i \in 1 .. Len(s) : Append(s, e)[i] = s[i]
      /\ Append(s, e)[Len(s) + 1] = e
  BY AppendProperties
<1>2. /\ Len(s) \in Nat /\ DOMAIN s = 1 .. Len(s)
      /\ DOMAIN Append(s, e) = 1 .. Len(s) + 1
  BY <1>1, SeqIndex
<1>3. QED
  BY <1>1, <1>2 DEF Items

LEMMA ItemsConcat ==
    ASSUME NEW S, NEW s \in Seq(S), NEW r \in Seq(S)
    PROVE  Items(s \o r) = Items(s) \cup Items(r)
<1>1. /\ s \o r \in Seq(S) /\ Len(s \o r) = Len(s) + Len(r)
      /\ \A i \in 1 .. Len(s) + Len(r) : (s \o r)[i] =
            IF i <= Len(s) THEN s[i] ELSE r[i - Len(s)]
  BY ConcatProperties
<1>2. /\ Len(s) \in Nat /\ DOMAIN s = 1 .. Len(s)
      /\ Len(r) \in Nat /\ DOMAIN r = 1 .. Len(r)
      /\ DOMAIN (s \o r) = 1 .. Len(s) + Len(r)
  BY <1>1, SeqIndex
<1>3. ASSUME NEW i \in DOMAIN r
      PROVE  r[i] \in Items(s \o r)
  <2>1. Len(s) + i \in DOMAIN (s \o r) /\ (s \o r)[Len(s) + i] = r[i]
    BY <1>1, <1>2
  <2>2. QED
    BY <2>1 DEF Items
<1>4. ASSUME NEW i \in DOMAIN s
      PROVE  s[i] \in Items(s \o r)
  <2>1. i \in DOMAIN (s \o r) /\ (s \o r)[i] = s[i]
    BY <1>1, <1>2
  <2>2. QED
    BY <2>1 DEF Items
<1>5. ASSUME NEW i \in DOMAIN (s \o r)
      PROVE  (s \o r)[i] \in Items(s) \cup Items(r)
  <2>1. \/ i \in DOMAIN s /\ (s \o r)[i] = s[i]
        \/ i - Len(s) \in DOMAIN r /\ (s \o r)[i] = r[i - Len(s)]
    BY <1>1, <1>2
  <2>2. QED
    BY <2>1 DEF Items
<1>6. QED
  BY <1>3, <1>4, <1>5 DEF Items

LEMMA TailIndex ==
    ASSUME NEW S, NEW s \in Seq(S), s # <<>>
    PROVE  /\ Tail(s) \in Seq(S) /\ Head(s) \in S /\ Head(s) = s[1] /\ 1 \in DOMAIN s
           /\ \A i \in DOMAIN Tail(s) : i + 1 \in DOMAIN s /\ Tail(s)[i] = s[i + 1]
           /\ Items(s) = {Head(s)} \cup Items(Tail(s))
<1>1. /\ Head(s) \in S /\ Tail(s) \in Seq(S) /\ Len(Tail(s)) = Len(s) - 1
      /\ \A i \in 1 .. Len(Tail(s)) : Tail(s)[i] = s[i + 1]
  BY HeadTailProperties
<1>2. /\ Len(s) \in Nat \ {0} /\ DOMAIN s = 1 .. Len(s)
      /\ DOMAIN Tail(s) = 1 .. Len(s) - 1
  BY <1>1, SeqIndex, EmptySeq
<1>3. Head(s) = s[1]
  OBVIOUS
<1>4. ASSUME NEW i \in DOMAIN s
      PROVE  s[i] \in {Head(s)} \cup Items(Tail(s))
  <2>1. i = 1 \/ (i - 1 \in DOMAIN Tail(s) /\ Tail(s)[i - 1] = s[i])
    BY <1>1, <1>2
  <2>2. QED
    BY <1>3, <2>1 DEF Items
<1>5. \A i \in DOMAIN Tail(s) : i + 1 \in DOMAIN s /\ Tail(s)[i] = s[i + 1]
  BY <1>1, <1>2
<1>6. 1 \in DOMAIN s
  BY <1>2
<1>7. QED
  BY <1>1, <1>3, <1>4, <1>5, <1>6 DEF Items

-----------------------------------------------------------------------------
(* The invariant.                                                          *)

(* A page registers once: its envelope is on its port, then it has a       *)
(* position in the Map, and its id never comes back.                       *)
PageOK(t) ==
    /\ \A i, j \in DOMAIN toShared[t] :
          toShared[t][i] = "register" /\ toShared[t][j] = "register" => i = j
    /\ page[t] \in {"absent", "starting"} \/ position[t] # 0 =>
          "register" \notin Items(toShared[t])
    /\ page[t] \in {"absent", "starting"} => position[t] = 0
    /\ t \in tabs => position[t] # 0

(* Nothing is sent to a worker before its tab leads.                       *)
Unled(t) == t # leader /\ (t \in tabs \/ position[t] = 0)
WorkerOK(t) ==
    Unled(t) => /\ toWorker[t] = <<>> /\ running[t] = {} /\ replies[t] = {}
                /\ t \notin elected /\ installed[t] = {}

(* Where a call is between the broker and its promise: on the port of a    *)
(* worker, in the worker, or in an answer; at most in one of them, and it  *)
(* has run exactly from the second on.                                     *)
Posted(t, c) == c \in Items(toWorker[t])
Replied(t, c) == \E outcome \in Outcome : <<c, outcome>> \in replies[t]
At(t, c) == Posted(t, c) \/ c \in running[t] \/ Replied(t, c)

SentOnce(c) ==
    /\ \A t, u \in Tab : At(t, c) /\ At(u, c) => t = u
    /\ \A t \in Tab :
          /\ \A i, j \in DOMAIN toWorker[t] :
                toWorker[t][i] = c /\ toWorker[t][j] = c => i = j
          /\ Posted(t, c) => ran[c] = 0
          /\ c \in running[t] \/ Replied(t, c) => ran[c] = 1
          /\ ~ (c \in running[t] /\ Replied(t, c))
          /\ \A o, p \in Outcome :
                <<c, o>> \in replies[t] /\ <<c, p>> \in replies[t] => o = p
          /\ At(t, c) => call[c] \notin {"idle", "pending"}
          /\ At(t, c) /\ t = leader => c \in inflight[t]
    /\ ran[c] \in {0, 1}
    /\ call[c] \in {"idle", "pending"} => ran[c] = 0

CallOK(c) ==
    /\ call[c] = "idle" <=> c > made
    /\ needs[c] \subseteq Items(fns)

(* The port of the leader has, or has delivered, the election and every    *)
(* callback.                                                               *)
LeaderOK ==
    leader # Null =>
        /\ leader \in elected \/ Elected \in Items(toWorker[leader])
        /\ Items(fns) \subseteq installed[leader] \cup Items(toWorker[leader])

ConduitInv ==
    /\ TypeOK /\ NoCallLost /\ PortOrder /\ LeaderOK
    /\ \A t \in Tab : PageOK(t) /\ WorkerOK(t)
    /\ \A c \in Call : SentOnce(c) /\ CallOK(c)

-----------------------------------------------------------------------------
(* The election.                                                           *)

(* registeredAt is bounded, so some tab has the largest one, and of those  *)
(* one has the least position: the CHOOSE of NextLeader picks a tab.       *)
LEMMA NextLeaderExists ==
    ASSUME TypeOK, NEW S \in SUBSET Tab, S # {}
    PROVE  NextLeader(S) \in S
<1> DEFINE R == OpToRel(<, Nat)
           T == {MaxClock - registeredAt[t] : t \in S}
<1>1. IsWellFoundedOn(R, Nat)
  BY NatLessThanWellFounded
<1>2. T \subseteq Nat /\ T # {}
  <2>1. \A t \in S : registeredAt[t] \in 0 .. MaxClock
    BY DEF TypeOK
  <2>2. MaxClock \in Nat
    BY ConstantsAssumption
  <2>3. \A t \in S : MaxClock - registeredAt[t] \in Nat
    BY <2>1, <2>2
  <2>4. QED
    BY <2>3
<1> HIDE DEF R
<1>3. PICK x \in T : \A y \in T : ~ (<<y, x>> \in R)
  BY <1>1, <1>2, WFMin
<1>4. PICK late \in S : x = MaxClock - registeredAt[late]
  OBVIOUS
<1>5. \A u \in S : registeredAt[u] <= registeredAt[late]
  <2> SUFFICES ASSUME NEW u \in S
               PROVE  registeredAt[u] <= registeredAt[late]
    OBVIOUS
  <2> DEFINE y == MaxClock - registeredAt[u]
  <2>1. y \in T /\ y \in Nat /\ x \in Nat
    BY <1>2
  <2>2. ~ (y < x)
    BY <1>3, <2>1 DEF R, OpToRel
  <2>3. registeredAt[u] \in Nat /\ registeredAt[late] \in Nat /\ MaxClock \in Nat
    BY ConstantsAssumption DEF TypeOK
  <2>4. QED
    BY <1>4, <2>2, <2>3
<1> DEFINE L == {t \in S : registeredAt[t] = registeredAt[late]}
           P == {position[t] : t \in L}
<1>6. P \subseteq Nat /\ P # {}
  <2>1. late \in L
    OBVIOUS
  <2>2. \A t \in S : position[t] \in Nat
    BY DEF TypeOK
  <2>3. QED
    BY <2>1, <2>2
<1>7. PICK z \in P : \A y \in P : ~ (<<y, z>> \in R)
  BY <1>1, <1>6, WFMin
<1>8. PICK t \in L : z = position[t]
  OBVIOUS
<1>9. \A u \in S : \/ registeredAt[u] < registeredAt[t]
                   \/ registeredAt[u] = registeredAt[t] /\ position[t] <= position[u]
  <2> SUFFICES ASSUME NEW u \in S, ~ (registeredAt[u] < registeredAt[t])
               PROVE  registeredAt[u] = registeredAt[t] /\ position[t] <= position[u]
    OBVIOUS
  <2>1. /\ registeredAt[u] \in Nat /\ registeredAt[late] \in Nat
        /\ position[u] \in Nat /\ position[t] \in Nat
    BY DEF TypeOK
  <2>2. registeredAt[u] = registeredAt[t]
    BY <1>5, <2>1
  <2>3. position[u] \in P
    BY <2>2
  <2>4. ~ (position[u] < position[t])
    BY <1>7, <1>8, <2>1, <2>3 DEF R, OpToRel
  <2>5. QED
    BY <2>1, <2>2, <2>4
<1>10. QED
  BY <1>9 DEF NextLeader

(* What the port of a worker holds once its tab is promoted: the election, *)
(* the callbacks, the calls, in this order and each call once.             *)
LEMMA PromotedPort ==
    ASSUME fns \in Seq(Callback), pending \in Seq(Call),
           \A i, j \in DOMAIN pending : i < j => pending[i] < pending[j],
           NEW w, w = <<>> \o <<Elected>> \o fns \o pending
    PROVE  /\ w \in Seq(Message)
           /\ Items(w) = {Elected} \cup Items(fns) \cup Items(pending)
           /\ \A i \in DOMAIN w :
                 LET before == {w[j] : j \in 1 .. (i - 1)}
                 IN  /\ w[i] # Elected => Elected \in before
                     /\ w[i] \in Call => /\ Items(fns) \subseteq before
                                         /\ \A c \in before \cap Call : c < w[i]
           /\ \A i, j \in DOMAIN w : w[i] = w[j] /\ w[i] \in Call => i = j
<1> DEFINE n == Len(fns)
           k == Len(pending)
           h == <<Elected>> \o fns
<1>1. /\ <<Elected>> \in Seq(Message) /\ fns \in Seq(Message) /\ pending \in Seq(Message)
      /\ Len(<<Elected>>) = 1 /\ <<Elected>>[1] = Elected /\ Items(<<Elected>>) = {Elected}
  BY SeqMonotonic DEF Message, Items
<1>0. \A s, r \in Seq(Message) : Items(s \o r) = Items(s) \cup Items(r)
  BY ItemsConcat
<1>2. <<>> \o <<Elected>> = <<Elected>>
  BY <1>1, ConcatEmptySeq
<1>3. /\ n \in Nat /\ DOMAIN fns = 1 .. n /\ \A i \in 1 .. n : fns[i] \in Callback
      /\ k \in Nat /\ DOMAIN pending = 1 .. k /\ \A i \in 1 .. k : pending[i] \in Call
  BY SeqIndex
<1>4. /\ h \in Seq(Message) /\ Len(h) = 1 + n
      /\ \A i \in 1 .. 1 + n : h[i] = IF i <= 1 THEN <<Elected>>[i] ELSE fns[i - 1]
      /\ Items(h) = {Elected} \cup Items(fns)
  <2>1. /\ h \in Seq(Message) /\ Len(h) = Len(<<Elected>>) + Len(fns)
        /\ \A i \in 1 .. Len(<<Elected>>) + Len(fns) : h[i] =
              IF i <= Len(<<Elected>>) THEN <<Elected>>[i] ELSE fns[i - Len(<<Elected>>)]
    BY <1>1, ConcatProperties
  <2>2. Items(h) = Items(<<Elected>>) \cup Items(fns)
    BY <1>0, <1>1
  <2>3. QED
    BY <1>1, <2>1, <2>2
<1>5. w = h \o pending
  BY <1>2
<1> HIDE DEF h, n, k
<1>6. /\ w \in Seq(Message) /\ Len(w) = 1 + n + k
      /\ \A i \in 1 .. 1 + n + k : w[i] = IF i <= 1 + n THEN h[i] ELSE pending[i - (1 + n)]
  <2>1. /\ h \o pending \in Seq(Message) /\ Len(h \o pending) = Len(h) + Len(pending)
        /\ \A i \in 1 .. Len(h) + Len(pending) : (h \o pending)[i] =
              IF i <= Len(h) THEN h[i] ELSE pending[i - Len(h)]
    <3>1. h \in Seq(Message) /\ pending \in Seq(Message)
      BY <1>1, <1>4
    <3>2. QED
      BY <3>1, ConcatProperties
  <2>2. QED
    BY <1>4, <1>5, <2>1 DEF k
<1>7. Items(w) = {Elected} \cup Items(fns) \cup Items(pending)
  <2>1. Items(w) = Items(h) \cup Items(pending)
    BY <1>0, <1>1, <1>4, <1>5
  <2>2. QED
    BY <1>4, <2>1
<1>8. DOMAIN w = 1 .. 1 + n + k
  BY <1>6, SeqIndex
<1>9. /\ w[1] = Elected
      /\ \A i \in 1 .. n : w[1 + i] = fns[i]
      /\ \A i \in 1 .. k : w[1 + n + i] = pending[i]
  BY <1>1, <1>3, <1>4, <1>6
<1>10. \A i \in DOMAIN w : \/ i = 1
                           \/ i \in 2 .. 1 + n /\ w[i] = fns[i - 1] /\ i - 1 \in 1 .. n
                           \/ /\ i \in 2 + n .. 1 + n + k
                              /\ w[i] = pending[i - (1 + n)] /\ i - (1 + n) \in 1 .. k
  BY <1>1, <1>3, <1>4, <1>6, <1>8
<1>11. \A i \in DOMAIN w : w[i] \in Call => /\ i \in 2 + n .. 1 + n + k
                                            /\ w[i] = pending[i - (1 + n)]
                                            /\ i - (1 + n) \in 1 .. k
  BY <1>3, <1>9, <1>10, ConstantsAssumption
<1>12. ASSUME NEW i \in DOMAIN w, NEW j \in DOMAIN w, w[i] \in Call, w[j] \in Call, i < j
       PROVE  w[i] < w[j]
  <2>1. i - (1 + n) < j - (1 + n)
    BY <1>3, <1>8, <1>12
  <2>2. QED
    BY <1>3, <1>11, <1>12, <2>1
<1>13. ASSUME NEW i \in DOMAIN w, w[i] # Elected
       PROVE  Elected \in {w[j] : j \in 1 .. (i - 1)}
  <2>1. 1 \in 1 .. (i - 1)
    BY <1>3, <1>8, <1>9, <1>13
  <2>2. QED
    BY <1>9, <2>1
<1>14. ASSUME NEW i \in DOMAIN w, w[i] \in Call
       PROVE  /\ Items(fns) \subseteq {w[j] : j \in 1 .. (i - 1)}
              /\ \A c \in {w[j] : j \in 1 .. (i - 1)} \cap Call : c < w[i]
  <2>1. ASSUME NEW j \in 1 .. n
        PROVE  fns[j] \in {w[x] : x \in 1 .. (i - 1)}
    <3>1. 1 + j \in 1 .. (i - 1)
      BY <1>3, <1>11, <1>14
    <3>2. QED
      BY <1>9, <3>1
  <2>2. ASSUME NEW j \in 1 .. (i - 1), w[j] \in Call
        PROVE  w[j] < w[i]
    <3>1. j \in DOMAIN w /\ j < i
      BY <1>3, <1>8
    <3>2. QED
      BY <1>12, <1>14, <2>2, <3>1
  <2>3. QED
    BY <1>3, <2>1, <2>2 DEF Items
<1>15. ASSUME NEW i \in DOMAIN w, NEW j \in DOMAIN w, w[i] = w[j], w[i] \in Call
       PROVE  i = j
  <2>1. w[i] \in Nat /\ i \in Nat /\ j \in Nat
    <3>1. w[i] \in Nat
      <4>1. w[i] \in 1 .. MaxCalls /\ MaxCalls \in Nat
        BY <1>15, ConstantsAssumption DEF Call
      <4>2. QED
        BY <4>1
    <3>2. QED
      BY <1>3, <1>8, <3>1
  <2>2. ~ (i < j) /\ ~ (j < i)
    <3>1. ~ (w[i] < w[j]) /\ ~ (w[j] < w[i])
      BY <1>15, <2>1
    <3>2. QED
      BY <1>12, <1>15, <3>1
  <2>3. QED
    BY <2>1, <2>2
<1>16. QED
  BY <1>6, <1>7, <1>13, <1>14, <1>15

-----------------------------------------------------------------------------
(* The pages.                                                              *)

LEMMA SentOnceKept ==
    ASSUME NEW c \in Call, SentOnce(c),
           UNCHANGED <<toWorker, running, replies, ran, call, leader, inflight>>
    PROVE  SentOnce(c)'
<1>1. \A u \in Tab : /\ Posted(u, c)' <=> Posted(u, c)
                     /\ Replied(u, c)' <=> Replied(u, c)
  BY DEF Posted, Replied
<1>2. \A u \in Tab : At(u, c)' <=> At(u, c)
  BY <1>1 DEF At
<1>3. QED
  BY <1>1, <1>2 DEF SentOnce

LEMMA PageSteps ==
    ASSUME ConduitInv, NEW t \in Tab, Start(t) \/ PostRegister(t) \/ Leave(t) \/ Die(t)
    PROVE  ConduitInv'
<1> USE DEF pageVars, mapVars, callVars, bridgeVars, workerVars
<1>1. UNCHANGED <<mapVars, leader, callVars, made, bridgeVars, needs, toWorker, workerVars>>
  BY DEF Start, PostRegister, Leave, Die
<1>2. /\ NoCallLost' /\ PortOrder' /\ LeaderOK'
      /\ \A u \in Tab : WorkerOK(u)'
      /\ \A c \in Call : SentOnce(c)' /\ CallOK(c)'
  <2>1. NoCallLost' /\ LeaderOK'
    BY <1>1 DEF ConduitInv, NoCallLost, LeaderOK
  <2>2. PortOrder'
    BY <1>1 DEF ConduitInv, PortOrder
  <2>3. \A u \in Tab : WorkerOK(u)'
    BY <1>1 DEF ConduitInv, WorkerOK, Unled
  <2>4. \A c \in Call : SentOnce(c)'
    BY <1>1, SentOnceKept DEF ConduitInv
  <2>5. \A c \in Call : CallOK(c)'
    BY <1>1 DEF ConduitInv, CallOK
  <2>6. QED
    BY <2>1, <2>2, <2>3, <2>4, <2>5
<1>3. /\ page' \in [Tab -> {"absent", "starting", "open", "gone"}]
      /\ toShared' \in [Tab -> Seq(Envelope)]
      /\ leaves' \in Nat
      /\ \A u \in Tab \ {t} : page'[u] = page[u] /\ toShared'[u] = toShared[u]
  <2>1. TypeOK
    BY DEF ConduitInv
  <2>2. "register" \in Envelope /\ "unregister" \in Envelope
    BY DEF Envelope
  <2>3. \A e \in Envelope : Append(toShared[t], e) \in Seq(Envelope)
    BY <2>1 DEF TypeOK
  <2>4. CASE Start(t) \/ Die(t)
    BY <2>1, <2>4 DEF TypeOK, Start, Die
  <2>5. CASE PostRegister(t)
    BY <2>1, <2>2, <2>3, <2>5 DEF TypeOK, PostRegister
  <2>6. CASE Leave(t)
    <3>1. /\ toShared' = [toShared EXCEPT ![t] = Append(@, "unregister")]
          /\ page' = page /\ leaves' = leaves + 1
      BY <2>6 DEF Leave
    <3>2. /\ toShared \in [Tab -> Seq(Envelope)] /\ leaves \in Nat
          /\ page \in [Tab -> {"absent", "starting", "open", "gone"}]
      BY <2>1 DEF TypeOK
    <3>3. toShared' \in [Tab -> Seq(Envelope)]
      BY <2>2, <2>3, <3>1, <3>2
    <3>4. \A u \in Tab \ {t} : toShared'[u] = toShared[u]
      BY <3>1, <3>2
    <3>5. QED
      BY <3>1, <3>2, <3>3, <3>4
  <2>7. QED
    BY <2>4, <2>5, <2>6
<1>4. TypeOK'
  BY <1>1, <1>3 DEF ConduitInv, TypeOK
<1>5. PageOK(t)'
  <2>1. /\ toShared[t] \in Seq(Envelope)
        /\ "register" \in Envelope /\ "unregister" \in Envelope
        /\ PageOK(t)
    BY DEF ConduitInv, TypeOK, Envelope
  <2>2. CASE Start(t) \/ Die(t)
    <3>1. toShared' = toShared /\ tabs' = tabs /\ position' = position
      BY <1>1, <2>2 DEF Start, Die
    <3>2. (page[t] = "absent" /\ page'[t] = "starting") \/ page'[t] = "gone"
      BY <2>2 DEF Start, Die, ConduitInv, TypeOK
    <3>3. QED
      BY <2>1, <3>1, <3>2 DEF PageOK
  <2>3. CASE PostRegister(t)
    <3>1. /\ page[t] = "starting" /\ page'[t] = "open"
          /\ toShared'[t] = Append(toShared[t], "register")
          /\ tabs' = tabs /\ position' = position
      BY <1>1, <2>3 DEF PostRegister, ConduitInv, TypeOK
    <3>2. "register" \notin Items(toShared[t]) /\ position[t] = 0 /\ t \notin tabs
      BY <2>1, <3>1 DEF PageOK
    <3>3. \A i, j \in DOMAIN toShared'[t] :
              toShared'[t][i] = "register" /\ toShared'[t][j] = "register" => i = j
      BY <2>1, <3>1, <3>2, AppendProperties, SeqIndex DEF Items
    <3>4. QED
      BY <3>1, <3>2, <3>3 DEF PageOK
  <2>4. CASE Leave(t)
    <3>1. /\ page' = page /\ page[t] \in {"starting", "open"}
          /\ toShared'[t] = Append(toShared[t], "unregister")
          /\ tabs' = tabs /\ position' = position
      BY <1>1, <2>4 DEF Leave, Alive, ConduitInv, TypeOK
    <3>2. Items(toShared'[t]) = Items(toShared[t]) \cup {"unregister"}
      BY <2>1, <3>1, ItemsAppend
    <3>3. \A i, j \in DOMAIN toShared'[t] :
              toShared'[t][i] = "register" /\ toShared'[t][j] = "register" => i = j
      <4>1. \A i \in DOMAIN toShared'[t] : toShared'[t][i] = "register" =>
                i \in DOMAIN toShared[t] /\ toShared[t][i] = "register"
        BY <2>1, <3>1, AppendProperties, SeqIndex
      <4>2. QED
        BY <2>1, <4>1 DEF PageOK
    <3>4. QED
      BY <2>1, <3>1, <3>2, <3>3 DEF PageOK
  <2>5. QED
    BY <2>2, <2>3, <2>4
<1>6. \A u \in Tab \ {t} : PageOK(u)'
  BY <1>1, <1>3 DEF ConduitInv, PageOK
<1>7. QED
  BY <1>2, <1>4, <1>5, <1>6 DEF ConduitInv

-----------------------------------------------------------------------------
(* The broker.                                                             *)

(* A page nothing was sent to yet is promoted: the promises and in-flight  *)
(* sets are as the caller of _promote leaves them, with nothing in flight. *)
LEMMA Promotion ==
    ASSUME ConduitInv, NEW n \in Tab, Unled(n), n \in tabs', tabs' \subseteq Tab,
           NEW promises \in [Call -> {"idle", "pending", "inflight"} \cup Settled],
           NEW sent \in [Tab -> SUBSET Call],
           \A t \in Tab : sent[t] = {},
           \A c \in Call : /\ promises[c] # "inflight"
                           /\ promises[c] = "pending" <=> call[c] = "pending"
                           /\ promises[c] = "idle" <=> call[c] = "idle",
           Promote(n, promises, sent),
           \A t \in Tab \ {n} : Unled(t)' => Unled(t),
           UNCHANGED <<made, fns, needs, workerVars>>
    PROVE  /\ leader' \in Tab \cup {Null} /\ remoteBridge' \in Tab \cup {Null}
           /\ pending' \in Seq(Call) /\ inflight' \in [Tab -> SUBSET Call]
           /\ call' \in [Call -> {"idle", "pending", "inflight"} \cup Settled]
           /\ toWorker' \in [Tab -> Seq(Message)]
           /\ NoCallLost' /\ PortOrder' /\ LeaderOK'
           /\ \A t \in Tab : WorkerOK(t)'
           /\ \A c \in Call : SentOnce(c)' /\ CallOK(c)'
<1> USE DEF workerVars
<1>1. /\ toWorker[n] = <<>> /\ running[n] = {} /\ replies[n] = {}
      /\ n \notin elected /\ installed[n] = {}
  BY DEF ConduitInv, WorkerOK
<1>2. /\ fns \in Seq(Callback) /\ pending \in Seq(Call)
      /\ toWorker \in [Tab -> Seq(Message)]
      /\ \A i, j \in DOMAIN pending : i < j => pending[i] < pending[j]
      /\ Items(pending) \subseteq Call
  BY ItemsType DEF ConduitInv, TypeOK, PortOrder
<1>3. /\ leader' = n /\ remoteBridge' = n /\ pending' = <<>>
      /\ toWorker'[n] = <<>> \o <<Elected>> \o fns \o pending
      /\ inflight'[n] = Items(pending)
      /\ \A t \in Tab \ {n} : inflight'[t] = {}
      /\ \A c \in Call :
            call'[c] = IF c \in Items(pending) THEN "inflight" ELSE promises[c]
  BY <1>1, <1>2 DEF Promote, Replay
<1>4. /\ toWorker' = [toWorker EXCEPT ![n] = toWorker'[n]]
      /\ inflight' = [sent EXCEPT ![n] = Items(pending)]
      /\ \A t \in Tab \ {n} : toWorker'[t] = toWorker[t]
  BY <1>1, <1>2, <1>3 DEF Promote, Replay
<1> DEFINE w == toWorker'[n]
<1>5. /\ w \in Seq(Message)
      /\ Items(w) = {Elected} \cup Items(fns) \cup Items(pending)
      /\ \A i \in DOMAIN w :
            LET before == {w[j] : j \in 1 .. (i - 1)}
            IN  /\ w[i] # Elected => Elected \in before
                /\ w[i] \in Call => /\ Items(fns) \subseteq before
                                    /\ \A c \in before \cap Call : c < w[i]
      /\ \A i, j \in DOMAIN w : w[i] = w[j] /\ w[i] \in Call => i = j
  BY <1>2, <1>3, PromotedPort
<1>6. /\ leader' \in Tab \cup {Null} /\ remoteBridge' \in Tab \cup {Null}
      /\ pending' \in Seq(Call) /\ inflight' \in [Tab -> SUBSET Call]
      /\ toWorker' \in [Tab -> Seq(Message)]
  <2>1. <<>> \in Seq(Call)
    OBVIOUS
  <2>2. QED
    BY <1>2, <1>3, <1>4, <1>5, <2>1
<1>7. call' \in [Call -> {"idle", "pending", "inflight"} \cup Settled]
  BY DEF Promote
<1> HIDE DEF w
<1>8. NoCallLost'
  <2>1. Items(pending') = {}
    BY <1>3, ItemsEmpty
  <2>2. n # Null
    BY ConstantsAssumption
  <2>3. \A c \in Call : call[c] = "pending" <=> c \in Items(pending)
    BY DEF ConduitInv, NoCallLost
  <2>4. \A c \in Call : /\ call'[c] # "pending"
                        /\ call'[c] = "inflight" <=> c \in inflight'[n]
    BY <1>3, <2>3
  <2>5. QED
    BY <1>3, <2>1, <2>2, <2>4 DEF NoCallLost
<1>9. PortOrder'
  <2>1. UNCHANGED <<elected, installed, needs>> /\ PortOrder
    BY DEF ConduitInv
  <2>2. ASSUME NEW t \in Tab \ {n}, NEW i \in DOMAIN toWorker'[t]
        PROVE  LET m == toWorker'[t][i]
                   before == {toWorker'[t][j] : j \in 1 .. (i - 1)}
               IN  /\ m # Elected => t \in elected \/ Elected \in before
                   /\ m \in Call => /\ needs[m] \subseteq installed[t] \cup before
                                    /\ \A c \in before \cap Call : c < m
    BY <1>4, <2>1 DEF PortOrder
  <2>3. ASSUME NEW i \in DOMAIN w
        PROVE  LET m == w[i]
                   before == {w[j] : j \in 1 .. (i - 1)}
               IN  /\ m # Elected => n \in elected \/ Elected \in before
                   /\ m \in Call => /\ needs[m] \subseteq installed[n] \cup before
                                    /\ \A c \in before \cap Call : c < m
    <3>1. \A c \in Call : needs[c] \subseteq Items(fns)
      BY DEF ConduitInv, CallOK
    <3>2. QED
      BY <1>5, <3>1
  <2>4. \A i, j \in DOMAIN pending' : i < j => pending'[i] < pending'[j]
    BY <1>3
  <2>5. QED
    BY <2>1, <2>2, <2>3, <2>4 DEF PortOrder, w
<1>10. LeaderOK'
  BY <1>3, <1>5 DEF LeaderOK, w
<1>11. ASSUME NEW t \in Tab
       PROVE  WorkerOK(t)'
  <2>1. CASE t = n
    BY <1>3, <2>1 DEF WorkerOK, Unled
  <2>2. CASE t # n
    <3>1. Unled(t)' => Unled(t)
      BY <2>2
    <3>2. WorkerOK(t)
      BY DEF ConduitInv
    <3>3. /\ toWorker'[t] = toWorker[t]
          /\ UNCHANGED <<running, replies, elected, installed>>
      BY <1>4, <2>2
    <3>4. QED
      BY <3>1, <3>2, <3>3 DEF WorkerOK
  <2>3. QED
    BY <2>1, <2>2
<1>12. ASSUME NEW c \in Call
       PROVE  SentOnce(c)'
  <2>1. SentOnce(c) /\ UNCHANGED <<running, replies, ran>>
    BY DEF ConduitInv
  <2>2. \A t \in Tab : /\ Replied(t, c)' <=> Replied(t, c)
                       /\ t # n => (Posted(t, c)' <=> Posted(t, c))
    BY <1>4, <2>1 DEF Posted, Replied
  <2>3. Posted(n, c)' <=> c \in Items(pending)
    <3>1. c # Elected /\ c \notin Callback
      BY ConstantsAssumption
    <3>2. c \notin Items(fns)
      BY <1>2, <3>1, ItemsType
    <3>3. Posted(n, c)' <=> c \in Items(w)
      BY DEF Posted, w
    <3>4. QED
      BY <1>5, <3>1, <3>2, <3>3
  <2>4. ~ Replied(n, c) /\ c \notin running[n]
    BY <1>1 DEF Replied
  <2>5. c \in Items(pending) => ran[c] = 0 /\ \A t \in Tab : ~ At(t, c)
    <3>1. c \in Items(pending) => call[c] = "pending"
      BY DEF ConduitInv, NoCallLost
    <3>2. QED
      BY <2>1, <3>1 DEF SentOnce
  <2>6. \A t \in Tab \ {n} : At(t, c)' <=> At(t, c)
    BY <2>1, <2>2 DEF At
  <2>7. At(n, c)' <=> c \in Items(pending)
    BY <2>1, <2>2, <2>3, <2>4 DEF At
  <2>8. call'[c] \in {"idle", "pending"} => call[c] \in {"idle", "pending"}
    BY <1>3
  <2>9. c \in Items(pending) => call'[c] = "inflight" /\ c \in inflight'[n]
    BY <1>3
  <2>10. \A t, u \in Tab : At(t, c)' /\ At(u, c)' => t = u
    BY <2>1, <2>5, <2>6, <2>7 DEF SentOnce
  <2>11. \A t \in Tab : \A i, j \in DOMAIN toWorker'[t] :
            toWorker'[t][i] = c /\ toWorker'[t][j] = c => i = j
    BY <1>4, <1>5, <2>1 DEF SentOnce, w
  <2>12. \A t \in Tab :
            /\ Posted(t, c)' => ran'[c] = 0
            /\ c \in running'[t] \/ Replied(t, c)' => ran'[c] = 1
            /\ ~ (c \in running'[t] /\ Replied(t, c)')
            /\ \A o, p \in Outcome :
                  <<c, o>> \in replies'[t] /\ <<c, p>> \in replies'[t] => o = p
    BY <2>1, <2>2, <2>3, <2>5 DEF SentOnce
  <2>13. \A t \in Tab : /\ At(t, c)' => call'[c] \notin {"idle", "pending"}
                        /\ At(t, c)' /\ t = leader' => c \in inflight'[t]
    BY <1>3, <2>1, <2>6, <2>7, <2>8, <2>9 DEF SentOnce
  <2>14. ran'[c] \in {0, 1} /\ (call'[c] \in {"idle", "pending"} => ran'[c] = 0)
    BY <2>1, <2>8 DEF SentOnce
  <2>15. QED
    BY <2>10, <2>11, <2>12, <2>13, <2>14 DEF SentOnce
<1>13. ASSUME NEW c \in Call
       PROVE  CallOK(c)'
  <2>1. c \in Items(pending) => call[c] # "idle"
    BY DEF ConduitInv, NoCallLost
  <2>2. call'[c] = "idle" <=> call[c] = "idle"
    BY <1>3, <2>1
  <2>3. QED
    BY <2>2 DEF ConduitInv, CallOK
<1>14. QED
  BY <1>6, <1>7, <1>8, <1>9, <1>10, <1>11, <1>12, <1>13

(* An envelope leaves the port of its page.                                *)
LEMMA Delivery ==
    ASSUME TypeOK, NEW t \in Tab, PageOK(t), NEW e \in Envelope, Deliver(t, e)
    PROVE  /\ page' = page /\ leaves' = leaves
           /\ toShared' \in [Tab -> Seq(Envelope)]
           /\ \A u \in Tab \ {t} : toShared'[u] = toShared[u]
           /\ e \in Items(toShared[t])
           /\ Items(toShared'[t]) \subseteq Items(toShared[t])
           /\ e = "register" => "register" \notin Items(toShared'[t])
           /\ \A i, j \in DOMAIN toShared'[t] :
                 toShared'[t][i] = "register" /\ toShared'[t][j] = "register" => i = j
<1> DEFINE s == toShared[t]
           r == toShared'[t]
<1>1. /\ toShared \in [Tab -> Seq(Envelope)] /\ s \in Seq(Envelope)
      /\ s # <<>> /\ Head(s) = e
      /\ toShared' = [toShared EXCEPT ![t] = Tail(s)]
      /\ page' = page /\ leaves' = leaves /\ r = Tail(s)
  BY DEF TypeOK, Deliver
<1> HIDE DEF s
<1>2. /\ r \in Seq(Envelope) /\ Head(s) = s[1] /\ 1 \in DOMAIN s
      /\ \A i \in DOMAIN r : i + 1 \in DOMAIN s /\ r[i] = s[i + 1]
      /\ Items(s) = {Head(s)} \cup Items(r)
  BY <1>1, TailIndex
<1>3. /\ Len(s) \in Nat /\ DOMAIN s = 1 .. Len(s)
      /\ Len(r) \in Nat /\ DOMAIN r = 1 .. Len(r)
  BY <1>1, <1>2, SeqIndex
<1>4. \A i, j \in DOMAIN s : s[i] = "register" /\ s[j] = "register" => i = j
  BY DEF PageOK, s
<1>5. \A i, j \in DOMAIN r : r[i] = "register" /\ r[j] = "register" => i = j
  <2> SUFFICES ASSUME NEW i \in DOMAIN r, NEW j \in DOMAIN r,
                      r[i] = "register", r[j] = "register"
               PROVE  i = j
    OBVIOUS
  <2>1. i + 1 = j + 1
    BY <1>2, <1>4
  <2>2. QED
    BY <1>3, <2>1
<1>6. e = "register" => "register" \notin Items(r)
  <2> SUFFICES ASSUME e = "register", NEW i \in DOMAIN r, r[i] = "register"
               PROVE  FALSE
    BY DEF Items
  <2>1. i + 1 = 1
    BY <1>1, <1>2, <1>4
  <2>2. QED
    BY <1>3, <2>1
<1>7. toShared' \in [Tab -> Seq(Envelope)] /\ \A u \in Tab \ {t} : toShared'[u] = toShared[u]
  BY <1>1, <1>2
<1>8. QED
  BY <1>1, <1>2, <1>5, <1>6, <1>7 DEF s

LEMMA RegisterStep ==
    ASSUME ConduitInv, NEW t \in Tab, Register(t)
    PROVE  ConduitInv'
<1> USE DEF callVars, workerVars
<1>1. /\ page' = page /\ leaves' = leaves
      /\ toShared' \in [Tab -> Seq(Envelope)]
      /\ \A u \in Tab \ {t} : toShared'[u] = toShared[u]
      /\ "register" \in Items(toShared[t])
      /\ "register" \notin Items(toShared'[t])
      /\ \A i, j \in DOMAIN toShared'[t] :
            toShared'[t][i] = "register" /\ toShared'[t][j] = "register" => i = j
  BY Delivery DEF ConduitInv, Envelope, Register
<1>2. /\ tabs' = tabs \cup {t} /\ t \notin tabs
      /\ watched' = watched \cup {t}
      /\ clock' \in 0 .. MaxClock /\ registeredAt' \in [Tab -> 0 .. MaxClock]
      /\ registrations' = registrations + 1
      /\ position' = [position EXCEPT ![t] = registrations + 1]
      /\ UNCHANGED <<made, fns, needs, workerVars>>
  <2>1. PICK now \in clock .. MaxClock :
            clock' = now /\ registeredAt' = [registeredAt EXCEPT ![t] = now]
    BY DEF Register, Insert
  <2>2. clock \in 0 .. MaxClock /\ registeredAt \in [Tab -> 0 .. MaxClock]
    BY DEF ConduitInv, TypeOK
  <2>3. now \in 0 .. MaxClock
    BY <2>2, ConstantsAssumption
  <2>4. QED
    BY <2>1, <2>2, <2>3 DEF Register, Insert
<1>3. /\ registrations \in Nat /\ position \in [Tab -> Nat]
      /\ watched \subseteq Tab /\ tabs \subseteq Tab
  BY DEF ConduitInv, TypeOK
<1>4. /\ registrations' \in Nat /\ position' \in [Tab -> Nat]
      /\ tabs' \in SUBSET Tab /\ watched' \in SUBSET Tab
      /\ position'[t] # 0 /\ \A u \in Tab \ {t} : position'[u] = position[u]
  BY <1>2, <1>3
<1>5. position[t] = 0 /\ page[t] \notin {"absent", "starting"}
  BY <1>1 DEF ConduitInv, PageOK
<1>6. t # leader /\ Unled(t)
  BY <1>2, <1>5, ConstantsAssumption DEF ConduitInv, NoCallLost, Unled
<1>7. \A u \in Tab : PageOK(u)'
  <2>1. \A u \in Tab : PageOK(u)
    BY DEF ConduitInv
  <2>2. PageOK(t)'
    BY <1>1, <1>4, <1>5 DEF PageOK
  <2>3. ASSUME NEW u \in Tab \ {t} PROVE PageOK(u)'
    <3>1. /\ page'[u] = page[u] /\ toShared'[u] = toShared[u] /\ position'[u] = position[u]
          /\ u \in tabs' <=> u \in tabs
      BY <1>1, <1>2, <1>4
    <3>2. QED
      BY <2>1, <3>1 DEF PageOK
  <2>4. QED
    BY <2>2, <2>3
<1>8. /\ leader' \in Tab \cup {Null} /\ remoteBridge' \in Tab \cup {Null}
      /\ pending' \in Seq(Call) /\ inflight' \in [Tab -> SUBSET Call]
      /\ call' \in [Call -> {"idle", "pending", "inflight"} \cup Settled]
      /\ toWorker' \in [Tab -> Seq(Message)]
      /\ NoCallLost' /\ PortOrder' /\ LeaderOK'
      /\ \A u \in Tab : WorkerOK(u)'
      /\ \A c \in Call : SentOnce(c)' /\ CallOK(c)'
  <2>1. CASE leader = Null
    <3>1. tabs = {}
      BY <2>1 DEF ConduitInv, NoCallLost
    <3>2. \A u \in Tab : inflight[u] = {}
      BY <2>1, ConstantsAssumption DEF ConduitInv, NoCallLost
    <3>3. \A c \in Call : call[c] # "inflight"
      BY <2>1 DEF ConduitInv, NoCallLost
    <3>4. Promote(t, call, inflight)
      BY <2>1 DEF Register
    <3>5. \A u \in Tab \ {t} : Unled(u)' => Unled(u)
      BY <1>2, <1>4, <2>1, ConstantsAssumption DEF Unled
    <3>6. /\ call \in [Call -> {"idle", "pending", "inflight"} \cup Settled]
          /\ inflight \in [Tab -> SUBSET Call]
      BY DEF ConduitInv, TypeOK
    <3>7. t \in tabs' /\ tabs' \subseteq Tab /\ UNCHANGED <<made, fns, needs, workerVars>>
      BY <1>2, <1>4
    <3>8. Unled(t)
      BY <1>6
    <3>. HIDE DEF callVars, workerVars
    <3>9. QED
      BY <3>2, <3>3, <3>4, <3>5, <3>6, <3>7, <3>8, Promotion
  <2>2. CASE leader # Null
    <3>1. UNCHANGED <<leader, pending, inflight, call, remoteBridge, toWorker>>
      BY <2>2 DEF Register
    <3>2. /\ leader' \in Tab \cup {Null} /\ remoteBridge' \in Tab \cup {Null}
          /\ pending' \in Seq(Call) /\ inflight' \in [Tab -> SUBSET Call]
          /\ call' \in [Call -> {"idle", "pending", "inflight"} \cup Settled]
          /\ toWorker' \in [Tab -> Seq(Message)]
      BY <3>1 DEF ConduitInv, TypeOK
    <3>3. NoCallLost'
      BY <1>2, <2>2, <3>1 DEF ConduitInv, NoCallLost
    <3>4. PortOrder' /\ LeaderOK'
      BY <1>2, <3>1 DEF ConduitInv, PortOrder, LeaderOK
    <3>5. ASSUME NEW u \in Tab
          PROVE  WorkerOK(u)'
      <4>1. Unled(u)' => Unled(u)
        BY <1>2, <1>4, <1>6, <3>1 DEF Unled
      <4>2. QED
        BY <1>2, <3>1, <4>1 DEF ConduitInv, WorkerOK
    <3>6. \A c \in Call : SentOnce(c)'
      BY <1>2, <3>1, SentOnceKept DEF ConduitInv
    <3>7. \A c \in Call : CallOK(c)'
      BY <1>2, <3>1 DEF ConduitInv, CallOK
    <3>8. QED
      BY <3>2, <3>3, <3>4, <3>5, <3>6, <3>7
  <2>3. QED
    BY <2>1, <2>2
<1>9. TypeOK'
  <2>1. TypeOK
    BY DEF ConduitInv
  <2>2. QED
    BY <1>1, <1>2, <1>4, <1>8, <2>1 DEF TypeOK
<1>10. QED
  BY <1>7, <1>8, <1>9 DEF ConduitInv

(* unregisterTab and heartbeat.onStop: another tab than the leader goes    *)
(* with nothing in flight; the leader takes its in-flight set with it, and *)
(* no call waits in the queue of the broker at that time.                  *)
LEMMA RemoveStep ==
    ASSUME ConduitInv, NEW t \in Tab, Unregister(t) \/ HeartbeatStop(t)
    PROVE  ConduitInv'
<1> USE DEF workerVars
<1>1. /\ page' = page /\ leaves' = leaves
      /\ toShared' \in [Tab -> Seq(Envelope)]
      /\ \A u \in Tab :
            /\ Items(toShared'[u]) \subseteq Items(toShared[u])
            /\ \A i, j \in DOMAIN toShared'[u] :
                 toShared'[u][i] = "register" /\ toShared'[u][j] = "register" => i = j
  <2>1. CASE Unregister(t)
    <3>1. \A u \in Tab : PageOK(u)
      BY DEF ConduitInv
    <3>2. /\ page' = page /\ leaves' = leaves
          /\ toShared' \in [Tab -> Seq(Envelope)]
          /\ \A u \in Tab \ {t} : toShared'[u] = toShared[u]
          /\ Items(toShared'[t]) \subseteq Items(toShared[t])
          /\ \A i, j \in DOMAIN toShared'[t] :
                toShared'[t][i] = "register" /\ toShared'[t][j] = "register" => i = j
      BY <2>1, <3>1, Delivery DEF ConduitInv, Envelope, Unregister
    <3>3. QED
      BY <3>1, <3>2 DEF PageOK
  <2>2. CASE HeartbeatStop(t)
    BY <2>2 DEF HeartbeatStop, pageVars, ConduitInv, TypeOK, PageOK
  <2>3. QED
    BY <2>1, <2>2
<1>2. /\ RemoveTab(t) /\ tabs' = tabs \ {t}
      /\ UNCHANGED <<clock, registeredAt, registrations, position>>
      /\ UNCHANGED <<made, fns, needs, workerVars>>
  BY DEF Unregister, HeartbeatStop, RemoveTab
<1>3. TypeOK /\ tabs' \in SUBSET Tab /\ watched' \in SUBSET Tab
  BY <1>2 DEF ConduitInv, TypeOK, Unregister, HeartbeatStop
<1>4. \A u \in Tab : PageOK(u)'
  BY <1>1, <1>2 DEF ConduitInv, PageOK
<1>5. /\ inflight \in [Tab -> SUBSET Call] /\ call \in [Call -> {"idle", "pending", "inflight"} \cup Settled]
      /\ \A c \in Call : call[c] = "inflight" <=> leader # Null /\ c \in inflight[leader]
      /\ \A u \in Tab : u # leader => inflight[u] = {}
      /\ leader # Null => leader \in tabs /\ leader \in Tab /\ pending = <<>>
  BY DEF ConduitInv, TypeOK, NoCallLost
<1>6. \A u \in Tab : position[u] = 0 => u \notin tabs
  BY DEF ConduitInv, PageOK
<1>7. /\ leader' \in Tab \cup {Null} /\ remoteBridge' \in Tab \cup {Null}
      /\ pending' \in Seq(Call) /\ inflight' \in [Tab -> SUBSET Call]
      /\ call' \in [Call -> {"idle", "pending", "inflight"} \cup Settled]
      /\ toWorker' \in [Tab -> Seq(Message)]
      /\ NoCallLost' /\ PortOrder' /\ LeaderOK'
      /\ \A u \in Tab : WorkerOK(u)'
      /\ \A c \in Call : SentOnce(c)' /\ CallOK(c)'
  <2>1. CASE leader = t /\ tabs' # {}
    <3> DEFINE n == NextLeader(tabs')
               promises == Resign(inflight[t])
               sent == Without(inflight, t)
    <3>1. n \in tabs'
      BY <1>3, <2>1, NextLeaderExists
    <3>2. n \in Tab /\ Unled(n) /\ n # t
      BY <1>2, <1>3, <2>1, <3>1 DEF Unled
    <3>3. Promote(n, promises, sent)
      BY <1>2, <2>1 DEF RemoveTab
    <3>4. sent \in [Tab -> SUBSET Call] /\ \A u \in Tab : sent[u] = {}
      BY <1>5, <2>1 DEF Without
    <3>5. promises \in [Call -> {"idle", "pending", "inflight"} \cup Settled]
      BY <1>5 DEF Resign, Settled
    <3>6. \A c \in Call : /\ promises[c] # "inflight"
                          /\ promises[c] = "pending" <=> call[c] = "pending"
                          /\ promises[c] = "idle" <=> call[c] = "idle"
      BY <1>5, <2>1, ConstantsAssumption DEF Resign
    <3> HIDE DEF n, promises, sent
    <3>7. \A u \in Tab \ {n} : Unled(u)' => Unled(u)
      <4>1. t \in tabs
        BY <1>5, <2>1, ConstantsAssumption
      <4>2. \A u \in Tab : u \in tabs' \/ position[u] = 0 => u # t
        BY <1>2, <1>6, <4>1
      <4>3. QED
        BY <1>2, <2>1, <4>2 DEF Unled
    <3>8. QED
      BY <1>2, <1>3, <3>1, <3>2, <3>3, <3>4, <3>5, <3>6, <3>7, Promotion
  <2>2. CASE ~ (leader = t /\ tabs' # {})
    <3>1. /\ leader' = (IF leader = t THEN Null ELSE leader)
          /\ call' = Resign(inflight[t]) /\ inflight' = Without(inflight, t)
          /\ UNCHANGED <<pending, remoteBridge, toWorker>>
      BY <1>2, <2>2 DEF RemoveTab
    <3>2. /\ call' \in [Call -> {"idle", "pending", "inflight"} \cup Settled]
          /\ inflight' \in [Tab -> SUBSET Call]
          /\ inflight'[t] = {} /\ \A u \in Tab \ {t} : inflight'[u] = inflight[u]
          /\ \A c \in Call : call'[c] = IF c \in inflight[t] THEN "resigned" ELSE call[c]
      BY <1>5, <3>1 DEF Resign, Without, Settled
    <3>3. \A c \in Call : c \in inflight[t] => call[c] = "inflight"
      BY <1>5, ConstantsAssumption
    <3>4. NoCallLost'
      <4>1. \A c \in Call : call'[c] = "pending" <=> call[c] = "pending"
        BY <3>2, <3>3
      <4>2. leader' # Null => leader' = leader /\ leader # t
        BY <3>1
      <4>3. \A c \in Call :
                call'[c] = "inflight" <=> leader' # Null /\ c \in inflight'[leader']
        <5>1. CASE leader = t
          BY <1>5, <3>1, <3>2, <5>1, ConstantsAssumption
        <5>2. CASE leader # t
          BY <1>5, <3>1, <3>2, <5>2
        <5>3. QED
          BY <5>1, <5>2
      <4>4. leader' = Null <=> tabs' = {}
        <5>1. leader = Null <=> tabs = {}
          BY DEF ConduitInv, NoCallLost
        <5>2. QED
          BY <1>2, <1>5, <2>2, <3>1, <5>1, ConstantsAssumption
      <4>5. leader' # Null => leader' \in tabs' /\ remoteBridge' = leader'
        BY <1>2, <3>1, <4>2 DEF ConduitInv, NoCallLost
      <4>6. \A u \in Tab : u # leader' => inflight'[u] = {}
        BY <1>5, <3>1, <3>2
      <4>7. leader' # Null => pending' = <<>>
        BY <1>5, <3>1, <4>2
      <4>8. QED
        BY <3>1, <4>1, <4>3, <4>4, <4>5, <4>6, <4>7 DEF ConduitInv, NoCallLost
    <3>5. PortOrder' /\ LeaderOK'
      <4>1. PortOrder'
        BY <1>2, <3>1 DEF ConduitInv, PortOrder
      <4>2. leader' # Null => leader' = leader
        BY <3>1
      <4>3. LeaderOK'
        BY <1>2, <3>1, <4>2 DEF ConduitInv, LeaderOK
      <4>4. QED
        BY <4>1, <4>3
    <3>6. ASSUME NEW u \in Tab
          PROVE  WorkerOK(u)'
      <4>1. Unled(u)' => Unled(u)
        BY <1>2, <1>5, <1>6, <3>1, ConstantsAssumption DEF Unled
      <4>2. QED
        BY <1>2, <3>1, <4>1 DEF ConduitInv, WorkerOK
    <3>7. ASSUME NEW c \in Call
          PROVE  SentOnce(c)'
      <4>1. SentOnce(c) /\ UNCHANGED <<toWorker, running, replies, ran>>
        BY <1>2, <3>1 DEF ConduitInv
      <4>2. \A u \in Tab : /\ Posted(u, c)' <=> Posted(u, c)
                           /\ Replied(u, c)' <=> Replied(u, c)
        BY <4>1 DEF Posted, Replied
      <4>3. \A u \in Tab : At(u, c)' <=> At(u, c)
        BY <4>1, <4>2 DEF At
      <4>4. call'[c] \in {"idle", "pending"} <=> call[c] \in {"idle", "pending"}
        BY <3>2, <3>3
      <4>5. \A u \in Tab : At(u, c)' /\ u = leader' => c \in inflight'[u]
        <5>1. \A u \in Tab : u = leader' => u = leader /\ u # t
          BY <3>1, ConstantsAssumption
        <5>2. QED
          BY <3>2, <4>1, <4>3, <5>1 DEF SentOnce
      <4>6. QED
        BY <4>1, <4>2, <4>3, <4>4, <4>5 DEF SentOnce
    <3>8. \A c \in Call : CallOK(c)'
      <4>1. \A c \in Call : call'[c] = "idle" <=> call[c] = "idle"
        BY <3>2, <3>3
      <4>2. QED
        BY <1>2, <4>1 DEF ConduitInv, CallOK
    <3>9. /\ leader' \in Tab \cup {Null} /\ remoteBridge' \in Tab \cup {Null}
          /\ pending' \in Seq(Call) /\ toWorker' \in [Tab -> Seq(Message)]
      BY <1>3, <3>1 DEF TypeOK
    <3>10. QED
      BY <3>2, <3>4, <3>5, <3>6, <3>7, <3>8, <3>9
  <2>3. QED
    BY <2>1, <2>2
<1>8. TypeOK'
  BY <1>1, <1>2, <1>3, <1>7 DEF TypeOK
<1>9. QED
  BY <1>4, <1>7, <1>8 DEF ConduitInv

(* What stands before a message on a port a message is appended to, and on *)
(* a port whose head is delivered.                                         *)
Before(s, i) == {s[j] : j \in 1 .. (i - 1)}

LEMMA AppendBefore ==
    ASSUME NEW S, NEW s \in Seq(S), NEW e \in S, NEW i \in DOMAIN Append(s, e)
    PROVE  \/ /\ i \in DOMAIN s /\ Append(s, e)[i] = s[i]
              /\ Before(Append(s, e), i) = Before(s, i)
           \/ /\ i = Len(s) + 1 /\ Append(s, e)[i] = e
              /\ Before(Append(s, e), i) = Items(s)
<1> DEFINE r == Append(s, e)
<1>1. /\ r \in Seq(S) /\ Len(r) = Len(s) + 1 /\ r[Len(s) + 1] = e
      /\ \A j \in 1 .. Len(s) : r[j] = s[j]
  BY AppendProperties
<1>2. /\ Len(s) \in Nat /\ DOMAIN s = 1 .. Len(s) /\ DOMAIN r = 1 .. Len(s) + 1
  BY <1>1, SeqIndex
<1>3. i \in DOMAIN r
  OBVIOUS
<1> HIDE DEF r
<1>4. \A j \in 1 .. (i - 1) : r[j] = s[j]
  BY <1>1, <1>2, <1>3
<1>5. Before(r, i) = Before(s, i)
  BY <1>4 DEF Before
<1>6. CASE i \in DOMAIN s
  BY <1>1, <1>2, <1>5, <1>6 DEF r
<1>7. CASE i \notin DOMAIN s
  <2>1. i = Len(s) + 1
    BY <1>2, <1>3, <1>7
  <2>2. 1 .. (i - 1) = DOMAIN s
    BY <1>2, <2>1
  <2>3. Before(s, i) = Items(s)
    BY <2>2 DEF Before, Items
  <2>4. QED
    BY <1>1, <1>5, <2>1, <2>3 DEF r
<1>8. QED
  BY <1>6, <1>7

LEMMA TailBefore ==
    ASSUME NEW S, NEW s \in Seq(S), s # <<>>, NEW i \in DOMAIN Tail(s)
    PROVE  /\ i + 1 \in DOMAIN s /\ Tail(s)[i] = s[i + 1]
           /\ Before(s, i + 1) = {Head(s)} \cup Before(Tail(s), i)
<1> DEFINE r == Tail(s)
<1>1. /\ r \in Seq(S) /\ Head(s) = s[1] /\ 1 \in DOMAIN s
      /\ \A j \in DOMAIN r : j + 1 \in DOMAIN s /\ r[j] = s[j + 1]
  BY TailIndex
<1>2. /\ Len(s) \in Nat /\ DOMAIN s = 1 .. Len(s)
      /\ Len(r) \in Nat /\ DOMAIN r = 1 .. Len(r)
  BY <1>1, SeqIndex
<1>3. i \in DOMAIN r
  OBVIOUS
<1> HIDE DEF r
<1>4. \A j \in 1 .. (i - 1) : r[j] = s[j + 1]
  <2>1. \A j \in 1 .. (i - 1) : j \in DOMAIN r
    BY <1>2, <1>3
  <2>2. QED
    BY <1>1, <2>1
<1>5. ASSUME NEW m \in Before(s, i + 1)
      PROVE  m \in {Head(s)} \cup Before(r, i)
  <2>1. PICK j \in 1 .. ((i + 1) - 1) : m = s[j]
    BY DEF Before
  <2>2. j = 1 \/ (j - 1 \in 1 .. (i - 1) /\ r[j - 1] = s[j])
    BY <1>2, <1>3, <1>4
  <2>3. QED
    BY <1>1, <2>1, <2>2 DEF Before
<1>6. ASSUME NEW m \in Before(r, i)
      PROVE  m \in Before(s, i + 1)
  <2>1. PICK j \in 1 .. (i - 1) : m = r[j]
    BY DEF Before
  <2>2. j + 1 \in 1 .. ((i + 1) - 1) /\ m = s[j + 1]
    BY <1>2, <1>3, <1>4, <2>1
  <2>3. QED
    BY <2>2 DEF Before
<1>7. Head(s) \in Before(s, i + 1)
  <2>1. 1 \in 1 .. ((i + 1) - 1)
    BY <1>2, <1>3
  <2>2. QED
    BY <1>1, <2>1 DEF Before
<1>8. QED
  BY <1>1, <1>3, <1>5, <1>6, <1>7 DEF r

(* PortOrder, for one message m of a port on which `before` stands ahead.  *)
Ready(t, m, before) ==
    /\ m # Elected => t \in elected \/ Elected \in before
    /\ m \in Call => /\ needs[m] \subseteq installed[t] \cup before
                     /\ \A c \in before \cap Call : c < m

PendingInOrder == \A i, j \in DOMAIN pending : i < j => pending[i] < pending[j]

LEMMA PortOrderIsReady ==
    ASSUME PortOrder
    PROVE  /\ \A t \in Tab : \A i \in DOMAIN toWorker[t] :
                 Ready(t, toWorker[t][i], Before(toWorker[t], i))
           /\ PendingInOrder
BY DEF PortOrder, Ready, Before, PendingInOrder

(* A call or a callback goes last to a worker that knows of its election,  *)
(* a call after its callbacks and after the calls of a smaller number.     *)
LEMMA PortAppend ==
    ASSUME ConduitInv, NEW t \in Tab, NEW m \in Callback \cup Call,
           t \in elected \/ Elected \in Items(toWorker[t]),
           m \in Call => /\ needs'[m] \subseteq installed[t] \cup Items(toWorker[t])
                         /\ \A c \in Items(toWorker[t]) \cap Call : c < m,
           toWorker' = [toWorker EXCEPT ![t] = Append(@, m)],
           UNCHANGED <<elected, installed>>,
           \A u \in Tab, c \in Call : c \in Items(toWorker[u]) => needs'[c] = needs[c],
           PendingInOrder'
    PROVE  /\ PortOrder'
           /\ toWorker' \in [Tab -> Seq(Message)]
           /\ Items(toWorker'[t]) = Items(toWorker[t]) \cup {m}
           /\ \A u \in Tab \ {t} : toWorker'[u] = toWorker[u]
<1>1. /\ toWorker \in [Tab -> Seq(Message)] /\ toWorker[t] \in Seq(Message)
      /\ m \in Message /\ m # Elected
  BY ConstantsAssumption DEF ConduitInv, TypeOK, Message
<1>2. /\ toWorker'[t] = Append(toWorker[t], m)
      /\ toWorker' \in [Tab -> Seq(Message)]
      /\ \A u \in Tab \ {t} : toWorker'[u] = toWorker[u]
  BY <1>1
<1>3. Items(toWorker'[t]) = Items(toWorker[t]) \cup {m}
  BY <1>1, <1>2, ItemsAppend
<1>4. \A u \in Tab : \A i \in DOMAIN toWorker[u] :
         Ready(u, toWorker[u][i], Before(toWorker[u], i))
  BY PortOrderIsReady DEF ConduitInv
<1>5. \A u \in Tab : \A i \in DOMAIN toWorker[u] : toWorker[u][i] \in Items(toWorker[u])
  BY DEF Items
<1>6. ASSUME NEW u \in Tab, NEW i \in DOMAIN toWorker'[u]
      PROVE  Ready(u, toWorker[u][i], Before(toWorker[u], i))'
  <2>1. CASE /\ i \in DOMAIN toWorker[u] /\ toWorker'[u][i] = toWorker[u][i]
             /\ Before(toWorker'[u], i) = Before(toWorker[u], i)
    BY <1>4, <1>5, <2>1 DEF Ready
  <2>2. CASE u = t /\ toWorker'[u][i] = m /\ Before(toWorker'[u], i) = Items(toWorker[t])
    BY <1>1, <2>2 DEF Ready
  <2>3. QED
    BY <1>1, <1>2, <2>1, <2>2, AppendBefore
<1>7. PortOrder'
  <2>1. \A u \in Tab : \A i \in DOMAIN toWorker'[u] :
            LET w == toWorker'[u][i]
                before == {toWorker'[u][j] : j \in 1 .. (i - 1)}
            IN  /\ w # Elected => u \in elected' \/ Elected \in before
                /\ w \in Call => /\ needs'[w] \subseteq installed'[u] \cup before
                                /\ \A c \in before \cap Call : c < w
    BY <1>6, Zenon DEF Ready, Before
  <2>2. QED
    BY <2>1 DEF PortOrder, PendingInOrder
<1>8. QED
  BY <1>2, <1>3, <1>7

(* The other messages of the ports are where they were.                    *)
LEMMA SentOnceAppended ==
    ASSUME TypeOK, NEW t \in Tab, NEW m \in Callback \cup Call,
           toWorker' = [toWorker EXCEPT ![t] = Append(@, m)],
           UNCHANGED <<running, replies, ran, leader>>,
           NEW c \in Call, c # m, SentOnce(c), call'[c] = call[c],
           \A u \in Tab : c \in inflight[u] => c \in inflight'[u]
    PROVE  SentOnce(c)'
<1>1. /\ toWorker \in [Tab -> Seq(Message)] /\ toWorker[t] \in Seq(Message) /\ m \in Message
      /\ toWorker'[t] = Append(toWorker[t], m)
      /\ \A u \in Tab \ {t} : toWorker'[u] = toWorker[u]
  BY DEF TypeOK, Message
<1>2. \A u \in Tab : Posted(u, c)' <=> Posted(u, c)
  <2>1. Items(toWorker'[t]) = Items(toWorker[t]) \cup {m}
    BY <1>1, ItemsAppend
  <2>2. QED
    BY <1>1, <2>1 DEF Posted
<1>3. \A u \in Tab : Replied(u, c)' <=> Replied(u, c)
  BY DEF Replied
<1>4. \A u \in Tab : At(u, c)' <=> At(u, c)
  BY <1>2, <1>3 DEF At
<1>5. \A u \in Tab : \A i, j \in DOMAIN toWorker'[u] :
         toWorker'[u][i] = c /\ toWorker'[u][j] = c => i = j
  <2>1. \A i \in DOMAIN toWorker'[t] : toWorker'[t][i] = c =>
            i \in DOMAIN toWorker[t] /\ toWorker[t][i] = c
    BY <1>1, AppendBefore
  <2>2. QED
    BY <1>1, <2>1 DEF SentOnce
<1>6. \A u \in Tab : /\ At(u, c)' => call'[c] \notin {"idle", "pending"}
                     /\ At(u, c)' /\ u = leader' => c \in inflight'[u]
  BY <1>4 DEF SentOnce
<1>7. QED
  BY <1>2, <1>3, <1>4, <1>5, <1>6 DEF SentOnce

LEMMA CreateCallbackStep ==
    ASSUME ConduitInv, NEW f \in Callback, CreateCallback(f)
    PROVE  ConduitInv'
<1> USE DEF pageVars, mapVars, callVars, workerVars
<1>1. /\ fns' = Append(fns, f) /\ fns \in Seq(Callback) /\ TypeOK
      /\ UNCHANGED <<pageVars, mapVars, leader, callVars, made, remoteBridge, needs,
                     workerVars>>
  BY DEF ConduitInv, TypeOK, CreateCallback
<1>2. fns' \in Seq(Callback) /\ Items(fns') = Items(fns) \cup {f}
  BY <1>1, ItemsAppend
<1>3. NoCallLost'
  BY <1>1 DEF ConduitInv, NoCallLost
<1>4. \A t \in Tab : PageOK(t)'
  BY <1>1 DEF ConduitInv, PageOK
<1>5. \A c \in Call : CallOK(c)'
  BY <1>1, <1>2 DEF ConduitInv, CallOK
<1>6. PendingInOrder'
  BY <1>1 DEF ConduitInv, PortOrder, PendingInOrder
<1>7. /\ toWorker' \in [Tab -> Seq(Message)] /\ PortOrder' /\ LeaderOK'
      /\ \A t \in Tab : WorkerOK(t)'
      /\ \A c \in Call : SentOnce(c)'
  <2>1. CASE remoteBridge \in tabs
    <3>1. leader \in Tab /\ leader # Null /\ leader = remoteBridge
      BY <2>1 DEF ConduitInv, TypeOK, NoCallLost
    <3>2. toWorker' = [toWorker EXCEPT ![leader] = Append(@, f)]
      BY <2>1, <3>1 DEF CreateCallback
    <3>3. leader \in elected \/ Elected \in Items(toWorker[leader])
      BY <3>1 DEF ConduitInv, LeaderOK
    <3>4. f \notin Call
      BY ConstantsAssumption
    <3>5. /\ toWorker' \in [Tab -> Seq(Message)] /\ PortOrder'
          /\ Items(toWorker'[leader]) = Items(toWorker[leader]) \cup {f}
          /\ \A u \in Tab \ {leader} : toWorker'[u] = toWorker[u]
      BY <1>1, <1>6, <3>1, <3>2, <3>3, <3>4, PortAppend
    <3>6. LeaderOK'
      BY <1>1, <1>2, <3>1, <3>5 DEF ConduitInv, LeaderOK
    <3>7. ASSUME NEW t \in Tab
          PROVE  WorkerOK(t)'
      BY <1>1, <3>5 DEF ConduitInv, WorkerOK, Unled
    <3>8. \A c \in Call : SentOnce(c)'
      BY <1>1, <3>1, <3>2, <3>4, SentOnceAppended DEF ConduitInv
    <3>9. QED
      BY <3>5, <3>6, <3>7, <3>8
  <2>2. CASE remoteBridge \notin tabs
    <3>1. toWorker' = toWorker
      BY <2>2 DEF CreateCallback
    <3>2. leader = Null
      BY <2>2 DEF ConduitInv, NoCallLost
    <3>3. PortOrder'
      BY <1>1, <3>1 DEF ConduitInv, PortOrder
    <3>4. LeaderOK'
      BY <1>1, <3>2 DEF LeaderOK
    <3>5. \A t \in Tab : WorkerOK(t)'
      BY <1>1, <3>1 DEF ConduitInv, WorkerOK, Unled
    <3>6. \A c \in Call : SentOnce(c)'
      BY <1>1, <3>1, SentOnceKept DEF ConduitInv
    <3>7. toWorker' \in [Tab -> Seq(Message)]
      BY <1>1, <3>1 DEF TypeOK
    <3>8. QED
      BY <3>3, <3>4, <3>5, <3>6, <3>7
  <2>3. QED
    BY <2>1, <2>2
<1>8. TypeOK'
  BY <1>1, <1>2, <1>7 DEF TypeOK
<1>9. QED
  BY <1>3, <1>4, <1>5, <1>7, <1>8 DEF ConduitInv

(* A call that was not made yet is nowhere.                                *)
LEMMA CallOnLeaderStep ==
    ASSUME ConduitInv, NEW c \in Call, CallOnLeader(c)
    PROVE  ConduitInv'
<1> USE DEF pageVars, mapVars, bridgeVars, workerVars
<1>1. /\ TypeOK /\ c = made + 1 /\ made < MaxCalls /\ made' = c
      /\ needs' = [needs EXCEPT ![c] = Items(fns)]
      /\ UNCHANGED <<pageVars, mapVars, leader, bridgeVars, workerVars>>
  BY DEF ConduitInv, CallOnLeader
<1>2. /\ made \in 0 .. MaxCalls /\ made' \in 0 .. MaxCalls /\ MaxCalls \in Nat
      /\ \A d \in Call : d \in Nat /\ (d > made' <=> d > made /\ d # c)
  <2>1. made \in 0 .. MaxCalls /\ MaxCalls \in Nat
    BY <1>1, ConstantsAssumption DEF TypeOK
  <2>2. made' = made + 1 /\ made < MaxCalls /\ c = made + 1
    BY <1>1
  <2>3. ASSUME NEW d \in Call PROVE d \in Nat /\ (d > made' <=> d > made /\ d # c)
    <3>1. d \in 1 .. MaxCalls
      BY DEF Call
    <3>2. QED
      BY <2>1, <2>2, <3>1
  <2>4. QED
    BY <2>1, <2>2, <2>3
<1>3. call[c] = "idle" /\ \A d \in Call : call[d] # "idle" => d < c
  <2>1. c > made /\ \A d \in Call : ~ (d > made) => d < c
    BY <1>1, <1>2
  <2>2. QED
    BY <2>1 DEF ConduitInv, CallOK
<1>4. /\ ran[c] = 0 /\ \A t \in Tab : ~ At(t, c)
      /\ \A t \in Tab, d \in Call : At(t, d) => d < c
  BY <1>3 DEF ConduitInv, SentOnce
<1>5. /\ needs' \in [Call -> SUBSET Callback] /\ needs'[c] = Items(fns)
      /\ \A d \in Call \ {c} : needs'[d] = needs[d]
  BY <1>1, ItemsType DEF TypeOK
<1>6. \A t \in Tab : PageOK(t)'
  BY <1>1 DEF ConduitInv, PageOK
<1>7. \A t \in Tab, d \in Call : d \in Items(toWorker[t]) => d # c /\ d < c
  BY <1>2, <1>4 DEF At, Posted
<1>8. CASE leader # Null
  <2>1. leader \in Tab
    BY <1>1, <1>8 DEF TypeOK
  <2>2. /\ call' = [call EXCEPT ![c] = "inflight"]
        /\ inflight' = [inflight EXCEPT ![leader] = @ \cup {c}]
        /\ toWorker' = [toWorker EXCEPT ![leader] = Append(@, c)]
        /\ pending' = pending
    BY <1>8 DEF CallOnLeader
  <2>3. /\ call' \in [Call -> {"idle", "pending", "inflight"} \cup Settled]
        /\ inflight' \in [Tab -> SUBSET Call]
        /\ call'[c] = "inflight" /\ \A d \in Call \ {c} : call'[d] = call[d]
        /\ inflight'[leader] = inflight[leader] \cup {c}
        /\ \A t \in Tab \ {leader} : inflight'[t] = inflight[t]
    BY <1>1, <2>1, <2>2 DEF TypeOK
  <2>4. PendingInOrder'
    BY <2>2 DEF ConduitInv, PortOrder, PendingInOrder
  <2>5. /\ leader \in elected \/ Elected \in Items(toWorker[leader])
        /\ Items(fns) \subseteq installed[leader] \cup Items(toWorker[leader])
    BY <1>8 DEF ConduitInv, LeaderOK
  <2>6. /\ toWorker' \in [Tab -> Seq(Message)] /\ PortOrder'
        /\ Items(toWorker'[leader]) = Items(toWorker[leader]) \cup {c}
        /\ \A u \in Tab \ {leader} : toWorker'[u] = toWorker[u]
    BY <1>1, <1>5, <1>7, <2>1, <2>2, <2>4, <2>5, PortAppend
  <2>7. NoCallLost'
    <3>1. \A d \in Call : /\ call[d] = "pending" <=> d \in Items(pending)
                          /\ call[d] = "inflight" <=> d \in inflight[leader]
      BY <1>8 DEF ConduitInv, NoCallLost
    <3>2. \A d \in Call : /\ call'[d] = "pending" <=> d \in Items(pending)
                          /\ call'[d] = "inflight" <=> d \in inflight'[leader]
      BY <1>3, <2>3, <3>1
    <3>3. QED
      BY <1>1, <1>8, <2>2, <2>3, <3>2 DEF ConduitInv, NoCallLost
  <2>8. LeaderOK'
    BY <1>1, <2>5, <2>6 DEF LeaderOK
  <2>9. \A t \in Tab : WorkerOK(t)'
    BY <1>1, <2>6 DEF ConduitInv, WorkerOK, Unled
  <2>10. \A d \in Call : SentOnce(d)'
    <3>1. ASSUME NEW d \in Call \ {c}
          PROVE  SentOnce(d)'
      <4>1. SentOnce(d) /\ call'[d] = call[d]
        BY <2>3 DEF ConduitInv
      <4>2. \A u \in Tab : d \in inflight[u] => d \in inflight'[u]
        BY <2>3
      <4>3. QED
        BY <1>1, <2>1, <2>2, <4>1, <4>2, SentOnceAppended
    <3>2. SentOnce(c)'
      <4>1. \A t \in Tab : ~ Posted(t, c) /\ c \notin running[t] /\ ~ Replied(t, c)
        BY <1>4 DEF At
      <4>2. \A t \in Tab : /\ Posted(t, c)' => t = leader
                           /\ c \notin running'[t] /\ ~ Replied(t, c)'
        BY <1>1, <2>6, <4>1 DEF Posted, Replied
      <4>3. \A t \in Tab : At(t, c)' => t = leader
        BY <4>2 DEF At
      <4>4. \A t \in Tab : \A i, j \in DOMAIN toWorker'[t] :
               toWorker'[t][i] = c /\ toWorker'[t][j] = c => i = j
        <5>1. toWorker[leader] \in Seq(Message) /\ c \in Message
              /\ toWorker'[leader] = Append(toWorker[leader], c)
          BY <1>1, <2>1, <2>2 DEF TypeOK, Message
        <5>2. \A t \in Tab : \A i \in DOMAIN toWorker[t] : toWorker[t][i] # c
          BY <4>1 DEF Posted, Items
        <5>3. \A i \in DOMAIN toWorker'[leader] : toWorker'[leader][i] = c =>
                 i = Len(toWorker[leader]) + 1
          BY <2>1, <5>1, <5>2, AppendBefore
        <5>4. QED
          BY <2>6, <5>2, <5>3
      <4>5. ran'[c] = 0 /\ call'[c] = "inflight" /\ c \in inflight'[leader] /\ leader' = leader
        BY <1>1, <1>4, <2>3
      <4>6. \A t \in Tab : \A o, p \in Outcome :
               <<c, o>> \in replies'[t] /\ <<c, p>> \in replies'[t] => o = p
        BY <4>2 DEF Replied
      <4>7. QED
        BY <4>2, <4>3, <4>4, <4>5, <4>6 DEF SentOnce
    <3>3. QED
      BY <3>1, <3>2
  <2>11. \A d \in Call : CallOK(d)'
    BY <1>1, <1>2, <1>5, <2>3 DEF ConduitInv, CallOK
  <2>12. TypeOK'
    BY <1>1, <1>2, <1>5, <2>2, <2>3, <2>6 DEF TypeOK
  <2>13. QED
    BY <1>6, <2>6, <2>7, <2>8, <2>9, <2>10, <2>11, <2>12 DEF ConduitInv
<1>9. CASE leader = Null
  <2>1. /\ call' = [call EXCEPT ![c] = "pending"] /\ pending' = Append(pending, c)
        /\ inflight' = inflight /\ toWorker' = toWorker
    BY <1>9 DEF CallOnLeader
  <2>2. pending \in Seq(Call) /\ pending' \in Seq(Call) /\ Items(pending') = Items(pending) \cup {c}
    BY <1>1, <2>1, ItemsAppend DEF TypeOK
  <2>3. /\ call' \in [Call -> {"idle", "pending", "inflight"} \cup Settled]
        /\ call'[c] = "pending" /\ \A d \in Call \ {c} : call'[d] = call[d]
    BY <1>1, <2>1 DEF TypeOK
  <2>4. NoCallLost'
    <3>1. \A d \in Call : call[d] = "pending" <=> d \in Items(pending)
      BY DEF ConduitInv, NoCallLost
    <3>2. \A d \in Call : call'[d] = "pending" <=> d \in Items(pending')
      BY <2>2, <2>3, <3>1
    <3>3. \A d \in Call : call'[d] # "inflight"
      BY <1>9, <2>3 DEF ConduitInv, NoCallLost
    <3>4. QED
      BY <1>1, <1>9, <2>1, <3>2, <3>3 DEF ConduitInv, NoCallLost
  <2>5. PortOrder'
    <3>1. \A t \in Tab : \A i \in DOMAIN toWorker[t] : toWorker[t][i] \in Call =>
             needs'[toWorker[t][i]] = needs[toWorker[t][i]]
      BY <1>5, <1>7 DEF Items
    <3>2. PendingInOrder'
      <4>1. \A i \in DOMAIN pending : pending[i] < c /\ pending[i] \in Nat
        <5>1. \A d \in Items(pending) : d \in Call /\ call[d] = "pending"
          BY <2>2, ItemsType DEF ConduitInv, NoCallLost
        <5>2. QED
          BY <1>2, <1>3, <5>1 DEF Items
      <4>2. \A i, j \in DOMAIN pending : i < j => pending[i] < pending[j]
        BY DEF ConduitInv, PortOrder
      <4>3. /\ Len(pending) \in Nat /\ DOMAIN pending = 1 .. Len(pending)
            /\ DOMAIN pending' = 1 .. Len(pending) + 1
            /\ \A i \in 1 .. Len(pending) : pending'[i] = pending[i]
            /\ pending'[Len(pending) + 1] = c
        BY <2>1, <2>2, SeqIndex, AppendProperties
      <4>4. ASSUME NEW i \in DOMAIN pending', NEW j \in DOMAIN pending', i < j
            PROVE  pending'[i] < pending'[j]
        <5>1. i \in DOMAIN pending /\ pending'[i] = pending[i]
          BY <4>3, <4>4
        <5>2. (j \in DOMAIN pending /\ pending'[j] = pending[j]) \/ pending'[j] = c
          BY <4>3
        <5>3. QED
          BY <4>1, <4>2, <4>4, <5>1, <5>2
      <4>5. QED
        BY <4>4 DEF PendingInOrder
    <3>3. QED
      BY <1>1, <2>1, <3>1, <3>2 DEF ConduitInv, PortOrder, PendingInOrder
  <2>6. LeaderOK'
    BY <1>1, <1>9 DEF LeaderOK
  <2>7. \A t \in Tab : WorkerOK(t)'
    BY <1>1, <2>1 DEF ConduitInv, WorkerOK, Unled
  <2>8. ASSUME NEW d \in Call
        PROVE  SentOnce(d)'
    <3>1. SentOnce(d) /\ UNCHANGED <<toWorker, running, replies, ran, leader, inflight>>
      BY <1>1, <2>1 DEF ConduitInv
    <3>2. \A t \in Tab : /\ Posted(t, d)' <=> Posted(t, d)
                         /\ Replied(t, d)' <=> Replied(t, d)
      BY <3>1 DEF Posted, Replied
    <3>3. \A t \in Tab : At(t, d)' <=> At(t, d)
      BY <3>1, <3>2 DEF At
    <3>4. call'[d] \in {"idle", "pending"} <=> call[d] \in {"idle", "pending"}
      BY <1>3, <2>3
    <3>5. QED
      BY <3>1, <3>2, <3>3, <3>4 DEF SentOnce
  <2>9. \A d \in Call : CallOK(d)'
    BY <1>1, <1>2, <1>5, <2>3 DEF ConduitInv, CallOK
  <2>10. TypeOK'
    BY <1>1, <1>2, <1>5, <2>1, <2>2, <2>3 DEF TypeOK
  <2>11. QED
    BY <1>6, <2>4, <2>5, <2>6, <2>7, <2>8, <2>9, <2>10 DEF ConduitInv
<1>10. QED
  BY <1>8, <1>9

(* Only the leader has answers the broker listens to, and the call of an   *)
(* answer is in flight.                                                    *)
LEMMA AnswerOfTheLeader ==
    ASSUME ConduitInv, NEW t \in Tab, t \in tabs, NEW c \in Call, NEW outcome \in Outcome,
           <<c, outcome>> \in replies[t]
    PROVE  /\ t = leader /\ c \in inflight[t] /\ call[c] = "inflight" /\ ran[c] = 1
           /\ \A u \in Tab : ~ Posted(u, c) /\ c \notin running[u]
           /\ \A u \in Tab : Replied(u, c) => u = t
           /\ \A o \in Outcome : <<c, o>> \in replies[t] => o = outcome
<1>1. WorkerOK(t) /\ SentOnce(c)
  BY DEF ConduitInv
<1>2. Replied(t, c) /\ At(t, c)
  BY DEF Replied, At
<1>3. t = leader
  BY <1>1 DEF WorkerOK, Unled
<1>4. c \in inflight[t] /\ ran[c] = 1
  BY <1>1, <1>2, <1>3 DEF SentOnce
<1>5. call[c] = "inflight"
  BY <1>3, <1>4, ConstantsAssumption DEF ConduitInv, NoCallLost
<1>6. \A u \in Tab : At(u, c) => u = t
  BY <1>1, <1>2 DEF SentOnce
<1>7. \A u \in Tab : Posted(u, c) => ran[c] = 0
  BY <1>1 DEF SentOnce
<1>8. \A u \in Tab : Replied(u, c) => c \notin running[u]
  BY <1>1 DEF SentOnce
<1>9. \A u \in Tab : ~ Posted(u, c) /\ c \notin running[u]
  BY <1>2, <1>4, <1>6, <1>7, <1>8 DEF At
<1>10. \A u \in Tab : Replied(u, c) => u = t
  BY <1>6 DEF At
<1>11. \A o \in Outcome : <<c, o>> \in replies[t] => o = outcome
  BY <1>1 DEF SentOnce
<1>12. QED
  BY <1>3, <1>4, <1>5, <1>9, <1>10, <1>11

LEMMA SettleStep ==
    ASSUME ConduitInv, NEW t \in Tab, NEW c \in Call, NEW outcome \in Outcome,
           Settle(t, c, outcome)
    PROVE  ConduitInv'
<1> USE DEF pageVars, mapVars, bridgeVars
<1>1. /\ TypeOK /\ t \in tabs /\ <<c, outcome>> \in replies[t]
      /\ replies' = [replies EXCEPT ![t] = @ \ {<<c, outcome>>}]
      /\ call' = [call EXCEPT ![c] = outcome]
      /\ inflight' = [inflight EXCEPT ![t] = @ \ {c}]
      /\ UNCHANGED <<pageVars, mapVars, leader, pending, made, bridgeVars, needs,
                     toWorker, elected, installed, running, ran>>
  BY DEF ConduitInv, Settle
<1>2. /\ t = leader /\ c \in inflight[t] /\ call[c] = "inflight" /\ ran[c] = 1
      /\ \A u \in Tab : ~ Posted(u, c) /\ c \notin running[u]
      /\ \A u \in Tab : Replied(u, c) => u = t
      /\ \A o \in Outcome : <<c, o>> \in replies[t] => o = outcome
  BY <1>1, AnswerOfTheLeader
<1>3. /\ call' \in [Call -> {"idle", "pending", "inflight"} \cup Settled]
      /\ call'[c] \in Outcome /\ \A d \in Call \ {c} : call'[d] = call[d]
      /\ inflight' \in [Tab -> SUBSET Call]
      /\ inflight'[t] = inflight[t] \ {c} /\ \A u \in Tab \ {t} : inflight'[u] = inflight[u]
      /\ replies' \in [Tab -> SUBSET (Call \X Outcome)]
      /\ replies'[t] = replies[t] \ {<<c, outcome>>}
      /\ \A u \in Tab \ {t} : replies'[u] = replies[u]
  BY <1>1 DEF TypeOK, Settled
<1>4. call'[c] \notin {"idle", "pending", "inflight"}
  BY <1>3 DEF Outcome
<1>5. NoCallLost'
  <2>1. \A d \in Call : /\ call[d] = "pending" <=> d \in Items(pending)
                        /\ call[d] = "inflight" <=> leader # Null /\ d \in inflight[leader]
    BY DEF ConduitInv, NoCallLost
  <2>2. \A d \in Call : /\ call'[d] = "pending" <=> d \in Items(pending)
                        /\ call'[d] = "inflight" <=> leader # Null /\ d \in inflight'[leader]
    BY <1>2, <1>3, <1>4, <2>1
  <2>3. QED
    BY <1>1, <1>2, <1>3, <2>2 DEF ConduitInv, NoCallLost
<1>6. PortOrder' /\ LeaderOK'
  BY <1>1 DEF ConduitInv, PortOrder, LeaderOK
<1>7. \A u \in Tab : PageOK(u)'
  BY <1>1 DEF ConduitInv, PageOK
<1>8. \A u \in Tab : WorkerOK(u)'
  BY <1>1, <1>2, <1>3 DEF ConduitInv, WorkerOK, Unled
<1>9. ASSUME NEW d \in Call
      PROVE  SentOnce(d)'
  <2>1. SentOnce(d) /\ UNCHANGED <<toWorker, running, ran, leader>>
    BY <1>1 DEF ConduitInv
  <2>2. \A u \in Tab : Posted(u, d)' <=> Posted(u, d)
    BY <2>1 DEF Posted
  <2>3. \A u \in Tab, o \in Outcome : <<d, o>> \in replies'[u] => <<d, o>> \in replies[u]
    BY <1>3
  <2>4. \A u \in Tab : /\ Replied(u, d)' => Replied(u, d)
                       /\ At(u, d)' => At(u, d)
    BY <2>1, <2>2, <2>3 DEF Replied, At
  <2>5. d = c => \A u \in Tab : ~ At(u, d)'
    <3>1. \A u \in Tab, o \in Outcome : <<c, o>> \notin replies'[u]
      BY <1>2, <1>3 DEF Replied
    <3>2. QED
      BY <1>1, <1>2, <2>2, <3>1 DEF Replied, At
  <2>6. \A u \in Tab : /\ At(u, d)' => call'[d] \notin {"idle", "pending"}
                       /\ At(u, d)' /\ u = leader' => d \in inflight'[u]
    <3>1. CASE d = c
      BY <2>5, <3>1
    <3>2. CASE d # c
      BY <1>3, <2>1, <2>4, <3>2 DEF SentOnce
    <3>3. QED
      BY <3>1, <3>2
  <2>7. call'[d] \in {"idle", "pending"} => ran'[d] = 0
    BY <1>3, <1>4, <2>1 DEF SentOnce
  <2>8. QED
    BY <2>1, <2>2, <2>3, <2>4, <2>6, <2>7 DEF SentOnce
<1>10. \A d \in Call : CallOK(d)'
  BY <1>1, <1>2, <1>3, <1>4 DEF ConduitInv, CallOK
<1>11. TypeOK'
  BY <1>1, <1>3 DEF TypeOK
<1>12. QED
  BY <1>5, <1>6, <1>7, <1>8, <1>9, <1>10, <1>11 DEF ConduitInv

-----------------------------------------------------------------------------
(* The dedicated workers.                                                  *)

LEMMA WorkerReplyStep ==
    ASSUME ConduitInv, NEW t \in Tab, NEW c \in Call, NEW outcome \in Outcome,
           WorkerReply(t, c, outcome)
    PROVE  ConduitInv'
<1> USE DEF pageVars, mapVars, callVars, bridgeVars
<1>1. /\ TypeOK /\ c \in running[t]
      /\ running' = [running EXCEPT ![t] = @ \ {c}]
      /\ replies' = IF t \in tabs THEN [replies EXCEPT ![t] = @ \cup {<<c, outcome>>}]
                    ELSE replies
      /\ UNCHANGED <<pageVars, mapVars, leader, callVars, made, bridgeVars, needs,
                     toWorker, elected, installed, ran>>
  BY DEF ConduitInv, WorkerReply
<1>2. /\ running' \in [Tab -> SUBSET Call]
      /\ running'[t] = running[t] \ {c} /\ \A u \in Tab \ {t} : running'[u] = running[u]
      /\ replies' \in [Tab -> SUBSET (Call \X Outcome)]
      /\ replies'[t] \subseteq replies[t] \cup {<<c, outcome>>}
      /\ \A u \in Tab \ {t} : replies'[u] = replies[u]
  <2>1. /\ running \in [Tab -> SUBSET Call]
        /\ replies \in [Tab -> SUBSET (Call \X Outcome)]
        /\ <<c, outcome>> \in Call \X Outcome
    BY <1>1 DEF TypeOK
  <2>2. CASE t \in tabs
    BY <1>1, <2>1, <2>2
  <2>3. CASE t \notin tabs
    BY <1>1, <2>1, <2>3
  <2>4. QED
    BY <2>2, <2>3
<1>3. NoCallLost' /\ LeaderOK'
  BY <1>1 DEF ConduitInv, NoCallLost, LeaderOK
<1>4. PortOrder'
  BY <1>1 DEF ConduitInv, PortOrder
<1>5. \A u \in Tab : PageOK(u)'
  BY <1>1 DEF ConduitInv, PageOK
<1>6. ~ Unled(t)
  BY <1>1 DEF ConduitInv, WorkerOK
<1>7. \A u \in Tab : WorkerOK(u)'
  BY <1>1, <1>2, <1>6 DEF ConduitInv, WorkerOK, Unled
<1>8. ASSUME NEW d \in Call
      PROVE  SentOnce(d)'
  <2>1. SentOnce(d) /\ UNCHANGED <<toWorker, ran, call, leader, inflight>>
    BY <1>1 DEF ConduitInv
  <2>2. \A u \in Tab : Posted(u, d)' <=> Posted(u, d)
    BY <2>1 DEF Posted
  <2>3. \A u \in Tab : /\ Replied(u, d)' => Replied(u, d) \/ (u = t /\ d = c)
                       /\ At(u, d)' => At(u, d)
    BY <1>1, <1>2, <2>2 DEF Replied, At
  <2>4. d = c => ~ Replied(t, d) /\ ran[d] = 1
    BY <1>1, <2>1 DEF SentOnce
  <2>5. \A u \in Tab : /\ d \in running'[u] \/ Replied(u, d)' => ran[d] = 1
                       /\ ~ (d \in running'[u] /\ Replied(u, d)')
    BY <1>2, <2>1, <2>3, <2>4 DEF SentOnce
  <2>6. ASSUME NEW u \in Tab, NEW o \in Outcome, NEW p \in Outcome,
               <<d, o>> \in replies'[u], <<d, p>> \in replies'[u]
        PROVE  o = p
    <3>1. CASE u = t /\ d = c
      <4>1. <<d, o>> \notin replies[t] /\ <<d, p>> \notin replies[t]
        BY <2>4, <3>1 DEF Replied
      <4>2. QED
        BY <1>2, <2>6, <3>1, <4>1
    <3>2. CASE ~ (u = t /\ d = c)
      BY <1>2, <2>1, <2>6, <3>2 DEF SentOnce
    <3>3. QED
      BY <3>1, <3>2
  <2>7. QED
    BY <2>1, <2>2, <2>3, <2>5, <2>6 DEF SentOnce
<1>9. \A d \in Call : CallOK(d)'
  BY <1>1 DEF ConduitInv, CallOK
<1>10. TypeOK'
  BY <1>1, <1>2 DEF TypeOK
<1>11. QED
  BY <1>3, <1>4, <1>5, <1>7, <1>8, <1>9, <1>10 DEF ConduitInv

(* What is installed or started when the head of a port is delivered.      *)
LEMMA WorkerReceiveStep ==
    ASSUME ConduitInv, NEW t \in Tab, WorkerReceive(t)
    PROVE  ConduitInv'
<1> USE DEF pageVars, mapVars, callVars, bridgeVars
<1> DEFINE s == toWorker[t]
           h == Head(s)
           r == Tail(s)
<1>1. /\ TypeOK /\ s # <<>> /\ toWorker' = [toWorker EXCEPT ![t] = r]
      /\ BecomeLeader(t) \/ InstallCallback(t) \/ RunCall(t)
      /\ UNCHANGED <<pageVars, mapVars, leader, callVars, made, bridgeVars, needs, replies>>
  BY DEF ConduitInv, WorkerReceive
<1>2. /\ toWorker \in [Tab -> Seq(Message)] /\ s \in Seq(Message)
      /\ elected \subseteq Tab /\ installed \in [Tab -> SUBSET Callback]
      /\ running \in [Tab -> SUBSET Call] /\ ran \in [Call -> Nat]
      /\ needs \in [Call -> SUBSET Callback]
  BY <1>1 DEF TypeOK
<1>3. /\ r \in Seq(Message) /\ h = s[1] /\ 1 \in DOMAIN s /\ Items(s) = {h} \cup Items(r)
      /\ \A i \in DOMAIN r : i + 1 \in DOMAIN s /\ r[i] = s[i + 1]
  BY <1>1, <1>2, TailIndex
<1>4. /\ toWorker' \in [Tab -> Seq(Message)] /\ toWorker'[t] = r
      /\ \A u \in Tab \ {t} : toWorker'[u] = toWorker[u]
  BY <1>1, <1>2, <1>3
<1>5. h # Elected => t \in elected
  <2>1. Ready(t, s[1], Before(s, 1))
    BY <1>3, PortOrderIsReady DEF ConduitInv
  <2>2. Before(s, 1) = {}
    BY DEF Before
  <2>3. QED
    BY <1>3, <2>1, <2>2 DEF Ready
<1>6. /\ Elected \notin Callback /\ Elected \notin Call /\ Callback \cap Call = {}
  BY ConstantsAssumption
<1>7. /\ h = Elected \/ h \in Callback \/ h \in Call
      /\ elected' = IF h = Elected THEN elected \cup {t} ELSE elected
      /\ installed' = IF h \in Callback THEN [installed EXCEPT ![t] = @ \cup {h}] ELSE installed
      /\ running' = IF h \in Call THEN [running EXCEPT ![t] = @ \cup {h}] ELSE running
      /\ ran' = IF h \in Call THEN [ran EXCEPT ![h] = @ + 1] ELSE ran
  <2>1. CASE BecomeLeader(t)
    BY <1>6, <2>1 DEF BecomeLeader
  <2>2. CASE InstallCallback(t)
    BY <1>5, <1>6, <2>2 DEF InstallCallback
  <2>3. CASE RunCall(t)
    BY <1>5, <1>6, <2>3 DEF RunCall
  <2>4. QED
    BY <1>1, <2>1, <2>2, <2>3
<1>8. ~ Unled(t)
  BY <1>1 DEF ConduitInv, WorkerOK
<1> HIDE DEF s, h, r
<1>9. /\ elected' \in SUBSET Tab /\ elected \subseteq elected' /\ elected' \subseteq elected \cup {t}
      /\ installed' \in [Tab -> SUBSET Callback]
      /\ \A u \in Tab \ {t} : installed'[u] = installed[u]
      /\ installed'[t] = IF h \in Callback THEN installed[t] \cup {h} ELSE installed[t]
  BY <1>2, <1>7
<1>10. /\ running' \in [Tab -> SUBSET Call]
       /\ \A u \in Tab \ {t} : running'[u] = running[u]
       /\ running'[t] = IF h \in Call THEN running[t] \cup {h} ELSE running[t]
  BY <1>2, <1>7
<1>11. /\ ran' \in [Call -> Nat]
       /\ \A c \in Call : ran'[c] = IF c = h THEN ran[c] + 1 ELSE ran[c]
  <2>1. CASE h \in Call
    BY <1>2, <1>7, <2>1
  <2>2. CASE h \notin Call
    BY <1>2, <1>7, <2>2
  <2>3. QED
    BY <2>1, <2>2
<1>12. NoCallLost'
  BY <1>1 DEF ConduitInv, NoCallLost
<1>13. PortOrder'
  <2>1. /\ \A u \in Tab : \A i \in DOMAIN toWorker[u] :
              Ready(u, toWorker[u][i], Before(toWorker[u], i))
        /\ PendingInOrder
    BY PortOrderIsReady DEF ConduitInv
  <2>2. ASSUME NEW u \in Tab, NEW i \in DOMAIN toWorker'[u]
        PROVE  Ready(u, toWorker[u][i], Before(toWorker[u], i))'
    <3>1. CASE u = t
      <4>1. /\ i + 1 \in DOMAIN s /\ r[i] = s[i + 1]
            /\ Before(s, i + 1) = {h} \cup Before(r, i)
        BY <1>1, <1>2, <1>4, <2>2, <3>1, TailBefore DEF r, h
      <4>2. Ready(t, r[i], {h} \cup Before(r, i))
        BY <2>1, <4>1 DEF s
      <4>3. r[i] # Elected => t \in elected' \/ Elected \in Before(r, i)
        BY <1>7, <1>9, <4>2 DEF Ready
      <4>4. r[i] \in Call =>
               /\ needs[r[i]] \subseteq installed'[t] \cup Before(r, i)
               /\ \A c \in Before(r, i) \cap Call : c < r[i]
        BY <1>2, <1>9, <4>2 DEF Ready
      <4>5. needs' = needs /\ toWorker'[u] = r
        BY <1>1, <1>4, <3>1
      <4>6. QED
        BY <3>1, <4>3, <4>4, <4>5 DEF Ready
    <3>2. CASE u # t
      <4>1. /\ toWorker'[u] = toWorker[u] /\ installed'[u] = installed[u] /\ needs' = needs
            /\ u \in elected => u \in elected'
        BY <1>1, <1>4, <1>9, <3>2
      <4>2. QED
        BY <2>1, <4>1 DEF Ready
    <3>3. QED
      BY <3>1, <3>2
  <2>3. PendingInOrder'
    BY <1>1, <2>1 DEF PendingInOrder
  <2>4. \A u \in Tab : \A i \in DOMAIN toWorker'[u] :
            LET w == toWorker'[u][i]
                before == {toWorker'[u][j] : j \in 1 .. (i - 1)}
            IN  /\ w # Elected => u \in elected' \/ Elected \in before
                /\ w \in Call => /\ needs'[w] \subseteq installed'[u] \cup before
                                /\ \A c \in before \cap Call : c < w
    BY <2>2, Zenon DEF Ready, Before
  <2>5. QED
    BY <2>3, <2>4 DEF PortOrder, PendingInOrder
<1>14. LeaderOK'
  <2>1. CASE leader = t
    <3>1. /\ t \in elected \/ Elected \in {h} \cup Items(r)
          /\ Items(fns) \subseteq installed[t] \cup {h} \cup Items(r)
          \/ leader = Null
      BY <1>3, <2>1 DEF ConduitInv, LeaderOK, s
    <3>2. t \in elected' \/ Elected \in Items(r) \/ leader = Null
      BY <1>7, <1>9, <3>1
    <3>3. Items(fns) \subseteq installed'[t] \cup Items(r) \/ leader = Null
      <4>1. Items(fns) \subseteq Callback
        BY <1>1, ItemsType DEF TypeOK
      <4>2. QED
        BY <1>9, <3>1, <4>1
    <3>4. QED
      BY <1>1, <1>4, <2>1, <3>2, <3>3 DEF LeaderOK
  <2>2. CASE leader # t
    <3>1. leader # Null => leader \in Tab \ {t}
      BY <1>1, <2>2 DEF TypeOK
    <3>2. QED
      BY <1>1, <1>4, <1>9, <3>1 DEF ConduitInv, LeaderOK
  <2>3. QED
    BY <2>1, <2>2
<1>15. \A u \in Tab : PageOK(u)'
  BY <1>1 DEF ConduitInv, PageOK
<1>16. \A u \in Tab : WorkerOK(u)'
  <2>1. ASSUME NEW u \in Tab, Unled(u)'
        PROVE  /\ toWorker'[u] = <<>> /\ running'[u] = {} /\ replies'[u] = {}
               /\ u \notin elected' /\ installed'[u] = {}
    <3>1. Unled(u) /\ u # t
      BY <1>1, <1>8, <2>1 DEF Unled
    <3>2. QED
      BY <1>1, <1>4, <1>9, <1>10, <3>1 DEF ConduitInv, WorkerOK
  <2>2. QED
    BY <2>1 DEF WorkerOK
<1>17. ASSUME NEW c \in Call
       PROVE  SentOnce(c)'
  <2>1. SentOnce(c) /\ UNCHANGED <<replies, call, leader, inflight>>
    BY <1>1 DEF ConduitInv
  <2>2. \A u \in Tab : Replied(u, c)' <=> Replied(u, c)
    BY <2>1 DEF Replied
  <2>3. \A u \in Tab : Posted(u, c)' => Posted(u, c)
    BY <1>3, <1>4 DEF Posted, s
  <2>4. \A u \in Tab : \A i, j \in DOMAIN toWorker'[u] :
           toWorker'[u][i] = c /\ toWorker'[u][j] = c => i = j
    <3>1. \A i, j \in DOMAIN r : r[i] = c /\ r[j] = c => i = j
      <4>1. \A i, j \in DOMAIN s : s[i] = c /\ s[j] = c => i = j
        BY <2>1 DEF SentOnce, s
      <4>2. Len(r) \in Nat /\ DOMAIN r = 1 .. Len(r)
        BY <1>3, SeqIndex
      <4>3. ASSUME NEW i \in DOMAIN r, NEW j \in DOMAIN r, r[i] = c, r[j] = c
            PROVE  i = j
        <5>1. i + 1 = j + 1
          BY <1>3, <4>1, <4>3
        <5>2. QED
          BY <4>2, <5>1
      <4>4. QED
        BY <4>3
    <3>2. QED
      BY <1>4, <2>1, <3>1 DEF SentOnce
  <2>5. CASE c # h
    <3>1. \A u \in Tab : c \in running'[u] <=> c \in running[u]
      BY <1>10, <2>5
    <3>2. ran'[c] = ran[c]
      BY <1>11, <2>5
    <3>3. \A u \in Tab : At(u, c)' => At(u, c)
      BY <2>2, <2>3, <3>1 DEF At
    <3>4. QED
      BY <2>1, <2>2, <2>3, <2>4, <3>1, <3>2, <3>3 DEF SentOnce
  <2>6. CASE c = h
    <3>1. Posted(t, c) /\ At(t, c)
      BY <1>3, <2>6 DEF Posted, At, s
    <3>2. /\ ran[c] = 0 /\ \A u \in Tab : c \notin running[u] /\ ~ Replied(u, c)
          /\ \A u \in Tab : At(u, c) => u = t
          /\ call[c] \notin {"idle", "pending"}
          /\ t = leader => c \in inflight[t]
      BY <2>1, <3>1 DEF SentOnce
    <3>3. ran'[c] = 1
      BY <1>11, <2>6, <3>2
    <3>4. ~ Posted(t, c)'
      <4>1. \A i \in DOMAIN r : r[i] # c
        <5> SUFFICES ASSUME NEW i \in DOMAIN r, r[i] = c
                     PROVE  FALSE
          OBVIOUS
        <5>1. i + 1 = 1
          BY <1>3, <2>1, <2>6 DEF SentOnce, s
        <5>2. Len(r) \in Nat /\ DOMAIN r = 1 .. Len(r)
          BY <1>3, SeqIndex
        <5>3. QED
          BY <5>1, <5>2
      <4>2. QED
        BY <1>4, <4>1 DEF Posted, Items
    <3>5. \A u \in Tab : At(u, c)' => u = t
      BY <1>10, <2>2, <2>3, <3>2 DEF At
    <3>6. \A u \in Tab : ~ Posted(u, c)' /\ ~ Replied(u, c)'
      BY <2>2, <3>2, <3>4, <3>5 DEF At
    <3>7. \A u \in Tab : \A o, p \in Outcome :
             <<c, o>> \in replies'[u] /\ <<c, p>> \in replies'[u] => o = p
      BY <2>1 DEF SentOnce
    <3>8. QED
      BY <2>1, <2>4, <3>2, <3>3, <3>5, <3>6, <3>7 DEF SentOnce
  <2>7. QED
    BY <2>5, <2>6
<1>18. \A c \in Call : CallOK(c)'
  BY <1>1 DEF ConduitInv, CallOK
<1>19. TypeOK'
  BY <1>1, <1>4, <1>9, <1>10, <1>11 DEF TypeOK
<1>20. QED
  BY <1>12, <1>13, <1>14, <1>15, <1>16, <1>17, <1>18, <1>19 DEF ConduitInv

-----------------------------------------------------------------------------
(* The invariant holds, and what follows from it.                          *)

LEMMA InitConduit == Init => ConduitInv
<1> SUFFICES ASSUME Init PROVE ConduitInv
  OBVIOUS
<1> USE DEF Init
<1>1. TypeOK
  BY ConstantsAssumption DEF TypeOK
<1>2. NoCallLost
  BY ItemsEmpty DEF NoCallLost
<1>3. PortOrder /\ LeaderOK
  BY DEF PortOrder, LeaderOK
<1>4. \A t \in Tab : PageOK(t) /\ WorkerOK(t)
  BY ItemsEmpty DEF PageOK, WorkerOK
<1>5. \A c \in Call : SentOnce(c)
  BY ItemsEmpty DEF SentOnce, At, Posted, Replied
<1>6. \A c \in Call : CallOK(c)
  BY DEF CallOK, Call
<1>7. QED
  BY <1>1, <1>2, <1>3, <1>4, <1>5, <1>6 DEF ConduitInv

LEMMA NextConduit == ConduitInv /\ [Next]_vars => ConduitInv'
<1> SUFFICES ASSUME ConduitInv, [Next]_vars PROVE ConduitInv'
  OBVIOUS
<1>1. CASE Next
  <2>1. ASSUME NEW t \in Tab, Start(t) \/ PostRegister(t) \/ Leave(t) \/ Die(t)
        PROVE  ConduitInv'
    BY <2>1, PageSteps
  <2>2. ASSUME NEW t \in Tab, Register(t)
        PROVE  ConduitInv'
    BY <2>2, RegisterStep
  <2>3. ASSUME NEW t \in Tab, Unregister(t) \/ HeartbeatStop(t)
        PROVE  ConduitInv'
    BY <2>3, RemoveStep
  <2>4. ASSUME NEW t \in Tab, WorkerReceive(t)
        PROVE  ConduitInv'
    BY <2>4, WorkerReceiveStep
  <2>5. ASSUME NEW t \in Tab, NEW c \in Call, NEW outcome \in Outcome,
               WorkerReply(t, c, outcome)
        PROVE  ConduitInv'
    BY <2>5, WorkerReplyStep
  <2>6. ASSUME NEW t \in Tab, NEW c \in Call, NEW outcome \in Outcome,
               Settle(t, c, outcome)
        PROVE  ConduitInv'
    BY <2>6, SettleStep
  <2>7. ASSUME NEW c \in Call, CallOnLeader(c)
        PROVE  ConduitInv'
    BY <2>7, CallOnLeaderStep
  <2>8. ASSUME NEW f \in Callback, CreateCallback(f)
        PROVE  ConduitInv'
    BY <2>8, CreateCallbackStep
  <2>9. QED
    BY <1>1, <2>1, <2>2, <2>3, <2>4, <2>5, <2>6, <2>7, <2>8 DEF Next
<1>2. CASE UNCHANGED vars
  <2> USE <1>2 DEF vars, pageVars, mapVars, callVars, bridgeVars, workerVars
  <2>1. TypeOK'
    BY DEF ConduitInv, TypeOK
  <2>2. NoCallLost' /\ LeaderOK'
    BY DEF ConduitInv, NoCallLost, LeaderOK
  <2>3. PortOrder'
    BY DEF ConduitInv, PortOrder
  <2>4. \A t \in Tab : PageOK(t)' /\ WorkerOK(t)'
    BY DEF ConduitInv, PageOK, WorkerOK, Unled
  <2>5. \A c \in Call : SentOnce(c)'
    BY SentOnceKept DEF ConduitInv
  <2>6. \A c \in Call : CallOK(c)'
    BY DEF ConduitInv, CallOK
  <2>7. QED
    BY <2>1, <2>2, <2>3, <2>4, <2>5, <2>6 DEF ConduitInv
<1>3. QED
  BY <1>1, <1>2

LEMMA ConduitInvariant == Spec => []ConduitInv
BY InitConduit, NextConduit, PTL DEF Spec

(* The broker, the ports and the workers keep values of their types: with  *)
(* it, _pickNextLeader always finds a tab to promote.                      *)
THEOREM TypeCorrect == Spec => []TypeOK
<1>1. ConduitInv => TypeOK
  BY DEF ConduitInv
<1>2. QED
  BY <1>1, ConduitInvariant, PTL

(* A promise callOnLeader returned is settled, queued while there is no    *)
(* leader, or in flight on the leader there is: whatever the pages do and  *)
(* in whatever order their envelopes and heartbeats arrive.                *)
THEOREM NoCallIsLost == Spec => []NoCallLost
<1>1. ConduitInv => NoCallLost
  BY DEF ConduitInv
<1>2. QED
  BY <1>1, ConduitInvariant, PTL

(* The port of every worker has the election first, the calls in the order *)
(* they were made, and the callbacks of a call before it.                  *)
THEOREM PortsAreInOrder == Spec => []PortOrder
<1>1. ConduitInv => PortOrder
  BY DEF ConduitInv
<1>2. QED
  BY <1>1, ConduitInvariant, PTL

(* What a removal does to the promises: those in flight on the tab, all of *)
(* them on the leader, are rejected, and no other settles.                 *)
LEMMA RemovalGivesUp ==
    ASSUME ConduitInv, NEW t \in Tab, Unregister(t) \/ HeartbeatStop(t)
    PROVE  /\ \A c \in inflight[t] : c \in Call /\ call[c] = "inflight"
           /\ inflight[t] # {} => t = leader
           /\ t \notin tabs'
           /\ \A c \in Call : IF c \in inflight[t] THEN call'[c] = "resigned"
                              ELSE \/ call'[c] = call[c]
                                   \/ call[c] = "pending" /\ call'[c] = "inflight"
           /\ ran' = ran
<1>1. RemoveTab(t) /\ ran' = ran /\ tabs' = tabs \ {t}
  BY DEF Unregister, HeartbeatStop, RemoveTab, workerVars
<1>2. inflight[t] \subseteq Call
  BY DEF ConduitInv, TypeOK
<1>3. inflight[t] # {} => t = leader
  BY DEF ConduitInv, NoCallLost
<1>4. \A c \in inflight[t] : call[c] = "inflight"
  BY <1>2, <1>3, ConstantsAssumption DEF ConduitInv, NoCallLost
<1>5. \A c \in Call : c \in Items(pending) <=> call[c] = "pending"
  BY DEF ConduitInv, NoCallLost
<1>6. \A c \in Call : IF c \in inflight[t] THEN call'[c] = "resigned"
                      ELSE \/ call'[c] = call[c]
                           \/ call[c] = "pending" /\ call'[c] = "inflight"
  <2>1. CASE leader = t /\ tabs' # {}
    <3>1. call' = [c \in Call |-> IF c \in Items(pending) THEN "inflight"
                                  ELSE Resign(inflight[t])[c]]
      BY <1>1, <2>1 DEF RemoveTab, Promote
    <3>2. QED
      BY <1>4, <1>5, <3>1 DEF Resign
  <2>2. CASE ~ (leader = t /\ tabs' # {})
    BY <1>1, <2>2 DEF RemoveTab, Resign
  <2>3. QED
    BY <2>1, <2>2
<1>7. QED
  BY <1>1, <1>2, <1>3, <1>4, <1>6

(* A registration settles nothing.                                         *)
LEMMA RegistrationSettlesNothing ==
    ASSUME ConduitInv, NEW t \in Tab, Register(t)
    PROVE  /\ \A c \in Call : \/ call'[c] = call[c]
                              \/ call[c] = "pending" /\ call'[c] = "inflight"
           /\ ran' = ran
<1>1. ran' = ran
  BY DEF Register, workerVars
<1>2. \A c \in Call : c \in Items(pending) <=> call[c] = "pending"
  BY DEF ConduitInv, NoCallLost
<1>3. CASE leader = Null
  <2>1. call' = [c \in Call |-> IF c \in Items(pending) THEN "inflight" ELSE call[c]]
    BY <1>3 DEF Register, Promote
  <2>2. QED
    BY <1>1, <1>2, <2>1
<1>4. CASE leader # Null
  BY <1>1, <1>4 DEF Register, callVars
<1>5. QED
  BY <1>3, <1>4

(* The other steps: a call is made, or leaves the queue.                   *)
LEMMA QuietSteps ==
    ASSUME ConduitInv, [Next]_vars,
           \A t \in Tab : ~ (Unregister(t) \/ HeartbeatStop(t)),
           \A c \in Call, t \in Tab, outcome \in Outcome : ~ Settle(t, c, outcome)
    PROVE  \A c \in Call : call'[c] # call[c] =>
              \/ call[c] = "idle" /\ call'[c] \in {"pending", "inflight"}
              \/ call[c] = "pending" /\ call'[c] = "inflight"
<1> USE DEF vars, pageVars, mapVars, callVars, bridgeVars, workerVars
<1>1. CASE \E t \in Tab : Register(t)
  BY <1>1, RegistrationSettlesNothing
<1>2. CASE \E c \in Call : CallOnLeader(c)
  <2>1. PICK c \in Call : CallOnLeader(c)
    BY <1>2
  <2>2. call[c] = "idle" /\ call \in [Call -> {"idle", "pending", "inflight"} \cup Settled]
    <3>1. c > made
      BY <2>1 DEF CallOnLeader, ConduitInv, TypeOK
    <3>2. QED
      BY <3>1 DEF ConduitInv, CallOK, TypeOK
  <2>3. call' = [call EXCEPT ![c] = "inflight"] \/ call' = [call EXCEPT ![c] = "pending"]
    BY <2>1 DEF CallOnLeader
  <2>4. QED
    BY <2>2, <2>3
<1>3. CASE call' = call
  BY <1>3
<1>4. \/ \E t \in Tab : Register(t)
      \/ \E c \in Call : CallOnLeader(c)
      \/ call' = call
  BY DEF Next, Start, PostRegister, Leave, Die, WorkerReceive, WorkerReply,
     CreateCallback
<1>5. QED
  BY <1>1, <1>2, <1>3, <1>4

(* Calls are rejected with LeaderResignedError only by the removal of the  *)
(* leader they were sent to.                                               *)
THEOREM ResignsWithTheLeader == Spec => GivenUpWithTheLeader
<1> DEFINE Resigned ==
        \A c \in Call : call'[c] = "resigned" /\ call[c] # "resigned" =>
            c \in inflight[leader] /\ leader \notin tabs'
<1>1. ASSUME ConduitInv, [Next]_vars
      PROVE  Resigned
  <2>1. CASE \E t \in Tab : Unregister(t) \/ HeartbeatStop(t)
    <3>1. PICK t \in Tab : Unregister(t) \/ HeartbeatStop(t)
      BY <2>1
    <3>2. /\ inflight[t] # {} => t = leader
          /\ t \notin tabs'
          /\ \A c \in Call : IF c \in inflight[t] THEN call'[c] = "resigned"
                             ELSE \/ call'[c] = call[c]
                                  \/ call[c] = "pending" /\ call'[c] = "inflight"
      BY <1>1, <3>1, RemovalGivesUp
    <3>3. QED
      BY <3>2
  <2>2. CASE \E t \in Tab, c \in Call, outcome \in Outcome : Settle(t, c, outcome)
    <3>1. PICK t \in Tab, c \in Call, outcome \in Outcome : Settle(t, c, outcome)
      BY <2>2
    <3>2. call' = [call EXCEPT ![c] = outcome] /\ outcome # "resigned"
      BY <3>1 DEF Settle, Outcome
    <3>3. call \in [Call -> {"idle", "pending", "inflight"} \cup Settled]
      BY <1>1 DEF ConduitInv, TypeOK
    <3>4. QED
      BY <3>2, <3>3
  <2>3. CASE /\ \A t \in Tab : ~ (Unregister(t) \/ HeartbeatStop(t))
             /\ \A c \in Call, t \in Tab, outcome \in Outcome : ~ Settle(t, c, outcome)
    BY <1>1, <2>3, QuietSteps
  <2>4. QED
    BY <2>1, <2>2, <2>3
<1>2. ConduitInv /\ [Next]_vars => [Resigned]_vars
  BY <1>1
<1>3. QED
  BY <1>2, ConduitInvariant, PTL DEF Spec, GivenUpWithTheLeader

-----------------------------------------------------------------------------
(* The refinement.                                                         *)

(* The status of RemoteCalls.                                              *)
Status == [c \in Call |-> IF call[c] \in {"pending", "inflight"} THEN "waiting" ELSE call[c]]

(* A step that moves a call from the queue to a leader, or touches none,   *)
(* is no step of the remote calls.                                         *)
LEMMA StatusKept ==
    ASSUME \A c \in Call : \/ call'[c] = call[c]
                           \/ call[c] = "pending" /\ call'[c] = "inflight"
    PROVE  Status' = Status
BY DEF Status

LEMMA NextImplements ==
    ASSUME ConduitInv, [Next]_vars
    PROVE  [Remote!Next]_(Remote!vars)
<1> USE DEF vars, pageVars, mapVars, callVars, bridgeVars, workerVars
<1>1. /\ ran \in [Call -> Nat]
      /\ call \in [Call -> {"idle", "pending", "inflight"} \cup Settled]
  BY DEF ConduitInv, TypeOK
<1>2. CASE Status' = Status /\ ran' = ran
  BY <1>2 DEF Remote!vars, Status
<1>3. CASE \E t \in Tab : Unregister(t) \/ HeartbeatStop(t)
  <2>1. PICK t \in Tab : Unregister(t) \/ HeartbeatStop(t)
    BY <1>3
  <2>2. /\ \A c \in inflight[t] : c \in Call /\ call[c] = "inflight"
        /\ \A c \in Call : IF c \in inflight[t] THEN call'[c] = "resigned"
                           ELSE \/ call'[c] = call[c]
                                \/ call[c] = "pending" /\ call'[c] = "inflight"
        /\ ran' = ran
    BY <2>1, RemovalGivesUp
  <2>3. PICK S \in SUBSET Call : S = inflight[t]
    BY <2>2
  <2>4. \A c \in S : Status[c] = "waiting"
    BY <2>2, <2>3 DEF Status
  <2>5. Status' = [c \in Call |-> IF c \in S THEN "resigned" ELSE Status[c]]
    BY <2>2, <2>3 DEF Status
  <2>6. Remote!GiveUp(S)
    BY <2>2, <2>4, <2>5 DEF Remote!GiveUp, Status
  <2>7. QED
    BY <2>6 DEF Remote!Next
<1>4. CASE \E t \in Tab, c \in Call, outcome \in Outcome : Settle(t, c, outcome)
  <2>1. PICK t \in Tab, c \in Call, outcome \in Outcome : Settle(t, c, outcome)
    BY <1>4
  <2>2. call[c] = "inflight" /\ ran[c] = 1
    BY <2>1, AnswerOfTheLeader DEF Settle
  <2>3. call' = [call EXCEPT ![c] = outcome] /\ ran' = ran
    BY <2>1 DEF Settle
  <2>4. Status[c] = "waiting" /\ Status' = [Status EXCEPT ![c] = outcome]
    BY <1>1, <2>2, <2>3 DEF Status, Outcome
  <2>5. Remote!Answer(c, outcome)
    BY <2>2, <2>3, <2>4 DEF Remote!Answer, Status
  <2>6. QED
    BY <2>5 DEF Remote!Next, Outcome
<1>5. CASE \E c \in Call : CallOnLeader(c)
  <2>1. PICK c \in Call : CallOnLeader(c)
    BY <1>5
  <2>2. c > made
    BY <2>1 DEF CallOnLeader, ConduitInv, TypeOK
  <2>3. call[c] = "idle"
    BY <2>2 DEF ConduitInv, CallOK
  <2>4. \/ call' = [call EXCEPT ![c] = "inflight"]
        \/ call' = [call EXCEPT ![c] = "pending"]
    BY <2>1 DEF CallOnLeader
  <2>5. Status[c] = "idle" /\ Status' = [Status EXCEPT ![c] = "waiting"] /\ ran' = ran
    BY <1>1, <2>1, <2>3, <2>4 DEF Status, CallOnLeader
  <2>6. Remote!Issue(c)
    BY <2>5 DEF Remote!Issue, Status
  <2>7. QED
    BY <2>6 DEF Remote!Next
<1>6. CASE \E t \in Tab : WorkerReceive(t)
  <2>1. PICK t \in Tab : WorkerReceive(t)
    BY <1>6
  <2>2. call' = call /\ Status' = Status
    BY <2>1 DEF WorkerReceive, Status
  <2>3. CASE ran' = ran
    BY <1>2, <2>2, <2>3
  <2>4. CASE ran' # ran
    <3> DEFINE c == Head(toWorker[t])
    <3>1. c \in Call /\ ran' = [ran EXCEPT ![c] = @ + 1] /\ toWorker[t] # <<>>
      BY <2>1, <2>4 DEF WorkerReceive, BecomeLeader, InstallCallback, RunCall
    <3>2. toWorker[t] \in Seq(Message)
      BY DEF ConduitInv, TypeOK
    <3>3. c \in Items(toWorker[t])
      BY <3>1, <3>2, TailIndex
    <3>4. Posted(t, c) /\ At(t, c)
      BY <3>3 DEF Posted, At
    <3> HIDE DEF c
    <3>5. ran[c] = 0 /\ call[c] \notin {"idle", "pending"}
      BY <3>1, <3>4 DEF ConduitInv, SentOnce
    <3>6. Status[c] # "idle" /\ ran' = [ran EXCEPT ![c] = 1]
      BY <1>1, <3>1, <3>5 DEF Status
    <3>7. Remote!Run(c)
      BY <2>2, <3>5, <3>6 DEF Remote!Run, Status
    <3>8. QED
      BY <3>1, <3>7 DEF Remote!Next
  <2>5. QED
    BY <2>3, <2>4
<1>7. CASE \E t \in Tab : Register(t)
  <2>1. PICK t \in Tab : Register(t)
    BY <1>7
  <2>2. /\ \A c \in Call : \/ call'[c] = call[c]
                           \/ call[c] = "pending" /\ call'[c] = "inflight"
        /\ ran' = ran
    BY <2>1, RegistrationSettlesNothing
  <2>3. Status' = Status
    BY <2>2, StatusKept
  <2>4. QED
    BY <1>2, <2>2, <2>3
<1>8. \/ \E t \in Tab : Unregister(t) \/ HeartbeatStop(t)
      \/ \E t \in Tab, c \in Call, outcome \in Outcome : Settle(t, c, outcome)
      \/ \E c \in Call : CallOnLeader(c)
      \/ \E t \in Tab : WorkerReceive(t)
      \/ \E t \in Tab : Register(t)
      \/ Status' = Status /\ ran' = ran
  BY DEF Next, Start, PostRegister, Leave, Die, WorkerReply, CreateCallback, Status
<1>9. QED
  BY <1>2, <1>3, <1>4, <1>5, <1>6, <1>7, <1>8

(* Elections, deaths and restarts included, a call on the leader runs at   *)
(* most once and settles at most once, an answer comes from a method that  *)
(* ran, and only a waiting call is given up.                               *)
THEOREM RefinesRemoteCalls == Spec => ImplementsRemoteCalls
<1>1. Init => Remote!Init
  BY DEF Init, Remote!Init
<1>2. ConduitInv /\ [Next]_vars => [Remote!Next]_(Remote!vars)
  BY NextImplements
<1>3. QED
  BY <1>1, <1>2, ConduitInvariant, PTL DEF Spec, ImplementsRemoteCalls, Remote!Spec

=============================================================================
