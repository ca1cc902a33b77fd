---------------------------- MODULE SharedExchange ----------------------------
(***************************************************************************)
(* One URQL exchange shared by the tabs of an application:                 *)
(* SharedExchangeService in the hub, proxySharedExchange in every tab, and *)
(* SharedServicesManager, which connects a tab and notices its death by    *)
(* the lock that is its heartbeat.  A miss of the wrapped exchange is sent *)
(* down to a tab, whose next exchanges fetch it.                           *)
(*                                                                         *)
(* A handler of the hub or of a tab runs to its end, so each is an action; *)
(* what lies between them is the message ports, first in first out.  The   *)
(* handle of a mutation is its own, so it is a query nobody else asks.     *)
(***************************************************************************)
EXTENDS Naturals, Sequences, SequencesExt, OrderedSets

CONSTANTS Tab, Query, Subscription,  \* the operations, by handle
          None,
          MaxExecutes,    \* bound on the operations dispatched
          MaxUpdates,     \* bound on the results of subscriptions and the
                          \* calls of reexecuteOperation, together
          MaxDeaths       \* bound on the tabs that die

ASSUME ConstantsAssumption ==
    /\ Query \cap Subscription = {}
    /\ None \notin Tab
    /\ MaxExecutes \in Nat /\ MaxUpdates \in Nat /\ MaxDeaths \in Nat

Handle == Query \cup Subscription

VARIABLES
    alive,      \* of a tab: "new", "alive" or "dead"
    ops,        \* of a tab: pendingOps, with a result subject each
    answered,   \* of a tab: those a result came for since they were dispatched
    fetching,   \* of a tab: what its next exchanges work on for the hub
    toHub,      \* the calls of a tab to the hub
    toTab,      \* the callbacks of the hub to a tab
    watched,    \* the tabs whose heartbeat the hub waits for
    spokes,     \* the registered tabs, in their order
    spokeOps,   \* SpokeState.ops
    subscribers,\* operationSubscribers, in the order they came
    active,     \* operationsByHandle and activeOperationHandles
    forwarding, \* forwardingSpokes
    pending,    \* pendingForwards
    working,    \* of a handle: the operations inside the wrapped exchange
    executes, updates, deaths

tabVars == <<alive, ops, answered, fetching>>
hubVars == <<spokes, spokeOps, subscribers, active, forwarding, pending, working>>
counters == <<executes, updates, deaths>>
vars == <<tabVars, toHub, toTab, watched, hubVars, counters>>

Message == [type : {"connect", "register"}, handle : {None}] \cup
           [type : {"execute", "teardown", "resolve"}, handle : Handle]
Callback == [type : {"onResult", "onForward", "onTeardown", "onReexecute"},
             handle : Handle]

Init ==
    /\ alive = [t \in Tab |-> "new"]
    /\ ops = [t \in Tab |-> {}]
    /\ answered = [t \in Tab |-> {}]
    /\ fetching = [t \in Tab |-> {}]
    /\ toHub = [t \in Tab |-> <<>>]
    /\ toTab = [t \in Tab |-> <<>>]
    /\ watched = {}
    /\ spokes = <<>>
    /\ spokeOps = [t \in Tab |-> {}]
    /\ subscribers = [h \in Handle |-> <<>>]
    /\ active = {}
    /\ forwarding = [h \in Handle |-> None]
    /\ pending = {}
    /\ working = [h \in Handle |-> 0]
    /\ executes = 0 /\ updates = 0 /\ deaths = 0

-----------------------------------------------------------------------------
(* A tab *)

Call(t, type, h) == toHub' = [toHub EXCEPT ![t] = Append(@, [type |-> type, handle |-> h])]

(* ensureConnected: the forward pipeline is set up, and the tab registers  *)
(* before its first operation goes out.                                    *)
Registration == [type |-> "register", handle |-> None]

(* The heartbeat is held before the hub is asked to connect.               *)
Connect(t) ==
    /\ alive[t] = "new"
    /\ alive' = [alive EXCEPT ![t] = "alive"]
    /\ toHub' = [toHub EXCEPT ![t] = <<[type |-> "connect", handle |-> None],
                                       Registration>>]
    /\ UNCHANGED <<ops, answered, fetching, toTab, watched, hubVars, counters>>

(* An operation, or the re-execution of one: its subject is a new one.     *)
Dispatch(t, h) ==
    /\ ops' = [ops EXCEPT ![t] = @ \cup {h}]
    /\ answered' = [answered EXCEPT ![t] = @ \ {h}]
    /\ Call(t, "execute", h)

Execute(t, h) ==
    /\ alive[t] = "alive"
    /\ executes < MaxExecutes
    /\ executes' = executes + 1
    /\ Dispatch(t, h)
    /\ UNCHANGED <<alive, fetching, toTab, watched, hubVars, updates, deaths>>

Teardown(t, h) ==
    /\ alive[t] = "alive"
    /\ h \in ops[t]
    /\ ops' = [ops EXCEPT ![t] = @ \ {h}]
    /\ answered' = [answered EXCEPT ![t] = @ \ {h}]
    /\ Call(t, "teardown", h)
    /\ UNCHANGED <<alive, fetching, toTab, watched, hubVars, counters>>

(* The next exchanges produce a result: a query has one, a subscription    *)
(* any number.                                                             *)
Resolve(t, h) ==
    /\ h \in fetching[t]
    /\ Call(t, "resolve", h)
    /\ IF h \in Query
       THEN fetching' = [fetching EXCEPT ![t] = @ \ {h}] /\ UNCHANGED updates
       ELSE updates < MaxUpdates /\ updates' = updates + 1 /\ UNCHANGED fetching
    /\ UNCHANGED <<alive, ops, answered, toTab, watched, hubVars,
                   executes, deaths>>

(* The tab closes or crashes: what it posted is still on its port.         *)
Die(t) ==
    /\ alive[t] = "alive"
    /\ deaths < MaxDeaths
    /\ deaths' = deaths + 1
    /\ alive' = [alive EXCEPT ![t] = "dead"]
    /\ ops' = [ops EXCEPT ![t] = {}]
    /\ answered' = [answered EXCEPT ![t] = {}]
    /\ fetching' = [fetching EXCEPT ![t] = {}]
    /\ toTab' = [toTab EXCEPT ![t] = <<>>]
    /\ UNCHANGED <<toHub, watched, hubVars, executes, updates>>

TakeCallback(t, type, h) ==
    /\ toTab[t] # <<>>
    /\ Head(toTab[t]) = [type |-> type, handle |-> h]
    /\ toTab' = [toTab EXCEPT ![t] = Tail(@)]

OnResult(t, h) ==
    /\ TakeCallback(t, "onResult", h)
    /\ answered' = [answered EXCEPT ![t] = @ \cup ({h} \cap ops[t])]
    /\ UNCHANGED <<alive, ops, fetching, toHub, watched, hubVars, counters>>

OnForward(t, h) ==
    /\ TakeCallback(t, "onForward", h)
    /\ fetching' = [fetching EXCEPT ![t] = @ \cup {h}]
    /\ UNCHANGED <<alive, ops, answered, toHub, watched, hubVars, counters>>

OnForwardTeardown(t, h) ==
    /\ TakeCallback(t, "onTeardown", h)
    /\ fetching' = [fetching EXCEPT ![t] = @ \ {h}]
    /\ UNCHANGED <<alive, ops, answered, toHub, watched, hubVars, counters>>

(* The client dispatches an operation again only if it is active there.    *)
OnReexecute(t, h) ==
    /\ TakeCallback(t, "onReexecute", h)
    /\ IF h \in ops[t] THEN Dispatch(t, h) ELSE UNCHANGED <<ops, answered, toHub>>
    /\ UNCHANGED <<alive, fetching, watched, hubVars, counters>>

-----------------------------------------------------------------------------
(* The hub *)

Hear(t, type, h) ==
    /\ toHub[t] # <<>>
    /\ Head(toHub[t]) = [type |-> type, handle |-> h]
    /\ toHub' = [toHub EXCEPT ![t] = Tail(@)]

(* A callback to a dead tab goes nowhere. *)
Post(queues, t, type, h) ==
    IF alive[t] = "alive" THEN [queues EXCEPT ![t] = Append(@, [type |-> type, handle |-> h])]
                          ELSE queues

Registered(t) == t \in ToSet(spokes)

OnConnectTab(t) ==
    /\ Hear(t, "connect", None)
    /\ watched' = watched \cup {t}
    /\ UNCHANGED <<tabVars, toTab, hubVars, counters>>

Register(t) ==
    /\ Hear(t, "register", None)
    /\ spokes' = Add(spokes, t)
    /\ spokeOps' = [spokeOps EXCEPT ![t] = {}]
    /\ UNCHANGED <<tabVars, toTab, watched, subscribers, active, forwarding,
                   pending, working, counters>>

(* The stream of the hub's operations goes into the wrapped exchange.      *)
Enters(h) == working' = [working EXCEPT ![h] = @ + 1]

(* Only subscriptions are deduplicated. *)
ExecuteOperation(t, h) ==
    /\ Hear(t, "execute", h)
    /\ subscribers' = [subscribers EXCEPT ![h] = Add(@, t)]
    /\ spokeOps' = [spokeOps EXCEPT ![t] = IF Registered(t) THEN @ \cup {h} ELSE @]
    /\ active' = active \cup {h}
    /\ IF h \in Query \/ h \notin active THEN Enters(h) ELSE UNCHANGED working
    /\ UNCHANGED <<tabVars, toTab, watched, spokes, forwarding, pending, counters>>

Remaining(t, h) == Delete(subscribers[h], t)

(* A tab leaves a subscription that it fetches, and others stay.           *)
HandsOff(t, h) ==
    h \in Subscription /\ h \in active /\ forwarding[h] = t /\ Remaining(t, h) # <<>>

(* Who fetches it then: the first of the others, if that one is registered.*)
SuccessorUnrecorded(t, h) ==   \* mutant: the tab that leaves stays first
    IF HandsOff(t, h) /\ Registered(subscribers[h][1]) THEN subscribers[h][1] ELSE None
Successor(t, h) ==
    IF HandsOff(t, h) /\ Registered(Remaining(t, h)[1]) THEN Remaining(t, h)[1] ELSE None

(* teardownOperation for each handle of H.  The last to leave is recorded  *)
(* in teardownTriggeredBy for as long as the teardown takes to come out of *)
(* the wrapped exchange, in this same step.                                *)
LeaveForwards(t, H) ==   \* mutant: what was forwarded stays forwarded
    LET over == {h \in H : Remaining(t, h) = <<>>}
    IN  /\ subscribers' = [h \in Handle |-> IF h \in H THEN Remaining(t, h) ELSE subscribers[h]]
        /\ active' = active \ over
        /\ working' = [h \in Handle |-> IF h \in over THEN 0 ELSE working[h]]
        /\ UNCHANGED <<pending, forwarding>>
Leave(t, H) ==
    LET over == {h \in H : Remaining(t, h) = <<>>}
    IN  /\ subscribers' = [h \in Handle |-> IF h \in H THEN Remaining(t, h) ELSE subscribers[h]]
        /\ active' = active \ over
        /\ pending' = pending \ over
        /\ working' = [h \in Handle |-> IF h \in over THEN 0 ELSE working[h]]
        /\ forwarding' = [h \in Handle |->
              IF h \in over THEN None
              ELSE IF h \in H /\ Successor(t, h) # None THEN Successor(t, h)
              ELSE forwarding[h]]

(* What teardownOperation tells the tabs: the one that leaves that its     *)
(* fetch is over, and the next one to fetch.                               *)
TellLeft(queues, t, h) ==
    IF Registered(t) /\ h \in active /\ (HandsOff(t, h) \/ Remaining(t, h) = <<>>)
    THEN Post(queues, t, "onTeardown", h) ELSE queues
TellSuccessor(queues, t, h) ==
    IF Successor(t, h) # None THEN Post(queues, Successor(t, h), "onForward", h) ELSE queues

TeardownOperation(t, h) ==
    /\ Hear(t, "teardown", h)
    /\ Leave(t, {h})
    /\ spokeOps' = [spokeOps EXCEPT ![t] = @ \ {h}]
    /\ toTab' = TellSuccessor(TellLeft(toTab, t, h), t, h)
    /\ UNCHANGED <<tabVars, watched, spokes, counters>>

(* onDisconnectTab, when the lock of a dead tab is granted: it is assumed  *)
(* to come after what the tab posted.  The order of the operations does    *)
(* not matter: they are different handles.                                 *)
OnDisconnectSpoke(t) ==   \* mutant: its operations are not torn down
    /\ t \in watched /\ alive[t] = "dead"
    /\ toHub[t] = <<>>
    /\ watched' = watched \ {t}
    /\ spokes' = Delete(spokes, t)
    /\ spokeOps' = [spokeOps EXCEPT ![t] = {}]
    /\ UNCHANGED <<tabVars, toHub, toTab, subscribers, active, forwarding, pending,
                   working, counters>>
OnDisconnectTab(t) ==
    /\ t \in watched /\ alive[t] = "dead"
    /\ toHub[t] = <<>>
    /\ watched' = watched \ {t}
    /\ IF Registered(t)
       THEN /\ Leave(t, spokeOps[t])
            /\ toTab' = [u \in Tab |->
                 toTab[u] \o SetToSeq({[type |-> "onForward", handle |-> h] :
                    h \in {x \in spokeOps[t] : Successor(t, x) = u /\ alive[u] = "alive"}})]
            /\ spokes' = Delete(spokes, t)
            /\ spokeOps' = [spokeOps EXCEPT ![t] = {}]
       ELSE UNCHANGED <<hubVars, toTab>>
    /\ UNCHANGED <<tabVars, toHub, counters>>

BroadcastToFetcher(h) ==   \* mutant: only the tab that fetched it hears of it
    toTab' = [u \in Tab |->
        IF u = forwarding[h] /\ Registered(u) /\ alive[u] = "alive"
        THEN Append(toTab[u], [type |-> "onResult", handle |-> h]) ELSE toTab[u]]
Broadcast(h) ==
    toTab' = [u \in Tab |->
        IF u \in ToSet(subscribers[h]) /\ Registered(u) /\ alive[u] = "alive"
        THEN Append(toTab[u], [type |-> "onResult", handle |-> h]) ELSE toTab[u]]

(* The push function of the handle puts the result into the stream of the  *)
(* wrapped exchange, which emits it.                                       *)
ResolveForwarded(t, h) ==
    /\ Hear(t, "resolve", h)
    /\ IF h \in pending THEN Broadcast(h) ELSE UNCHANGED toTab
    /\ UNCHANGED <<tabVars, watched, hubVars, counters>>

Hit(h) ==
    /\ h \in Query /\ working[h] > 0
    /\ working' = [working EXCEPT ![h] = @ - 1]
    /\ Broadcast(h)
    /\ UNCHANGED <<tabVars, toHub, watched, spokes, spokeOps, subscribers, active,
                   forwarding, pending, counters>>

OwnerSpoke(h) == IF subscribers[h] = <<>> THEN None ELSE subscribers[h][1]
FallbackSpoke == IF spokes = <<>> THEN None ELSE spokes[1]

(* The first subscriber, or else the first tab that is registered.         *)
TabFor(h) == IF Registered(OwnerSpoke(h)) THEN OwnerSpoke(h) ELSE FallbackSpoke

(* The wrapped exchange forwards it. *)
Forward(h) ==
    /\ working[h] > 0
    /\ working' = [working EXCEPT ![h] = @ - 1]
    /\ IF TabFor(h) = None THEN UNCHANGED <<toTab, forwarding, pending>>
       ELSE /\ forwarding' = [forwarding EXCEPT ![h] = TabFor(h)]
            /\ pending' = pending \cup {h}
            /\ toTab' = Post(toTab, TabFor(h), "onForward", h)
    /\ UNCHANGED <<tabVars, toHub, watched, spokes, spokeOps, subscribers, active,
                   counters>>

(* The wrapped exchange asks its client to execute an operation again.     *)
ReexecuteOperation(h) ==
    /\ updates < MaxUpdates
    /\ TabFor(h) # None
    /\ updates' = updates + 1
    /\ toTab' = Post(toTab, TabFor(h), "onReexecute", h)
    /\ UNCHANGED <<tabVars, toHub, watched, hubVars, executes, deaths>>

(* A tab takes the next callback of its port, the hub the next call.       *)
TabTakes(t) == \E h \in Handle :
    OnResult(t, h) \/ OnForward(t, h) \/ OnForwardTeardown(t, h) \/ OnReexecute(t, h)
HubTakes(t) ==
    \/ OnConnectTab(t) \/ Register(t)
    \/ \E h \in Handle : \/ ExecuteOperation(t, h) \/ TeardownOperation(t, h)
                         \/ ResolveForwarded(t, h)

Next ==
    \/ \E t \in Tab : Connect(t) \/ Die(t) \/ OnDisconnectTab(t) \/ TabTakes(t) \/ HubTakes(t)
    \/ \E t \in Tab, h \in Handle : Execute(t, h) \/ Teardown(t, h) \/ Resolve(t, h)
    \/ \E h \in Handle : Hit(h) \/ Forward(h) \/ ReexecuteOperation(h)

Spec == Init /\ [][Next]_vars

(* Ports deliver, the wrapped exchange answers or forwards, and the next   *)
(* exchanges of a tab answer a query; the heartbeat of a dead tab stops.   *)
Fairness ==
    /\ \A t \in Tab : WF_vars(TabTakes(t)) /\ WF_vars(HubTakes(t)) /\ WF_vars(OnDisconnectTab(t))
    /\ \A t \in Tab, h \in Query : WF_vars(Resolve(t, h))
    /\ \A h \in Handle : WF_vars(Forward(h))

LiveSpec == Spec /\ Fairness

-----------------------------------------------------------------------------
(* Properties *)

TypeOK ==
    /\ alive \in [Tab -> {"new", "alive", "dead"}]
    /\ ops \in [Tab -> SUBSET Handle]
    /\ answered \in [Tab -> SUBSET Handle]
    /\ fetching \in [Tab -> SUBSET Handle]
    /\ toHub \in [Tab -> Seq(Message)]
    /\ toTab \in [Tab -> Seq(Callback)]
    /\ watched \subseteq Tab
    /\ spokes \in Seq(Tab)
    /\ spokeOps \in [Tab -> SUBSET Handle]
    /\ subscribers \in [Handle -> Seq(Tab)]
    /\ active \subseteq Handle
    /\ forwarding \in [Handle -> Tab \cup {None}]
    /\ pending \subseteq Handle
    /\ working \in [Handle -> Nat]
    /\ executes \in Nat /\ updates \in Nat /\ deaths \in Nat

BooksAgreeOn(h) ==
    /\ \A t \in Tab : t \in ToSet(subscribers[h]) <=> Registered(t) /\ h \in spokeOps[t]
    /\ h \in active <=> subscribers[h] # <<>>
    /\ h \in pending <=> forwarding[h] # None
    /\ h \in pending \/ working[h] > 0 => h \in active

(* The maps of the hub have their types and agree, and nothing is left of  *)
(* an operation that nobody subscribes to: a tab counts as a subscriber    *)
(* while it is registered and the operation is one of its own, and only an *)
(* operation with a subscriber is active, forwarded or inside the          *)
(* exchange.                                                               *)
BooksAgree == TypeOK /\ \A h \in Handle : BooksAgreeOn(h)

(* A tab with these fetches fetches h for the hub once it has taken the    *)
(* callbacks of the queue: it was told to, or does already, and was not    *)
(* told to stop after that.                                                *)
CarriesAfter(queue, h, fetches) ==
    LET ToldToStop(from) == \E i \in from..Len(queue) :
                                queue[i] = [type |-> "onTeardown", handle |-> h]
    IN  \/ h \in fetches /\ ~ToldToStop(1)
        \/ \E i \in 1..Len(queue) : /\ queue[i] = [type |-> "onForward", handle |-> h]
                                   /\ ~ToldToStop(i + 1)

Carries(t, h) == CarriesAfter(toTab[t], h, fetching[t])

(* However many tabs ask for a subscription, leave it, die or come back,   *)
(* one tab that is alive fetches it: the one the hub takes for it, which   *)
(* is a subscriber.  ("N spokes asking for the same subscription create    *)
(* one upstream subscription.")                                            *)
OneUpstream ==
    \A h \in Subscription :
        /\ \A t \in Tab : alive[t] = "alive" => (Carries(t, h) <=> forwarding[h] = t)
        /\ forwarding[h] # None => forwarding[h] \in ToSet(subscribers[h])

(* While some tab is with a subscription, a living tab fetches it, again   *)
(* and again, whoever leaves or dies.                                      *)
SubscriptionIsCarried ==
    \A h \in Subscription :
        (\E t \in Tab : h \in ops[t])
            ~> (\A t \in Tab : h \notin ops[t]) \/ \E u \in Tab : h \in fetching[u]

(* A query is answered while the tab stays with it, unless a tab dies:     *)
(* a query that a dead tab was fetching is not handed off.                 *)
QueryIsAnswered ==
    \A t \in Tab, h \in Query :
        h \in ops[t] ~> (h \notin ops[t] \/ h \in answered[t] \/ deaths > 0)
=============================================================================
