------------------------------ MODULE Conduit ------------------------------
(***************************************************************************)
(* @repliql/conduit: the pages that own a dedicated worker (tab.ts), the   *)
(* broker of the shared worker that elects one of them and routes calls to *)
(* it (Broker.ts, shared.ts), and the dedicated workers (dedicated.ts).    *)
(* It also has the first listener of the election,                         *)
(* replayCreateCallbackFunction of @repliql/kysely-driver-bridge, which    *)
(* installs the callbacks of the shared worker in each new leader.         *)
(*                                                                         *)
(* A handler of the shared worker is one step.  Messages on a port are     *)
(* delivered in order; a port the broker closed delivers what was posted   *)
(* to the worker before, and nothing to the broker.  A dedicated worker    *)
(* lives as long as its page.                                              *)
(***************************************************************************)
EXTENDS Naturals, Sequences, FiniteSets

CONSTANTS
    Tab,          \* pages, by tabId
    MaxCalls,     \* bound: calls made on the leader
    Callback,     \* names given to createCallbackFunction
    Elected,      \* the CONDUIT_ELECTED_LEADER envelope
    Null,
    MaxClock,     \* bound: the last millisecond of Date.now()
    MaxLeaves     \* bound: pagehide events and dispose() calls

(* Calls are numbered in the order they are made.                          *)
Call == 1..MaxCalls

ASSUME ConstantsAssumption ==
    /\ MaxCalls \in Nat /\ MaxClock \in Nat /\ MaxLeaves \in Nat
    /\ Null \notin Tab
    /\ Elected \notin Callback \cup Call
    /\ Callback \cap Call = {}

VARIABLES
    \* -- the pages
    page,          \* "absent", "starting", "open" or "gone"
    toShared,      \* the envelopes on the page's SharedWorker port
    leaves,
    \* -- the broker
    clock,         \* Date.now()
    tabs,          \* the keys of `tabs`
    registeredAt,  \* TabEntry.registeredAt
    registrations, \* how many tabs were ever inserted in the Map `tabs`
    position,      \* ... and the rank of each
    watched,       \* tabs whose heartbeat.onStop has not fired
    leader,        \* currentLeaderId
    pending,       \* pendingDispatches
    inflight,      \* inflightByLeader
    call,          \* the promise of each call
    made,          \* how many calls were made
    fns,           \* replayCreateCallbackFunction: the stored callbacks, in order
    remoteBridge,  \* ... and the tab of the port it last wrapped
    needs,         \* the callbacks created before each call was made
    \* -- the dedicated workers
    toWorker,      \* messages on the port of the worker
    elected,       \* workers that ran onElectedLeader, which exposes their API
    installed,     \* callbacks installed in the worker
    running,       \* calls whose method the worker has started
    replies,       \* answers on the way to the broker
    ran            \* how often the method of a call was executed

pageVars == <<page, toShared, leaves>>
mapVars == <<clock, tabs, registeredAt, registrations, position, watched>>
callVars == <<pending, inflight, call>>
bridgeVars == <<fns, remoteBridge>>
workerVars == <<elected, installed, running, replies, ran>>
vars == <<pageVars, mapVars, leader, callVars, made, bridgeVars, needs,
          toWorker, workerVars>>

Outcome == {"resolved", "rejected"}
Settled == Outcome \cup {"resigned"}
Envelope == {"register", "unregister"}
Message == {Elected} \cup Callback \cup Call
Items(s) == {s[i] : i \in DOMAIN s}
Alive(t) == page[t] \in {"starting", "open"}

Init ==
    /\ page = [t \in Tab |-> "absent"]
    /\ toShared = [t \in Tab |-> <<>>]
    /\ leaves = 0
    /\ clock = 0
    /\ tabs = {}
    /\ registeredAt = [t \in Tab |-> 0]
    /\ registrations = 0
    /\ position = [t \in Tab |-> 0]
    /\ watched = {}
    /\ leader = Null
    /\ pending = <<>>
    /\ inflight = [t \in Tab |-> {}]
    /\ call = [c \in Call |-> "idle"]
    /\ made = 0
    /\ fns = <<>>
    /\ remoteBridge = Null
    /\ needs = [c \in Call |-> {}]
    /\ toWorker = [t \in Tab |-> <<>>]
    /\ elected = {}
    /\ installed = [t \in Tab |-> {}]
    /\ running = [t \in Tab |-> {}]
    /\ replies = [t \in Tab |-> {}]
    /\ ran = [c \in Call |-> 0]

-----------------------------------------------------------------------------
(* The pages.                                                              *)

(* conduit() loads the workers and asks for the heartbeat lock.            *)
Start(t) ==
    /\ page[t] = "absent"
    /\ page' = [page EXCEPT ![t] = "starting"]
    /\ UNCHANGED <<toShared, leaves, mapVars, leader, callVars, made, bridgeVars,
                   needs, toWorker, workerVars>>

(* The lock is held: the ports are handed over.                            *)
PostRegister(t) ==
    /\ page[t] = "starting"
    /\ page' = [page EXCEPT ![t] = "open"]
    /\ toShared' = [toShared EXCEPT ![t] = Append(@, "register")]
    /\ UNCHANGED <<leaves, mapVars, leader, callVars, made, bridgeVars, needs,
                   toWorker, workerVars>>

(* pagehide, at any time, or dispose(), which waits for the registration.  *)
(* Neither stops the dedicated worker nor releases the lock.               *)
Leave(t) ==
    /\ Alive(t)
    /\ leaves < MaxLeaves
    /\ leaves' = leaves + 1
    /\ toShared' = [toShared EXCEPT ![t] = Append(@, "unregister")]
    /\ UNCHANGED <<page, mapVars, leader, callVars, made, bridgeVars, needs,
                   toWorker, workerVars>>

(* The page and its worker die; the browser releases the lock.             *)
Die(t) ==
    /\ Alive(t)
    /\ page' = [page EXCEPT ![t] = "gone"]
    /\ UNCHANGED <<toShared, leaves, mapVars, leader, callVars, made, bridgeVars,
                   needs, toWorker, workerVars>>

-----------------------------------------------------------------------------
(* The broker.                                                             *)

(* _pickNextLeader: the largest registeredAt, and the first of the Map     *)
(* among equals, since the loop replaces its choice only when it finds a   *)
(* strictly larger one.                                                    *)
NextLeader(S) ==
    CHOOSE t \in S : \A u \in S :
        \/ registeredAt[u] < registeredAt[t]
        \/ registeredAt[u] = registeredAt[t] /\ position[t] <= position[u]

(* Mutant: the readers of inflightByLeader do not expect a missing entry.  *)
WithoutKey(sent, t) == [u \in Tab \ {t} |-> sent[u]]

(* inflightByLeader without its entry for t: as good as an empty set.      *)
Without(sent, t) == [sent EXCEPT ![t] = {}]

(* The listener of leaderElected installs the stored callbacks again.      *)
Replay == fns

(* Mutant: the queue is flushed before the listeners of leaderElected run. *)
PromoteThenReplay(t, promises, sent) ==
    /\ leader' = t
    /\ remoteBridge' = t
    /\ toWorker' = [toWorker EXCEPT ![t] = @ \o <<Elected>> \o pending \o Replay]
    /\ pending' = <<>>
    /\ inflight' = [sent EXCEPT ![t] = @ \cup Items(pending)]
    /\ call' = [c \in Call |-> IF c \in Items(pending) THEN "inflight" ELSE promises[c]]

(* _promote(t), with the promises and the in-flight sets as its caller     *)
(* leaves them: the election is announced to the worker, the listener of   *)
(* leaderElected replays the callbacks, and the pending calls follow.      *)
Promote(t, promises, sent) ==
    /\ leader' = t
    /\ remoteBridge' = t
    /\ toWorker' = [toWorker EXCEPT ![t] = @ \o <<Elected>> \o Replay \o pending]
    /\ pending' = <<>>
    /\ inflight' = [sent EXCEPT ![t] = @ \cup Items(pending)]
    /\ call' = [c \in Call |-> IF c \in Items(pending) THEN "inflight" ELSE promises[c]]

(* Delivery of the first envelope of a page.                               *)
Deliver(t, envelope) ==
    /\ toShared[t] # <<>>
    /\ Head(toShared[t]) = envelope
    /\ toShared' = [toShared EXCEPT ![t] = Tail(@)]
    /\ UNCHANGED <<page, leaves>>

(* TabEntry, with the Date.now() of its insertion.                         *)
Insert(t) ==
    /\ tabs' = tabs \cup {t}
    /\ \E now \in clock..MaxClock :
          /\ clock' = now
          /\ registeredAt' = [registeredAt EXCEPT ![t] = now]
    /\ registrations' = registrations + 1
    /\ position' = [position EXCEPT ![t] = registrations + 1]

(* Mutant: only the heartbeat of a tab that becomes leader is watched.    *)
RegisterWatchingLeader(t) ==
    /\ Deliver(t, "register")
    /\ t \notin tabs
    /\ Insert(t)
    /\ watched' = IF leader = Null THEN watched \cup {t} ELSE watched
    /\ IF leader = Null
       THEN Promote(t, call, inflight)
       ELSE UNCHANGED <<leader, callVars, remoteBridge, toWorker>>
    /\ UNCHANGED <<made, fns, needs, workerVars>>

(* _register.  A tab registers once: its id is made by the one conduit()   *)
(* call that posts the envelope.                                           *)
Register(t) ==
    /\ Deliver(t, "register")
    /\ t \notin tabs
    /\ Insert(t)
    /\ watched' = watched \cup {t}
    /\ IF leader = Null
       THEN Promote(t, call, inflight)
       ELSE UNCHANGED <<leader, callVars, remoteBridge, toWorker>>
    /\ UNCHANGED <<made, fns, needs, workerVars>>

(* The promises of the calls S reject with LeaderResignedError.            *)
Resign(S) == [c \in Call |-> IF c \in S THEN "resigned" ELSE call[c]]

(* Mutant: a removal that rejects nothing.                                *)
RemoveWithoutResign(t) ==
    /\ tabs' = tabs \ {t}
    /\ UNCHANGED <<clock, registeredAt, registrations, position>>
    /\ IF leader = t /\ tabs' # {}
       THEN Promote(NextLeader(tabs'), call, Without(inflight, t))
       ELSE /\ leader' = IF leader = t THEN Null ELSE leader
            /\ inflight' = Without(inflight, t)
            /\ UNCHANGED <<call, pending, remoteBridge, toWorker>>

(* Mutant: a removal that rejects the calls of every tab.                 *)
RemoveResigningAll(t) ==
    /\ tabs' = tabs \ {t}
    /\ UNCHANGED <<clock, registeredAt, registrations, position>>
    /\ LET given == UNION {inflight[u] : u \in Tab}
       IN IF leader = t /\ tabs' # {}
          THEN Promote(NextLeader(tabs'), Resign(given), [u \in Tab |-> {}])
          ELSE /\ leader' = IF leader = t THEN Null ELSE leader
               /\ call' = Resign(given)
               /\ inflight' = [u \in Tab |-> {}]
               /\ UNCHANGED <<pending, remoteBridge, toWorker>>

(* Mutant: a removal that sends the calls of the leader to the next one.  *)
RemoveAndRetry(t) ==
    /\ tabs' = tabs \ {t}
    /\ UNCHANGED <<clock, registeredAt, registrations, position>>
    /\ IF leader = t /\ tabs' # {}
       THEN /\ leader' = NextLeader(tabs')
            /\ remoteBridge' = leader'
            /\ \E again \in [1..Cardinality(inflight[t]) -> inflight[t]] :
                 /\ Items(again) = inflight[t]
                 /\ toWorker' = [toWorker EXCEPT ![leader'] =
                                    @ \o <<Elected>> \o Replay \o again]
            /\ inflight' = [Without(inflight, t) EXCEPT ![leader'] = inflight[t]]
            /\ UNCHANGED <<call, pending>>
       ELSE /\ leader' = IF leader = t THEN Null ELSE leader
            /\ call' = Resign(inflight[t])
            /\ inflight' = Without(inflight, t)
            /\ UNCHANGED <<pending, remoteBridge, toWorker>>

(* _removeTab: the entry goes and its port closes, the calls in flight on  *)
(* the tab are given up, and a leader is replaced when a tab is left.      *)
RemoveTab(t) ==
    /\ tabs' = tabs \ {t}
    /\ UNCHANGED <<clock, registeredAt, registrations, position>>
    /\ IF leader = t /\ tabs' # {}
       THEN Promote(NextLeader(tabs'), Resign(inflight[t]), Without(inflight, t))
       ELSE /\ leader' = IF leader = t THEN Null ELSE leader
            /\ call' = Resign(inflight[t])
            /\ inflight' = Without(inflight, t)
            /\ UNCHANGED <<pending, remoteBridge, toWorker>>

(* unregisterTab.                                                          *)
Unregister(t) ==
    /\ Deliver(t, "unregister")
    /\ RemoveTab(t)
    /\ UNCHANGED <<watched, made, fns, needs, workerVars>>

(* The lock of a dead page is granted to heartbeat.onStop.                 *)
HeartbeatStop(t) ==
    /\ t \in watched
    /\ page[t] = "gone"
    /\ watched' = watched \ {t}
    /\ RemoveTab(t)
    /\ UNCHANGED <<pageVars, made, fns, needs, workerVars>>

(* callOnLeader.                                                           *)
CallOnLeader(c) ==
    /\ made < MaxCalls
    /\ c = made + 1
    /\ made' = c
    /\ needs' = [needs EXCEPT ![c] = Items(fns)]
    /\ IF leader # Null
       THEN /\ call' = [call EXCEPT ![c] = "inflight"]
            /\ inflight' = [inflight EXCEPT ![leader] = @ \cup {c}]
            /\ toWorker' = [toWorker EXCEPT ![leader] = Append(@, c)]
            /\ UNCHANGED pending
       ELSE /\ call' = [call EXCEPT ![c] = "pending"]
            /\ pending' = Append(pending, c)
            /\ UNCHANGED <<inflight, toWorker>>
    /\ UNCHANGED <<pageVars, mapVars, leader, bridgeVars, workerVars>>

(* The answer of a worker settles the promise of callOnLeader.             *)
Settle(t, c, outcome) ==
    /\ t \in tabs
    /\ <<c, outcome>> \in replies[t]
    /\ replies' = [replies EXCEPT ![t] = @ \ {<<c, outcome>>}]
    /\ call' = [call EXCEPT ![c] = outcome]
    /\ inflight' = [inflight EXCEPT ![t] = @ \ {c}]
    /\ UNCHANGED <<pageVars, mapVars, leader, pending, made, bridgeVars, needs,
                   toWorker, elected, installed, running, ran>>

(* createCallbackFunction: stored, and posted on the port last wrapped,    *)
(* which drops it when the broker has closed that port.  Each table is     *)
(* watched under one name.                                                 *)
CreateCallback(f) ==
    /\ f \notin Items(fns)
    /\ fns' = Append(fns, f)
    /\ toWorker' = IF remoteBridge \in tabs
                   THEN [toWorker EXCEPT ![remoteBridge] = Append(@, f)]
                   ELSE toWorker
    /\ UNCHANGED <<pageVars, mapVars, leader, callVars, made, remoteBridge,
                   needs, workerVars>>

-----------------------------------------------------------------------------
(* The dedicated workers.  A method may be asynchronous: its answer is a   *)
(* step of its own, and answers may overtake one another.                  *)

(* The election: onElectedLeader exposes the API on the port.              *)
BecomeLeader(t) ==
    /\ Head(toWorker[t]) = Elected
    /\ elected' = elected \cup {t}
    /\ UNCHANGED <<installed, running, ran>>

(* Before the API is exposed nothing listens, and the message is lost.     *)
InstallCallback(t) ==
    /\ Head(toWorker[t]) \in Callback
    /\ installed' = IF t \in elected
                    THEN [installed EXCEPT ![t] = @ \cup {Head(toWorker[t])}]
                    ELSE installed
    /\ UNCHANGED <<elected, running, ran>>

RunCall(t) ==
    /\ Head(toWorker[t]) \in Call
    /\ IF t \in elected
       THEN /\ running' = [running EXCEPT ![t] = @ \cup {Head(toWorker[t])}]
            /\ ran' = [ran EXCEPT ![Head(toWorker[t])] = @ + 1]
       ELSE UNCHANGED <<running, ran>>
    /\ UNCHANGED <<elected, installed>>

WorkerReceive(t) ==
    /\ Alive(t)
    /\ toWorker[t] # <<>>
    /\ BecomeLeader(t) \/ InstallCallback(t) \/ RunCall(t)
    /\ toWorker' = [toWorker EXCEPT ![t] = Tail(@)]
    /\ UNCHANGED <<pageVars, mapVars, leader, callVars, made, bridgeVars, needs,
                   replies>>

WorkerReply(t, c, outcome) ==
    /\ Alive(t)
    /\ c \in running[t]
    /\ running' = [running EXCEPT ![t] = @ \ {c}]
    /\ replies' = IF t \in tabs
                  THEN [replies EXCEPT ![t] = @ \cup {<<c, outcome>>}]
                  ELSE replies
    /\ UNCHANGED <<pageVars, mapVars, leader, callVars, made, bridgeVars, needs,
                   toWorker, elected, installed, ran>>

-----------------------------------------------------------------------------
Next ==
    \/ \E t \in Tab : \/ Start(t) \/ PostRegister(t) \/ Leave(t) \/ Die(t)
                      \/ Register(t) \/ Unregister(t) \/ HeartbeatStop(t)
                      \/ WorkerReceive(t)
    \/ \E t \in Tab, c \in Call, outcome \in Outcome :
          WorkerReply(t, c, outcome) \/ Settle(t, c, outcome)
    \/ \E c \in Call : CallOnLeader(c)
    \/ \E f \in Callback : CreateCallback(f)

Spec == Init /\ [][Next]_vars

(* Messages arrive, a released lock is granted, a live worker handles its  *)
(* messages and its methods end.  Nothing makes a page open, leave or die, *)
(* or a call be made.                                                      *)
Fairness ==
    \A t \in Tab :
        /\ WF_vars(Register(t)) /\ WF_vars(Unregister(t))
        /\ WF_vars(HeartbeatStop(t))
        /\ WF_vars(WorkerReceive(t))
        /\ \A c \in Call :
              /\ WF_vars(\E outcome \in Outcome : WorkerReply(t, c, outcome))
              /\ WF_vars(\E outcome \in Outcome : Settle(t, c, outcome))

LiveSpec == Spec /\ Fairness

-----------------------------------------------------------------------------
(* Properties.                                                             *)

TypeOK ==
    /\ page \in [Tab -> {"absent", "starting", "open", "gone"}]
    /\ toShared \in [Tab -> Seq(Envelope)]
    /\ leaves \in Nat
    /\ clock \in 0..MaxClock
    /\ tabs \in SUBSET Tab
    /\ registeredAt \in [Tab -> 0..MaxClock]
    /\ registrations \in Nat
    /\ position \in [Tab -> Nat]
    /\ watched \in SUBSET Tab
    /\ leader \in Tab \cup {Null}
    /\ pending \in Seq(Call)
    /\ inflight \in [Tab -> SUBSET Call]
    /\ call \in [Call -> {"idle", "pending", "inflight"} \cup Settled]
    /\ made \in 0..MaxCalls
    /\ fns \in Seq(Callback)
    /\ remoteBridge \in Tab \cup {Null}
    /\ needs \in [Call -> SUBSET Callback]
    /\ toWorker \in [Tab -> Seq(Message)]
    /\ elected \in SUBSET Tab
    /\ installed \in [Tab -> SUBSET Callback]
    /\ running \in [Tab -> SUBSET Call]
    /\ replies \in [Tab -> SUBSET (Call \X Outcome)]
    /\ ran \in [Call -> Nat]

(* There is a leader exactly while there is a tab, it is one of the tabs,  *)
(* and the callbacks go to its port.  A promise that has not settled is in *)
(* exactly one place: the queue while there is no leader, or the in-flight *)
(* set of the current leader, whose removal rejects it.  A call that is in *)
(* none of them hangs for ever.                                            *)
NoCallLost ==
    /\ leader = Null <=> tabs = {}
    /\ leader # Null => leader \in tabs /\ remoteBridge = leader
    /\ \A c \in Call :
          /\ call[c] = "pending" <=> c \in Items(pending)
          /\ call[c] = "inflight" <=> leader # Null /\ c \in inflight[leader]
    /\ \A t \in Tab : t # leader => inflight[t] = {}
    /\ leader # Null => pending = <<>>

(* What a worker finds on its port: the election before anything else, the *)
(* calls in the order they were made, the queued ones included, and before *)
(* a call every callback that was created before it was made.  A query     *)
(* that runs first fires triggers whose function does not exist.           *)
PortOrder ==
    /\ \A t \in Tab : \A i \in DOMAIN toWorker[t] :
        LET m == toWorker[t][i]
            before == {toWorker[t][j] : j \in 1..(i - 1)}
        IN /\ m # Elected => t \in elected \/ Elected \in before
           /\ m \in Call => /\ needs[m] \subseteq installed[t] \cup before
                           /\ \A c \in before \cap Call : c < m
    /\ \A i, j \in DOMAIN pending : i < j => pending[i] < pending[j]

(* Calls are given up only with the leader they were sent to: the death of *)
(* another tab, or a registration, rejects none.                           *)
GivenUpWithTheLeader ==
    [][\A c \in Call : call'[c] = "resigned" /\ call[c] # "resigned" =>
          c \in inflight[leader] /\ leader \notin tabs']_vars

(* The broker, the callbacks and the workers together are a remote call    *)
(* that runs at most once and settles at most once.                        *)
Remote == INSTANCE RemoteCalls WITH
    status <- [c \in Call |-> IF call[c] \in {"pending", "inflight"} THEN "waiting"
                              ELSE call[c]],
    ran <- ran
ImplementsRemoteCalls == Remote!Spec

(* A call that was sent to a leader settles: the worker answers, or the    *)
(* leader is found dead and the call is given up.                          *)
Answered == \A c \in Call : call[c] = "inflight" ~> call[c] \in Settled
=============================================================================
