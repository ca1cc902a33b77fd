----------------------------- MODULE LiveSource -----------------------------
(* The subscribers of one live query and the source they share, over a     *)
(* database of which only two things matter here: what the query answers   *)
(* now, and whether a change of a row is reported to the source.  Module   *)
(* LiveSelect puts the tables, the triggers and the query in their place.  *)
(*                                                                         *)
(* A subscriber first runs the query by itself (lazy, concat) and only     *)
(* then listens to the source; its first listener connects the source.     *)
(* The source debounces the reported changes, runs the query for each      *)
(* burst (mergeMap) and lets a result through when its hash is not the     *)
(* last one seen.  Statements run one at a time, in the order they were    *)
(* issued, on the single connection of the dialect.                        *)
EXTENDS Naturals, Sequences

CONSTANTS Subscriber,
          Debouncing, \* the subscribers that gave liveQuery a debounceMs
          Nothing

VARIABLES
    answer,    \* what the query answers now
    phase,     \* of a subscriber: "idle", "asked" or "listening"
    held,      \* the result its own debounce holds back, or Nothing
    shown,     \* the last result it was given, or Nothing
    timer,     \* the debounce of the shared source is running
    runs,      \* the statements issued and not answered yet, with what
               \* they have read: the first run of a subscriber, an update
               \* run of the source, or one whose result is dropped
    lastSeen,  \* lastSeenDataHash
    missed,    \* history: changes nobody has reported to a subscriber
    late       \* history: joined a connected source, given no update since

subscriberVars == <<phase, held, shown>>
sharedVars == <<timer, runs, lastSeen>>
vars == <<answer, subscriberVars, sharedVars, missed, late>>

Listening == {s \in Subscriber : phase[s] = "listening"}

IsFirst(r, s) == r.kind = "first" /\ r.by = s
IsUpdate(r) == r.kind = "update"

InitSource ==
    /\ answer # Nothing
    /\ phase = [s \in Subscriber |-> "idle"]
    /\ held = [s \in Subscriber |-> Nothing]
    /\ shown = [s \in Subscriber |-> Nothing]
    /\ timer = FALSE
    /\ runs = <<>>
    /\ lastSeen = Nothing
    /\ missed = {} /\ late = {}

-----------------------------------------------------------------------------
(* Statements *)

Issue(kind, who) ==
    Append(runs, [kind |-> kind, by |-> who, read |-> FALSE, result |-> Nothing])

Dropped(read) == [kind |-> "dropped", by |-> Nothing, read |-> read, result |-> Nothing]

Executing(i) == /\ ~runs[i].read
                /\ \A j \in 1..(i - 1) : runs[j].read

Answered(r) == IF r.kind = "dropped" THEN Dropped(TRUE)
               ELSE [r EXCEPT !.read = TRUE, !.result = answer]

(* The connection executes the statements in their order. *)
RunQuery ==
    \E i \in DOMAIN runs :
        /\ Executing(i)
        /\ runs' = [runs EXCEPT ![i] = Answered(runs[i])]
        /\ missed' = IF IsUpdate(runs[i]) THEN missed \ Listening ELSE missed
        /\ UNCHANGED <<subscriberVars, timer, lastSeen, late>>

(* fromPromise drops a rejection: a burst of changes is forgotten, or the  *)
(* subscriber waits for its first result for ever.                         *)
RunFails ==
    \E i \in DOMAIN runs :
        /\ Executing(i)
        /\ runs' = [runs EXCEPT ![i] = Dropped(TRUE)]
        /\ missed' = IF IsUpdate(runs[i]) THEN missed \cup Listening ELSE missed
        /\ UNCHANGED <<subscriberVars, timer, lastSeen, late>>

(* Nobody waits for the result any more. *)
Ignore ==
    /\ runs # <<>> /\ runs[1].read /\ runs[1].kind = "dropped"
    /\ runs' = Tail(runs)
    /\ UNCHANGED <<subscriberVars, timer, lastSeen, missed, late>>

-----------------------------------------------------------------------------
(* A subscriber *)

(* The effect of the hook clears the data; lazy() issues the query.  The   *)
(* source is shared with those who gave the same query and debounceMs,     *)
(* which may be the default of those who gave none.                        *)
Subscribe(s) ==
    /\ phase[s] = "idle"
    /\ phase' = [phase EXCEPT ![s] = "asked"]
    /\ shown' = [shown EXCEPT ![s] = Nothing]
    /\ runs' = Issue("first", s)
    /\ missed' = missed \ {s}
    /\ UNCHANGED <<held, timer, lastSeen, late>>

(* concat goes on to the source of updates, which forgets the hash when    *)
(* its first listener connects it.                                         *)
StartListening(s) ==
    /\ runs # <<>> /\ runs[1].read /\ IsFirst(runs[1], s)
    /\ runs' = Tail(runs)
    /\ phase' = [phase EXCEPT ![s] = "listening"]
    /\ shown' = [shown EXCEPT ![s] = runs[1].result]
    /\ IF Listening = {}
       THEN lastSeen' = Nothing /\ late' = late
       ELSE lastSeen' = lastSeen /\ late' = late \cup {s}
    /\ UNCHANGED <<held, timer, missed>>

(* The statements whose results a departure drops. *)
WithoutRunsOf(s, last) ==
    [i \in DOMAIN runs |-> IF IsFirst(runs[i], s) \/ (last /\ IsUpdate(runs[i]))
                           THEN Dropped(runs[i].read) ELSE runs[i]]

(* Mutant: the debounce of the source outlives its last listener.          *)
UnsubscribeKeepsTimer(s) ==
    /\ phase[s] # "idle"
    /\ phase' = [phase EXCEPT ![s] = "idle"]
    /\ held' = [held EXCEPT ![s] = Nothing]
    /\ late' = late \ {s}
    /\ LET last == Listening = {s}
       IN /\ runs' = WithoutRunsOf(s, last)
          /\ timer' = timer
          /\ lastSeen' = IF last THEN Nothing ELSE lastSeen
    /\ UNCHANGED <<shown, missed>>

(* The last listener disconnects the source: its debounce is cleared, the  *)
(* results on their way are dropped, and the hash is forgotten.            *)
Unsubscribe(s) ==
    /\ phase[s] # "idle"
    /\ phase' = [phase EXCEPT ![s] = "idle"]
    /\ held' = [held EXCEPT ![s] = Nothing]
    /\ late' = late \ {s}
    /\ LET last == Listening = {s}
       IN /\ runs' = WithoutRunsOf(s, last)
          /\ timer' = (timer /\ ~last)
          /\ lastSeen' = IF last THEN Nothing ELSE lastSeen
    /\ UNCHANGED <<shown, missed>>

(* The debounce of liveQuery's own option fires. *)
Release(s) ==
    /\ held[s] # Nothing
    /\ shown' = [shown EXCEPT ![s] = held[s]]
    /\ held' = [held EXCEPT ![s] = Nothing]
    /\ UNCHANGED <<phase, sharedVars, missed, late>>

-----------------------------------------------------------------------------
(* The shared source *)

(* Whose first run has read a database that is no longer the current one. *)
HasRead == {s \in Subscriber : \E i \in DOMAIN runs :
                                  IsFirst(runs[i], s) /\ runs[i].read}

(* A row changes, and with it perhaps the answer. *)
RowChange(reported) ==
    /\ reported => Listening # {}
    /\ answer' # Nothing
    /\ timer' = (timer \/ reported)
    /\ missed' = IF answer' # answer
                 THEN missed \cup HasRead \cup (IF reported THEN {} ELSE Listening)
                 ELSE missed
    /\ UNCHANGED <<subscriberVars, runs, lastSeen, late>>

(* Mutant: no run while one is under way (exhaustMap).                     *)
FireDebounceUnlessRunning ==
    /\ timer
    /\ timer' = FALSE
    /\ runs' = IF \E i \in DOMAIN runs : IsUpdate(runs[i])
               THEN runs ELSE Issue("update", Nothing)
    /\ UNCHANGED <<subscriberVars, lastSeen, missed, late>>

FireDebounce ==
    /\ timer
    /\ timer' = FALSE
    /\ runs' = Issue("update", Nothing)
    /\ UNCHANGED <<subscriberVars, lastSeen, missed, late>>

(* A result goes to every listener unless it is the last one seen. *)
Emit ==
    /\ runs # <<>> /\ runs[1].read /\ IsUpdate(runs[1])
    /\ runs' = Tail(runs)
    /\ lastSeen' = runs[1].result
    /\ LET to == IF lastSeen = runs[1].result THEN {} ELSE Listening
       IN /\ held' = [s \in Subscriber |->
                        IF s \in to \cap Debouncing THEN runs[1].result ELSE held[s]]
          /\ shown' = [s \in Subscriber |->
                        IF s \in to \ Debouncing THEN runs[1].result ELSE shown[s]]
          /\ late' = late \ to
    /\ UNCHANGED <<phase, timer, missed>>

SourceStep ==
    \/ \E s \in Subscriber : Subscribe(s) \/ StartListening(s)
                             \/ Unsubscribe(s) \/ Release(s)
    \/ RunQuery \/ RunFails \/ Ignore \/ FireDebounce \/ Emit

SourceNext ==
    \/ SourceStep /\ UNCHANGED answer
    \/ \E reported \in BOOLEAN : RowChange(reported)

SourceSpec == InitSource /\ [][SourceNext]_vars

-----------------------------------------------------------------------------
(* Properties *)

(* Values have their types, and what is under way has somebody to be under *)
(* way for: the debounce and the runs of the source only while somebody    *)
(* listens, a first run of a subscriber only until its result is there, a  *)
(* result held back only for a listener that debounces.                    *)
SourceTypeOK ==
    /\ answer # Nothing
    /\ phase \in [Subscriber -> {"idle", "asked", "listening"}]
    /\ DOMAIN held = Subscriber /\ DOMAIN shown = Subscriber
    /\ timer \in BOOLEAN
    /\ runs \in Seq([kind : {"first", "update", "dropped"},
                     by : Subscriber \cup {Nothing}, read : BOOLEAN,
                     result : {runs[i].result : i \in DOMAIN runs}])
    /\ missed \subseteq Subscriber /\ late \subseteq Listening
    /\ Listening = {} => ~timer /\ lastSeen = Nothing
    /\ \A i \in DOMAIN runs :
          /\ IsUpdate(runs[i]) => Listening # {}
          /\ runs[i].kind = "first" => runs[i].by \in Subscriber
                                       /\ phase[runs[i].by] = "asked"
    /\ \A s \in Subscriber : held[s] # Nothing => s \in Debouncing /\ phase[s] = "listening"

(* Nothing is left to do for the source. *)
Quiet == ~timer /\ \A i \in DOMAIN runs : ~IsUpdate(runs[i])

(* It shows the answer; or it joined the source late, and the answer was   *)
(* not let through because it is the last result the others were given.    *)
ShowsAnswer(s) == shown[s] = answer \/ (s \in late /\ lastSeen = answer)

(* Once the shared source has nothing to do, every listener has been given *)
(* what the query answers now, whatever raced with its own first run, with *)
(* the making of the triggers, with a rejected statement, with the coming  *)
(* and going of others or with its own earlier subscription, unless a      *)
(* change went unreported because nobody listened or no trigger existed    *)
(* yet.  The debounces lose nothing, and the shared hash only to a         *)
(* listener that joined after the hash was taken: a source that changes    *)
(* and changes back lets nothing through, and the newcomer, who read in    *)
(* between, keeps what it read.                                            *)
QuietIsCurrent ==
    \A s \in Listening :
        Quiet /\ held[s] = Nothing /\ s \notin missed => ShowsAnswer(s)
=============================================================================
