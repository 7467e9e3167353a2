------------------------------ MODULE Inventory -----------------------------
(* The inventory hook useRstream (react/src/hooks/use-rstream.ts) over its watches.   *)
(*                                                                                    *)
(* Callbacks of a watch run inside the watch's own step. What they set is seen at the *)
(* next render; the effects of a render run later still, its cleanups first.          *)
(* Clients stand for tunnels too: the hook treats them alike.  A list is the set of   *)
(* its objects, of which the engine may leave out the id.                             *)
EXTENDS Watch, FiniteSets

CONSTANTS Keys,       \* what watchConnectionKey returns with authentication
          Delays,     \* reconnectTimeout
          Items,      \* what the engine may list: [id, version]
          None,       \* no watch, no key, no list, no id
          Unhurried   \* whether React is idle whenever something arrives from the network

Disabled == "disabled"
ASSUME InventoryAssumption ==
  /\ Disabled \notin Keys
  /\ None \notin Watches \union Keys \union {Disabled}
  /\ \A list \in SUBSET Items : list # None
  /\ \A w \in Watches : ~Certificate(w)
  /\ Unhurried \in BOOLEAN

VARIABLES
  state, inventoryKey, clients,  \* as set, to be seen by the next render
  shown,      \* the last render: its connectionKey, reconnectTimeout and state
  effects,    \* the dependencies with which the effects ran last
  current,    \* runtime.watch
  timeout,    \* runtime.timeout is armed
  mine,       \* watches made by the runtime of the mounted effect: its `active` is true
  clearing,   \* the 0 ms timer of the last effect is armed
  listed      \* what the engine has told since it connected

hookVars == <<state, inventoryKey, clients, shown, effects, current, timeout, mine, clearing, listed>>
inventoryVars == <<vars, hookVars>>

HookStates == {"disconnected", "connecting", "connected"}
Rendered == [key : Keys \union {Disabled}, delay : Delays, state : HookStates]

\* No object with an id is listed twice.
Identified(list) == {x \in list : x.id # None}
NoneTwice(list) == \A x, y \in Identified(list) : x.id = y.id => x = y

\* Types; and the reducers list no object with an id twice, whatever the engine repeats.
InventoryTypeOK ==
  /\ TypeOK
  /\ state \in HookStates
  /\ inventoryKey \in Keys \union {None}
  /\ clients \subseteq Items /\ NoneTwice(clients)
  /\ shown \in Rendered /\ effects \in Rendered
  /\ current \in Watches \union {None}
  /\ timeout \in BOOLEAN
  /\ mine \subseteq Watches
  /\ clearing \in BOOLEAN
  /\ listed = None \/ listed \subseteq Items

\* No effect ran yet; all that matters is that those of the first render will.
InventoryInit ==
  /\ Init
  /\ state = "disconnected" /\ inventoryKey = None /\ clients = {}
  /\ \E k \in Keys \union {Disabled}, d \in Delays :
       /\ shown = [key |-> k, delay |-> d, state |-> "disconnected"]
       /\ effects = [key |-> Disabled, delay |-> d, state |-> "connected"]
  /\ current = None /\ timeout = FALSE /\ mine = {} /\ clearing = FALSE /\ listed = None

-----------------------------------------------------------------------------
(* Rendering and effects *)

\* Nothing can come of the object any more: its place is free for a new one.
Gone(w) == watch[w].connect \notin Awaits /\ watch[w].source \notin Live

\* Bound: the options change only while enough places are free.
PlacesLeft ==
  Cardinality({w \in Watches \ {current} : ~Gone(w)}) <= Cardinality(Watches) - 2

\* A render, with the options the parent gives; the effects of the last one ran before it.
Render(k, d) ==
  /\ effects = shown
  /\ shown' = [key |-> k, delay |-> d, state |-> state]
  /\ shown' # shown
  /\ k # shown.key \/ d # shown.delay => PlacesLeft
  /\ UNCHANGED <<vars, state, inventoryKey, clients, effects, current, timeout, mine, clearing, listed>>

\* run(), given the objects and the runtime's own watches at that moment.
Run(objects, own) ==
  \E w \in Watches :
    /\ Gone(w) /\ (current # None /\ Gone(current) => w = current)
    /\ watch' = [objects EXCEPT ![w] = Connecting(NewWatch, w)]
    /\ mine' = own \union {w}
    /\ state' = "connecting" /\ current' = w /\ listed' = None /\ timeout' = FALSE

\* The cleanup of the connecting effect.
Unmounted == [w \in Watches |-> IF w = current THEN Disconnected(watch[w]) ELSE watch[w]]

\* The effects whose dependencies changed: the one that clears, and the one that connects.
ClearingRests == shown.key = effects.key /\ shown.state = effects.state
ConnectingRests == shown.key = effects.key /\ shown.delay = effects.delay
Effects ==
  /\ effects # shown
  /\ effects' = shown
  /\ clearing' = IF ClearingRests THEN clearing ELSE shown.key = Disabled \/ shown.state # "connected"
  /\ \/ /\ ConnectingRests
        /\ UNCHANGED <<vars, state, current, timeout, mine, listed>>
     \/ /\ ~ConnectingRests
        /\ call' = IF current = None THEN NoCall ELSE CloseCall(current)
        /\ \/ /\ shown.key = Disabled
              /\ watch' = Unmounted
              /\ current' = None /\ timeout' = FALSE /\ mine' = {} /\ listed' = None
              /\ UNCHANGED state
           \/ shown.key # Disabled /\ Run(Unmounted, {})
  /\ UNCHANGED <<inventoryKey, clients, shown>>

\* The timer of the clearing effect.
Clear ==
  /\ clearing
  /\ clearing' = FALSE
  /\ clients' = {}
  /\ UNCHANGED <<vars, state, inventoryKey, shown, effects, current, timeout, mine, listed>>

\* The timer of schedule()
Reconnect ==
  /\ timeout
  /\ Run(watch, mine)
  /\ call' = NoCall
  /\ UNCHANGED <<inventoryKey, clients, shown, effects, clearing>>

-----------------------------------------------------------------------------
(* Callbacks of the watches *)

AlwaysActive(w) == TRUE
Active(w) == w \in mine

\* schedule() of an active runtime
Schedule ==
  /\ timeout' = TRUE
  /\ state' = IF timeout THEN state ELSE "connecting"

\* The catch of run()
OnThrowForgotten(w) == UNCHANGED <<state, inventoryKey, clients, current, timeout, listed>>
OnThrowAnyway(w) == Schedule /\ UNCHANGED <<inventoryKey, clients, current, listed>>
OnThrow(w) ==
  /\ IF Active(w) THEN Schedule ELSE UNCHANGED <<state, timeout>>
  /\ UNCHANGED <<inventoryKey, clients, current, listed>>

OnConnect(w) ==
  /\ state' = IF Active(w) THEN "connected" ELSE state
  /\ UNCHANGED <<inventoryKey, clients, current, timeout, listed>>

OnClose(w) ==
  /\ IF Active(w)
     THEN current' = None /\ listed' = None /\ inventoryKey' = None /\ Schedule
     ELSE UNCHANGED <<current, listed, inventoryKey, state, timeout>>
  /\ UNCHANGED clients

\* The reducers of the snapshot and of created, updated and deleted objects: one without an id
\* stands for all that have none.
Without(list, id) == {x \in list : x.id # id}
Created(list, i) == Without(list, i.id) \union {i}
Updated(list, i) ==
  IF \E x \in list : x.id = i.id
  THEN {IF x.id = i.id THEN i ELSE x : x \in list}
  ELSE list \union {i}

\* What the engine may list after it told of item i, and of its end: its filter may admit an
\* object either by creating or by updating it, and without an id it may be a new one, or one
\* that was listed.
Nameless(list) == {x \in list : x.id = None}
ListsWith(i) ==
  IF i.id # None THEN {Without(listed, i.id) \union {i}}
  ELSE {listed \union {i}} \union {(listed \ {x}) \union {i} : x \in Nameless(listed)}
ListsWithout(i) == IF i.id # None THEN {Without(listed, i.id)} ELSE {listed, listed \ {i}}

OnEvent(w) ==
  /\ IF ~Active(w)
     THEN UNCHANGED <<inventoryKey, clients, listed>>
     ELSE \/ \E list \in SUBSET Items :
               /\ NoneTwice(list)
               /\ inventoryKey' = effects.key /\ clients' = list /\ listed' = list
          \/ /\ listed # None
             /\ \E i \in Items :
                  \/ clients' = Created(clients, i) /\ listed' \in ListsWith(i)
                  \/ clients' = Updated(clients, i) /\ listed' \in ListsWith(i)
                  \/ clients' = Without(clients, i.id) /\ listed' \in ListsWithout(i)
             /\ UNCHANGED inventoryKey
  /\ UNCHANGED <<state, current, timeout>>

Callback(w) ==
  /\ \/ call'.name = "onConnect" /\ OnConnect(w)
     \/ call'.name = "onEvent" /\ OnEvent(w)
     \/ call'.name = "onClose" /\ OnClose(w)
     \/ /\ call' = NoCall
        /\ IF watch'[w].connect = "threw" THEN OnThrow(w)
           ELSE UNCHANGED <<state, inventoryKey, clients, current, timeout, listed>>
  /\ UNCHANGED <<shown, effects, mine, clearing>>

\* The network, which is unhurried if React had time to render, run the effects and clear.
Idle == Unhurried => effects = shown /\ shown.state = state /\ ~clearing

GetToken(w) == AuthEnds(w) /\ Callback(w)
GetEngine(w) == EngineEnds(w) /\ Callback(w)
Open(w) == Idle /\ Opens(w) /\ Callback(w)
Receive(w) == Idle /\ Message(w) /\ Callback(w)
Lose(w) == Idle /\ Breaks(w) /\ Callback(w)

InventoryNext ==
  \/ \E k \in Keys \union {Disabled}, d \in Delays : Render(k, d)
  \/ Effects \/ Clear \/ Reconnect
  \/ \E w \in Watches : GetToken(w) \/ GetEngine(w) \/ Open(w) \/ Receive(w) \/ Lose(w)

InventorySpec == InventoryInit /\ [][InventoryNext]_inventoryVars

\* React and the timers always run; the network does not fail for ever, and an attempt ends.
Fairness ==
  /\ WF_inventoryVars(Render(shown.key, shown.delay))
  /\ WF_inventoryVars(Effects) /\ WF_inventoryVars(Clear) /\ WF_inventoryVars(Reconnect)
  /\ \A w \in Watches :
       /\ SF_inventoryVars(GetToken(w) /\ watch'[w].connect = "engine")
       /\ SF_inventoryVars(GetEngine(w) /\ watch'[w].connect = "returned")
       /\ SF_inventoryVars(Open(w))

InventoryFairSpec == InventorySpec /\ Fairness

-----------------------------------------------------------------------------
(* Properties *)

\* The inventory returned to the component: hidden, or what the engine of the current key
\* listed on the connection there is now, whichever effects of the render are still to run.
\* "Every incoming snapshot replaces both arrays. Previously visible data is hidden while
\* reconnecting or switching authentication."  An event about an object without an id speaks of
\* all that have none: of those, nothing is shown but what was told on this connection.  Except
\* where authentication was removed and comes back before the 0 ms timer: the clients of the
\* watch that was closed are then shown once more (use-rstream.ts:236-237).
Visible == shown.key # Disabled /\ inventoryKey = shown.key /\ state = "connected"
Leftover == effects.key = Disabled /\ clearing
InventoryCurrent ==
  Visible /\ ~Leftover =>
    IF listed = None THEN clients = {}
    ELSE /\ current # None /\ watch[current].source = "open"
         /\ Identified(clients) = Identified(listed) /\ clients \subseteq listed

\* The runtime that is mounted has one way to go on at a time: a connection, an attempt or
\* the timer of the next attempt. Without authentication it has none.
Attempts == {w \in mine : ~Gone(w)}
OneAttempt ==
  /\ \A v, w \in Attempts : v = w
  /\ Attempts # {} => ~timeout
  /\ effects.key # Disabled <=> timeout \/ Attempts # {}

\* "The hook reconnects automatically": once the options rest, it is connected again and again.
Reconnects ==
  <>[][shown'.key = shown.key /\ shown'.delay = shown.delay]_shown /\ <>[](shown.key # Disabled)
    => []<>(state = "connected" /\ current # None)

\* State says connected only while a connection is open.
StateHonest == effects = shown /\ shown.state = "connected" /\ state = "connected" =>
  current # None /\ watch[current].source = "open"
=============================================================================
