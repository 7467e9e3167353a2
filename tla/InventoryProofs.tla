---------------------------- MODULE InventoryProofs --------------------------
(* The inventory hook over watches with a token, for any number of them: it has one   *)
(* way to go on at a time and, where React has time, shows nothing stale.             *)
EXTENDS Inventory, TLAPS

-----------------------------------------------------------------------------
(* The inventory hook: what makes its properties inductive *)

\* Nobody has a connection and is still at an await of connect().
ObjectsSound == \A w \in Watches : watch[w].source \in Live => watch[w].connect = "returned"

\* The current watch is of the mounted runtime, which has no other that is not over.
AttemptsSound ==
  /\ current # None => current \in mine
  /\ Attempts \subseteq {current}
  /\ \A w \in Attempts : watch[w].state # "closed"
  /\ Attempts # {} => ~timeout
  /\ effects.key # Disabled <=> timeout \/ Attempts # {}

\* The state says connected of a mounted runtime exactly while its connection is open; and the
\* engine has told something only there, under the key of the runtime.
ConnectionSound ==
  /\ state = "connected" /\ effects.key # Disabled => current # None /\ watch[current].source = "open"
  /\ \A w \in mine : watch[w].source = "open" => state = "connected"
  /\ listed # None => state = "connected" /\ effects.key # Disabled /\ inventoryKey = effects.key

HookInv == InventoryTypeOK /\ ObjectsSound /\ AttemptsSound /\ ConnectionSound

\* Where React has time: what was listed before is cleared before the next connection opens,
\* and not after it.
ClearingSound ==
  /\ effects.key = Disabled \/ effects.state # "connected" => clearing \/ clients = {}
  /\ state = "connected" /\ effects.key # Disabled => ~clearing /\ (effects # shown => shown.state = "connected")
Told == Identified(clients) = Identified(listed) /\ clients \subseteq listed
ListSound ==
  state = "connected" /\ effects.key # Disabled => IF listed = None THEN clients = {} ELSE Told
UnhurriedInv == HookInv /\ ClearingSound /\ ListSound

-----------------------------------------------------------------------------
(* What a step of the network or of connect() comes to for the hook *)

\* Every step makes one of these calls.
LEMMA CallTypes ==
  ASSUME NEW w \in Watches
  PROVE  /\ \A name \in {"onConnect", "onEvent", "onClose"} : Call(w, name) \in Calls \union {NoCall}
         /\ NoCall \in Calls \union {NoCall}
         /\ CloseCall(w) \in Calls \union {NoCall}
BY DEF Call, Calls, NoCall, CloseCall

Unmoved == UNCHANGED <<state, inventoryKey, clients, current, timeout, listed>>

\* The object of a runtime that is gone: nothing comes of it.
Ignored(w) == ~Active(w) /\ Unmoved

\* connect() goes on to its next await or to the connection.
Proceeds(w) ==
  /\ Active(w) /\ watch[w].source # "open"
  /\ ~Gone(w)' /\ watch'[w].source # "open" /\ watch'[w].state # "closed"
  /\ Unmoved

\* connect() throws.
Throws(w) == Active(w) /\ ~Gone(w) /\ watch[w].source # "open" /\ Gone(w)' /\ OnThrow(w)

\* The connection opens.
Connects(w) ==
  /\ Active(w) /\ Idle /\ watch[w].source = "opening"
  /\ watch'[w].source = "open" /\ watch'[w].state # "closed"
  /\ OnConnect(w)

\* The connection ends.
Ends(w) == Active(w) /\ ~Gone(w) /\ Idle /\ Gone(w)' /\ OnClose(w)

\* An event arrives.
Tells(w) == Active(w) /\ Idle /\ watch[w].source = "open" /\ watch' = watch /\ OnEvent(w)

NetworkStep(w) ==
  /\ ~Gone(w)
  /\ \E r \in WatchObjects :
       /\ watch' = [watch EXCEPT ![w] = r]
       /\ r.connect # "stream" /\ ~r.arrived /\ (r.source \in Live => r.connect = "returned")
  /\ call' \in Calls \union {NoCall}
  /\ UNCHANGED <<shown, effects, mine, clearing>>
  /\ Ignored(w) \/ Proceeds(w) \/ Throws(w) \/ Connects(w) \/ Ends(w) \/ Tells(w)

\* What the types say of an object with a token.
TokenObject(r) == r \in WatchObjects /\ r.connect # "stream" /\ ~r.arrived /\ (r.source \in Live => r.connect = "returned")

LEMMA TokenObjects ==
  ASSUME HookInv
  PROVE  /\ watch \in [Watches -> WatchObjects] /\ \A w \in Watches : TokenObject(watch[w])
         /\ call \in Calls \union {NoCall} /\ \A w \in Watches : ~Certificate(w)
BY InventoryAssumption DEF HookInv, InventoryTypeOK, TypeOK, ObjectsSound, TokenObject

\* An active object that is not over is the current one, and not closed; nothing else is under way.
LEMMA TheAttempt ==
  ASSUME HookInv, NEW w \in Watches, Active(w), ~Gone(w)
  PROVE  /\ current = w /\ watch[w].state # "closed" /\ ~timeout /\ effects.key # Disabled
         /\ Attempts = {w}
BY DEF HookInv, AttemptsSound, Attempts, Active, InventoryTypeOK

\* What one object's step makes of it.
LEMMA ObjectSteps ==
  ASSUME NEW r, TokenObject(r)
  PROVE  /\ TokenObject(Threw(r)) /\ TokenObject(Disconnected(r))
         /\ Threw(r).connect = "threw" /\ Threw(r).source \notin Live
         /\ Disconnected(r).connect = r.connect /\ Disconnected(r).source \notin Live
BY DEF TokenObject, Threw, Disconnected, WatchObjects, Awaits, Live

\* A callback of an object, by the call it makes.
LEMMA Callbacks ==
  ASSUME NEW w, Callback(w)
  PROVE  /\ UNCHANGED <<shown, effects, mine, clearing>>
         /\ call' = Call(w, "onConnect") => OnConnect(w)
         /\ call' = Call(w, "onEvent") => OnEvent(w)
         /\ call' = Call(w, "onClose") => OnClose(w)
         /\ call' = NoCall /\ watch'[w].connect = "threw" => OnThrow(w)
         /\ call' = NoCall /\ watch'[w].connect # "threw" => Unmoved
BY DEF Callback, Call, NoCall, Unmoved

\* Nothing of an inactive object's callbacks reaches the hook.
LEMMA InactiveIgnored ==
  ASSUME NEW w, ~Active(w), OnThrow(w) \/ OnConnect(w) \/ OnEvent(w) \/ OnClose(w) \/ Unmoved
  PROVE  Ignored(w)
BY DEF Ignored, Unmoved, OnThrow, OnConnect, OnEvent, OnClose

\* connect() that ends an await: with an error, or further.
LEMMA AwaitsStep ==
  ASSUME HookInv, NEW w \in Watches, GetToken(w) \/ GetEngine(w)
  PROVE  NetworkStep(w)
<1>0. watch \in [Watches -> WatchObjects] /\ TokenObject(watch[w])
  BY TokenObjects
<1>1. Callback(w) /\ call' = NoCall /\ watch[w].connect \in {"auth", "engine"}
  BY DEF GetToken, GetEngine, AuthEnds, EngineEnds
<1>2. ~Gone(w) /\ watch[w].source \notin Live
  BY <1>0, <1>1 DEF Gone, Awaits, TokenObject
<1>3. NoCall \in Calls \union {NoCall}
  OBVIOUS
<1>4. CASE Becomes(w, Threw(watch[w]))
  <2> DEFINE r == Threw(watch[w])
  <2>1. TokenObject(r) /\ r.connect = "threw" /\ r.source \notin Live
    BY <1>0, ObjectSteps
  <2>2. watch' = [watch EXCEPT ![w] = r]
    BY <1>4 DEF Becomes
  <2> HIDE DEF r
  <2>3. watch'[w] = r
    BY <1>0, <2>2
  <2>4. Gone(w)'
    BY <2>1, <2>3 DEF Gone, Awaits
  <2>5. OnThrow(w) /\ UNCHANGED <<shown, effects, mine, clearing>>
    BY <1>1, <2>1, <2>3, Callbacks
  <2>6. Ignored(w) \/ Throws(w)
    BY <1>2, <2>4, <2>5, InactiveIgnored DEF Throws, Live
  <2> QED
    BY <1>1, <1>2, <1>3, <2>1, <2>2, <2>5, <2>6 DEF NetworkStep, TokenObject
<1>5. CASE \/ watch[w].connect = "auth" /\ Becomes(w, [watch[w] EXCEPT !.connect = "engine"])
           \/ watch[w].connect = "engine" /\ Becomes(w, [watch[w] EXCEPT !.connect = "returned", !.source = "opening"])
  <2>1. PICK r : /\ watch' = [watch EXCEPT ![w] = r]
                 /\ \/ r = [watch[w] EXCEPT !.connect = "engine"]
                    \/ r = [watch[w] EXCEPT !.connect = "returned", !.source = "opening"]
    BY <1>5 DEF Becomes
  <2>2. /\ TokenObject(r) /\ r.state = watch[w].state /\ r.connect # "threw" /\ r.source # "open"
        /\ r.connect \in Awaits \/ r.source \in Live
    BY <1>0, <1>2, <2>1 DEF TokenObject, WatchObjects, Awaits, Live
  <2>3. watch'[w] = r
    BY <1>0, <2>1
  <2>4. Unmoved /\ UNCHANGED <<shown, effects, mine, clearing>>
    BY <1>1, <2>2, <2>3, Callbacks
  <2>5. ~Gone(w)'
    BY <2>2, <2>3 DEF Gone
  <2>6. Active(w) => Proceeds(w)
    BY <1>2, <2>2, <2>3, <2>4, <2>5, TheAttempt DEF Proceeds, Live
  <2>7. Ignored(w) \/ Proceeds(w)
    BY <2>4, <2>6 DEF Ignored
  <2> QED
    BY <1>1, <1>2, <1>3, <2>1, <2>2, <2>4, <2>7 DEF NetworkStep, TokenObject
<1> QED
  BY <1>4, <1>5 DEF GetToken, GetEngine, AuthEnds, EngineEnds

\* A connection that opens.
LEMMA OpensStep ==
  ASSUME HookInv, NEW w \in Watches, Open(w)
  PROVE  NetworkStep(w)
<1> DEFINE r == [watch[w] EXCEPT !.source = "open", !.state = "connected"]
<1>0. watch \in [Watches -> WatchObjects] /\ TokenObject(watch[w])
  BY TokenObjects
<1>1. Callback(w) /\ call' = Call(w, "onConnect") /\ watch[w].source = "opening" /\ watch' = [watch EXCEPT ![w] = r] /\ Idle
  BY DEF Open, Opens, Becomes
<1>2. TokenObject(r) /\ r.source = "open" /\ r.state # "closed"
  BY <1>0, <1>1 DEF TokenObject, WatchObjects, Live
<1> HIDE DEF r
<1>3. watch'[w] = r
  BY <1>0, <1>1
<1>4. OnConnect(w) /\ UNCHANGED <<shown, effects, mine, clearing>>
  BY <1>1, Callbacks
<1>5. Ignored(w) \/ Connects(w)
  BY <1>1, <1>2, <1>3, <1>4, InactiveIgnored DEF Connects
<1>6. call' \in Calls \union {NoCall} /\ ~Gone(w)
  BY <1>1, CallTypes DEF Gone, Live
<1> QED
  BY <1>1, <1>2, <1>4, <1>5, <1>6 DEF NetworkStep, TokenObject

\* A disconnect() of an object that was not over: it is, and an active one was not closed before.
LEMMA DisconnectsStep ==
  ASSUME HookInv, NEW w \in Watches, watch[w].source \in Live, Disconnects(w, watch[w]), Callback(w), Idle
  PROVE  NetworkStep(w)
<1> DEFINE r == Disconnected(watch[w])
<1>0. watch \in [Watches -> WatchObjects] /\ TokenObject(watch[w]) /\ ~Gone(w)
  BY TokenObjects DEF Gone
<1>1. watch' = [watch EXCEPT ![w] = r] /\ call' = CloseCall(w)
  BY DEF Disconnects, Becomes
<1>2. TokenObject(r) /\ r.connect = watch[w].connect /\ r.source \notin Live
  BY <1>0, ObjectSteps
<1>3. watch[w].connect = "returned"
  BY <1>0 DEF TokenObject
<1> HIDE DEF r
<1>4. watch'[w] = r
  BY <1>0, <1>1
<1>5. Gone(w)' /\ watch'[w].connect # "threw"
  BY <1>2, <1>3, <1>4 DEF Gone, Awaits
<1>6. UNCHANGED <<shown, effects, mine, clearing>> /\ (OnClose(w) \/ Unmoved)
  BY <1>1, <1>5, Callbacks DEF CloseCall
<1>7. Active(w) => Ends(w)
  <2> SUFFICES ASSUME Active(w) PROVE Ends(w)
    OBVIOUS
  <2>1. CloseCall(w) = Call(w, "onClose")
    BY <1>0, TheAttempt DEF CloseCall
  <2> QED
    BY <1>0, <1>1, <1>5, <2>1, Callbacks DEF Ends
<1>8. Ignored(w) \/ Ends(w)
  BY <1>6, <1>7, InactiveIgnored
<1> QED
  BY <1>0, <1>1, <1>2, <1>6, <1>8, CallTypes DEF NetworkStep, TokenObject

\* What arrives, and a connection that breaks.
LEMMA ArrivesStep ==
  ASSUME HookInv, NEW w \in Watches, Receive(w) \/ Lose(w)
  PROVE  NetworkStep(w)
<1>0. /\ watch \in [Watches -> WatchObjects] /\ TokenObject(watch[w]) /\ ~Certificate(w)
      /\ watch[w].source \in Live /\ ~Gone(w) /\ Callback(w) /\ Idle
  BY TokenObjects DEF Receive, Lose, Message, Breaks, Gone, Live
<1>1. CASE Disconnects(w, watch[w])
  BY <1>0, <1>1, DisconnectsStep
<1>2. CASE watch[w].source = "open" /\ UNCHANGED watch /\ call' = Call(w, "onEvent")
  <2>1. watch' = [watch EXCEPT ![w] = watch[w]]
    BY <1>0, <1>2
  <2>2. OnEvent(w) /\ UNCHANGED <<shown, effects, mine, clearing>>
    BY <1>0, <1>2, Callbacks
  <2>3. Ignored(w) \/ Tells(w)
    BY <1>0, <1>2, <2>2, InactiveIgnored DEF Tells
  <2> QED
    BY <1>0, <1>2, <2>1, <2>2, <2>3, CallTypes DEF NetworkStep, TokenObject
<1>3. CASE /\ watch[w].state = "closed" /\ call' = NoCall
           /\ \E s \in {"closed", "opening"} : Becomes(w, [watch[w] EXCEPT !.source = s])
  <2>1. PICK s \in {"closed", "opening"} : watch' = [watch EXCEPT ![w] = [watch[w] EXCEPT !.source = s]]
    BY <1>3 DEF Becomes
  <2> DEFINE r == [watch[w] EXCEPT !.source = s]
  <2>2. TokenObject(r) /\ r.connect = watch[w].connect /\ watch[w].connect = "returned"
    BY <1>0 DEF TokenObject, WatchObjects, Live
  <2> HIDE DEF r
  <2>3. watch'[w] = r /\ watch' = [watch EXCEPT ![w] = r]
    BY <1>0, <2>1 DEF r
  <2>4. Unmoved /\ UNCHANGED <<shown, effects, mine, clearing>>
    BY <1>0, <1>3, <2>2, <2>3, Callbacks
  <2>5. ~Active(w)
    BY <1>0, <1>3, TheAttempt
  <2> QED
    BY <1>0, <1>3, <2>2, <2>3, <2>4, <2>5 DEF NetworkStep, TokenObject, Ignored
<1> QED
  BY <1>1, <1>2, <1>3 DEF Receive, Lose, Message, Breaks

-----------------------------------------------------------------------------
(* The network keeps the invariant *)

\* The reducers keep a list of items without one twice, and agree with what the engine lists.
LEMMA Reducers ==
  ASSUME NEW list \in SUBSET Items, NoneTwice(list), NEW i \in Items
  PROVE  /\ Created(list, i) \subseteq Items /\ NoneTwice(Created(list, i))
         /\ Updated(list, i) = Created(list, i)
         /\ Without(list, i.id) \subseteq Items /\ NoneTwice(Without(list, i.id))
<1>1. Created(list, i) \subseteq Items /\ NoneTwice(Created(list, i))
  BY DEF Created, Without, NoneTwice, Identified
<1>2. Without(list, i.id) \subseteq Items /\ NoneTwice(Without(list, i.id))
  BY DEF Without, NoneTwice, Identified
<1>3. Updated(list, i) = Created(list, i)
  BY DEF Updated, Created, Without
<1> QED
  BY <1>1, <1>2, <1>3

\* The engine's list and the hook's agree after each of its events if they did before.
LEMMA ToldOf ==
  ASSUME NEW list \in SUBSET Items, NEW lists \in SUBSET Items, NEW i \in Items,
         Identified(list) = Identified(lists), list \subseteq lists, NEW later \in SUBSET Items
  PROVE  /\ i.id # None /\ later = Without(lists, i.id) \union {i} =>
              Identified(Created(list, i)) = Identified(later) /\ Created(list, i) \subseteq later
         /\ i.id = None /\ i \in later /\ Identified(later) = Identified(lists) =>
              Identified(Created(list, i)) = Identified(later) /\ Created(list, i) \subseteq later
         /\ i.id # None /\ later = Without(lists, i.id) =>
              Identified(Without(list, i.id)) = Identified(later) /\ Without(list, i.id) \subseteq later
         /\ i.id = None /\ Identified(later) = Identified(lists) =>
              Identified(Without(list, i.id)) = Identified(later) /\ Without(list, i.id) \subseteq later
BY DEF Created, Without, Identified

\* What the engine may list then.
LEMMA ListsAre ==
  ASSUME listed \subseteq Items, NEW i \in Items
  PROVE  /\ \A later \in ListsWith(i) :
              /\ later \subseteq Items /\ i \in later
              /\ i.id # None => later = Without(listed, i.id) \union {i}
              /\ i.id = None => Identified(later) = Identified(listed)
         /\ \A later \in ListsWithout(i) :
              /\ later \subseteq Items
              /\ i.id # None => later = Without(listed, i.id)
              /\ i.id = None => Identified(later) = Identified(listed)
<1>1. CASE i.id # None
  BY <1>1 DEF ListsWith, ListsWithout, Without
<1>2. CASE i.id = None
  <2>1. \A later \in ListsWith(i) : later = listed \union {i} \/ \E x \in Nameless(listed) : later = (listed \ {x}) \union {i}
    BY <1>2 DEF ListsWith
  <2>2. \A later \in ListsWithout(i) : later = listed \/ later = listed \ {i}
    BY <1>2 DEF ListsWithout
  <2> QED
    BY <1>2, <2>1, <2>2 DEF Nameless, Identified
<1> QED
  BY <1>1, <1>2

\* An event leaves lists of items.
LEMMA EventTypes ==
  ASSUME HookInv, NEW w \in Watches, OnEvent(w)
  PROVE  /\ clients' \subseteq Items /\ NoneTwice(clients')
         /\ inventoryKey' \in Keys \union {None} \/ inventoryKey' = effects.key
         /\ listed' = None \/ listed' \subseteq Items
<1>1. clients \subseteq Items /\ NoneTwice(clients) /\ inventoryKey \in Keys \union {None}
      /\ (listed = None \/ listed \subseteq Items)
  BY DEF HookInv, InventoryTypeOK
<1>2. CASE UNCHANGED <<inventoryKey, clients, listed>>
  BY <1>1, <1>2
<1>3. CASE \E list \in SUBSET Items : NoneTwice(list) /\ inventoryKey' = effects.key /\ clients' = list /\ listed' = list
  BY <1>3
<1>4. CASE listed # None /\ UNCHANGED inventoryKey
           /\ \E i \in Items :
                \/ clients' = Created(clients, i) /\ listed' \in ListsWith(i)
                \/ clients' = Updated(clients, i) /\ listed' \in ListsWith(i)
                \/ clients' = Without(clients, i.id) /\ listed' \in ListsWithout(i)
  <2>1. PICK i \in Items :
                \/ clients' = Created(clients, i) /\ listed' \in ListsWith(i)
                \/ clients' = Updated(clients, i) /\ listed' \in ListsWith(i)
                \/ clients' = Without(clients, i.id) /\ listed' \in ListsWithout(i)
    BY <1>4
  <2>2. ListsWith(i) \subseteq SUBSET Items /\ ListsWithout(i) \subseteq SUBSET Items
    BY <1>1, <1>4, ListsAre
  <2> QED
    BY <1>1, <1>4, <2>1, <2>2, Reducers
<1> QED
  BY <1>2, <1>3, <1>4 DEF OnEvent

\* The objects stay sound, and only the one that steps may be over or begin to be.
LEMMA NetworkObjects ==
  ASSUME HookInv, NEW w \in Watches, NetworkStep(w)
  PROVE  /\ TypeOK' /\ ObjectsSound'
         /\ \A v \in Watches \ {w} : watch'[v] = watch[v] /\ Gone(v)' = Gone(v)
         /\ \A v \in Watches \ {w} : v \in Attempts' <=> v \in Attempts
         /\ w \in Attempts' <=> Active(w) /\ ~Gone(w)'
         /\ w \in Attempts <=> Active(w)
<1>1. PICK r \in WatchObjects : watch' = [watch EXCEPT ![w] = r] /\ TokenObject(r)
  BY DEF NetworkStep, TokenObject
<1>2. watch \in [Watches -> WatchObjects] /\ \A v \in Watches : TokenObject(watch[v]) /\ ~Certificate(v)
  BY TokenObjects
<1>3. watch' \in [Watches -> WatchObjects] /\ watch'[w] = r /\ \A v \in Watches \ {w} : watch'[v] = watch[v]
  BY <1>1, <1>2
<1>4. \A v \in Watches : TokenObject(watch'[v])
  BY <1>1, <1>2, <1>3
<1>5. TypeOK' /\ ObjectsSound'
  BY <1>2, <1>3, <1>4 DEF TypeOK, ObjectsSound, TokenObject, NetworkStep
<1>6. \A v \in Watches \ {w} : watch'[v] = watch[v] /\ Gone(v)' = Gone(v)
  BY <1>3 DEF Gone
<1>7. mine' = mine /\ mine \subseteq Watches /\ ~Gone(w)
  BY DEF NetworkStep, HookInv, InventoryTypeOK
<1> QED
  BY <1>5, <1>6, <1>7 DEF Attempts, Active

\* What is left to show of a step that changes neither the runtime nor what was rendered.
LEMMA HookTypes ==
  ASSUME HookInv, TypeOK', UNCHANGED <<shown, effects, mine, clearing>>,
         state' \in HookStates, inventoryKey' \in Keys \union {None},
         clients' \subseteq Items, NoneTwice(clients'), current' \in {current, None}, timeout' \in BOOLEAN,
         listed' = None \/ listed' \subseteq Items
  PROVE  InventoryTypeOK'
BY DEF HookInv, InventoryTypeOK

LEMMA NetworkKeeps ==
  ASSUME HookInv, NEW w \in Watches, NetworkStep(w)
  PROVE  HookInv'
<1>0. /\ TypeOK' /\ ObjectsSound' /\ UNCHANGED <<shown, effects, mine, clearing>>
      /\ \A v \in Watches \ {w} : watch'[v] = watch[v]
      /\ \A v \in Watches \ {w} : v \in Attempts' <=> v \in Attempts
      /\ w \in Attempts' <=> Active(w) /\ ~Gone(w)'
      /\ w \in Attempts <=> Active(w)
      /\ Attempts \subseteq Watches /\ Attempts' \subseteq Watches /\ mine \subseteq Watches
  BY NetworkObjects DEF NetworkStep, HookInv, InventoryTypeOK, Attempts
<1>i. InventoryTypeOK /\ AttemptsSound /\ ConnectionSound /\ None \notin Watches
  BY InventoryAssumption DEF HookInv
<1>t. /\ state \in HookStates /\ inventoryKey \in Keys \union {None} /\ clients \subseteq Items /\ NoneTwice(clients)
      /\ timeout \in BOOLEAN /\ (listed = None \/ listed \subseteq Items)
  BY <1>i DEF InventoryTypeOK
<1>a. Active(w) => /\ current = w /\ watch[w].state # "closed" /\ ~timeout /\ effects.key # Disabled /\ Attempts = {w}
  BY TheAttempt DEF NetworkStep
<1>n. Active(w) <=> w \in mine
  BY DEF Active
<1>1. CASE Ignored(w)
  <2>1. InventoryTypeOK'
    BY <1>0, <1>1, <1>t, HookTypes DEF Ignored, Unmoved
  <2>2. Attempts' = Attempts /\ w \notin Attempts /\ ~Active(w)
    BY <1>0, <1>1 DEF Ignored
  <2>3. AttemptsSound'
    BY <1>0, <1>1, <1>i, <2>2 DEF AttemptsSound, Ignored, Unmoved
  <2>4. ConnectionSound'
    <3>1. current # w
      BY <1>i, <1>n, <2>2 DEF AttemptsSound
    <3>2. current # None => watch'[current] = watch[current]
      BY <1>0, <1>i, <3>1 DEF InventoryTypeOK
    <3> QED
      BY <1>0, <1>1, <1>i, <1>n, <2>2, <3>2 DEF ConnectionSound, Ignored, Unmoved
  <2> QED
    BY <1>0, <2>1, <2>3, <2>4 DEF HookInv
<1>2. CASE Proceeds(w)
  <2>1. InventoryTypeOK'
    BY <1>0, <1>2, <1>t, HookTypes DEF Proceeds, Unmoved
  <2>2. Attempts' = Attempts /\ current = w
    BY <1>0, <1>2, <1>a DEF Proceeds
  <2>3. AttemptsSound'
    BY <1>0, <1>2, <1>a, <1>i, <2>2 DEF AttemptsSound, Proceeds, Unmoved
  <2>4. ConnectionSound'
    BY <1>0, <1>2, <1>a, <1>i, <2>2 DEF ConnectionSound, Proceeds, Unmoved
  <2> QED
    BY <1>0, <2>1, <2>3, <2>4 DEF HookInv
<1>3. CASE Throws(w)
  <2>0. /\ timeout' = TRUE /\ state' = "connecting" /\ UNCHANGED <<inventoryKey, clients, current, listed>>
    BY <1>3, <1>a DEF Throws, OnThrow, Schedule
  <2>1. InventoryTypeOK'
    BY <1>0, <1>3, <1>t, <2>0, HookTypes DEF HookStates
  <2>2. Attempts' = {}
    BY <1>0, <1>3, <1>a DEF Throws
  <2>3. AttemptsSound'
    BY <1>0, <1>3, <1>a, <1>i, <2>0, <2>2 DEF AttemptsSound, Throws
  <2>4. state # "connected"
    BY <1>3, <1>a, <1>i DEF ConnectionSound, Throws
  <2>5. ASSUME NEW v \in mine, watch'[v].source = "open" PROVE FALSE
    <3>1. v \notin Attempts' /\ v \in Watches /\ v \in mine'
      BY <1>0, <2>2, <2>5
    <3>2. Gone(v)'
      BY <3>1 DEF Attempts
    <3> QED
      BY <2>5, <3>2 DEF Gone, Live
  <2>6. ConnectionSound'
    BY <1>0, <1>i, <2>0, <2>4, <2>5 DEF ConnectionSound
  <2> QED
    BY <1>0, <2>1, <2>3, <2>6 DEF HookInv
<1>4. CASE Connects(w)
  <2>0. /\ state' = "connected" /\ UNCHANGED <<inventoryKey, clients, current, timeout, listed>> /\ Active(w)
        /\ watch'[w].source = "open" /\ watch'[w].state # "closed" /\ watch[w].source # "open"
    BY <1>4 DEF Connects, OnConnect
  <2>1. InventoryTypeOK'
    BY <1>0, <1>t, <2>0, HookTypes DEF HookStates
  <2>2. Attempts' = Attempts
    <3>1. ~Gone(w)'
      BY <2>0 DEF Gone, Live
    <3> QED
      BY <1>0, <2>0, <3>1
  <2>3. AttemptsSound'
    BY <1>0, <1>a, <1>i, <2>0, <2>2 DEF AttemptsSound
  <2>4. listed = None
    BY <1>a, <1>i, <2>0 DEF ConnectionSound
  <2>5. ConnectionSound'
    BY <1>0, <1>a, <1>i, <2>0, <2>4 DEF ConnectionSound
  <2> QED
    BY <1>0, <2>1, <2>3, <2>5 DEF HookInv
<1>5. CASE Ends(w)
  <2>0. /\ timeout' = TRUE /\ state' = "connecting" /\ UNCHANGED clients /\ current' = None /\ listed' = None
        /\ inventoryKey' = None /\ Active(w)
    BY <1>5, <1>a DEF Ends, OnClose, Schedule
  <2>1. InventoryTypeOK'
    BY <1>0, <1>t, <2>0, HookTypes DEF HookStates
  <2>2. Attempts' = {}
    BY <1>0, <1>5, <1>a DEF Ends
  <2>3. AttemptsSound'
    BY <1>0, <1>a, <2>0, <2>2 DEF AttemptsSound
  <2>4. ASSUME NEW v \in mine, watch'[v].source = "open" PROVE FALSE
    <3>1. v \notin Attempts' /\ v \in Watches /\ v \in mine'
      BY <1>0, <2>2, <2>4
    <3>2. Gone(v)'
      BY <3>1 DEF Attempts
    <3> QED
      BY <2>4, <3>2 DEF Gone, Live
  <2>5. ConnectionSound'
    BY <1>0, <2>0, <2>4 DEF ConnectionSound
  <2> QED
    BY <1>0, <2>1, <2>3, <2>5 DEF HookInv
<1>6. CASE Tells(w)
  <2>0. /\ Active(w) /\ watch[w].source = "open" /\ watch' = watch /\ UNCHANGED <<state, current, timeout>> /\ OnEvent(w)
    BY <1>6 DEF Tells, OnEvent
  <2>1. effects.key \in Keys
    BY <1>a, <1>i, <2>0 DEF InventoryTypeOK, Rendered
  <2>2. InventoryTypeOK'
    <3>1. inventoryKey' \in Keys \union {None} /\ clients' \subseteq Items /\ NoneTwice(clients')
          /\ (listed' = None \/ listed' \subseteq Items)
      BY <2>0, <2>1, EventTypes
    <3> QED
      BY <1>0, <1>t, <2>0, <3>1, HookTypes
  <2>3. Attempts' = Attempts
    BY <1>0, <2>0 DEF Attempts, Gone
  <2>4. AttemptsSound'
    BY <1>0, <1>i, <2>0, <2>3 DEF AttemptsSound
  <2>5. state = "connected"
    BY <1>i, <1>n, <2>0 DEF ConnectionSound
  <2>6. listed' # None => inventoryKey' = effects.key
    BY <1>a, <1>i, <2>0 DEF OnEvent, ConnectionSound
  <2>7. ConnectionSound'
    BY <1>0, <1>a, <1>i, <2>0, <2>5, <2>6 DEF ConnectionSound
  <2> QED
    BY <1>0, <2>2, <2>4, <2>7 DEF HookInv
<1> QED
  BY <1>1, <1>2, <1>3, <1>4, <1>5, <1>6 DEF NetworkStep

-----------------------------------------------------------------------------
(* React, its timers and the schedule keep the invariant *)

\* run() makes the only attempt, when the others of the runtime are over.
LEMMA RunKeeps ==
  ASSUME HookInv, NEW objects \in [Watches -> WatchObjects], \A v \in Watches : TokenObject(objects[v]),
         NEW own \in SUBSET Watches,
         \A v \in own : objects[v].connect \notin Awaits /\ objects[v].source \notin Live,
         Run(objects, own), effects' \in Rendered, effects'.key # Disabled, shown' = shown, clearing' \in BOOLEAN,
         clients' \in {clients, {}}, inventoryKey' = inventoryKey, call' \in Calls \union {NoCall}
  PROVE  HookInv'
<1>i. InventoryTypeOK /\ None \notin Watches /\ \A v \in Watches : ~Certificate(v)
  BY InventoryAssumption DEF HookInv
<1>1. PICK w \in Watches : /\ watch' = [objects EXCEPT ![w] = Connecting(NewWatch, w)] /\ mine' = own \union {w}
                           /\ state' = "connecting" /\ current' = w /\ listed' = None /\ timeout' = FALSE
  BY DEF Run
<1> DEFINE r == Connecting(NewWatch, w)
<1>2. TokenObject(r) /\ r.connect = "auth" /\ r.source = "none" /\ r.state = "connecting"
  BY <1>i DEF Connecting, NewWatch, TokenObject, WatchObjects, Awaits, Live
<1> HIDE DEF r
<1>3. watch' = [objects EXCEPT ![w] = r]
  BY <1>1 DEF r
<1>4. watch' \in [Watches -> WatchObjects] /\ watch'[w] = r /\ \A v \in Watches \ {w} : watch'[v] = objects[v]
  BY <1>2, <1>3 DEF TokenObject
<1>5. \A v \in Watches : TokenObject(watch'[v])
  BY <1>2, <1>4
<1>6. TypeOK' /\ ObjectsSound'
  BY <1>i, <1>4, <1>5 DEF TypeOK, ObjectsSound, TokenObject
<1>7. InventoryTypeOK'
  <2>1. clients' \subseteq Items /\ NoneTwice(clients')
    BY <1>i DEF InventoryTypeOK, NoneTwice, Identified
  <2> QED
    BY <1>1, <1>6, <1>i, <2>1 DEF InventoryTypeOK, HookStates
<1>8. Attempts' = {w}
  <2>1. \A v \in own \ {w} : Gone(v)'
    BY <1>4 DEF Gone
  <2>2. ~Gone(w)'
    BY <1>2, <1>4 DEF Gone, Awaits
  <2> QED
    BY <1>1, <2>1, <2>2 DEF Attempts
<1>9. AttemptsSound'
  BY <1>1, <1>2, <1>4, <1>8 DEF AttemptsSound
<1>10. ASSUME NEW v \in mine', watch'[v].source = "open" PROVE FALSE
  <2>1. CASE v = w
    BY <1>2, <1>4, <1>10, <2>1
  <2>2. CASE v # w
    <3>1. v \in own /\ watch'[v] = objects[v]
      BY <1>1, <1>4, <1>10, <2>2
    <3> QED
      BY <1>10, <3>1 DEF Live
  <2> QED
    BY <2>1, <2>2
<1>11. ConnectionSound'
  BY <1>1, <1>10 DEF ConnectionSound
<1> QED
  BY <1>6, <1>7, <1>9, <1>11 DEF HookInv

\* The cleanup leaves sound objects, and none of the runtime's under way.
LEMMA UnmountedSound ==
  ASSUME HookInv
  PROVE  /\ Unmounted \in [Watches -> WatchObjects] /\ \A v \in Watches : TokenObject(Unmounted[v])
         /\ (IF current = None THEN NoCall ELSE CloseCall(current)) \in Calls \union {NoCall}
<1>1. watch \in [Watches -> WatchObjects] /\ \A v \in Watches : TokenObject(watch[v])
  BY TokenObjects
<1>2. \A v \in Watches : TokenObject(Disconnected(watch[v]))
  BY <1>1, ObjectSteps
<1>3. \A v \in Watches : Unmounted[v] = IF v = current THEN Disconnected(watch[v]) ELSE watch[v]
  BY DEF Unmounted
<1>4. \A v \in Watches : TokenObject(Unmounted[v])
  BY <1>1, <1>2, <1>3
<1>5. Unmounted \in [Watches -> WatchObjects]
  BY <1>1, <1>2 DEF Unmounted, TokenObject
<1>6. current \in Watches \union {None}
  BY DEF HookInv, InventoryTypeOK
<1> QED
  BY <1>4, <1>5, <1>6, CallTypes

LEMMA EffectsKeep == HookInv /\ Effects => HookInv'
<1> SUFFICES ASSUME HookInv, Effects PROVE HookInv'
  OBVIOUS
<1>i. InventoryTypeOK /\ ObjectsSound /\ AttemptsSound /\ ConnectionSound
  BY DEF HookInv
<1>0. effects' = shown /\ effects' \in Rendered /\ clearing' \in BOOLEAN /\ UNCHANGED <<inventoryKey, clients, shown>>
  BY <1>i DEF Effects, InventoryTypeOK
<1>1. CASE ConnectingRests /\ UNCHANGED <<vars, state, current, timeout, mine, listed>>
  <2>1. InventoryTypeOK' /\ ObjectsSound'
    BY <1>0, <1>1, <1>i DEF vars, InventoryTypeOK, TypeOK, ObjectsSound
  <2>2. Attempts' = Attempts
    BY <1>1 DEF vars, Attempts, Gone
  <2>3. AttemptsSound'
    BY <1>0, <1>1, <1>i, <2>2 DEF vars, AttemptsSound, ConnectingRests
  <2>4. ConnectionSound'
    BY <1>0, <1>1, <1>i DEF vars, ConnectionSound, ConnectingRests
  <2> QED
    BY <2>1, <2>3, <2>4 DEF HookInv
<1>2. CASE /\ shown.key = Disabled /\ watch' = Unmounted /\ call' \in Calls \union {NoCall}
           /\ current' = None /\ timeout' = FALSE /\ mine' = {} /\ listed' = None /\ UNCHANGED state
  <2>1. TypeOK' /\ ObjectsSound'
    BY <1>2, UnmountedSound, TokenObjects DEF TypeOK, ObjectsSound, TokenObject
  <2>2. InventoryTypeOK'
    BY <1>0, <1>2, <1>i, <2>1 DEF InventoryTypeOK
  <2>3. Attempts' = {}
    BY <1>2 DEF Attempts
  <2>4. AttemptsSound' /\ ConnectionSound'
    BY <1>0, <1>2, <2>3 DEF AttemptsSound, ConnectionSound
  <2> QED
    BY <2>1, <2>2, <2>4 DEF HookInv
<1>3. CASE shown.key # Disabled /\ Run(Unmounted, {}) /\ call' \in Calls \union {NoCall}
  <2>1. effects'.key # Disabled /\ clients' \in {clients, {}} /\ inventoryKey' = inventoryKey /\ shown' = shown
    BY <1>0, <1>3
  <2> QED
    BY <1>0, <1>3, <2>1, UnmountedSound, RunKeeps
<1>4. ~ConnectingRests => call' \in Calls \union {NoCall}
  BY UnmountedSound DEF Effects
<1> QED
  BY <1>1, <1>2, <1>3, <1>4 DEF Effects

LEMMA ReconnectKeeps == HookInv /\ Reconnect => HookInv'
<1> SUFFICES ASSUME HookInv, Reconnect PROVE HookInv'
  OBVIOUS
<1>i. InventoryTypeOK /\ AttemptsSound
  BY DEF HookInv
<1>1. Run(watch, mine) /\ call' = NoCall /\ timeout /\ UNCHANGED <<inventoryKey, clients, shown, effects, clearing>>
  BY DEF Reconnect
<1>2. \A v \in mine : watch[v].connect \notin Awaits /\ watch[v].source \notin Live
  BY <1>1, <1>i DEF AttemptsSound, Attempts, Gone
<1>3. mine \in SUBSET Watches /\ effects' \in Rendered /\ effects'.key # Disabled /\ clearing' \in BOOLEAN
      /\ clients' \in {clients, {}}
  BY <1>1, <1>i DEF InventoryTypeOK, AttemptsSound
<1> QED
  BY <1>1, <1>2, <1>3, TokenObjects, RunKeeps

\* Nothing that only renders or clears matters to the runtime.
LEMMA RenderKeeps ==
  ASSUME HookInv, (\E k \in Keys \union {Disabled}, d \in Delays : Render(k, d)) \/ Clear \/ UNCHANGED inventoryVars
  PROVE  HookInv'
<1>i. InventoryTypeOK /\ ObjectsSound /\ AttemptsSound /\ ConnectionSound
  BY DEF HookInv
<1>1. /\ UNCHANGED <<vars, state, inventoryKey, effects, current, timeout, mine, listed>>
      /\ shown' \in Rendered /\ clearing' \in BOOLEAN /\ clients' \in {clients, {}}
  <2>0. shown \in Rendered /\ state \in HookStates /\ clearing \in BOOLEAN
    BY <1>i DEF InventoryTypeOK
  <2>1. ASSUME NEW k \in Keys \union {Disabled}, NEW d \in Delays, Render(k, d) PROVE shown' \in Rendered
    BY <2>0, <2>1 DEF Render, Rendered
  <2>2. CASE \E k \in Keys \union {Disabled}, d \in Delays : Render(k, d)
    BY <2>0, <2>1, <2>2 DEF Render
  <2>3. CASE Clear
    BY <2>0, <2>3 DEF Clear
  <2>4. CASE UNCHANGED inventoryVars
    BY <2>0, <2>4 DEF inventoryVars, hookVars
  <2> QED
    BY <2>2, <2>3, <2>4
<1>2. InventoryTypeOK'
  <2>1. clients' \subseteq Items /\ NoneTwice(clients')
    BY <1>1, <1>i DEF InventoryTypeOK, NoneTwice, Identified
  <2> QED
    BY <1>1, <1>i, <2>1 DEF vars, InventoryTypeOK, TypeOK
<1>3. ObjectsSound' /\ Attempts' = Attempts
  BY <1>1, <1>i DEF vars, ObjectsSound, Attempts, Gone
<1>4. AttemptsSound' /\ ConnectionSound'
  BY <1>1, <1>3, <1>i DEF vars, AttemptsSound, ConnectionSound
<1> QED
  BY <1>2, <1>3, <1>4 DEF HookInv

\* Every step is of the network, of connect(), of React or of a timer.
LEMMA HookStep == HookInv /\ [InventoryNext]_inventoryVars => HookInv'
<1> SUFFICES ASSUME HookInv, [InventoryNext]_inventoryVars PROVE HookInv'
  OBVIOUS
<1>1. ASSUME NEW w \in Watches, GetToken(w) \/ GetEngine(w) \/ Open(w) \/ Receive(w) \/ Lose(w) PROVE HookInv'
  <2>1. NetworkStep(w)
    BY <1>1, AwaitsStep, OpensStep, ArrivesStep
  <2> QED
    BY <2>1, NetworkKeeps
<1> QED
  BY <1>1, RenderKeeps, EffectsKeep, ReconnectKeeps DEF InventoryNext

LEMMA HookStart == InventoryInit => HookInv
<1> SUFFICES ASSUME InventoryInit PROVE HookInv
  OBVIOUS
<1>1. InventoryTypeOK
  <2>1. TypeOK
    BY InventoryAssumption DEF InventoryInit, Init, TypeOK, NewWatch, WatchObjects, Awaits, Live
  <2>2. PICK k \in Keys \union {Disabled}, d \in Delays :
          /\ shown = [key |-> k, delay |-> d, state |-> "disconnected"]
          /\ effects = [key |-> Disabled, delay |-> d, state |-> "connected"]
    BY DEF InventoryInit
  <2>3. shown \in Rendered
    BY <2>2 DEF Rendered, HookStates
  <2>5. effects \in Rendered
    BY <2>2 DEF Rendered, HookStates
  <2> QED
    BY <2>1, <2>3, <2>5 DEF InventoryInit, InventoryTypeOK, HookStates, NoneTwice, Identified
<1>2. ObjectsSound /\ ConnectionSound
  BY DEF InventoryInit, Init, NewWatch, ObjectsSound, ConnectionSound, Live
<1>3. AttemptsSound
  BY DEF InventoryInit, AttemptsSound, Attempts
<1> QED
  BY <1>1, <1>2, <1>3 DEF HookInv

LEMMA HookInvariant == InventorySpec => []HookInv
BY HookStart, HookStep, PTL DEF InventorySpec

\* Whatever the authentication, the network and React do, and in any order, the mounted runtime
\* has exactly one way to go on: a connection, an attempt or the timer of the next attempt.
THEOREM OneWayToGoOn == InventorySpec => []OneAttempt
<1>1. HookInv => OneAttempt
  BY DEF HookInv, AttemptsSound, OneAttempt
<1> QED
  BY <1>1, HookInvariant, PTL

-----------------------------------------------------------------------------
(* What is visible, where React has time *)

\* A connection opens with nothing left of another; what is told of it reaches the lists alike.
LEMMA NetworkShows ==
  ASSUME UnhurriedInv, Unhurried, NEW w \in Watches, NetworkStep(w), HookInv'
  PROVE  ClearingSound' /\ ListSound'
<1>0. UNCHANGED <<shown, effects, mine, clearing>> /\ ClearingSound /\ ListSound /\ ConnectionSound /\ ~Gone(w)
      /\ (Active(w) <=> w \in mine) /\ HookInv
  BY DEF NetworkStep, UnhurriedInv, HookInv, Active
<1>a. Active(w) => /\ current = w /\ ~timeout /\ effects.key # Disabled
  BY <1>0, TheAttempt
<1>1. CASE Ignored(w) \/ Proceeds(w)
  BY <1>0, <1>1 DEF Ignored, Proceeds, Unmoved, ClearingSound, ListSound, Told
<1>2. CASE Throws(w) \/ Ends(w)
  <2>1. UNCHANGED clients /\ state' = "connecting"
    BY <1>2, <1>a DEF Throws, Ends, OnThrow, OnClose, Schedule
  <2> QED
    BY <1>0, <2>1 DEF ClearingSound, ListSound
<1>3. CASE Connects(w)
  <2>1. /\ UNCHANGED <<inventoryKey, clients, listed>> /\ state' = "connected" /\ Idle
        /\ watch[w].source # "open"
    BY <1>3 DEF Connects, OnConnect
  <2>2. state # "connected" /\ listed = None
    BY <1>0, <1>3, <1>a, <2>1 DEF ConnectionSound, Connects
  <2>3. effects = shown /\ shown.state = state /\ ~clearing
    BY <2>1 DEF Idle
  <2>4. clients = {}
    BY <1>0, <2>2, <2>3 DEF ClearingSound
  <2> QED
    BY <1>0, <2>1, <2>2, <2>3, <2>4 DEF ClearingSound, ListSound
<1>4. CASE Tells(w)
  <2>1. /\ UNCHANGED state /\ Idle /\ Active(w) /\ watch[w].source = "open" /\ OnEvent(w)
    BY <1>4 DEF Tells, OnEvent
  <2>2. state = "connected" /\ effects.key # Disabled
    BY <1>0, <1>a, <2>1 DEF ConnectionSound
  <2>3. effects = shown /\ shown.state = state /\ ~clearing
    BY <2>1 DEF Idle
  <2>4. ClearingSound'
    BY <1>0, <2>1, <2>2, <2>3 DEF ClearingSound
  <2>5. CASE \E list \in SUBSET Items : inventoryKey' = effects.key /\ clients' = list /\ listed' = list
    BY <2>4, <2>5, InventoryAssumption DEF ListSound, Told
  <2>6. CASE listed # None /\ UNCHANGED inventoryKey
             /\ \E i \in Items :
                  \/ clients' = Created(clients, i) /\ listed' \in ListsWith(i)
                  \/ clients' = Updated(clients, i) /\ listed' \in ListsWith(i)
                  \/ clients' = Without(clients, i.id) /\ listed' \in ListsWithout(i)
    <3>1. Told /\ clients \in SUBSET Items /\ listed \in SUBSET Items /\ NoneTwice(clients)
      BY <1>0, <2>2, <2>6 DEF ListSound, HookInv, InventoryTypeOK
    <3>2. PICK i \in Items :
                  \/ clients' = Created(clients, i) /\ listed' \in ListsWith(i)
                  \/ clients' = Updated(clients, i) /\ listed' \in ListsWith(i)
                  \/ clients' = Without(clients, i.id) /\ listed' \in ListsWithout(i)
      BY <2>6
    <3>3. ASSUME clients' = Created(clients, i) /\ listed' \in ListsWith(i) PROVE Told' /\ listed' \in SUBSET Items
      <4> DEFINE later == listed'
      <4>1. /\ later \in SUBSET Items /\ i \in later
            /\ i.id # None => later = Without(listed, i.id) \union {i}
            /\ i.id = None => Identified(later) = Identified(listed)
        BY <3>1, <3>3, ListsAre
      <4> HIDE DEF later
      <4>2. Identified(Created(clients, i)) = Identified(later) /\ Created(clients, i) \subseteq later
        BY <3>1, <4>1, ToldOf DEF Told
      <4> QED
        BY <3>3, <4>1, <4>2 DEF Told, later, Identified
    <3>4. ASSUME clients' = Without(clients, i.id) /\ listed' \in ListsWithout(i) PROVE Told' /\ listed' \in SUBSET Items
      <4> DEFINE later == listed'
      <4>1. /\ later \in SUBSET Items
            /\ i.id # None => later = Without(listed, i.id)
            /\ i.id = None => Identified(later) = Identified(listed)
        BY <3>1, <3>4, ListsAre
      <4> HIDE DEF later
      <4>2. Identified(Without(clients, i.id)) = Identified(later) /\ Without(clients, i.id) \subseteq later
        BY <3>1, <4>1, ToldOf DEF Told
      <4> QED
        BY <3>4, <4>1, <4>2 DEF Told, later, Identified
    <3>5. Told' /\ listed' \in SUBSET Items
      BY <3>1, <3>2, <3>3, <3>4, Reducers
    <3>6. listed' # None
      BY <3>5, InventoryAssumption
    <3> QED
      BY <2>4, <3>5, <3>6 DEF ListSound
  <2> QED
    BY <2>1, <2>5, <2>6 DEF OnEvent
<1> QED
  BY <1>1, <1>2, <1>3, <1>4 DEF NetworkStep

\* run() hides what was listed; React clears it once it has rendered that, and not later.
LEMMA ReactShows ==
  ASSUME UnhurriedInv,
         (\E k \in Keys \union {Disabled}, d \in Delays : Render(k, d)) \/ Effects \/ Clear \/ Reconnect \/ UNCHANGED inventoryVars
  PROVE  ClearingSound' /\ ListSound'
<1>i. ClearingSound /\ ListSound
  BY DEF UnhurriedInv
<1>1. CASE \E k \in Keys \union {Disabled}, d \in Delays : Render(k, d)
  <2>1. PICK k, d : Render(k, d)
    BY <1>1
  <2>2. /\ effects = shown /\ shown'.state = state
        /\ UNCHANGED <<state, inventoryKey, clients, effects, clearing, listed>>
    BY <2>1 DEF Render
  <2> QED
    BY <1>i, <2>2 DEF ClearingSound, ListSound, Told
<1>2. CASE Effects
  <2>1. /\ effects' = shown /\ effects # shown /\ UNCHANGED <<inventoryKey, clients, shown>>
        /\ clearing' = IF ClearingRests THEN clearing ELSE shown.key = Disabled \/ shown.state # "connected"
    BY <1>2 DEF Effects
  <2>2. CASE shown.key = effects.key /\ UNCHANGED <<state, listed>>
    BY <1>i, <2>1, <2>2 DEF ClearingSound, ListSound, ClearingRests, Told
  <2>3. CASE shown.key = Disabled
    BY <1>i, <2>1, <2>3 DEF ClearingSound, ListSound, ClearingRests
  <2>4. CASE state' = "connecting"
    BY <1>i, <2>1, <2>4 DEF ClearingSound, ListSound, ClearingRests
  <2>5. (shown.key = effects.key /\ UNCHANGED <<state, listed>>) \/ shown.key = Disabled \/ state' = "connecting"
    BY <1>2 DEF Effects, Run, ConnectingRests
  <2> QED
    BY <2>2, <2>3, <2>4, <2>5
<1>3. CASE Clear
  BY <1>i, <1>3 DEF Clear, ClearingSound, ListSound, ConnectionSound
<1>4. CASE Reconnect
  <2>1. state' = "connecting" /\ UNCHANGED <<clients, effects, clearing>>
    BY <1>4 DEF Reconnect, Run
  <2> QED
    BY <1>i, <2>1 DEF ClearingSound, ListSound
<1>5. CASE UNCHANGED inventoryVars
  BY <1>i, <1>5 DEF inventoryVars, hookVars, ClearingSound, ListSound, Told
<1> QED
  BY <1>1, <1>2, <1>3, <1>4, <1>5

LEMMA UnhurriedStep == Unhurried /\ UnhurriedInv /\ [InventoryNext]_inventoryVars => UnhurriedInv'
<1> SUFFICES ASSUME Unhurried, UnhurriedInv, [InventoryNext]_inventoryVars PROVE UnhurriedInv'
  OBVIOUS
<1>1. HookInv /\ HookInv'
  BY HookStep DEF UnhurriedInv
<1>2. ASSUME NEW w \in Watches, GetToken(w) \/ GetEngine(w) \/ Open(w) \/ Receive(w) \/ Lose(w)
      PROVE  ClearingSound' /\ ListSound'
  <2>1. NetworkStep(w)
    BY <1>1, <1>2, AwaitsStep, OpensStep, ArrivesStep
  <2> QED
    BY <1>1, <2>1, NetworkShows
<1>3. ClearingSound' /\ ListSound'
  BY <1>2, ReactShows DEF InventoryNext
<1> QED
  BY <1>1, <1>3 DEF UnhurriedInv

LEMMA UnhurriedStart == InventoryInit => UnhurriedInv
<1> SUFFICES ASSUME InventoryInit PROVE ClearingSound /\ ListSound
  BY HookStart DEF UnhurriedInv
<1> QED
  BY DEF InventoryInit, ClearingSound, ListSound

\* As long as React is idle whenever something arrives from the network, a visible inventory is
\* what the engine told on the connection that is open, under the current key, whether or not the
\* effects of the render ran: nothing of an earlier connection or of another key is ever returned,
\* unless authentication was removed and restored before the timer that clears.
THEOREM NothingStaleShown ==
  ASSUME Unhurried
  PROVE  InventorySpec => []InventoryCurrent
<1>1. UnhurriedInv => InventoryCurrent
  <2> SUFFICES ASSUME UnhurriedInv, Visible, ~Leftover
               PROVE  IF listed = None THEN clients = {}
                      ELSE current # None /\ watch[current].source = "open" /\ Told
    BY DEF InventoryCurrent, Told
  <2>1. state = "connected" /\ ClearingSound /\ ListSound /\ ConnectionSound
    BY DEF Visible, UnhurriedInv, HookInv
  <2>2. CASE effects.key = Disabled
    BY <2>1, <2>2 DEF Leftover, ClearingSound, ConnectionSound
  <2>3. CASE effects.key # Disabled
    BY <2>1, <2>3 DEF ConnectionSound, ListSound
  <2> QED
    BY <2>2, <2>3
<1>2. InventorySpec => []UnhurriedInv
  <2>1. UnhurriedInv /\ [InventoryNext]_inventoryVars => UnhurriedInv'
    BY UnhurriedStep
  <2> QED
    BY <2>1, UnhurriedStart, PTL DEF InventorySpec
<1> QED
  BY <1>1, <1>2, PTL
=============================================================================
