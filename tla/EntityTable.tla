----------------------------- MODULE EntityTable -----------------------------
(***************************************************************************)
(* The table of entities the mod made (baseentity.cpp): one camera for     *)
(* each client that spectates another, removed again when its owner leaves *)
(* or when the map changes.                                                *)
(*                                                                         *)
(* Scripts run inside CNetwork::OnClientDisconnect, between the removal of *)
(* the client's row and the removal of its entities, and inside the map    *)
(* change; they make clients spectate, and they may kick clients or run    *)
(* console commands that drop one, add a bot or change the map at once:    *)
(* "calls" is the stack of the departures and hooks at work.  The engine   *)
(* reuses edicts, and at a map change it gives all of them but the         *)
(* clients' own to the new map.                                            *)
(*                                                                         *)
(* Of the table of players only who is on it is kept here, and who by a    *)
(* row of its own: one that was made for this client, and not for an       *)
(* earlier client of the slot or before a reconnection.  The hooks of the  *)
(* engine find a client's row by its user id, which leads to its own row   *)
(* or to none.  Presence says what the two modules agree on.               *)
(*                                                                         *)
(* The operators marked "Slip" are no part of the specification: they say  *)
(* what plausible mistakes would make of the definition that follows them. *)
(***************************************************************************)
EXTENDS Integers, Sequences, FiniteSets, SequencesExt

CONSTANTS
    MaxClients, \* the engine's number of client slots (SVS_MAXCLIENTS)
    Edicts,     \* the edicts that are not a client's
    Free,       \* what a free edict holds
    Native,     \* what an edict holds that the map or the game made
    MaxMaps,    \* bound on the changes of the map
    MaxDepth    \* bound on the handlers inside which a hook still begins

Slots == 0 .. MaxClients - 1

INVALID_USERID == -1

ASSUME EntityTableAssumption ==
    /\ MaxClients \in Nat \ {0}
    /\ MaxMaps \in Nat
    /\ MaxDepth \in Nat
    /\ Free \notin Slots /\ Native \notin Slots /\ Free # Native

VARIABLES
    connected, \* the connected clients
    listed,    \* the clients that are on the table of players
    own,       \* the connected ones that are on it by a row of their own
    world,     \* what each edict holds: a camera is named by its owner
    entities,  \* the mod's vector of entities
    calls,     \* the departures and the engine hooks being handled, the innermost
               \* first
    maps,      \* the changes of the map
    running,   \* FALSE once the process has crashed
    clean,     \* history: the table was empty whenever a map was loaded, and no
               \* script has removed a camera itself
    tame       \* history: so far scripts have removed no camera themselves and
               \* made only clients spectate that were connected and on the table of
               \* players, no slot was freed while it was on it, no map change began
               \* inside a handler and nobody connected inside a map change

history == <<clean, tame>>

vars == <<connected, listed, own, world, entities, calls, maps, running, history>>

-----------------------------------------------------------------------------
Row == [edict : Edicts, owner : Slots]

\* A departure whose entities are still to be removed, or a hook: the slot it is
\* about, the slot or the row its loop has come to.
Call ==
    [name : {"leaving", "reconnect", "drop", "dropped", "mapchange", "erasing", "loading"},
     at   : Nat]

Frame(name, at) == [name |-> name, at |-> at]

Idle == running /\ calls = <<>>

call == Head(calls)

At(name) == running /\ calls # <<>> /\ call.name = name

Advance(name, at) == calls' = <<Frame(name, at)>> \o Tail(calls)

Return == calls' = Tail(calls)

\* A script has control: between the handlers, in a client's disconnect callback
\* of the gamemode or of a plugin, or in the map change callback of either.
Waits(c) ==
    \/ c.name \in {"leaving", "drop", "dropped", "loading"}
    \/ c.name = "mapchange" /\ c.at = MaxClients

ScriptRuns == running /\ (calls # <<>> => Waits(call))

\* A console command of a script may begin a hook as well as the engine.
Begins == ScriptRuns /\ Len(calls) < MaxDepth

\* Some handler below is a change of the map.
MapChanges ==
    \E k \in DOMAIN calls : calls[k].name \in {"mapchange", "erasing", "loading"}

Init ==
    /\ connected = {}
    /\ listed = {}
    /\ own = {}
    /\ world \in [Edicts -> {Free, Native}]
    /\ entities = <<>>
    /\ calls = <<>>
    /\ maps = 0
    /\ running = TRUE
    /\ clean = TRUE
    /\ tame = TRUE

CountEntitiesByOwner(i) ==
    Cardinality({k \in DOMAIN entities : entities[k].owner = i})

\* The rows of client i, and what erasing them leaves: the table without the one
\* row, when there is one.
Owned(i) == {r \in Range(entities) : r.owner = i}

Others(i) ==
    LET mine == {k \in DOMAIN entities : entities[k].owner = i}
    IN  CASE mine = {}                 -> entities
          [] \E k \in mine : mine = {k} -> RemoveAt(entities, CHOOSE k \in mine : TRUE)
          [] OTHER                     -> SelectSeq(entities, LAMBDA r : r.owner # i)

\* Slip: the rows go and their entities stay.
WithoutNone(rows) == world

\* SUB_RemoveEx of some rows: whatever now lives in their edicts is removed.
Without(rows) ==
    [e \in Edicts |-> IF \E r \in rows : r.edict = e THEN Free ELSE world[e]]

\* Slip: the entities go and their rows stay.
RemoveEntitiesKeepRows(i) ==
    /\ UNCHANGED entities
    /\ world' = Without(Owned(i))

\* The loop that erases the rows of client i and removes their entities.
RemoveEntitiesByOwner(i) ==
    /\ entities' = Others(i)
    /\ world' = Without(Owned(i))

AddEntityToTable(rows, e, i) == Append(rows, [edict |-> e, owner |-> i])

-----------------------------------------------------------------------------
(* Clients come and go.                                                    *)

\* callOnClientConnect lists the lowest id that is not on the table, unless
\* AddPlayerToTable takes it for a client that is: "there" are the clients then
\* connected, "owners" those that have a row of their own already.
CallOnClientConnect(there, owners) ==
    \/ UNCHANGED listed /\ own' = owners
    \/ LET new == {i \in Slots \ listed : 0 .. i - 1 \subseteq listed}
       IN  /\ listed' = listed \cup new
           /\ own' = owners \cup (new \cap there)

Connect(s) ==
    /\ ScriptRuns
    /\ s \notin connected
    /\ connected' = connected \cup {s}
    /\ CallOnClientConnect(connected', own)
    /\ tame' = (tame /\ ~MapChanges)
    /\ UNCHANGED <<world, entities, calls, maps, running, clean>>

\* A connected client that was kicked is listed again by the next frame.
UpdatePlayers(s) ==
    /\ Idle
    /\ s \in connected \ listed
    /\ listed' = listed \cup {s}
    /\ own' = own \cup {s}
    /\ UNCHANGED <<connected, world, entities, calls, maps, running, history>>

\* CNetwork::OnClientDisconnect up to the script's callback, in a handler that
\* leaves "below" to be done.
OnClientDisconnect(i, below) ==
    IF i \in listed \cap connected
    THEN /\ listed' = listed \ {i}
         /\ own' = own \ {i}
         /\ calls' = <<Frame("leaving", i)>> \o below
    ELSE /\ UNCHANGED <<listed, own>>
         /\ calls' = below

\* The rest of it, when the callback has returned.
EntitiesOnClientDisconnect ==
    /\ At("leaving")
    /\ IF CountEntitiesByOwner(call.at) # 0
       THEN RemoveEntitiesByOwner(call.at)
       ELSE UNCHANGED <<entities, world>>
    /\ Return
    /\ UNCHANGED <<connected, listed, own, maps, running, history>>

\* A client that has a slot connects again: its own row goes, unless the engine
\* reports the new user id already.  No console command makes it.
Reconnect(s) ==
    /\ Idle
    /\ s \in connected
    /\ \E i \in {INVALID_USERID} \cup ({s} \cap own) :
          OnClientDisconnect(i, <<Frame("reconnect", s)>>)
    /\ UNCHANGED <<connected, world, entities, maps, running, history>>

ReconnectResume ==
    /\ At("reconnect")
    /\ connected' = connected \cup {call.at}
    /\ CallOnClientConnect(connected', own \ {call.at})
    /\ Return
    /\ UNCHANGED <<world, entities, maps, running, history>>

\* What the user id of a dropped client leads to: its own row, or nobody.
LookedUp(s) == IF s \in own THEN s ELSE INVALID_USERID

\* A client is dropped, and the hook takes its own row; as "drop" when the game
\* library's hook is still to come.
Drop(s, name) ==
    /\ Begins
    /\ s \in connected
    /\ OnClientDisconnect(LookedUp(s), <<Frame(name, s)>> \o calls)
    /\ UNCHANGED <<connected, world, entities, maps, running, history>>

\* The second hook asks by the same user id.
DropAgain ==
    /\ At("drop")
    /\ OnClientDisconnect(LookedUp(call.at), <<Frame("dropped", call.at)>> \o Tail(calls))
    /\ UNCHANGED <<connected, world, entities, maps, running, history>>

\* The hooks have returned, and the slot is free.
DropDone ==
    /\ At("dropped")
    /\ connected' = connected \ {call.at}
    /\ own' = own \ {call.at}
    /\ tame' = (tame /\ call.at \notin listed)
    /\ Return
    /\ UNCHANGED <<listed, world, entities, maps, running, clean>>

-----------------------------------------------------------------------------
(* What scripts do.                                                        *)

KickClient(i) ==
    /\ ScriptRuns
    /\ i \in listed \cap connected
    /\ OnClientDisconnect(i, calls)
    /\ UNCHANGED <<connected, world, entities, maps, running, history>>

\* Slip: the cameras the client has already are left.
SpectatePlayerAgain(p, target) ==
    /\ ScriptRuns
    /\ target \in listed
    /\ p # target
    /\ \E e \in Edicts :
          /\ world[e] = Free
          /\ entities' = AddEntityToTable(entities, e, p)
          /\ world' = [world EXCEPT ![e] = p]
    /\ tame' = (tame /\ p \in listed \cap connected)
    /\ UNCHANGED <<connected, listed, own, calls, maps, running, clean>>

\* Slip: the row names the client that is watched.
SpectatePlayerOfTarget(p, target) ==
    /\ ScriptRuns
    /\ target \in listed
    /\ \E e \in Edicts :
          /\ p # target
          /\ world[e] = Free
          /\ entities' = AddEntityToTable(Others(p), e, target)
          /\ world' = [Without(Owned(p)) EXCEPT ![e] = p]
    /\ tame' = (tame /\ p \in listed \cap connected)
    /\ UNCHANGED <<connected, listed, own, calls, maps, running, clean>>

\* CBasePlayer::SpectatePlayer for any slot, whether it is connected or not: its
\* cameras go, and if it is not to see through its own eyes it gets a new one,
\* unless the target has no entity or the engine makes none.
SpectatePlayer(p, target) ==
    /\ ScriptRuns
    /\ target \in listed
    /\ \/ /\ Owned(p) # {} \/ p # target
          /\ RemoveEntitiesByOwner(p)
       \/ \E e \in Edicts :
             /\ p # target
             /\ world[e] = Free
             /\ entities' = AddEntityToTable(Others(p), e, p)
             /\ world' = [Without(Owned(p)) EXCEPT ![e] = p]
    /\ tame' = (tame /\ p \in listed \cap connected)
    /\ UNCHANGED <<connected, listed, own, calls, maps, running, clean>>

\* The native SUB_Remove: the entity goes, and its row stays if it has one.
SUB_Remove(e) ==
    /\ ScriptRuns
    /\ world[e] # Free
    /\ world' = [world EXCEPT ![e] = Free]
    /\ clean' = (clean /\ world[e] = Native)
    /\ tame' = (tame /\ world[e] = Native)
    /\ UNCHANGED <<connected, listed, own, entities, calls, maps, running>>

-----------------------------------------------------------------------------
(* The map.                                                                *)

ChangeMap ==
    /\ Begins
    /\ maps < MaxMaps
    /\ maps' = maps + 1
    /\ calls' = <<Frame("mapchange", 0)>> \o calls
    /\ tame' = (tame /\ Idle)
    /\ UNCHANGED <<connected, listed, own, world, entities, running, clean>>

\* Slip: the loop visits one slot too many.
DisconnectNextInclusive ==
    /\ At("mapchange")
    /\ call.at <= MaxClients
    /\ OnClientDisconnect(call.at, <<Frame("mapchange", call.at + 1)>> \o Tail(calls))
    /\ UNCHANGED <<connected, world, entities, maps, running, history>>

\* Slip: the loop visits one slot too few.
DisconnectNextShort ==
    /\ At("mapchange")
    /\ call.at < MaxClients
    /\ OnClientDisconnect(IF call.at < MaxClients - 1 THEN call.at ELSE INVALID_USERID,
                          <<Frame("mapchange", call.at + 1)>> \o Tail(calls))
    /\ UNCHANGED <<connected, world, entities, maps, running, history>>

\* One turn of the loop of CNetwork::OnServerChangeMap.
DisconnectNext ==
    /\ At("mapchange")
    /\ call.at < MaxClients
    /\ OnClientDisconnect(call.at, <<Frame("mapchange", call.at + 1)>> \o Tail(calls))
    /\ UNCHANGED <<connected, world, entities, maps, running, history>>

\* The departures are over and the gamemode's callback has returned;
\* CBaseEntity::OnServerChangeMap starts its loop at the first row.
OnServerChangeMap ==
    /\ At("mapchange")
    /\ call.at = MaxClients
    /\ Advance("erasing", 1)
    /\ UNCHANGED <<connected, listed, own, world, entities, maps, running, history>>

\* One turn of the loop of RemoveAllEntitiesFromTable: the erasure moves the
\* next row to where the iterator is, and the iterator goes on all the same.
EraseNext ==
    /\ At("erasing")
    /\ call.at \in DOMAIN entities
    /\ entities' = RemoveAt(entities, call.at)
    /\ world' = Without({entities[call.at]})
    /\ Advance("erasing", call.at + 1)
    /\ UNCHANGED <<connected, listed, own, maps, running, history>>

\* The loop ends when the iterator is end().  An iterator that has passed it
\* goes on through memory until the process dies.
EraseDone ==
    /\ At("erasing")
    /\ call.at \notin DOMAIN entities
    /\ running' = (call.at = Len(entities) + 1)
    /\ Advance("loading", 0)
    /\ UNCHANGED <<connected, listed, own, world, entities, maps, history>>

\* Slip: clients are listed that are not connected.
LoadMapForAll ==
    /\ At("loading")
    /\ world' \in [Edicts -> {Free, Native}]
    /\ \E new \in SUBSET (Slots \ listed) :
          /\ listed' = listed \cup new
          /\ own' = own \cup (new \cap connected)
    /\ clean' = (clean /\ entities = <<>>)
    /\ Return
    /\ UNCHANGED <<connected, entities, maps, running, tame>>

\* The engine gives every edict to the new map; the clients stay connected
\* and ProcessClientsOnMapLoad lists them, but those it takes for others.
LoadMap ==
    /\ At("loading")
    /\ world' \in [Edicts -> {Free, Native}]
    /\ \E new \in SUBSET (connected \ listed) :
          /\ listed' = listed \cup new
          /\ own' = own \cup new
    /\ clean' = (clean /\ entities = <<>>)
    /\ Return
    /\ UNCHANGED <<connected, entities, maps, running, tame>>

\* The game makes and removes entities of its own.
NativeEntity(e) ==
    /\ Idle
    /\ world[e] \in {Free, Native}
    /\ world' = [world EXCEPT ![e] = IF @ = Free THEN Native ELSE Free]
    /\ UNCHANGED <<connected, listed, own, entities, calls, maps, running, history>>

Stopped == ~running /\ UNCHANGED vars

Next ==
    \/ \E s \in Slots : Connect(s) \/ UpdatePlayers(s) \/ Reconnect(s) \/ KickClient(s)
    \/ \E s \in Slots, name \in {"drop", "dropped"} : Drop(s, name)
    \/ \E p, target \in Slots : SpectatePlayer(p, target)
    \/ \E e \in Edicts : SUB_Remove(e) \/ NativeEntity(e)
    \/ EntitiesOnClientDisconnect
    \/ ReconnectResume
    \/ DropAgain
    \/ DropDone
    \/ ChangeMap
    \/ DisconnectNext
    \/ OnServerChangeMap
    \/ EraseNext
    \/ EraseDone
    \/ LoadMap
    \/ Stopped

Spec == Init /\ [][Next]_vars

-----------------------------------------------------------------------------
(* Properties.                                                             *)

TypeOK ==
    /\ connected \subseteq Slots
    /\ listed \subseteq Slots
    /\ own \subseteq listed \cap connected
    /\ world \in [Edicts -> Slots \cup {Free, Native}]
    /\ entities \in Seq(Row)
    /\ calls \in Seq(Call)
    /\ \A k \in DOMAIN calls :
          /\ calls[k].name # "erasing" => calls[k].at \in 0 .. MaxClients
          /\ calls[k].name \in {"leaving", "reconnect", "drop", "dropped"} =>
                calls[k].at \in Slots
    /\ maps \in 0 .. MaxMaps
    /\ running \in BOOLEAN
    /\ clean \in BOOLEAN
    /\ tame \in BOOLEAN

\* However often it switches, and whatever departures it switches in, a client
\* owns at most one camera: the table is bounded by the number of slots.
OneCameraEach == \A i \in Slots : CountEntitiesByOwner(i) <= 1

\* A camera that lives in the world has its owner's row in the table, so that
\* something will remove it.
CamerasHaveRows ==
    \A e \in Edicts :
        world[e] \in Slots =>
            [edict |-> e, owner |-> world[e]] \in Range(entities)

\* As long as every map was entered with an empty table, and scripts leave the
\* cameras alone, a row leads to the camera of its owner: the mod removes no
\* entity of the map or of the game.
RowsAreCameras ==
    clean => \A r \in Range(entities) : world[r.edict] = r.owner

\* Under the same condition no handler and no native of the mod removes an
\* entity that is not the mod's own: only the game, a new map and a script that
\* asks for it do.
NativesAreSafe ==
    [][clean =>
        \A e \in Edicts :
            world[e] = Native /\ world'[e] # Native =>
                NativeEntity(e) \/ SUB_Remove(e) \/ LoadMap]_vars

\* The condition is met, and the loop of RemoveAllEntitiesFromTable does no
\* harm, as long as scripts make only clients spectate that are connected and on
\* the table of players, no slot is freed while it is on it, every change of the map
\* begins outside the other handlers and nobody connects in its midst: by the time
\* of the loop the departures have emptied the table, even those inside one another.
TameScriptsKeepMapsClean == tame => clean /\ running

\* Whatever is taken for possible here of the clients and of who is on the table of
\* players, that table allows: who comes onto it and by whose row, and that nobody
\* leaves it who is not connected.
TableOfPlayers == INSTANCE Presence

ImplementsPresence == TableOfPlayers!Spec

=============================================================================
