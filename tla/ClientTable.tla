----------------------------- MODULE ClientTable -----------------------------
(***************************************************************************)
(* The table of players iniMod keeps beside the engine's client slots      *)
(* (player.cpp), the handlers that keep it up to date (gamemodes.cpp,      *)
(* hooks.cpp) and the gamemode's idea of who is connected.                 *)
(*                                                                         *)
(* The mod runs on the engine's only thread.  A hook is a handler of       *)
(* several steps; between two of them a script callback may run.  The      *)
(* script may call the native KickClient, and it may run a console command *)
(* that the engine obeys at once (ConsoleCommand): a client is dropped, a  *)
(* bot connects, the map changes - and their hooks run inside the handler  *)
(* that called the script.  "calls" is the stack of the hooks at work.     *)
(*                                                                         *)
(* The operators marked "Slip" are no part of the specification: they say  *)
(* what plausible mistakes would make of the definition that follows them, *)
(* and are there to see that a property notices.                           *)
(***************************************************************************)
EXTENDS Integers, Sequences, FiniteSets, SequencesExt

CONSTANTS
    MaxClients, \* the engine's number of client slots (SVS_MAXCLIENTS)
    ByteSize,   \* the values a byte can take: 256 in the code, less in a run
    MaxUserId,  \* bound on the user ids the engine hands out
    MaxDepth,   \* bound on the hooks at work inside one another
    Old,        \* the connections, by user id, that support no dynamic lights
    FirstFit    \* TRUE when the engine gives a newcomer its lowest free slot

ASSUME ClientTableAssumption ==
    /\ MaxClients \in Nat \ {0}
    /\ ByteSize \in Nat \ {0}
    /\ MaxUserId \in Nat
    /\ MaxDepth \in Nat
    /\ FirstFit \in BOOLEAN

Slots == 0 .. MaxClients - 1

INVALID_USERID == -1

VARIABLES
    slot,     \* the engine's clients: connected, user id, dynamic lights
    nextUid,  \* the user id the engine gives to the next connection
    players,  \* the mod's vector of players
    noLight,  \* NumPlayersWithoutDynamicLightSupport
    calls,    \* the engine hooks being handled, the innermost first
    think,    \* the slot UpdatePlayers visits next
    present,  \* history: ids announced to the gamemode and not yet taken back
    anew      \* history: slots that hooks inside another hook have listed, or
              \* given to another connection, and that are listed since

steps == <<slot, nextUid, players, noLight, calls, think, present>>

vars == <<steps, anew>>

-----------------------------------------------------------------------------
(* The engine's slots and the rows of the table.                           *)

Slot == [connected : BOOLEAN, uid : Nat, light : BOOLEAN]

Row == [id : Slots, uid : Nat, connected : BOOLEAN, light : BOOLEAN]

\* A hook at work: the slot it is about or has come to, and what it still does.
Call ==
    [name : {"reconnect", "drop", "mapchange", "maploaded"},
     at   : 0 .. MaxClients,
     left : 0 .. 1]

Idle == calls = <<>>

\* The innermost hook, and what becomes of it in a step.
call == Head(calls)

At(name) == calls # <<>> /\ call.name = name

Advance(c) == calls' = <<c>> \o Tail(calls)

Return == calls' = Tail(calls)

\* Slip: the row keeps the byte the user id was looked up with.
NewPlayerByte(clients, i) ==
    [id        |-> i,
     uid       |-> clients[i].uid % ByteSize,
     connected |-> clients[i].connected,
     light     |-> clients[i].light]

\* AddPlayerToTable's new row.  ReadByte truncates the user id only where the
\* id is looked up: the row stores what GetPlayerUserID returns.
NewPlayer(clients, i) ==
    [id        |-> i,
     uid       |-> clients[i].uid,
     connected |-> clients[i].connected,
     light     |-> clients[i].light]

IsClientOnTable(i) == \E k \in DOMAIN players : players[k].id = i

IsClientOnTableByNFID(u) ==
    \E k \in DOMAIN players : players[k].uid = u /\ players[k].connected

\* The ids that have a row.
Listed == {players[k].id : k \in DOMAIN players}

\* Both lookups below return what the first row that matches holds.
GetInternalIDFromNFID(u) ==
    IF \E k \in DOMAIN players : players[k].uid = u
    THEN players[CHOOSE k \in DOMAIN players :
                    /\ players[k].uid = u
                    /\ \A j \in 1 .. k - 1 : players[j].uid # u].id
    ELSE INVALID_USERID

SupportsDynamicLights(i) ==
    \E k \in DOMAIN players :
        /\ players[k].id = i
        /\ \A j \in 1 .. k - 1 : players[j].id # i
        /\ players[k].light

Init ==
    /\ slot = [s \in Slots |-> [connected |-> FALSE, uid |-> 0, light |-> FALSE]]
    /\ nextUid = 1
    /\ players = <<>>
    /\ noLight = 0
    /\ calls = <<>>
    /\ think = 0
    /\ present = {}
    /\ anew = {}

-----------------------------------------------------------------------------
(* Rows come and rows go: player.cpp and the CNetwork handlers.            *)

AddPlayerToTable(clients, i) ==
    IF IsClientOnTableByNFID(clients[i].uid % ByteSize)
    THEN UNCHANGED <<players, noLight>>
    ELSE /\ players' = Append(players, NewPlayer(clients, i))
         /\ noLight' = noLight + (IF clients[i].light THEN 0 ELSE 1)

\* Slip: the erase loop drops every row from the first match on.
RemovePlayerTruncating(rows, i) ==
    LET matches == {k \in DOMAIN rows : rows[k].id = i}
    IN  IF \E k \in matches : matches = {k}
        THEN SubSeq(rows, 1, (CHOOSE k \in matches : TRUE) - 1)
        ELSE rows

\* The erase loop.  When one row matches, what it leaves is RemoveAt.
RemovePlayerFromTable(rows, i) ==
    LET matches == {k \in DOMAIN rows : rows[k].id = i}
    IN  IF \E k \in matches : matches = {k}
        THEN RemoveAt(rows, CHOOSE k \in matches : TRUE)
        ELSE SelectSeq(rows, LAMBDA r : r.id # i)

\* callOnClientConnect is handed the newcomer's user id and does not look at
\* it: it announces the lowest id that has no row.
CallOnClientConnect(clients) ==
    \/ /\ \A i \in Slots : IsClientOnTable(i)
       /\ UNCHANGED <<players, noLight, present>>
    \/ \E i \in Slots :
          /\ ~IsClientOnTable(i)
          /\ \A j \in 0 .. i - 1 : IsClientOnTable(j)
          /\ AddPlayerToTable(clients, i)
          /\ present' = present \cup {i}

\* Slip: the counter is touched before the early return.
OnClientDisconnectEager(i) ==
    /\ noLight' = noLight - (IF SupportsDynamicLights(i) THEN 0 ELSE 1)
    /\ IF IsClientOnTable(i) /\ slot[i].connected
       THEN /\ players' = RemovePlayerFromTable(players, i)
            /\ present' = present \ {i}
       ELSE UNCHANGED <<players, present>>

\* Slip: the counter is not touched at all.
OnClientDisconnectUncounted(i) ==
    /\ UNCHANGED noLight
    /\ IF IsClientOnTable(i) /\ slot[i].connected
       THEN /\ players' = RemovePlayerFromTable(players, i)
            /\ present' = present \ {i}
       ELSE UNCHANGED <<players, present>>

\* Slip: the gamemode is not told.
OnClientDisconnectSilent(i) ==
    /\ UNCHANGED present
    /\ IF IsClientOnTable(i) /\ slot[i].connected
       THEN /\ noLight' = noLight - (IF SupportsDynamicLights(i) THEN 0 ELSE 1)
            /\ players' = RemovePlayerFromTable(players, i)
       ELSE UNCHANGED <<players, noLight>>

\* Slip: the engine is not asked whether the client is connected.
OnClientDisconnectOfAny(i) ==
    IF IsClientOnTable(i)
    THEN /\ noLight' = noLight - (IF SupportsDynamicLights(i) THEN 0 ELSE 1)
         /\ players' = RemovePlayerFromTable(players, i)
         /\ present' = present \ {i}
    ELSE UNCHANGED <<players, noLight, present>>

\* CNetwork::OnClientDisconnect: the counter, the row, then the gamemode.
OnClientDisconnect(i) ==
    IF IsClientOnTable(i) /\ slot[i].connected
    THEN /\ noLight' = noLight - (IF SupportsDynamicLights(i) THEN 0 ELSE 1)
         /\ players' = RemovePlayerFromTable(players, i)
         /\ present' = present \ {i}
    ELSE UNCHANGED <<players, noLight, present>>

-----------------------------------------------------------------------------
(* The engine and its hooks.                                               *)

\* A hook waits for a script it has called: OnClientDisconnect's, or that of the
\* map's own callbacks.  A drop and a change of the map tell the plugins even of
\* nobody; a reconnection tells nobody when no row is found ("left" is 0 then),
\* and no script runs while a loaded map's clients are listed.
Waits(c) ==
    CASE c.name = "reconnect" -> c.left = 1
      [] c.name = "drop"      -> TRUE
      [] c.name = "mapchange" -> c.at > 0
      [] c.name = "maploaded" -> c.at = MaxClients

\* The engine goes about its business, or a script does.
ScriptRuns == ~Idle => Waits(call)

Begin(name, at, left) ==
    /\ ScriptRuns
    /\ Len(calls) < MaxDepth
    /\ calls' = <<[name |-> name, at |-> at, left |-> left]>> \o calls

\* Slot s as the next connection takes it.
Taken(s) ==
    [slot EXCEPT ![s] =
        [connected |-> TRUE, uid |-> nextUid, light |-> nextUid \notin Old]]

\* A client, or a bot, takes a free slot.
Connect(s) ==
    /\ ScriptRuns
    /\ ~slot[s].connected
    /\ FirstFit => \A t \in 0 .. s - 1 : slot[t].connected
    /\ nextUid <= MaxUserId
    /\ slot' = Taken(s)
    /\ nextUid' = nextUid + 1
    /\ CallOnClientConnect(slot')
    /\ UNCHANGED <<calls, think>>

\* A client that has a slot connects again; no console command makes it.  The hook
\* looks its row up by the user id the engine reports, which may already be the new
\* one.
Reconnect(s) ==
    /\ Idle
    /\ slot[s].connected
    /\ nextUid <= MaxUserId
    /\ \E i \in {GetInternalIDFromNFID(u) : u \in {slot[s].uid, nextUid}} :
          /\ OnClientDisconnect(i)
          /\ Begin("reconnect", s, IF i = INVALID_USERID THEN 0 ELSE 1)
    /\ UNCHANGED <<slot, nextUid, think>>

\* The engine keeps the slot, gives it the new user id and connects it.
ReconnectResume ==
    /\ At("reconnect")
    /\ slot' = Taken(call.at)
    /\ nextUid' = nextUid + 1
    /\ CallOnClientConnect(slot')
    /\ Return
    /\ UNCHANGED think

\* Slip: the user id is read as the byte AddPlayerToTable reads.
CallOnClientDisconnectByte(s) ==
    /\ OnClientDisconnect(GetInternalIDFromNFID(slot[s].uid % ByteSize))
    /\ UNCHANGED <<slot, nextUid, think>>

\* callOnClientDisconnect: the client's user id leads to its row, or to nobody.
CallOnClientDisconnect(s) ==
    /\ OnClientDisconnect(GetInternalIDFromNFID(slot[s].uid))
    /\ UNCHANGED <<slot, nextUid, think>>

\* The engine drops a client and calls the hook; "again" when the game library is
\* told of it as well, whose hook does the same.
Drop(s, again) ==
    /\ slot[s].connected
    /\ Begin("drop", s, again)
    /\ CallOnClientDisconnect(s)

DropAgain ==
    /\ At("drop")
    /\ call.left = 1
    /\ CallOnClientDisconnect(call.at)
    /\ Advance([call EXCEPT !.left = 0])

\* The hooks have returned, and the slot is free.
DropDone ==
    /\ At("drop")
    /\ call.left = 0
    /\ slot' = [slot EXCEPT ![call.at].connected = FALSE]
    /\ Return
    /\ UNCHANGED <<nextUid, players, noLight, think, present>>

\* The map is about to change: disconnect every listed client.
ChangeMap ==
    /\ Begin("mapchange", 0, 0)
    /\ UNCHANGED <<slot, nextUid, players, noLight, think, present>>

Dumps(i) == slot[i].connected /\ IsClientOnTable(i)

\* The loop goes on to the next client it has to disconnect, or to its end.
OnServerChangeMap ==
    /\ At("mapchange")
    /\ call.at < MaxClients
    /\ \/ \E i \in call.at .. MaxClients - 1 :
             /\ Dumps(i)
             /\ \A j \in call.at .. i - 1 : ~Dumps(j)
             /\ OnClientDisconnect(i)
             /\ Advance([call EXCEPT !.at = i + 1])
       \/ /\ \A i \in call.at .. MaxClients - 1 : ~Dumps(i)
          /\ Advance([call EXCEPT !.at = MaxClients])
          /\ UNCHANGED <<players, noLight, present>>
    /\ UNCHANGED <<slot, nextUid, think>>

\* The map is loaded: list every connected client that is not listed.
LoadMap ==
    /\ Begin("maploaded", 0, 0)
    /\ UNCHANGED <<slot, nextUid, players, noLight, think, present>>

ProcessClientsOnMapLoad ==
    /\ At("maploaded")
    /\ call.at < MaxClients
    /\ IF ~IsClientOnTable(call.at) /\ slot[call.at].connected
       THEN AddPlayerToTable(slot, call.at)
       ELSE UNCHANGED <<players, noLight>>
    /\ Advance([call EXCEPT !.at = @ + 1])
    /\ UNCHANGED <<slot, nextUid, think, present>>

\* Every slot is visited; the script's own callback has returned.
LoopDone ==
    /\ At("mapchange") \/ At("maploaded")
    /\ call.at = MaxClients
    /\ Return
    /\ UNCHANGED <<slot, nextUid, players, noLight, think, present>>

-----------------------------------------------------------------------------
(* The frame and the scripts.                                              *)

\* Slip: no look at the table before the client is added.
UpdatePlayersAlways ==
    /\ Idle
    /\ IF slot[think].connected
       THEN AddPlayerToTable(slot, think)
       ELSE UNCHANGED <<players, noLight>>
    /\ think' = (think + 1) % MaxClients
    /\ UNCHANGED <<slot, nextUid, calls, present>>

\* Slip: a client that is not on the table is passed over.
UpdatePlayersListedOnly ==
    /\ Idle
    /\ think' = (think + 1) % MaxClients
    /\ UNCHANGED <<slot, nextUid, players, noLight, calls, present>>

\* One turn of CNetwork::UpdatePlayers; the last turn of a frame is followed
\* by the first of the next.
UpdatePlayers ==
    /\ Idle
    /\ IF slot[think].connected /\ ~IsClientOnTable(think)
       THEN AddPlayerToTable(slot, think)
       ELSE UNCHANGED <<players, noLight>>
    /\ think' = (think + 1) % MaxClients
    /\ UNCHANGED <<slot, nextUid, calls, present>>

\* The native KickClient tells the client to leave and forgets it; the engine
\* keeps its slot.
KickClient(i) ==
    /\ ScriptRuns
    /\ OnClientDisconnect(i)
    /\ UNCHANGED <<slot, nextUid, calls, think>>

CallStep ==
    \/ ReconnectResume
    \/ DropAgain
    \/ DropDone
    \/ OnServerChangeMap
    \/ ProcessClientsOnMapLoad
    \/ LoopDone

Step ==
    \/ \E s \in Slots : Connect(s) \/ Reconnect(s)
    \/ \E s \in Slots, again \in 0 .. 1 : Drop(s, again)
    \/ ChangeMap
    \/ LoadMap
    \/ CallStep
    \/ UpdatePlayers
    \/ \E i \in Slots : KickClient(i)

\* What the history remembers of a step.
Remember ==
    anew' = IF calls' = <<>>
            THEN {}
            ELSE (anew \cup (Listed' \ Listed)
                       \cup {s \in Slots : slot'[s].uid # slot[s].uid})
                 \ (Listed \ Listed')

Next == Step /\ Remember

Spec == Init /\ [][Next]_vars

\* A script's callback does return, whatever hooks it has caused, and its handler
\* goes on; the frame loop comes round again however often hooks get in between.
Fairness ==
    /\ \A n \in 1 .. MaxDepth : SF_steps(Len(calls) = n /\ CallStep)
    /\ SF_steps(UpdatePlayers)

FairSpec == Spec /\ Fairness

-----------------------------------------------------------------------------
(* Properties.                                                             *)

\* Every variable keeps its type; the counter of clients without dynamic
\* lights never goes below zero.
TypeOK ==
    /\ slot \in [Slots -> Slot]
    /\ nextUid \in Nat \ {0}
    /\ players \in Seq(Row)
    /\ noLight \in Nat
    /\ calls \in Seq(Call)
    /\ \A k \in DOMAIN calls :
          calls[k].name \in {"reconnect", "drop"} => calls[k].at \in Slots
    /\ think \in Slots
    /\ present \in SUBSET Slots
    /\ anew \in SUBSET Slots

\* No client id has two rows: the four places that add a row never race, the
\* erase loop and the counter may count on one row for each id.
UniqueIds ==
    \A j, k \in DOMAIN players : players[j].id = players[k].id => j = k

\* The ids of the listed clients without dynamic lights.
Lightless ==
    {players[k].id : k \in {j \in DOMAIN players : ~players[j].light}}

\* NumPlayersWithoutDynamicLightSupport is the number of listed clients that
\* do not support dynamic lights, whatever the order of the events: the light
\* effects are sent to all or one by one as it is zero or not.
LightCounterExact == noLight = Cardinality(Lightless)

\* The events that name a client by its Nightfire user id (spawn, equip,
\* death, drop) reach the slot that has this user id or no slot at all, never
\* another player.
UserIdsResolve ==
    \A s \in Slots :
        slot[s].uid # 0 =>
            GetInternalIDFromNFID(slot[s].uid) \in {s, INVALID_USERID}

\* While user ids fit in a byte, an id the gamemode has been told of, and not
\* told off again, has a row: OnClientConnect is never announced for a client
\* AddPlayerToTable refused.
PresentIsListed == nextUid <= ByteSize => present \subseteq Listed

\* A dropped client leaves no row that still answers to its user id, whatever runs
\* inside its drop - unless a hook in there lists it again: a script that is told
\* of the departure may load a map, which finds the client still connected.
DropForgetsUser ==
    [][\A s \in Slots \ anew :
        slot[s].connected /\ ~slot'[s].connected =>
            \A k \in DOMAIN players' : players'[k].uid # slot[s].uid]_vars

\* Each step of the table is a step of the roster, or none: clients come and
\* go one at a time, the counter moves with them and every departure is told.
RosterOf == INSTANCE Roster WITH
                Ids       <- Slots,
                listed    <- Listed,
                lightless <- Lightless,
                counter   <- noLight

ImplementsRoster == RosterOf!Spec

\* The row of a client was made for it, and not for an earlier client of the slot.
HasOwnRow(s) ==
    /\ slot[s].connected
    /\ \E k \in DOMAIN players : players[k].id = s /\ players[k].uid = slot[s].uid

\* What the rest of the mod may assume of the clients on the table: who is
\* announced, who is listed and by whose row, and who may leave.
PresenceOf == INSTANCE Presence WITH
                  connected <- {s \in Slots : slot[s].connected},
                  listed    <- Listed,
                  own       <- {s \in Slots : HasOwnRow(s)}

ImplementsPresence == PresenceOf!Spec

\* UpdatePlayers finds every client in the end: a connected client is listed
\* or leaves, as long as user ids fit in a byte.
EventuallyListed ==
    \A s \in Slots :
        (slot[s].connected /\ nextUid <= ByteSize) ~>
            (s \in Listed \/ ~slot[s].connected \/ nextUid > ByteSize)

\* "Dump all the clients from the table because the map was changed": when the
\* loop of OnServerChangeMap has ended, only clients are on the table that hooks
\* inside it have listed.
MapChangeDumpsTable ==
    At("mapchange") /\ call.at = MaxClients => Listed \subseteq anew

=============================================================================
