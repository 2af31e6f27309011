------------------------------ MODULE PlayerEvents ------------------------------
(***************************************************************************)
(* The events that happen to players - a spawn, an equipment, a death, a   *)
(* command in the chat - and the dynamic lights, on top of the table of    *)
(* players.  An event names its clients by the engine's user ids; scripts  *)
(* are told the ids of their rows.                                         *)
(*                                                                         *)
(* The gamemode is told before the plugins, and each looks the user ids up *)
(* for itself.  In between the gamemode's script runs: it may kick, and    *)
(* its console commands may make the engine call any hook of the table.    *)
(* An event may itself happen inside another hook, and counts as one       *)
(* against MaxDepth.                                                       *)
(***************************************************************************)
EXTENDS ClientTable

VARIABLE
    event \* the client of the event that the gamemode knows of and the plugins
          \* do not: the user id, what the gamemode was given for it, and how many
          \* hooks were at work

allvars == <<vars, event>>

NoEvent == [uid |-> INVALID_USERID, told |-> INVALID_USERID, depth |-> 0]

EventsInit == Init /\ event = NoEvent

-----------------------------------------------------------------------------
(* An event, from the hook to the plugins.                                 *)

\* OnClientSpawn, OnClientEquip and OnClientDeath of the gamemode look the user
\* id of a connected client up and run the script.  (A death has two user ids,
\* each looked up like this.)
TellGamemode(s) ==
    /\ ScriptRuns
    /\ Len(calls) < MaxDepth
    /\ event = NoEvent
    /\ slot[s].connected
    /\ event' = [uid   |-> slot[s].uid,
                 told  |-> GetInternalIDFromNFID(slot[s].uid),
                 depth |-> Len(calls)]
    /\ UNCHANGED vars

\* What the same functions of the plugins look up.
ToldPlugins == GetInternalIDFromNFID(event.uid)

\* The gamemode's script has returned.
TellPlugins ==
    /\ event # NoEvent
    /\ Len(calls) = event.depth
    /\ event' = NoEvent
    /\ UNCHANGED vars

\* The hooks and kicks that go on meanwhile; frames do not, nor does what the
\* event happened inside of.
TableStep ==
    /\ Next
    /\ event # NoEvent =>
          /\ ~UpdatePlayers
          /\ CallStep => Len(calls) > event.depth
          /\ Len(calls') < MaxDepth
    /\ UNCHANGED event

EventsNext ==
    \/ \E s \in Slots : TellGamemode(s)
    \/ TellPlugins
    \/ TableStep

EventsSpec == EventsInit /\ [][EventsNext]_allvars /\ Fairness

-----------------------------------------------------------------------------
(* Dynamic lights.                                                         *)

\* Who is sent a light that is meant for everybody: all clients when every
\* listed one supports lights, else those that the table says support them.
UTIL_Create_TE_DLIGHT ==
    {s \in Slots : slot[s].connected /\ (noLight = 0 \/ SupportsDynamicLights(s))}

-----------------------------------------------------------------------------
(* Properties.                                                             *)

\* The gamemode and the plugins are never told of two different players by the
\* same event: whatever the gamemode's script did in between, the plugins are
\* given the same id or none.  (They are given an id where the gamemode was
\* given none when the client has got a row in between.)
SameClientTold ==
    [][TellPlugins =>
        \/ ToldPlugins = event.told
        \/ INVALID_USERID \in {ToldPlugins, event.told}]_allvars

\* "ignoring those who don't so they don't crash": a light is sent to a client
\* that does not support lights only while the client has no row of its own.
\* (Then it is sent to it when everybody listed supports lights, or when the
\* row of a client that had its slot before does.)
LightsSpareOldClients ==
    \A s \in UTIL_Create_TE_DLIGHT :
        ~slot[s].light =>
            \A k \in DOMAIN players :
                players[k].id = s => players[k].uid # slot[s].uid

=============================================================================
