------------------------------- MODULE Presence -------------------------------
(***************************************************************************)
(* What the parts of the mod that keep something for each client may       *)
(* assume of the table of players: how the set of clients on it moves with *)
(* the engine's clients.                                                   *)
(*                                                                         *)
(* A row outlives its client, and a later client of the slot goes by it:   *)
(* "own" are the clients whose row was made for them.  A slot may be freed *)
(* with either kind of row left: a hook inside the client's drop can list  *)
(* it again.                                                               *)
(***************************************************************************)
EXTENDS Integers

CONSTANT MaxClients \* the engine's number of client slots

Slots == 0 .. MaxClients - 1

VARIABLES
    connected, \* the connected clients
    listed,    \* the ids on the table
    own        \* the connected clients that are listed by a row of their own

vars == <<connected, listed, own>>

Init ==
    /\ connected = {}
    /\ listed = {}
    /\ own = {}

\* Whoever the newcomer is, the lowest id that is not listed is announced, and
\* listed unless AddPlayerToTable takes it for a client that is.
Announce(there, owners) ==
    \/ listed' = listed /\ own' = owners
    \/ \E i \in Slots \ listed :
          /\ 0 .. i - 1 \subseteq listed
          /\ listed' = listed \cup {i}
          /\ own' = owners \cup ({i} \cap there)

\* A client takes a free slot, or the client of a slot has connected again: what
\* row there is for the slot is not its own.
Connect(s) ==
    /\ connected' = connected \cup {s}
    /\ Announce(connected', own \ {s})

\* A frame or a loaded map lists clients that are connected and not listed.
List(new) ==
    /\ listed' = listed \cup new
    /\ own' = own \cup new
    /\ UNCHANGED connected

\* A departure: a kick, a change of the map, a reconnection or a drop.
Leave(i) ==
    /\ i \in listed \cap connected
    /\ listed' = listed \ {i}
    /\ own' = own \ {i}
    /\ UNCHANGED connected

\* The slot is free.
Dropped(s) ==
    /\ s \in connected
    /\ connected' = connected \ {s}
    /\ own' = own \ {s}
    /\ UNCHANGED listed

Next ==
    \/ \E s \in Slots : Connect(s) \/ Leave(s) \/ Dropped(s)
    \/ \E new \in SUBSET (connected \ listed) : List(new)

Spec == Init /\ [][Next]_vars

===============================================================================
