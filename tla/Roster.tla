-------------------------------- MODULE Roster --------------------------------
(***************************************************************************)
(* What the table of players promises to the rest of the mod: a set of     *)
(* listed client ids, a counter of the listed clients that do not support  *)
(* dynamic lights, and the ids a gamemode has been told are present.       *)
(*                                                                         *)
(* Clients are admitted and dismissed one at a time, the counter moves     *)
(* with them, and nobody is dismissed behind the gamemode's back.          *)
(***************************************************************************)
EXTENDS Integers

CONSTANT Ids

VARIABLES
    listed,    \* the ids on the roster
    lightless, \* those of them that do not support dynamic lights
    counter,   \* how many they are
    present    \* the ids the gamemode takes for present

vars == <<listed, lightless, counter, present>>

Init ==
    /\ listed = {}
    /\ lightless = {}
    /\ counter = 0
    /\ present = {}

\* A client is listed, with or without an announcement.
Admit(i, light) ==
    /\ i \notin listed
    /\ listed' = listed \cup {i}
    /\ IF light
       THEN UNCHANGED <<lightless, counter>>
       ELSE lightless' = lightless \cup {i} /\ counter' = counter + 1
    /\ present' \in {present, present \cup {i}}

\* A client is announced that cannot be listed.
Refuse(i) ==
    /\ i \notin listed
    /\ present' = present \cup {i}
    /\ UNCHANGED <<listed, lightless, counter>>

\* A client leaves the roster and the gamemode is told.
Dismiss(i) ==
    /\ i \in listed
    /\ listed' = listed \ {i}
    /\ lightless' = lightless \ {i}
    /\ counter' = counter - (IF i \in lightless THEN 1 ELSE 0)
    /\ present' = present \ {i}

Next ==
    \E i \in Ids :
        \/ \E light \in BOOLEAN : Admit(i, light)
        \/ Refuse(i)
        \/ Dismiss(i)

Spec == Init /\ [][Next]_vars

=============================================================================
