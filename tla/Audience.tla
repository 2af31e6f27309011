-------------------------------- MODULE Audience --------------------------------
(***************************************************************************)
(* What the table of plugins promises, without slots, names and files: a   *)
(* set of members that are told of events one after the other.             *)
(*                                                                         *)
(* Members come and go at any time, also while an event is handed round.   *)
(* An event is over when everybody who was there from its beginning to its *)
(* end has been told, and nobody is told of it twice.  When everybody has  *)
(* been sent away, nobody of those who were there is left.                 *)
(***************************************************************************)
EXTENDS Integers, Sequences

CONSTANT Ids \* those who may ever become members

VARIABLES
    members, \* who is there
    ops,     \* the operations in progress, innermost first
    alive    \* FALSE once the process has crashed

vars == <<members, ops, alive>>

\* An operation: whom it is calling, who was there when it began, and whom it
\* has called.
Op(kind, id, due, got) == [kind |-> kind, id |-> id, due |-> due, got |-> got]

Init == members = {} /\ ops = <<>> /\ alive = TRUE

-----------------------------------------------------------------------------
\* A new member comes; it may have to be told of it first.
Join(id) ==
    /\ id \notin members
    /\ members' = members \cup {id}
    /\ ops' \in {ops, <<Op("load", id, {}, {})>> \o ops}

\* An operation begins with a call of a member.
Begin(kind, id) ==
    /\ id \in members
    /\ ops' = <<Op(kind, id, IF kind = "unload" THEN {} ELSE members, {id})>> \o ops
    /\ UNCHANGED members

\* The innermost operation goes on to a member it has not called.  Whom it has
\* called is gone if it sends everybody away, and stays if it is an event.
GoOn(id) ==
    /\ ops # <<>>
    /\ Head(ops).kind \in {"event", "unloadall"}
    /\ members' = IF Head(ops).kind = "event" THEN members ELSE members \ {Head(ops).id}
    /\ id \in members' \ Head(ops).got
    /\ ops' = <<Op(Head(ops).kind, id, Head(ops).due, Head(ops).got \cup {id})>>
                 \o Tail(ops)

\* The innermost operation is over.
Finish ==
    /\ ops # <<>>
    /\ LET top == Head(ops)
       IN  /\ members' = IF top.kind \in {"unload", "unloadall"}
                         THEN members \ {top.id}
                         ELSE members
           /\ top.kind = "event" => top.due \cap members \subseteq top.got
           /\ top.kind = "unloadall" => top.due \cap members' = {}
    /\ ops' = Tail(ops)

\* A member's code is gone, or never was: whom an operation has sent away
\* before it calls such a member is gone too.
Crash ==
    /\ alive' = FALSE
    /\ \/ UNCHANGED members
       \/ ops # <<>> /\ members' = members \ {Head(ops).id}
    /\ UNCHANGED ops

Next ==
    /\ alive
    /\ \/ /\ \/ \E id \in Ids : Join(id) \/ GoOn(id)
             \/ \E kind \in {"event", "unload", "unloadall"}, id \in members : Begin(kind, id)
             \/ Finish
          /\ UNCHANGED alive
       \/ Crash

Spec == Init /\ [][Next]_vars

=============================================================================
