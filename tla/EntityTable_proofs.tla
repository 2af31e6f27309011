--------------------------- MODULE EntityTable_proofs ---------------------------
(***************************************************************************)
(* Theorems about the table of entities, for every number of slots, every  *)
(* set of edicts and every number of maps.                                 *)
(***************************************************************************)
EXTENDS EntityTable, SequenceFacts, FiniteSetTheorems

\* A sequence of rows with no owner twice.
OwnersApart(rows) ==
    \A j, k \in DOMAIN rows : rows[j].owner = rows[k].owner => j = k

-----------------------------------------------------------------------------
(* What the operations on the vector leave.                                *)

\* The rows a client owns are those at the positions that name it.
LEMMA OwnedByPosition ==
    ASSUME NEW i
    PROVE  Owned(i) = {entities[k] : k \in {j \in DOMAIN entities : entities[j].owner = i}}
BY DEF Owned, Range

\* Erasing one row takes it from the rows and leaves owners apart.
LEMMA EraseOne ==
    ASSUME entities \in Seq(Row), OwnersApart(entities), NEW k \in DOMAIN entities
    PROVE  /\ RemoveAt(entities, k) \in Seq(Row)
           /\ OwnersApart(RemoveAt(entities, k))
           /\ Range(RemoveAt(entities, k)) = Range(entities) \ {entities[k]}
<1> DEFINE u == RemoveAt(entities, k)
<1>1. /\ u \in Seq(Row)
      /\ Range(u) = {entities[j] : j \in DOMAIN entities \ {k}}
      /\ \A i, j \in DOMAIN u :
            i # j => \E m, n \in DOMAIN entities \ {k} :
                        m # n /\ u[i] = entities[m] /\ u[j] = entities[n]
  BY RemoveAtKeeps
<1> HIDE DEF u
<1>2. OwnersApart(u)
  BY <1>1 DEF OwnersApart
<1>3. Range(u) = Range(entities) \ {entities[k]}
  <2>1. \A j \in DOMAIN entities \ {k} : entities[j] # entities[k]
    BY DEF OwnersApart
  <2>2. Range(entities) = {entities[j] : j \in DOMAIN entities}
    BY DEF Range
  <2>3. {entities[j] : j \in DOMAIN entities \ {k}} =
            {entities[j] : j \in DOMAIN entities} \ {entities[k]}
    BY <2>1
  <2> QED
    BY <1>1, <2>2, <2>3
<1> QED
  BY <1>1, <1>2, <1>3 DEF u

\* Erasing the rows of a client leaves those of the others.
LEMMA OthersStay ==
    ASSUME entities \in Seq(Row), OwnersApart(entities), NEW i
    PROVE  /\ Others(i) \in Seq(Row)
           /\ OwnersApart(Others(i))
           /\ Range(Others(i)) = Range(entities) \ Owned(i)
<1> DEFINE mine == {k \in DOMAIN entities : entities[k].owner = i}
<1>1. Owned(i) = {entities[k] : k \in mine}
  BY OwnedByPosition
<1>2. CASE mine = {}
  BY <1>1, <1>2 DEF Others
<1>3. CASE mine # {}
  <2>1. PICK k \in mine : TRUE
    BY <1>3
  <2>2. mine = {k}
    BY <2>1 DEF OwnersApart
  <2>3. Others(i) = RemoveAt(entities, k)
    BY <1>3, <2>2 DEF Others
  <2>4. Owned(i) = {entities[k]}
    BY <1>1, <2>2
  <2> QED
    BY <2>1, <2>3, <2>4, EraseOne
<1> QED
  BY <1>2, <1>3

\* A row is put behind those of the other clients.
LEMMA AddBehindOthers ==
    ASSUME entities \in Seq(Row), OwnersApart(entities),
           NEW e \in Edicts, NEW p \in Slots
    PROVE  LET u == AddEntityToTable(Others(p), e, p)
           IN  /\ u \in Seq(Row)
               /\ OwnersApart(u)
               /\ Range(u) = (Range(entities) \ Owned(p)) \cup {[edict |-> e, owner |-> p]}
<1> DEFINE r == [edict |-> e, owner |-> p]
           t == Others(p)
           u == Append(t, r)
<1>1. r \in Row /\ r.owner = p
  BY DEF Row
<1>2. t \in Seq(Row) /\ OwnersApart(t) /\ Range(t) = Range(entities) \ Owned(p)
  BY OthersStay
<1>3. \A k \in DOMAIN t : t[k].owner # p
  BY <1>2 DEF Range, Owned
<1> HIDE DEF r, t
<1>4. /\ u \in Seq(Row)
      /\ DOMAIN u = DOMAIN t \cup {Len(t) + 1}
      /\ u[Len(t) + 1] = r
      /\ \A j \in DOMAIN t : u[j] = t[j]
      /\ Range(u) = Range(t) \cup {r}
  BY <1>1, <1>2, AppendKeeps
<1> HIDE DEF u
<1>5. OwnersApart(u)
  BY <1>1, <1>2, <1>3, <1>4 DEF OwnersApart
<1> QED
  BY <1>2, <1>4, <1>5 DEF AddEntityToTable, r, t, u

\* A client owns no camera if the count is zero, and one at most.
LEMMA CountOwned ==
    ASSUME entities \in Seq(Row), NEW i
    PROVE  /\ CountEntitiesByOwner(i) = 0 => Owned(i) = {}
           /\ OwnersApart(entities) => CountEntitiesByOwner(i) <= 1
<1> DEFINE mine == {k \in DOMAIN entities : entities[k].owner = i}
<1>1. DOMAIN entities = 1 .. Len(entities) /\ Len(entities) \in Nat
  OBVIOUS
<1>2. IsFiniteSet(DOMAIN entities)
  BY <1>1, FS_Interval
<1>3. IsFiniteSet(mine)
  BY <1>2, FS_Subset
<1>4. CountEntitiesByOwner(i) = Cardinality(mine)
  BY DEF CountEntitiesByOwner
<1>5. Owned(i) = {entities[k] : k \in mine}
  BY OwnedByPosition
<1> HIDE DEF mine
<1>6. Cardinality(mine) = 0 => Owned(i) = {}
  BY <1>3, <1>5, FS_EmptySet
<1>7. ASSUME OwnersApart(entities) PROVE Cardinality(mine) <= 1
  <2>1. CASE mine = {}
    BY <2>1, FS_EmptySet
  <2>2. CASE mine # {}
    <3>1. PICK k : mine = {k}
      BY <1>7, <2>2 DEF OwnersApart, mine
    <3>2. Cardinality({k}) = 1
      BY FS_Singleton
    <3> QED
      BY <3>1, <3>2
  <2> QED
    BY <2>1, <2>2
<1> QED
  BY <1>4, <1>6, <1>7

-----------------------------------------------------------------------------
(* The invariant.                                                          *)

Typed ==
    /\ connected \subseteq Slots
    /\ listed \subseteq Slots
    /\ own \subseteq listed \cap connected
    /\ world \in [Edicts -> Slots \cup {Free, Native}]
    /\ entities \in Seq(Row)
    /\ maps \in 0 .. MaxMaps
    /\ running \in BOOLEAN
    /\ clean \in BOOLEAN
    /\ tame \in BOOLEAN

\* Cameras and rows.
TableOK == OwnersApart(entities) /\ CamerasHaveRows /\ RowsAreCameras

FrameTyped(c) ==
    /\ c \in Call
    /\ c.name # "erasing" => c.at \in 0 .. MaxClients
    /\ c.name \in {"leaving", "reconnect", "drop", "dropped"} => c.at \in Slots

MapNames == {"mapchange", "erasing", "loading"}

\* What begins outside the other handlers only: a reconnection, and with tame scripts
\* a change of the map.
Outermost == IF tame THEN {"reconnect"} \cup MapNames ELSE {"reconnect"}

\* Nothing runs inside the loop that erases the table.
Shape(s, outermost) ==
    /\ s \in Seq(Call)
    /\ \A c \in Range(s) : FrameTyped(c)
    /\ \A k \in DOMAIN s : s[k].name \in outermost => k = Len(s)
    /\ \A k \in DOMAIN s : s[k].name = "erasing" => k = 1

StackOK == Shape(calls, Outermost)

\* No loop erases the table.
Quiet == \A c \in Range(calls) : c.name # "erasing"

\* Who is both on the table of players and connected, and whose departure is under
\* way.
Present == listed \cap connected

Leavers(s) == {c.at : c \in {d \in Range(s) : d.name = "leaving"}}

\* What a change of the map has done so far: the slots the departures have passed are
\* empty, and in the end all of them and the table of entities are.
Fits(c) ==
    /\ c.name = "mapchange" => \A i \in Slots : i < c.at => i \notin Present
    /\ c.name \in {"erasing", "loading"} => Present = {} /\ entities = <<>>
    /\ c.name = "erasing" => c.at = 1

\* Why tame scripts do no harm: a row's owner is on the table of players, or its
\* departure is under way and will remove the row.
TameOK ==
    tame =>
        /\ clean /\ running
        /\ \A r \in Range(entities) : r.owner \in Leavers(calls) \cup Present
        /\ \A c \in Range(calls) : Fits(c)

IInv == Typed /\ TableOK /\ StackOK /\ TameOK

-----------------------------------------------------------------------------
(* What the operations keep of the invariant.                              *)

\* The rows of the vector are rows: an edict and the slot that owns it.
LEMMA RowsTyped ==
    ASSUME entities \in Seq(Row)
    PROVE  \A r \in Range(entities) : r \in Row /\ r.edict \in Edicts /\ r.owner \in Slots
<1>1. \A k \in DOMAIN entities : entities[k] \in Row
  OBVIOUS
<1> QED
  BY <1>1 DEF Range, Row

\* A step that leaves the vector and the cameras alone keeps what holds of them.
LEMMA SameTable ==
    ASSUME TableOK, UNCHANGED <<world, entities>>, clean' => clean
    PROVE  TableOK'
BY DEF TableOK, CamerasHaveRows, RowsAreCameras

\* Rows of a set go together with what lives in their edicts.
LEMMA RemovalKeepsTable ==
    ASSUME Typed, TableOK, NEW gone \in SUBSET Range(entities),
           OwnersApart(entities'),
           Range(entities') = Range(entities) \ gone,
           world' = Without(gone),
           clean' = clean
    PROVE  TableOK' /\ world' \in [Edicts -> Slots \cup {Free, Native}]
<1>1. /\ world' \in [Edicts -> Slots \cup {Free, Native}]
      /\ \A e \in Edicts : \/ world'[e] = world[e] /\ \A r \in gone : r.edict # e
                         \/ world'[e] = Free
  BY DEF Typed, Without
<1>2. Free \notin Slots
  BY EntityTableAssumption
<1>3. CamerasHaveRows'
  BY <1>1, <1>2 DEF TableOK, CamerasHaveRows
<1>4. RowsAreCameras'
  <2> SUFFICES ASSUME clean, NEW r \in Range(entities), r \notin gone
               PROVE  world'[r.edict] = r.owner
    BY DEF RowsAreCameras
  <2>1. world[r.edict] = r.owner /\ r.edict \in Edicts
    BY RowsTyped DEF TableOK, RowsAreCameras, Typed
  <2>2. ASSUME NEW q \in gone, q.edict = r.edict PROVE FALSE
    <3>1. world[q.edict] = q.owner
      BY DEF TableOK, RowsAreCameras
    <3>2. q.owner = r.owner
      BY <2>1, <2>2, <3>1
    <3>3. \A a, b \in Range(entities) : a.owner = b.owner => a = b
      BY DEF TableOK, OwnersApart, Range
    <3> QED
      BY <3>2, <3>3
  <2> QED
    BY <2>1, <2>2 DEF Without
<1> QED
  BY <1>1, <1>3, <1>4 DEF TableOK

\* The rows of one client go together with its camera.
LEMMA OwnedRemovalKeepsTable ==
    ASSUME Typed, TableOK, NEW i, RemoveEntitiesByOwner(i), clean' = clean
    PROVE  /\ TableOK' /\ world' \in [Edicts -> Slots \cup {Free, Native}]
           /\ entities' \in Seq(Row)
           /\ Range(entities') = Range(entities) \ Owned(i)
<1>1. /\ entities' \in Seq(Row) /\ OwnersApart(entities')
      /\ Range(entities') = Range(entities) \ Owned(i)
      /\ world' = Without(Owned(i))
  BY OthersStay DEF Typed, TableOK, RemoveEntitiesByOwner
<1>2. Owned(i) \in SUBSET Range(entities)
  BY DEF Owned
<1> QED
  BY <1>1, <1>2, RemovalKeepsTable

\* SpectatePlayer replaces the camera of its client by a new one.
LEMMA SpectateKeepsTable ==
    ASSUME Typed, TableOK, NEW p \in Slots, NEW target, SpectatePlayer(p, target)
    PROVE  /\ TableOK' /\ world' \in [Edicts -> Slots \cup {Free, Native}]
           /\ entities' \in Seq(Row)
           /\ \A r \in Range(entities') : r \in Range(entities) \/ r.owner = p
<1>1. clean' = clean
  BY DEF SpectatePlayer
<1>2. CASE RemoveEntitiesByOwner(p)
  BY <1>1, <1>2, OwnedRemovalKeepsTable
<1>3. ASSUME NEW e \in Edicts, world[e] = Free,
             entities' = AddEntityToTable(Others(p), e, p),
             world' = [Without(Owned(p)) EXCEPT ![e] = p]
      PROVE  /\ TableOK' /\ world' \in [Edicts -> Slots \cup {Free, Native}]
             /\ entities' \in Seq(Row)
             /\ \A r \in Range(entities') : r \in Range(entities) \/ r.owner = p
  <2> DEFINE new == [edict |-> e, owner |-> p]
  <2>1. /\ entities' \in Seq(Row) /\ OwnersApart(entities')
        /\ Range(entities') = (Range(entities) \ Owned(p)) \cup {new}
    BY <1>3, AddBehindOthers DEF Typed, TableOK
  <2>2. /\ world' \in [Edicts -> Slots \cup {Free, Native}]
        /\ world'[e] = p
        /\ \A d \in Edicts \ {e} :
              \/ world'[d] = world[d] /\ \A r \in Owned(p) : r.edict # d
              \/ world'[d] = Free
        /\ \A d \in Edicts \ {e} :
              (\A r \in Owned(p) : r.edict # d) => world'[d] = world[d]
    BY <1>3 DEF Typed, Without
  <2>3. Free \notin Slots
    BY EntityTableAssumption
  <2>4. CamerasHaveRows'
    <3> SUFFICES ASSUME NEW d \in Edicts, world'[d] \in Slots
                 PROVE  [edict |-> d, owner |-> world'[d]] \in Range(entities')
      BY DEF CamerasHaveRows
    <3>1. CASE d = e
      BY <2>1, <2>2, <3>1
    <3>2. CASE d # e
      <4>1. world'[d] = world[d] /\ \A r \in Owned(p) : r.edict # d
        BY <2>2, <2>3, <3>2
      <4>2. [edict |-> d, owner |-> world[d]] \in Range(entities) \ Owned(p)
        BY <4>1 DEF TableOK, CamerasHaveRows
      <4> QED
        BY <2>1, <4>1, <4>2
    <3> QED
      BY <3>1, <3>2
  <2>5. RowsAreCameras'
    <3> SUFFICES ASSUME clean, NEW r \in Range(entities')
                 PROVE  world'[r.edict] = r.owner
      BY <1>1 DEF RowsAreCameras
    <3>1. CASE r = new
      BY <2>2, <3>1
    <3>2. CASE r \in Range(entities) \ Owned(p)
      <4>1. world[r.edict] = r.owner /\ r.edict \in Edicts /\ r.owner \in Slots
        BY <3>2, RowsTyped DEF TableOK, RowsAreCameras, Typed
      <4>2. r.edict # e
        BY <1>3, <2>3, <4>1
      <4>3. \A q \in Owned(p) : q.edict # r.edict
        BY <3>2, <4>1 DEF TableOK, RowsAreCameras, Owned
      <4> QED
        BY <2>2, <4>1, <4>2, <4>3
    <3> QED
      BY <2>1, <3>1, <3>2
  <2>6. \A r \in Range(entities') : r \in Range(entities) \/ r.owner = p
    BY <2>1
  <2> QED
    BY <2>1, <2>2, <2>4, <2>5, <2>6 DEF TableOK
<1> QED
  BY <1>2, <1>3 DEF SpectatePlayer
-----------------------------------------------------------------------------
(* What the operations keep of the stack of handlers.                      *)

\* The parts of a stack: nothing below the innermost handler erases, and below one
\* that began outside the others there is nothing.
LEMMA PopShape ==
    ASSUME NEW names, NEW t, Shape(t, names), t # <<>>
    PROVE  /\ Shape(Tail(t), names)
           /\ \A c \in Range(Tail(t)) : c.name # "erasing"
           /\ Range(t) = {Head(t)} \cup Range(Tail(t))
           /\ FrameTyped(Head(t))
           /\ Head(t).name \in names => Range(Tail(t)) = {}
<1> DEFINE v == Tail(t)
           n == Len(v)
<1>1. /\ v \in Seq(Call) /\ 1 \in DOMAIN t /\ Head(t) = t[1]
      /\ \A j \in DOMAIN v : j + 1 \in DOMAIN t /\ v[j] = t[j + 1]
  BY PopShifts DEF Shape
<1>2. Range(t) = {Head(t)} \cup Range(v)
  BY PopKeeps DEF Shape
<1>3. n \in Nat /\ DOMAIN v = 1 .. n /\ Len(t) = n + 1
  BY DEF Shape
<1> HIDE DEF v, n
<1>4. \A j \in DOMAIN v : v[j].name \in names => j = n
  BY <1>1, <1>3 DEF Shape
<1>5. \A j \in DOMAIN v : v[j].name # "erasing"
  BY <1>1, <1>3 DEF Shape
<1>6. Shape(v, names)
  BY <1>1, <1>2, <1>4, <1>5 DEF Shape, v, n
<1>7. \A c \in Range(v) : c.name # "erasing"
  BY <1>5 DEF Range
<1>8. FrameTyped(Head(t))
  BY <1>2 DEF Shape
<1>9. ASSUME Head(t).name \in names PROVE Range(v) = {}
  <2>1. Len(t) = 1
    BY <1>1, <1>9 DEF Shape
  <2>2. DOMAIN v = {}
    BY <1>3, <2>1
  <2> QED
    BY <2>2 DEF Range
<1> QED
  BY <1>2, <1>6, <1>7, <1>8, <1>9 DEF v

\* Only an empty stack has no handlers.
LEMMA NoHandlers ==
    ASSUME NEW t \in Seq(Call)
    PROVE  Range(t) = {} <=> t = <<>>
<1>1. Range(<<>>) = {}
  BY DEF Range
<1>2. ASSUME t # <<>> PROVE Head(t) \in Range(t)
  BY <1>2, PopKeeps
<1> QED
  BY <1>1, <1>2

\* A handler put on a stack whose handlers can be interrupted.
LEMMA PushShape ==
    ASSUME NEW names, NEW t, Shape(t, names), \A d \in Range(t) : d.name # "erasing",
           NEW c, FrameTyped(c), c.name \in names => Range(t) = {}
    PROVE  /\ Shape(<<c>> \o t, names)
           /\ Range(<<c>> \o t) = {c} \cup Range(t)
           /\ <<c>> \o t # <<>> /\ Head(<<c>> \o t) = c
<1> DEFINE u == <<c>> \o t
           n == Len(t)
<1>1. t \in Seq(Call) /\ c \in Call /\ n \in Nat /\ DOMAIN t = 1 .. n
  BY DEF Shape, FrameTyped
<1>2. /\ u \in Seq(Call) /\ 1 \in DOMAIN u /\ u[1] = c
      /\ \A j \in DOMAIN u : j = 1 \/ (j - 1 \in DOMAIN t /\ u[j] = t[j - 1])
  BY <1>1, PushShifts
<1>3. Len(u) = 1 + n
  BY <1>1, PushLength
<1>4. Range(u) = {c} \cup Range(t)
  BY <1>1, PushKeeps
<1>5. c.name \in names => n = 0
  BY <1>1, NoHandlers
<1> HIDE DEF u, n
<1>6. DOMAIN u = 1 .. 1 + n
  BY <1>2, <1>3
<1>7. ASSUME NEW j \in DOMAIN u, u[j].name \in names PROVE j = Len(u)
  <2>1. CASE j = 1
    BY <1>2, <1>3, <1>5, <1>7, <2>1
  <2>2. CASE j - 1 \in DOMAIN t /\ u[j] = t[j - 1]
    <3>1. j - 1 = n
      BY <1>7, <2>2 DEF Shape, n
    <3> QED
      BY <1>1, <1>3, <1>6, <3>1
  <2> QED
    BY <1>2, <2>1, <2>2
<1>8. ASSUME NEW j \in DOMAIN u, u[j].name = "erasing" PROVE j = 1
  <2>1. ASSUME j - 1 \in DOMAIN t, u[j] = t[j - 1] PROVE FALSE
    BY <1>8, <2>1 DEF Range
  <2> QED
    BY <1>2, <2>1
<1>9. Shape(u, names)
  BY <1>2, <1>4, <1>7, <1>8 DEF Shape
<1>10. u # <<>> /\ Head(u) = c
  BY <1>2, <1>3, <1>1
<1> QED
  BY <1>4, <1>9, <1>10 DEF u

\* What may run inside every handler may run inside fewer.
LEMMA ShapeOfFewer ==
    ASSUME NEW names, NEW fewer \in SUBSET names, NEW t, Shape(t, names)
    PROVE  Shape(t, fewer)
BY DEF Shape

\* Where a script has control, nothing is being erased.
LEMMA ScriptsOutsideLoop ==
    ASSUME NEW names, Shape(calls, names), ScriptRuns
    PROVE  running /\ \A c \in Range(calls) : c.name # "erasing"
<1>1. CASE calls = <<>>
  <2>1. Range(calls) = {}
    BY <1>1 DEF Range
  <2> QED
    BY <2>1 DEF ScriptRuns
<1>2. CASE calls # <<>>
  <2>1. running /\ Head(calls).name # "erasing"
    BY <1>2 DEF ScriptRuns, Waits, call
  <2>2. /\ Range(calls) = {Head(calls)} \cup Range(Tail(calls))
        /\ \A c \in Range(Tail(calls)) : c.name # "erasing"
    BY <1>2, PopShape
  <2> QED
    BY <2>1, <2>2
<1> QED
  BY <1>1, <1>2

\* The handler at work and those it runs inside of.
LEMMA AtParts ==
    ASSUME StackOK, NEW name, At(name)
    PROVE  /\ running /\ calls # <<>> /\ call.name = name
           /\ Shape(Tail(calls), Outermost)
           /\ \A c \in Range(Tail(calls)) : c.name # "erasing"
           /\ Range(calls) = {call} \cup Range(Tail(calls))
           /\ FrameTyped(call)
           /\ name \in Outermost => Range(Tail(calls)) = {}
           /\ name = "leaving" => Leavers(calls) = {call.at} \cup Leavers(Tail(calls))
           /\ name # "leaving" => Leavers(calls) = Leavers(Tail(calls))
<1>1. calls # <<>> /\ call.name = name /\ running
  BY DEF At
<1>2. /\ Shape(Tail(calls), Outermost)
      /\ \A c \in Range(Tail(calls)) : c.name # "erasing"
      /\ Range(calls) = {call} \cup Range(Tail(calls))
      /\ FrameTyped(call)
      /\ call.name \in Outermost => Range(Tail(calls)) = {}
  BY <1>1, PopShape DEF StackOK, call
<1>3. /\ name = "leaving" => Leavers(calls) = {call.at} \cup Leavers(Tail(calls))
      /\ name # "leaving" => Leavers(calls) = Leavers(Tail(calls))
  BY <1>1, <1>2 DEF Leavers
<1> QED
  BY <1>1, <1>2, <1>3

\* A frame of the right kind.
LEMMA FrameParts ==
    ASSUME NEW name \in {"leaving", "reconnect", "drop", "dropped", "mapchange",
                         "erasing", "loading"},
           NEW at \in Nat
    PROVE  /\ Frame(name, at) \in Call
           /\ Frame(name, at).name = name /\ Frame(name, at).at = at
BY DEF Frame, Call

\* A departure takes the client off the table and is under way, or nothing happens
\* because the client is not both on the table and connected.
LEMMA DepartureMoves ==
    ASSUME Typed, NEW i, NEW below, Shape(below, Outermost),
           \A c \in Range(below) : c.name # "erasing",
           OnClientDisconnect(i, below), UNCHANGED connected
    PROVE  /\ listed' \subseteq listed /\ i \notin Present'
           /\ Present' \subseteq Present
           /\ Shape(calls', Outermost)
           /\ \A c \in Range(calls') : c \in Range(below) \/ c.name = "leaving"
           /\ Leavers(below) \cup Present \subseteq Leavers(calls') \cup Present'
           /\ own' = own \ {i} /\ own' \subseteq Present'
<1>1. CASE i \in listed \cap connected
  <2> DEFINE c == Frame("leaving", i)
  <2>1. listed' = listed \ {i} /\ own' = own \ {i} /\ calls' = <<c>> \o below /\ i \in Slots
    BY <1>1 DEF OnClientDisconnect, Typed
  <2>2. i \in Nat /\ i \in 0 .. MaxClients
    BY <2>1, EntityTableAssumption DEF Slots
  <2>3. c \in Call /\ c.name = "leaving" /\ c.at = i
    BY <2>2, FrameParts
  <2> HIDE DEF c
  <2>4. FrameTyped(c) /\ c.name \notin Outermost
    BY <2>1, <2>2, <2>3 DEF FrameTyped, Outermost, MapNames
  <2>5. Shape(calls', Outermost) /\ Range(calls') = {c} \cup Range(below)
    BY <2>1, <2>4, PushShape
  <2>6. Leavers(calls') = {i} \cup Leavers(below)
    BY <2>3, <2>5 DEF Leavers
  <2>7. Present' = Present \ {i}
    BY <2>1 DEF Present
  <2> QED
    BY <1>1, <2>1, <2>3, <2>5, <2>6, <2>7 DEF Typed, Present
<1>2. CASE i \notin listed \cap connected
  BY <1>2 DEF OnClientDisconnect, Typed, Present
<1> QED
  BY <1>1, <1>2

\* A departure of whatever cause keeps the invariant, if what is left to be done
\* after it fits.
LEMMA DepartureKeeps ==
    ASSUME IInv, NEW i, NEW below, Shape(below, Outermost),
           \A c \in Range(below) : c.name # "erasing",
           OnClientDisconnect(i, below),
           UNCHANGED <<connected, world, entities, maps, running, history>>,
           Leavers(calls) \subseteq Leavers(below),
           tame =>
              \A c \in Range(below) :
                  \/ Fits(c)
                  \/ /\ c.name = "mapchange"
                     /\ \A j \in Slots : j < c.at => j = i \/ j \notin Present
    PROVE  IInv' /\ Quiet'
<1>1. /\ listed' \subseteq listed /\ i \notin Present'
      /\ Present' \subseteq Present
      /\ Shape(calls', Outermost)
      /\ \A c \in Range(calls') : c \in Range(below) \/ c.name = "leaving"
      /\ Leavers(below) \cup Present \subseteq Leavers(calls') \cup Present'
      /\ own' = own \ {i} /\ own' \subseteq Present'
  BY DepartureMoves DEF IInv
<1>2. UNCHANGED <<connected, world, entities, maps, running, clean, tame>>
  BY DEF history
<1>3. Typed'
  BY <1>1, <1>2 DEF IInv, Typed, Present
<1>4. TableOK'
  BY <1>2, SameTable DEF IInv
<1>5. Outermost' = Outermost
  BY <1>2 DEF Outermost
<1>6. StackOK'
  BY <1>1, <1>5 DEF StackOK
<1>7. ASSUME tame, NEW c \in Range(calls') PROVE Fits(c)'
  <2>1. CASE c.name = "leaving"
    BY <2>1 DEF Fits
  <2>2. CASE c \in Range(below) /\ Fits(c)
    BY <1>1, <1>2, <2>2 DEF Fits
  <2>3. CASE /\ c.name = "mapchange"
             /\ \A j \in Slots : j < c.at => j = i \/ j \notin Present
    BY <1>1, <2>3 DEF Fits
  <2> QED
    BY <1>1, <1>7, <2>1, <2>2, <2>3
<1>8. TameOK'
  BY <1>1, <1>2, <1>7 DEF IInv, TameOK
<1>9. Quiet'
  BY <1>1 DEF Quiet
<1> QED
  BY <1>3, <1>4, <1>6, <1>8, <1>9 DEF IInv

-----------------------------------------------------------------------------
(* Every step keeps the invariant.                                         *)

\* An empty server on its first map.
LEMMA Initially == Init => IInv
<1> SUFFICES ASSUME Init PROVE IInv
  OBVIOUS
<1>1. Typed
  BY EntityTableAssumption DEF Init, Typed
<1>2. TableOK
  BY EntityTableAssumption
     DEF Init, TableOK, OwnersApart, CamerasHaveRows, RowsAreCameras, Range
<1>3. calls = <<>> /\ Range(calls) = {} /\ Range(entities) = {}
  BY DEF Init, Range
<1>4. StackOK
  BY <1>3 DEF StackOK, Shape
<1>5. TameOK
  BY <1>3 DEF Init, TameOK
<1> QED
  BY <1>1, <1>2, <1>4, <1>5 DEF IInv

\* Clients come: no step of theirs touches the vector, and none of them is inside a
\* change of the map unless scripts stop being tame.
LEMMA ArrivalKeeps ==
    ASSUME IInv,
           connected \subseteq connected', connected' \subseteq Slots,
           listed \subseteq listed', listed' \subseteq Slots,
           own' \subseteq listed' \cap connected',
           UNCHANGED <<world, entities, maps, running, clean>>,
           Shape(calls', Outermost), Leavers(calls) \subseteq Leavers(calls'),
           tame' \in BOOLEAN, tame' => tame,
           tame' => \A c \in Range(calls') : c.name \notin MapNames
    PROVE  IInv'
<1>1. Typed'
  BY DEF IInv, Typed
<1>2. TableOK'
  BY SameTable DEF IInv
<1>3. StackOK'
  <2>1. Outermost' \in SUBSET Outermost
    BY DEF Outermost
  <2> QED
    BY <2>1, ShapeOfFewer DEF StackOK
<1>4. TameOK'
  <2>1. Present \subseteq Present'
    BY DEF Present
  <2>2. tame' => \A c \in Range(calls') : Fits(c)'
    BY DEF Fits, MapNames
  <2> QED
    BY <2>1, <2>2 DEF IInv, TameOK
<1> QED
  BY <1>1, <1>2, <1>3, <1>4 DEF IInv

\* A client connects, or the frame's loop lists one.
LEMMA ConnectKeeps ==
    ASSUME IInv, NEW s \in Slots, Connect(s) \/ UpdatePlayers(s)
    PROVE  IInv'
<1>1. /\ connected \subseteq connected' /\ listed \subseteq listed'
      /\ connected' \subseteq Slots /\ listed' \subseteq Slots
      /\ UNCHANGED <<world, entities, calls, maps, running, clean>>
  BY DEF IInv, Typed, Connect, CallOnClientConnect, UpdatePlayers, history
<1>2. own' \subseteq listed' \cap connected'
  BY DEF IInv, Typed, Connect, CallOnClientConnect, UpdatePlayers
<1>3. /\ tame' \in BOOLEAN /\ (tame' => tame)
      /\ tame' => \A c \in Range(calls) : c.name \notin MapNames
  <2>1. CASE Connect(s)
    BY <2>1 DEF Connect, MapChanges, MapNames, Range, IInv, Typed
  <2>2. CASE UpdatePlayers(s)
    <3>1. calls = <<>> /\ tame' = tame
      BY <2>2 DEF UpdatePlayers, Idle, history
    <3>2. Range(calls) = {}
      BY <3>1 DEF Range
    <3> QED
      BY <3>1, <3>2 DEF IInv, Typed
  <2> QED
    BY <2>1, <2>2
<1>4. Shape(calls', Outermost)
  BY <1>1 DEF IInv, StackOK
<1> QED
  BY <1>1, <1>2, <1>3, <1>4, ArrivalKeeps

\* The end of a reconnection announces a client and touches no camera.
LEMMA ReconnectResumeKeeps ==
    ASSUME IInv, ReconnectResume
    PROVE  IInv'
<1>1. /\ At("reconnect") /\ calls' = Tail(calls)
      /\ connected' = connected \cup {call.at} /\ listed \subseteq listed'
      /\ listed' \subseteq Slots
      /\ UNCHANGED <<world, entities, maps, running, clean, tame>>
  BY DEF IInv, Typed, ReconnectResume, CallOnClientConnect, Return, history
<1>2. own' \subseteq listed' \cap connected'
  BY DEF IInv, Typed, ReconnectResume, CallOnClientConnect
<1>3. /\ call.name = "reconnect" /\ FrameTyped(call)
      /\ Shape(Tail(calls), Outermost)
      /\ "reconnect" \in Outermost => Range(Tail(calls)) = {}
      /\ Leavers(calls) = Leavers(Tail(calls))
  BY <1>1, AtParts DEF IInv
<1>4. Range(Tail(calls)) = {}
  BY <1>3 DEF Outermost
<1>5. call.at \in Slots
  BY <1>3 DEF FrameTyped
<1>6. connected \subseteq connected' /\ connected' \subseteq Slots
  BY <1>1, <1>5 DEF IInv, Typed
<1>7. tame' \in BOOLEAN
  BY <1>1 DEF IInv, Typed
<1> QED
  BY <1>1, <1>2, <1>3, <1>4, <1>6, <1>7, ArrivalKeeps

\* A reconnection begins outside the other handlers.
LEMMA ReconnectKeeps ==
    ASSUME IInv, NEW s \in Slots, Reconnect(s)
    PROVE  IInv' /\ Quiet'
<1> DEFINE c == Frame("reconnect", s)
<1>1. /\ calls = <<>>
      /\ UNCHANGED <<connected, world, entities, maps, running, history>>
  BY DEF Reconnect, Idle
<1>2. PICK i : OnClientDisconnect(i, <<c>>)
  BY DEF Reconnect
<1>3. s \in Nat /\ s \in 0 .. MaxClients
  BY EntityTableAssumption DEF Slots
<1>4. c \in Call /\ c.name = "reconnect" /\ c.at = s
  BY <1>3, FrameParts
<1> HIDE DEF c
<1>5. FrameTyped(c)
  BY <1>3, <1>4 DEF FrameTyped
<1>6. Range(calls) = {}
  BY <1>1 DEF Range
<1>7. <<c>> = <<c>> \o calls
  BY <1>1
<1>8. Shape(<<c>>, Outermost) /\ Range(<<c>>) = {c} \cup Range(calls)
  <2>1. Shape(calls, Outermost) /\ \A d \in Range(calls) : d.name # "erasing"
    BY <1>6 DEF IInv, StackOK
  <2>2. Shape(<<c>> \o calls, Outermost) /\ Range(<<c>> \o calls) = {c} \cup Range(calls)
    BY <1>5, <1>6, <2>1, PushShape
  <2> QED
    BY <1>7, <2>2, Zenon
<1>9. Leavers(calls) \subseteq Leavers(<<c>>)
  BY <1>6 DEF Leavers
<1>10. \A d \in Range(<<c>>) : d.name # "erasing" /\ Fits(d)
  BY <1>4, <1>6, <1>8 DEF Fits
<1> QED
  BY <1>1, <1>2, <1>8, <1>9, <1>10, DepartureKeeps

\* A kick, inside any handler or outside.
LEMMA KickKeeps ==
    ASSUME IInv, NEW i \in Slots, KickClient(i)
    PROVE  IInv' /\ Quiet'
<1>1. /\ OnClientDisconnect(i, calls) /\ ScriptRuns
      /\ UNCHANGED <<connected, world, entities, maps, running, history>>
  BY DEF KickClient
<1>2. \A c \in Range(calls) : c.name # "erasing"
  BY <1>1, ScriptsOutsideLoop DEF IInv, StackOK
<1>3. Shape(calls, Outermost) /\ (tame => \A c \in Range(calls) : Fits(c))
  BY DEF IInv, StackOK, TameOK
<1> QED
  BY <1>1, <1>2, <1>3, DepartureKeeps

\* A drop, inside any handler or outside.
LEMMA DropKeeps ==
    ASSUME IInv, NEW s \in Slots, NEW name \in {"drop", "dropped"}, Drop(s, name)
    PROVE  IInv' /\ Quiet'
<1> DEFINE c == Frame(name, s)
           below == <<c>> \o calls
<1>1. /\ OnClientDisconnect(LookedUp(s), below) /\ ScriptRuns
      /\ UNCHANGED <<connected, world, entities, maps, running, history>>
  BY DEF Drop, Begins
<1>2. s \in Nat /\ s \in 0 .. MaxClients
  BY EntityTableAssumption DEF Slots
<1>3. c \in Call /\ c.name = name /\ c.at = s
  BY <1>2, FrameParts
<1>4. FrameTyped(c) /\ c.name \notin Outermost /\ c.name # "erasing"
  BY <1>2, <1>3 DEF FrameTyped, Outermost, MapNames
<1>5. Shape(calls, Outermost) /\ \A d \in Range(calls) : d.name # "erasing"
  BY <1>1, ScriptsOutsideLoop DEF IInv, StackOK
<1> HIDE DEF c
<1>6. Shape(below, Outermost) /\ Range(below) = {c} \cup Range(calls)
  BY <1>4, <1>5, PushShape
<1> HIDE DEF below
<1>7. Leavers(calls) \subseteq Leavers(below)
  BY <1>6 DEF Leavers
<1>8. tame => \A d \in Range(below) : Fits(d)
  BY <1>3, <1>6 DEF Fits, IInv, TameOK
<1>9. \A d \in Range(below) : d.name # "erasing"
  BY <1>4, <1>5, <1>6
<1> QED
  BY <1>1, <1>6, <1>7, <1>8, <1>9, DepartureKeeps

\* The second hook of the drop.
LEMMA DropAgainKeeps ==
    ASSUME IInv, DropAgain
    PROVE  IInv' /\ Quiet'
<1> DEFINE c == Frame("dropped", call.at)
           below == <<c>> \o Tail(calls)
<1>1. /\ At("drop") /\ OnClientDisconnect(LookedUp(call.at), below)
      /\ UNCHANGED <<connected, world, entities, maps, running, history>>
  BY DEF DropAgain
<1>2. /\ FrameTyped(call) /\ call.name = "drop"
      /\ Shape(Tail(calls), Outermost)
      /\ \A d \in Range(Tail(calls)) : d.name # "erasing"
      /\ Range(calls) = {call} \cup Range(Tail(calls))
      /\ Leavers(calls) = Leavers(Tail(calls))
  BY <1>1, AtParts DEF IInv
<1>3. call.at \in Slots /\ call.at \in Nat /\ call.at \in 0 .. MaxClients
  BY <1>2, EntityTableAssumption DEF FrameTyped, Slots
<1>4. c \in Call /\ c.name = "dropped" /\ c.at = call.at
  BY <1>3, FrameParts
<1>5. FrameTyped(c) /\ c.name \notin Outermost
  BY <1>3, <1>4 DEF FrameTyped, Outermost, MapNames
<1> HIDE DEF c
<1>6. Shape(below, Outermost) /\ Range(below) = {c} \cup Range(Tail(calls))
  BY <1>2, <1>5, PushShape
<1> HIDE DEF below
<1>7. Leavers(calls) \subseteq Leavers(below)
  BY <1>2, <1>6 DEF Leavers
<1>8. tame => \A d \in Range(below) : Fits(d)
  BY <1>2, <1>4, <1>6 DEF Fits, IInv, TameOK
<1>9. \A d \in Range(below) : d.name # "erasing"
  BY <1>2, <1>4, <1>6
<1> QED
  BY <1>1, <1>6, <1>7, <1>8, <1>9, DepartureKeeps

\* A turn of the loop of the map change.
LEMMA DisconnectNextKeeps ==
    ASSUME IInv, DisconnectNext
    PROVE  IInv' /\ Quiet'
<1> DEFINE i == call.at
           c == Frame("mapchange", i + 1)
           below == <<c>> \o Tail(calls)
<1>1. /\ At("mapchange") /\ i < MaxClients /\ OnClientDisconnect(i, below)
      /\ UNCHANGED <<connected, world, entities, maps, running, history>>
  BY DEF DisconnectNext
<1>2. /\ FrameTyped(call) /\ call.name = "mapchange"
      /\ Shape(Tail(calls), Outermost)
      /\ \A d \in Range(Tail(calls)) : d.name # "erasing"
      /\ Range(calls) = {call} \cup Range(Tail(calls))
      /\ "mapchange" \in Outermost => Range(Tail(calls)) = {}
      /\ Leavers(calls) = Leavers(Tail(calls))
  BY <1>1, AtParts DEF IInv
<1>3. i \in 0 .. MaxClients
  BY <1>2 DEF FrameTyped
<1>4. tame => Fits(call)
  BY <1>2 DEF IInv, TameOK
<1>5. tame => \A j \in Slots : j < i => j \notin Present
  BY <1>2, <1>4 DEF Fits
<1> HIDE DEF i
<1>6. i + 1 \in 0 .. MaxClients /\ i + 1 \in Nat
  BY <1>1, <1>3, EntityTableAssumption
<1>7. c \in Call /\ c.name = "mapchange" /\ c.at = i + 1
  BY <1>6, FrameParts
<1>8. FrameTyped(c)
  BY <1>6, <1>7 DEF FrameTyped
<1> HIDE DEF c
<1>9. Shape(below, Outermost) /\ Range(below) = {c} \cup Range(Tail(calls))
  BY <1>2, <1>7, <1>8, PushShape
<1> HIDE DEF below
<1>10. Leavers(calls) \subseteq Leavers(below)
  BY <1>2, <1>9 DEF Leavers
<1>11. \A j \in Slots : j < i + 1 => j < i \/ j = i
  BY <1>3 DEF Slots
<1>12. ASSUME tame, NEW d \in Range(below)
       PROVE  \/ Fits(d)
              \/ /\ d.name = "mapchange"
                 /\ \A j \in Slots : j < d.at => j = i \/ j \notin Present
  <2>1. CASE d = c
    BY <1>5, <1>7, <1>11, <1>12, <2>1
  <2>2. CASE d \in Range(Tail(calls))
    BY <1>2, <1>12, <2>2 DEF IInv, TameOK
  <2> QED
    BY <1>9, <2>1, <2>2
<1>13. \A d \in Range(below) : d.name # "erasing"
  BY <1>2, <1>7, <1>9
<1> QED
  BY <1>1, <1>9, <1>10, <1>12, <1>13, DepartureKeeps

\* The end of a departure takes the client's camera and keeps the invariant.
LEMMA DepartureEndKeeps ==
    ASSUME IInv, EntitiesOnClientDisconnect
    PROVE  IInv'
<1> DEFINE i == call.at
           t == Tail(calls)
<1>1. /\ At("leaving") /\ calls' = t
      /\ UNCHANGED <<connected, listed, own, maps, running, clean, tame>>
  BY DEF EntitiesOnClientDisconnect, Return, history
<1>2. /\ Shape(t, Outermost)
      /\ Range(calls) = {call} \cup Range(t)
      /\ Leavers(calls) = {i} \cup Leavers(t)
  BY <1>1, AtParts DEF IInv
<1>3. /\ TableOK' /\ world' \in [Edicts -> Slots \cup {Free, Native}]
      /\ entities' \in Seq(Row)
      /\ Range(entities') = Range(entities) \ Owned(i)
  <2>1. CASE CountEntitiesByOwner(i) # 0
    <3>1. RemoveEntitiesByOwner(i)
      BY <2>1 DEF EntitiesOnClientDisconnect
    <3> QED
      BY <1>1, <3>1, OwnedRemovalKeepsTable DEF IInv
  <2>2. CASE CountEntitiesByOwner(i) = 0
    <3>1. UNCHANGED <<entities, world>>
      BY <2>2 DEF EntitiesOnClientDisconnect
    <3>2. Owned(i) = {}
      BY <2>2, CountOwned DEF IInv, Typed
    <3> QED
      BY <1>1, <3>1, <3>2, SameTable DEF IInv, Typed
  <2> QED
    BY <2>1, <2>2
<1> HIDE DEF i, t
<1>4. Typed'
  BY <1>1, <1>3 DEF IInv, Typed
<1>5. \A r \in Range(entities') : r \in Range(entities) /\ r.owner # i
  BY <1>3 DEF Owned
<1>6. StackOK'
  BY <1>1, <1>2 DEF StackOK, Outermost
<1>7. entities = <<>> => entities' = <<>>
  <2>1. ASSUME entities = <<>> PROVE entities' = <<>>
    <3>1. CountEntitiesByOwner(i) = 0
      <4>1. {k \in DOMAIN entities : entities[k].owner = i} = {}
        BY <2>1
      <4> QED
        BY <4>1, FS_EmptySet DEF CountEntitiesByOwner
    <3> QED
      BY <2>1, <3>1 DEF EntitiesOnClientDisconnect, i
  <2> QED
    BY <2>1
<1>8. \A c \in Range(calls') : Fits(c) => Fits(c)'
  BY <1>1, <1>7 DEF Fits, Present
<1>9. TameOK'
  BY <1>1, <1>2, <1>5, <1>8 DEF IInv, TameOK, Present
<1> QED
  BY <1>3, <1>4, <1>6, <1>9 DEF IInv

\* The end of a drop frees the slot; scripts are no longer tame if a row is left.
LEMMA DropDoneKeeps ==
    ASSUME IInv, DropDone
    PROVE  IInv'
<1> DEFINE t == Tail(calls)
<1>1. /\ At("dropped") /\ calls' = t
      /\ connected' = connected \ {call.at} /\ own' = own \ {call.at}
      /\ tame' = (tame /\ call.at \notin listed)
      /\ UNCHANGED <<listed, world, entities, maps, running, clean>>
  BY DEF DropDone, Return
<1>2. /\ Shape(t, Outermost)
      /\ Range(calls) = {call} \cup Range(t)
      /\ Leavers(calls) = Leavers(t)
  BY <1>1, AtParts DEF IInv
<1> HIDE DEF t
<1>3. Typed'
  BY <1>1 DEF IInv, Typed
<1>4. TableOK'
  BY <1>1, SameTable DEF IInv
<1>5. StackOK'
  <2>1. Outermost' \in SUBSET Outermost
    BY <1>1 DEF Outermost
  <2> QED
    BY <1>1, <1>2, <2>1, ShapeOfFewer DEF StackOK
<1>6. tame' => tame /\ Present' = Present
  BY <1>1 DEF Present
<1>7. TameOK'
  <2>1. tame' => \A c \in Range(calls') : Fits(c) => Fits(c)'
    BY <1>1, <1>6 DEF Fits
  <2> QED
    BY <1>1, <1>2, <1>6, <2>1 DEF IInv, TameOK
<1> QED
  BY <1>3, <1>4, <1>5, <1>7 DEF IInv

-----------------------------------------------------------------------------
(* What scripts and the game do to the world.                              *)

\* A script makes a client spectate.
LEMMA SpectateKeeps ==
    ASSUME IInv, NEW p \in Slots, NEW target \in Slots, SpectatePlayer(p, target)
    PROVE  IInv'
<1>1. /\ tame' = (tame /\ p \in listed \cap connected)
      /\ UNCHANGED <<connected, listed, own, calls, maps, running, clean>>
  BY DEF SpectatePlayer
<1>2. /\ TableOK' /\ world' \in [Edicts -> Slots \cup {Free, Native}]
      /\ entities' \in Seq(Row)
      /\ \A r \in Range(entities') : r \in Range(entities) \/ r.owner = p
  BY SpectateKeepsTable DEF IInv
<1>3. Typed'
  BY <1>1, <1>2 DEF IInv, Typed
<1>4. StackOK'
  <2>1. Outermost' \in SUBSET Outermost
    BY <1>1 DEF Outermost
  <2> QED
    BY <1>1, <2>1, ShapeOfFewer DEF IInv, StackOK
<1>5. tame' => tame /\ p \in Present
  BY <1>1 DEF Present
<1>6. TameOK'
  <2>1. Present' = Present
    BY <1>1 DEF Present
  <2>2. \A c : Present # {} /\ Fits(c) => Fits(c)'
    BY <2>1 DEF Fits
  <2> QED
    BY <1>1, <1>2, <1>5, <2>1, <2>2 DEF IInv, TameOK
<1> QED
  BY <1>2, <1>3, <1>4, <1>6 DEF IInv

\* A script's removal ends the conditions or hits no camera; the game's hits none.
LEMMA RemovalKeeps ==
    ASSUME IInv, NEW e \in Edicts, SUB_Remove(e) \/ NativeEntity(e)
    PROVE  IInv'
<1>1. /\ UNCHANGED <<connected, listed, own, entities, calls, maps, running>>
      /\ world' \in [Edicts -> Slots \cup {Free, Native}]
      /\ \A d \in Edicts \ {e} : world'[d] = world[d]
      /\ world'[e] \in {Free, Native}
      /\ (tame' => tame) /\ (clean' => clean) /\ tame' \in BOOLEAN /\ clean' \in BOOLEAN
      /\ clean' => world[e] \notin Slots
      /\ tame /\ clean' # clean => tame' = FALSE
  <2>1. Free \notin Slots /\ Native \notin Slots
    BY EntityTableAssumption
  <2>2. CASE SUB_Remove(e)
    BY <2>1, <2>2 DEF SUB_Remove, IInv, Typed
  <2>3. CASE NativeEntity(e)
    BY <2>1, <2>3 DEF NativeEntity, Idle, history, IInv, Typed
  <2> QED
    BY <2>2, <2>3
<1>2. Typed'
  BY <1>1 DEF IInv, Typed
<1>3. TableOK'
  <2>1. Free \notin Slots /\ Native \notin Slots
    BY EntityTableAssumption
  <2>2. CamerasHaveRows'
    BY <1>1, <2>1 DEF IInv, TableOK, CamerasHaveRows
  <2>3. RowsAreCameras'
    <3> SUFFICES ASSUME clean', NEW r \in Range(entities)
                 PROVE  world'[r.edict] = r.owner
      BY <1>1 DEF RowsAreCameras
    <3>1. world[r.edict] = r.owner /\ r.edict \in Edicts /\ r.owner \in Slots
      BY <1>1, RowsTyped DEF IInv, TableOK, RowsAreCameras, Typed
    <3> QED
      BY <1>1, <3>1
  <2> QED
    BY <1>1, <2>2, <2>3 DEF IInv, TableOK, OwnersApart
<1>4. StackOK'
  <2>1. Outermost' \in SUBSET Outermost
    BY <1>1 DEF Outermost
  <2> QED
    BY <1>1, <2>1, ShapeOfFewer DEF IInv, StackOK
<1>5. TameOK'
  <2>1. Present' = Present /\ \A c : Fits(c) => Fits(c)'
    BY <1>1 DEF Present, Fits
  <2> QED
    BY <1>1, <2>1 DEF IInv, TameOK, Typed
<1> QED
  BY <1>2, <1>3, <1>4, <1>5 DEF IInv

-----------------------------------------------------------------------------
(* The map change.                                                         *)

\* The vector of a tame server is empty once the departures of a map change are over:
\* nobody is left whose row could be in it.
LEMMA NoRowsLeft ==
    ASSUME IInv, tame, At("mapchange"), call.at = MaxClients
    PROVE  Present = {} /\ entities = <<>>
<1>1. /\ Range(calls) = {call} \cup Range(Tail(calls))
      /\ "mapchange" \in Outermost => Range(Tail(calls)) = {}
      /\ Leavers(calls) = Leavers(Tail(calls))
      /\ call.name = "mapchange"
  BY AtParts DEF IInv
<1>2. Range(Tail(calls)) = {}
  BY <1>1 DEF Outermost, MapNames
<1>3. Leavers(calls) = {}
  BY <1>1, <1>2 DEF Leavers
<1>4. Present = {}
  <2>1. Fits(call)
    BY <1>1 DEF IInv, TameOK
  <2>2. \A i \in Slots : i < MaxClients
    BY EntityTableAssumption DEF Slots
  <2>3. \A i \in Slots : i \notin Present
    BY <1>1, <2>1, <2>2 DEF Fits
  <2> QED
    BY <2>3 DEF IInv, Typed, Present
<1>5. Range(entities) = {}
  BY <1>3, <1>4 DEF IInv, TameOK
<1>6. entities \in Seq(Row)
  BY DEF IInv, Typed
<1>7. ASSUME 1 \in DOMAIN entities PROVE FALSE
  BY <1>5, <1>7 DEF Range
<1> QED
  BY <1>4, <1>6, <1>7

\* A handler of the map change goes on, or begins, and touches no client and no camera.
LEMMA MapStepKeeps ==
    ASSUME IInv, NEW c, NEW t, FrameTyped(c), c.name \in MapNames,
           Shape(t, Outermost), Range(t) \subseteq Range(calls),
           \A d \in Range(t) : d.name # "erasing",
           calls' = <<c>> \o t,
           UNCHANGED <<connected, listed, own, world, entities, clean>>,
           maps' \in 0 .. MaxMaps, running' \in BOOLEAN, tame' \in BOOLEAN, tame' => tame,
           Leavers(calls) \subseteq Leavers(t),
           tame' => running' /\ Range(t) = {} /\ Fits(c)
    PROVE  IInv'
<1>1. Typed'
  BY DEF IInv, Typed
<1>2. TableOK'
  BY SameTable DEF IInv
<1>3. Outermost' \in SUBSET Outermost /\ (~tame' => c.name \notin Outermost')
  BY DEF Outermost, MapNames
<1>4. Shape(t, Outermost')
  BY <1>3, ShapeOfFewer
<1>5. c.name \in Outermost' => Range(t) = {}
  BY <1>3
<1>6. Shape(<<c>> \o t, Outermost') /\ Range(<<c>> \o t) = {c} \cup Range(t)
  BY <1>4, <1>5, PushShape
<1>7. StackOK'
  BY <1>6 DEF StackOK
<1>8. Leavers(calls) \subseteq Leavers(calls')
  BY <1>6 DEF Leavers
<1>9. Present' = Present /\ \A d : Fits(d) => Fits(d)'
  BY DEF Present, Fits
<1>10. TameOK'
  BY <1>6, <1>8, <1>9 DEF IInv, TameOK
<1> QED
  BY <1>1, <1>2, <1>7, <1>10 DEF IInv

\* A map change begins: inside another handler only if scripts are not tame.
LEMMA ChangeMapKeeps ==
    ASSUME IInv, ChangeMap
    PROVE  IInv'
<1> DEFINE c == Frame("mapchange", 0)
<1>1. /\ ScriptRuns /\ maps < MaxMaps /\ maps' = maps + 1
      /\ calls' = <<c>> \o calls
      /\ tame' = (tame /\ Idle)
      /\ UNCHANGED <<connected, listed, own, world, entities, running, clean>>
  BY DEF ChangeMap, Begins
<1>2. c \in Call /\ c.name = "mapchange" /\ c.at = 0
  BY FrameParts
<1> HIDE DEF c
<1>3. FrameTyped(c)
  BY <1>2, EntityTableAssumption DEF FrameTyped
<1>4. maps' \in 0 .. MaxMaps
  BY <1>1, EntityTableAssumption DEF IInv, Typed
<1>5. Shape(calls, Outermost) /\ running /\ \A d \in Range(calls) : d.name # "erasing"
  BY <1>1, ScriptsOutsideLoop DEF IInv, StackOK
<1>6. Idle => Range(calls) = {}
  BY DEF Idle, Range
<1>7. Fits(c)
  <2>1. \A i \in Slots : ~(i < 0)
    BY DEF Slots
  <2> QED
    BY <1>2, <2>1 DEF Fits
<1>8. tame' \in BOOLEAN /\ (tame' => tame /\ Idle) /\ running' \in BOOLEAN
  BY <1>1 DEF IInv, Typed, Idle
<1> QED
  BY <1>1, <1>2, <1>3, <1>4, <1>5, <1>6, <1>7, <1>8, MapStepKeeps DEF MapNames

\* Its departures are over: a tame server's table is empty by then.
LEMMA OnServerChangeMapKeeps ==
    ASSUME IInv, OnServerChangeMap
    PROVE  IInv'
<1> DEFINE c == Frame("erasing", 1)
           t == Tail(calls)
<1>1. /\ At("mapchange") /\ call.at = MaxClients
      /\ calls' = <<c>> \o t
      /\ UNCHANGED <<connected, listed, own, world, entities, maps, running, clean, tame>>
  BY DEF OnServerChangeMap, Advance, history
<1>2. c \in Call /\ c.name = "erasing" /\ c.at = 1
  BY FrameParts
<1> HIDE DEF c
<1>3. FrameTyped(c)
  BY <1>2 DEF FrameTyped
<1>4. /\ running /\ Shape(t, Outermost)
      /\ \A d \in Range(t) : d.name # "erasing"
      /\ Range(calls) = {call} \cup Range(t)
      /\ "mapchange" \in Outermost => Range(t) = {}
      /\ Leavers(calls) = Leavers(t)
  BY <1>1, AtParts DEF IInv
<1>5. tame => Range(t) = {} /\ Fits(c)
  BY <1>1, <1>2, <1>4, NoRowsLeft DEF Fits, Outermost, MapNames
<1> HIDE DEF t
<1>6. maps' \in 0 .. MaxMaps /\ running' \in BOOLEAN /\ tame' \in BOOLEAN
  BY <1>1 DEF IInv, Typed
<1> QED
  BY <1>1, <1>2, <1>3, <1>4, <1>5, <1>6, MapStepKeeps DEF MapNames

\* The loop that erases is over; with an empty table it has not passed the end.
LEMMA EraseDoneKeeps ==
    ASSUME IInv, EraseDone
    PROVE  IInv'
<1> DEFINE c == Frame("loading", 0)
           t == Tail(calls)
<1>1. /\ At("erasing")
      /\ running' = (call.at = Len(entities) + 1)
      /\ calls' = <<c>> \o t
      /\ UNCHANGED <<connected, listed, own, world, entities, maps, clean, tame>>
  BY DEF EraseDone, Advance, history
<1>2. c \in Call /\ c.name = "loading" /\ c.at = 0
  BY FrameParts
<1> HIDE DEF c
<1>3. FrameTyped(c)
  BY <1>2, EntityTableAssumption DEF FrameTyped
<1>4. /\ call.name = "erasing" /\ Shape(t, Outermost)
      /\ \A d \in Range(t) : d.name # "erasing"
      /\ Range(calls) = {call} \cup Range(t)
      /\ "erasing" \in Outermost => Range(t) = {}
      /\ Leavers(calls) = Leavers(t)
  BY <1>1, AtParts DEF IInv
<1> HIDE DEF t
<1>5. tame => Range(t) = {} /\ Fits(c) /\ entities = <<>> /\ call.at = 1
  <2>1. ASSUME tame PROVE Range(t) = {} /\ Fits(call)
    BY <1>4, <2>1 DEF IInv, TameOK, Outermost, MapNames
  <2> QED
    BY <1>2, <1>4, <2>1 DEF Fits
<1>6. ASSUME tame PROVE running'
  <2>1. Len(<<>>) = 0
    OBVIOUS
  <2>2. call.at = Len(entities) + 1
    BY <1>5, <1>6, <2>1
  <2> QED
    BY <1>1, <2>2, Zenon
<1>7. maps' \in 0 .. MaxMaps /\ tame' \in BOOLEAN
  BY <1>1 DEF IInv, Typed
<1>8. running' \in BOOLEAN
  BY <1>1, Zenon
<1> QED
  BY <1>1, <1>2, <1>3, <1>4, <1>5, <1>6, <1>7, <1>8, MapStepKeeps DEF MapNames

\* A turn of that loop: with tame scripts there is none, and other scripts' rows it
\* erases with their cameras.
LEMMA EraseKeeps ==
    ASSUME IInv, EraseNext
    PROVE  IInv'
<1> DEFINE k == call.at
           c == Frame("erasing", k + 1)
           t == Tail(calls)
<1>1. /\ At("erasing") /\ k \in DOMAIN entities
      /\ entities' = RemoveAt(entities, k)
      /\ world' = Without({entities[k]})
      /\ calls' = <<c>> \o t
      /\ UNCHANGED <<connected, listed, own, maps, running, clean, tame>>
  BY DEF EraseNext, Advance, history
<1>2. /\ call.name = "erasing" /\ Shape(t, Outermost) /\ FrameTyped(call)
      /\ \A d \in Range(t) : d.name # "erasing"
      /\ Range(calls) = {call} \cup Range(t)
      /\ "erasing" \in Outermost => Range(t) = {}
      /\ Leavers(calls) = Leavers(t)
  BY <1>1, AtParts DEF IInv
<1>3. k \in Nat
  BY <1>2 DEF FrameTyped, Call
<1> HIDE DEF k
<1>4. c \in Call /\ c.name = "erasing"
  BY <1>3, FrameParts
<1> HIDE DEF c, t
<1>5. FrameTyped(c)
  BY <1>4 DEF FrameTyped
<1>6. Range(calls') = {c} \cup Range(t) /\ Shape(calls', Outermost)
  <2>1. c.name \in Outermost => Range(t) = {}
    BY <1>2, <1>4
  <2> QED
    BY <1>1, <1>2, <1>5, <2>1, PushShape
<1>7. StackOK'
  BY <1>1, <1>6 DEF StackOK, Outermost
<1>8. /\ entities' \in Seq(Row) /\ OwnersApart(entities')
      /\ Range(entities') = Range(entities) \ {entities[k]}
  BY <1>1, EraseOne DEF IInv, Typed, TableOK
<1>9. {entities[k]} \in SUBSET Range(entities)
  BY <1>1 DEF Range
<1>10. TableOK' /\ world' \in [Edicts -> Slots \cup {Free, Native}]
  BY <1>1, <1>8, <1>9, RemovalKeepsTable DEF IInv
<1>11. Typed'
  BY <1>1, <1>8, <1>10 DEF IInv, Typed
<1>12. ~tame
  <2>1. ASSUME tame PROVE entities = <<>>
    BY <1>2, <2>1 DEF IInv, TameOK, Fits
  <2> QED
    BY <1>1, <2>1
<1>13. TameOK'
  BY <1>1, <1>12 DEF TameOK
<1> QED
  BY <1>7, <1>10, <1>11, <1>13 DEF IInv

\* The load of the next map, over a table that is empty or not.
LEMMA LoadKeeps ==
    ASSUME IInv, LoadMap
    PROVE  IInv'
<1> DEFINE t == Tail(calls)
<1>1. /\ At("loading") /\ calls' = t
      /\ world' \in [Edicts -> {Free, Native}]
      /\ listed' \subseteq Slots
      /\ own' \subseteq listed' \cap connected
      /\ clean' = (clean /\ entities = <<>>)
      /\ UNCHANGED <<connected, entities, maps, running, tame>>
  BY DEF LoadMap, Return, IInv, Typed
<1>2. /\ call.name = "loading" /\ Shape(t, Outermost)
      /\ Range(calls) = {call} \cup Range(t)
      /\ "loading" \in Outermost => Range(t) = {}
  BY <1>1, AtParts DEF IInv
<1> HIDE DEF t
<1>3. Typed'
  BY <1>1 DEF IInv, Typed
<1>4. Range(<<>>) = {}
  BY DEF Range
<1>5. TableOK'
  <2>1. Free \notin Slots /\ Native \notin Slots
    BY EntityTableAssumption
  <2>2. CamerasHaveRows'
    BY <1>1, <2>1 DEF CamerasHaveRows
  <2>3. clean' => Range(entities') = {}
    BY <1>1, <1>4
  <2>4. RowsAreCameras'
    BY <2>3 DEF RowsAreCameras
  <2> QED
    BY <1>1, <2>2, <2>4 DEF IInv, TableOK, OwnersApart
<1>6. StackOK'
  BY <1>1, <1>2 DEF StackOK, Outermost
<1>7. tame => Range(t) = {} /\ entities = <<>>
  BY <1>2 DEF IInv, TameOK, Fits, Outermost, MapNames
<1>8. TameOK'
  BY <1>1, <1>4, <1>7 DEF IInv, TameOK
<1> QED
  BY <1>3, <1>5, <1>6, <1>8 DEF IInv

\* The invariant is inductive: clients, scripts, the game and map changes keep it,
\* inside one another or not.
THEOREM NextIInv == IInv /\ [Next]_vars => IInv'
<1> SUFFICES ASSUME IInv, [Next]_vars PROVE IInv'
  OBVIOUS
<1>1. ASSUME NEW s \in Slots, Connect(s) \/ UpdatePlayers(s) PROVE IInv'
  BY <1>1, ConnectKeeps
<1>2. ASSUME NEW s \in Slots, Reconnect(s) \/ KickClient(s) PROVE IInv'
  BY <1>2, ReconnectKeeps, KickKeeps
<1>3. ASSUME NEW s \in Slots, NEW name \in {"drop", "dropped"}, Drop(s, name) PROVE IInv'
  BY <1>3, DropKeeps
<1>4. ASSUME NEW p \in Slots, NEW target \in Slots, SpectatePlayer(p, target)
      PROVE  IInv'
  BY <1>4, SpectateKeeps
<1>5. ASSUME NEW e \in Edicts, SUB_Remove(e) \/ NativeEntity(e) PROVE IInv'
  BY <1>5, RemovalKeeps
<1>6. CASE EntitiesOnClientDisconnect
  BY <1>6, DepartureEndKeeps
<1>7. CASE ReconnectResume \/ DropAgain \/ DropDone
  BY <1>7, ReconnectResumeKeeps, DropAgainKeeps, DropDoneKeeps
<1>8. CASE ChangeMap \/ DisconnectNext \/ OnServerChangeMap
  BY <1>8, ChangeMapKeeps, DisconnectNextKeeps, OnServerChangeMapKeeps
<1>9. CASE EraseNext \/ EraseDone \/ LoadMap
  BY <1>9, EraseKeeps, EraseDoneKeeps, LoadKeeps
<1>10. CASE UNCHANGED vars
  BY <1>10 DEF vars, history, IInv, Typed, TableOK, OwnersApart, CamerasHaveRows,
               RowsAreCameras, StackOK, Outermost, TameOK, Fits, Present
<1>11. CASE Stopped
  BY <1>10, <1>11 DEF Stopped
<1> QED
  BY <1>1, <1>2, <1>3, <1>4, <1>5, <1>6, <1>7, <1>8, <1>9, <1>10, <1>11 DEF Next

\* It therefore holds all along, once the first map is loaded.
THEOREM SpecIInv == Spec => []IInv
BY Initially, NextIInv, PTL DEF Spec

-----------------------------------------------------------------------------
(* What follows for the specification.                                     *)

\* Every variable stays in its type: rows name edicts and slots, and the loop of
\* a map change stays within the slots.
THEOREM TypesHold == Spec => []TypeOK
<1>1. ASSUME IInv, NEW k \in DOMAIN calls PROVE FrameTyped(calls[k])
  BY <1>1 DEF IInv, StackOK, Shape, Range
<1>2. IInv => TypeOK
  BY <1>1 DEF IInv, Typed, StackOK, Shape, FrameTyped, TypeOK
<1> QED
  BY <1>2, SpecIInv, PTL

\* SpectatePlayer and the departures keep the table at one camera a client.
THEOREM OneCamera == Spec => []OneCameraEach
<1>1. IInv => OneCameraEach
  BY CountOwned DEF IInv, Typed, TableOK, OneCameraEach
<1> QED
  BY <1>1, SpecIInv, PTL

\* No camera in the world is forgotten by the table.
THEOREM CamerasKept == Spec => []CamerasHaveRows
<1>1. IInv => CamerasHaveRows
  BY DEF IInv, TableOK
<1> QED
  BY <1>1, SpecIInv, PTL

\* While the table was empty at every map change, rows lead to their cameras.
THEOREM RowsLeadToCameras == Spec => []RowsAreCameras
<1>1. IInv => RowsAreCameras
  BY DEF IInv, TableOK
<1> QED
  BY <1>1, SpecIInv, PTL

\* Scripts that make only clients spectate that are connected and listed, and that
\* change the map and add nobody inside the other handlers, leave an empty table to the
\* loop of the map change, unless a client's slot was freed with a row left: the loop
\* then neither erases nor runs past the end.
THEOREM TameScripts == Spec => []TameScriptsKeepMapsClean
<1>1. IInv => TameScriptsKeepMapsClean
  BY DEF IInv, TameOK, TameScriptsKeepMapsClean
<1> QED
  BY <1>1, SpecIInv, PTL

\* What the removal of rows does to an edict that the map or the game made.
LEMMA NativesStay ==
    ASSUME IInv, clean, NEW gone \in SUBSET Range(entities), NEW e \in Edicts,
           world[e] = Native
    PROVE  Without(gone)[e] = Native
<1>1. Native \notin Slots
  BY EntityTableAssumption
<1>2. \A r \in gone : world[r.edict] = r.owner /\ r.owner \in Slots
  BY RowsTyped DEF IInv, Typed, TableOK, RowsAreCameras
<1> QED
  BY <1>1, <1>2 DEF Without

\* Departures, spectating and the map change remove no entity of the map or of
\* the game.
THEOREM NativesSafe == Spec => NativesAreSafe
<1> DEFINE Safe ==
        clean =>
            \A e \in Edicts :
                world[e] = Native /\ world'[e] # Native =>
                    NativeEntity(e) \/ SUB_Remove(e) \/ LoadMap
<1>1. IInv /\ [Next]_vars => [Safe]_vars
  <2> SUFFICES ASSUME IInv, Next, clean, NEW e \in Edicts,
                      world[e] = Native, world'[e] # Native,
                      ~NativeEntity(e), ~SUB_Remove(e), ~LoadMap
               PROVE  FALSE
    OBVIOUS
  <2>1. Native # Free /\ Native \notin Slots
    BY EntityTableAssumption
  <2>2. \A i : Owned(i) \in SUBSET Range(entities) /\ Without(Owned(i))[e] = Native
    BY NativesStay DEF Owned
  <2>3. world' # world
    OBVIOUS
  <2>4. ASSUME NEW d \in Edicts, SUB_Remove(d) \/ NativeEntity(d) PROVE FALSE
    <3>1. world' = [world EXCEPT ![d] = world'[d]]
      BY <2>4 DEF SUB_Remove, NativeEntity, IInv, Typed
    <3>2. d # e
      BY <2>4
    <3> QED
      BY <3>1, <3>2 DEF IInv, Typed
  <2>5. ASSUME NEW p \in Slots, NEW target \in Slots, SpectatePlayer(p, target)
        PROVE  FALSE
    <3>1. CASE world' = Without(Owned(p))
      BY <2>2, <3>1
    <3>2. ASSUME NEW d \in Edicts, world[d] = Free,
                 world' = [Without(Owned(p)) EXCEPT ![d] = p]
          PROVE  FALSE
      <4>1. d # e
        BY <2>1, <3>2
      <4>2. world'[e] = Without(Owned(p))[e]
        BY <3>2, <4>1 DEF Without
      <4> QED
        BY <2>2, <4>2
    <3> QED
      BY <2>5, <3>1, <3>2 DEF SpectatePlayer, RemoveEntitiesByOwner
  <2>6. CASE EntitiesOnClientDisconnect
    <3>1. world' = world \/ world' = Without(Owned(call.at))
      BY <2>6 DEF EntitiesOnClientDisconnect, RemoveEntitiesByOwner
    <3> QED
      BY <2>2, <2>3, <3>1
  <2>7. CASE EraseNext
    <3>1. world' = Without({entities[call.at]}) /\ call.at \in DOMAIN entities
      BY <2>7 DEF EraseNext
    <3>2. {entities[call.at]} \in SUBSET Range(entities)
      BY <3>1 DEF Range
    <3> QED
      BY <3>1, <3>2, NativesStay
  <2>8. \/ \E s \in Slots : Connect(s) \/ UpdatePlayers(s) \/ Reconnect(s) \/ KickClient(s)
        \/ \E s \in Slots, name \in {"drop", "dropped"} : Drop(s, name)
        \/ ReconnectResume \/ DropAgain \/ DropDone \/ ChangeMap \/ DisconnectNext
        \/ OnServerChangeMap \/ EraseDone \/ Stopped
    BY <2>4, <2>5, <2>6, <2>7 DEF Next
  <2>9. world' = world
    BY <2>8 DEF Connect, UpdatePlayers, Reconnect, ReconnectResume, Drop, DropAgain,
               KickClient, DropDone, ChangeMap, DisconnectNext, OnServerChangeMap,
               EraseDone, Stopped, vars
  <2> QED
    BY <2>3, <2>9
<1> QED
  BY <1>1, SpecIInv, PTL DEF Spec, NativesAreSafe

-----------------------------------------------------------------------------
(* What the loop of RemoveAllEntitiesFromTable does to a table that is not *)
(* empty.                                                                  *)

\* The rows there were when the loop began: each turn erases one and moves the
\* iterator one on.
RowsAtFirst == Len(entities) + call.at - 1

\* The loop has the table for itself, whatever handler it runs inside of; it erases
\* one row of every two it began with, and passes the end of the vector exactly when it
\* began with an odd number of rows.
LoopErasesHalf ==
    [][/\ OnServerChangeMap => RowsAtFirst' = Len(entities)
       /\ At("erasing") =>
             \/ EraseNext /\ RowsAtFirst' = RowsAtFirst
             \/ EraseDone /\ RowsAtFirst = 2 * Len(entities) + (IF running' THEN 0 ELSE 1)]_vars

\* The iterator is at a row, at the end or one past it.
IteratorOK ==
    \A c \in Range(calls) :
        c.name = "erasing" => running /\ c.at \in 1 .. Len(entities) + 2

\* Nothing but the loop moves while it runs.
LEMMA LoopAlone ==
    ASSUME Next, At("erasing")
    PROVE  EraseNext \/ EraseDone
<1>1. running /\ calls # <<>> /\ call.name = "erasing"
  BY DEF At
<1>2. ~Idle /\ ~ScriptRuns /\ ~Begins
  BY <1>1 DEF Idle, ScriptRuns, Begins, Waits
<1>3. \A name : At(name) => name = "erasing"
  BY <1>1 DEF At
<1> QED
  BY <1>1, <1>2, <1>3
     DEF Next, Connect, UpdatePlayers, Reconnect, Drop, KickClient, SpectatePlayer, SUB_Remove,
         NativeEntity, EntitiesOnClientDisconnect, ReconnectResume, DropAgain, DropDone,
         ChangeMap, DisconnectNext, OnServerChangeMap, LoadMap, Stopped

\* A turn of the loop: one row less, one position further.
LEMMA LoopTurn ==
    ASSUME IInv, EraseNext
    PROVE  /\ call.at \in 1 .. Len(entities) /\ Len(entities) \in Nat
           /\ call'.at = call.at + 1 /\ call'.name = "erasing"
           /\ Len(entities') = Len(entities) - 1
           /\ running' = running
           /\ Range(calls') = {call'} \cup Range(Tail(calls))
<1> DEFINE k == call.at
           c == Frame("erasing", k + 1)
<1>1. /\ entities \in Seq(Row) /\ k \in DOMAIN entities
      /\ entities' = RemoveAt(entities, k)
      /\ At("erasing") /\ running' = running
      /\ calls' = <<c>> \o Tail(calls)
  BY DEF IInv, Typed, EraseNext, Advance
<1>2. /\ Shape(Tail(calls), Outermost) /\ FrameTyped(call)
      /\ \A d \in Range(Tail(calls)) : d.name # "erasing"
      /\ "erasing" \in Outermost => Range(Tail(calls)) = {}
  BY <1>1, AtParts DEF IInv
<1>3. Len(entities') = Len(entities) - 1
  BY <1>1, RemoveAtShifts
<1>4. DOMAIN entities = 1 .. Len(entities) /\ Len(entities) \in Nat /\ k \in Nat
  BY <1>1
<1> HIDE DEF k
<1>5. c \in Call /\ c.name = "erasing" /\ c.at = k + 1
  BY <1>4, FrameParts
<1> HIDE DEF c
<1>6. FrameTyped(c)
  BY <1>5 DEF FrameTyped
<1>7. calls' # <<>> /\ Head(calls') = c /\ Range(calls') = {c} \cup Range(Tail(calls))
  BY <1>1, <1>2, <1>5, <1>6, PushShape
<1> QED
  BY <1>1, <1>3, <1>4, <1>5, <1>7 DEF call, k

\* The loop begins with OnServerChangeMap only.
LEMMA LoopBegins ==
    ASSUME IInv, Next, running, ~At("erasing"), ~OnServerChangeMap
    PROVE  Quiet'
<1>1. Quiet
  <2>1. CASE calls = <<>>
    BY <2>1 DEF Quiet, Range
  <2>2. CASE calls # <<>>
    <3>1. /\ Range(calls) = {call} \cup Range(Tail(calls))
          /\ \A c \in Range(Tail(calls)) : c.name # "erasing"
      BY <2>2, PopShape DEF IInv, StackOK, call
    <3> QED
      BY <2>2, <3>1 DEF At, Quiet
  <2> QED
    BY <2>1, <2>2
<1>2. CASE UNCHANGED calls
  BY <1>1, <1>2 DEF Quiet
<1>3. CASE \E s \in Slots : Connect(s) \/ UpdatePlayers(s)
  BY <1>2, <1>3 DEF Connect, UpdatePlayers
<1>4. CASE \/ \E p, target \in Slots : SpectatePlayer(p, target)
           \/ \E e \in Edicts : SUB_Remove(e) \/ NativeEntity(e)
           \/ Stopped
  BY <1>2, <1>4 DEF SpectatePlayer, SUB_Remove, NativeEntity, Stopped, vars
<1>5. CASE \/ \E s \in Slots : Reconnect(s) \/ KickClient(s)
           \/ \E s \in Slots, name \in {"drop", "dropped"} : Drop(s, name)
           \/ DropAgain \/ DisconnectNext
  BY <1>5, ReconnectKeeps, KickKeeps, DropKeeps, DropAgainKeeps, DisconnectNextKeeps
<1>6. CASE EntitiesOnClientDisconnect \/ ReconnectResume \/ DropDone \/ LoadMap
  <2>1. calls # <<>> /\ calls' = Tail(calls)
    BY <1>6 DEF EntitiesOnClientDisconnect, ReconnectResume, DropDone, LoadMap, At, Return
  <2>2. \A c \in Range(Tail(calls)) : c.name # "erasing"
    BY <2>1, PopShape DEF IInv, StackOK
  <2> QED
    BY <2>1, <2>2 DEF Quiet
<1>7. CASE ChangeMap
  <2> DEFINE c == Frame("mapchange", 0)
  <2>1. calls' = <<c>> \o calls
    BY <1>7 DEF ChangeMap
  <2>2. c \in Call /\ c.name = "mapchange"
    BY FrameParts
  <2> HIDE DEF c
  <2>3. Range(calls') = {c} \cup Range(calls)
    BY <2>1, <2>2, PushKeeps DEF IInv, StackOK, Shape
  <2> QED
    BY <1>1, <2>2, <2>3 DEF Quiet
<1>8. CASE EraseNext \/ EraseDone
  BY <1>8 DEF EraseNext, EraseDone
<1> QED
  BY <1>3, <1>4, <1>5, <1>6, <1>7, <1>8 DEF Next

\* The iterator never gets further than one past the end.
LEMMA IteratorKept ==
    ASSUME IInv, IteratorOK, [Next]_vars
    PROVE  IteratorOK'
<1>1. Len(entities) \in Nat
  BY DEF IInv, Typed
<1>2. CASE UNCHANGED vars
  BY <1>2 DEF vars, IteratorOK
<1>3. CASE Next /\ At("erasing")
  <2>1. /\ running /\ call \in Range(calls) /\ call.name = "erasing"
        /\ \A c \in Range(Tail(calls)) : c.name # "erasing"
    BY <1>3, AtParts DEF IInv
  <2>2. CASE EraseNext
    <3>1. call'.at \in 1 .. Len(entities') + 2
      BY <2>2, LoopTurn
    <3> QED
      BY <2>1, <2>2, <3>1, LoopTurn DEF IteratorOK
  <2>3. CASE EraseDone
    <3> DEFINE c == Frame("loading", 0)
    <3>1. calls' = <<c>> \o Tail(calls)
      BY <2>3 DEF EraseDone, Advance
    <3>2. c \in Call /\ c.name = "loading"
      BY FrameParts
    <3> HIDE DEF c
    <3>3. Tail(calls) \in Seq(Call)
      BY <1>3, AtParts DEF IInv, Shape
    <3>4. Range(calls') = {c} \cup Range(Tail(calls))
      BY <3>1, <3>2, <3>3, PushKeeps
    <3> QED
      BY <2>1, <3>2, <3>4 DEF IteratorOK
  <2> QED
    BY <1>3, <2>2, <2>3, LoopAlone
<1>4. CASE OnServerChangeMap
  <2> DEFINE c == Frame("erasing", 1)
  <2>1. At("mapchange") /\ calls' = <<c>> \o Tail(calls) /\ UNCHANGED <<running, entities>>
    BY <1>4 DEF OnServerChangeMap, Advance
  <2>2. c \in Call /\ c.at = 1
    BY FrameParts
  <2> HIDE DEF c
  <2>3. /\ running /\ Tail(calls) \in Seq(Call)
        /\ \A d \in Range(Tail(calls)) : d.name # "erasing"
    BY <2>1, AtParts DEF IInv, Shape
  <2>4. Range(calls') = {c} \cup Range(Tail(calls))
    BY <2>1, <2>2, <2>3, PushKeeps
  <2> QED
    BY <1>1, <2>1, <2>2, <2>3, <2>4 DEF IteratorOK
<1>5. CASE Next /\ running /\ ~At("erasing") /\ ~OnServerChangeMap
  BY <1>5, LoopBegins DEF Quiet, IteratorOK
<1>6. CASE Next /\ ~running
  <2>1. UNCHANGED vars
    BY <1>6
       DEF Next, Connect, UpdatePlayers, Reconnect, Drop, KickClient, SpectatePlayer, SUB_Remove,
           NativeEntity, EntitiesOnClientDisconnect, ReconnectResume, DropAgain, DropDone,
           ChangeMap, DisconnectNext, OnServerChangeMap, EraseNext, EraseDone, LoadMap, Stopped,
           Idle, ScriptRuns, Begins, At
  <2> QED
    BY <1>2, <2>1
<1> QED
  BY <1>2, <1>3, <1>4, <1>5, <1>6

\* CBaseEntity::OnServerChangeMap survives the rows that scripts have left exactly when
\* they are even in number, and then leaves half of them behind.
THEOREM LoopLeavesHalf == Spec => LoopErasesHalf
<1> DEFINE Half ==
      /\ OnServerChangeMap => RowsAtFirst' = Len(entities)
      /\ At("erasing") =>
            \/ EraseNext /\ RowsAtFirst' = RowsAtFirst
            \/ EraseDone /\ RowsAtFirst = 2 * Len(entities) + (IF running' THEN 0 ELSE 1)
<1>1. Init => IteratorOK
  BY DEF Init, IteratorOK, Range
<1>2. ASSUME IInv, IteratorOK, Next PROVE Half
  <2>1. Len(entities) \in Nat
    BY <1>2 DEF IInv, Typed
  <2>2. ASSUME OnServerChangeMap PROVE RowsAtFirst' = Len(entities)
    <3> DEFINE c == Frame("erasing", 1)
    <3>1. At("mapchange") /\ calls' = <<c>> \o Tail(calls) /\ entities' = entities
      BY <2>2 DEF OnServerChangeMap, Advance
    <3>2. c \in Call /\ c.at = 1
      BY FrameParts
    <3> HIDE DEF c
    <3>3. Tail(calls) \in Seq(Call)
      BY <1>2, <3>1, AtParts DEF IInv, Shape
    <3>4. Head(calls') = c
      BY <3>1, <3>3
    <3> QED
      BY <2>1, <3>1, <3>2, <3>4 DEF RowsAtFirst, call
  <2>3. ASSUME EraseNext PROVE RowsAtFirst' = RowsAtFirst
    BY <1>2, <2>3, LoopTurn DEF RowsAtFirst
  <2>4. ASSUME EraseDone, At("erasing")
        PROVE  RowsAtFirst = 2 * Len(entities) + (IF running' THEN 0 ELSE 1)
    <3>1. running' = (call.at = Len(entities) + 1)
      BY <2>4 DEF EraseDone
    <3>2. call.at = Len(entities) + 1 \/ call.at = Len(entities) + 2
      <4>1. call \in Range(calls) /\ call.name = "erasing"
        BY <1>2, <2>4, AtParts DEF IInv
      <4>2. call.at \in 1 .. Len(entities) + 2
        BY <1>2, <4>1 DEF IteratorOK
      <4>3. call.at \notin 1 .. Len(entities)
        BY <1>2, <2>4 DEF EraseDone, IInv, Typed
      <4> QED
        BY <2>1, <4>2, <4>3
    <3>3. CASE call.at = Len(entities) + 1
      <4>1. running'
        BY <3>1, <3>3
      <4>2. RowsAtFirst = 2 * Len(entities)
        BY <2>1, <3>3 DEF RowsAtFirst
      <4> QED
        BY <2>1, <4>1, <4>2
    <3>4. CASE call.at = Len(entities) + 2
      <4>1. call.at # Len(entities) + 1
        BY <2>1, <3>4
      <4>2. ~running'
        BY <3>1, <4>1
      <4>3. RowsAtFirst = 2 * Len(entities) + 1
        BY <2>1, <3>4 DEF RowsAtFirst
      <4> QED
        BY <4>2, <4>3
    <3> QED
      BY <3>2, <3>3, <3>4
  <2> QED
    BY <1>2, <2>2, <2>3, <2>4, LoopAlone
<1>3. IInv /\ IteratorOK /\ [Next]_vars => [Half]_vars
  BY <1>2
<1>4. IInv /\ IteratorOK /\ [Next]_vars => IteratorOK'
  BY IteratorKept
<1>5. Spec => []IteratorOK
  BY <1>1, <1>4, SpecIInv, PTL DEF Spec
<1>6. Spec => [][Half]_vars
  BY <1>3, <1>5, SpecIInv, PTL DEF Spec
<1> QED
  BY <1>6 DEF LoopErasesHalf

-----------------------------------------------------------------------------
(* The refinement.                                                         *)

\* A departure is one of the table of players, or none.
LEMMA DepartureRefines ==
    ASSUME Typed, NEW i, NEW below, OnClientDisconnect(i, below), UNCHANGED connected
    PROVE  [TableOfPlayers!Next]_(TableOfPlayers!vars)
<1>1. CASE i \in listed \cap connected
  <2>1. listed' = listed \ {i} /\ own' = own \ {i} /\ i \in Slots
    BY <1>1 DEF OnClientDisconnect, Typed
  <2>2. TableOfPlayers!Leave(i) /\ i \in TableOfPlayers!Slots
    BY <1>1, <2>1 DEF TableOfPlayers!Leave, TableOfPlayers!Slots, Slots
  <2> QED
    BY <2>2 DEF TableOfPlayers!Next
<1>2. CASE i \notin listed \cap connected
  BY <1>2 DEF OnClientDisconnect, TableOfPlayers!vars
<1> QED
  BY <1>1, <1>2

\* The lowest id that is not listed is one at most, so that an announcement is one.
LEMMA AnnouncementRefines ==
    ASSUME NEW there, NEW owners, CallOnClientConnect(there, owners)
    PROVE  TableOfPlayers!Announce(there, owners)
<1> DEFINE new == {i \in Slots \ listed : 0 .. i - 1 \subseteq listed}
<1>1. CASE listed' = listed /\ own' = owners
  BY <1>1 DEF TableOfPlayers!Announce
<1>2. CASE listed' = listed \cup new /\ own' = owners \cup (new \cap there)
  <2>1. CASE new = {}
    <3>1. listed' = listed /\ own' = owners
      BY <1>2, <2>1
    <3> QED
      BY <3>1, <1>1
  <2>2. CASE new # {}
    <3>1. PICK i : i \in new
      BY <2>2
    <3>2. /\ i \in Slots \ listed /\ i \in Int
          /\ \A k \in 0 .. i - 1 : k \in listed
      BY <3>1 DEF Slots
    <3>3. ASSUME NEW j \in new PROVE j = i
      <4>1. /\ j \in Slots \ listed /\ j \in Int /\ 0 <= j /\ 0 <= i
            /\ \A k \in 0 .. j - 1 : k \in listed
        BY <3>2 DEF Slots
      <4>2. ~(j < i) /\ ~(i < j)
        BY <3>2, <4>1
      <4> QED
        BY <3>2, <4>1, <4>2
    <3>4. new = {i}
      BY <3>1, <3>3
    <3> HIDE DEF new
    <3>5. /\ i \in TableOfPlayers!Slots \ listed
          /\ 0 .. i - 1 \subseteq listed
          /\ listed' = listed \cup {i}
          /\ own' = owners \cup ({i} \cap there)
      BY <1>2, <3>2, <3>4 DEF TableOfPlayers!Slots, Slots
    <3> QED
      BY <3>5 DEF TableOfPlayers!Announce
  <2> QED
    BY <2>1, <2>2
<1> QED
  BY <1>1, <1>2 DEF CallOnClientConnect

\* A connection, the frame's loop and the end of a reconnection.
LEMMA ArrivalRefines ==
    ASSUME IInv, \/ \E s \in Slots : Connect(s) \/ UpdatePlayers(s)
                 \/ ReconnectResume
    PROVE  TableOfPlayers!Next
<1>1. Slots = TableOfPlayers!Slots
  BY DEF Slots, TableOfPlayers!Slots
<1>2. ASSUME NEW s \in Slots, Connect(s) PROVE TableOfPlayers!Connect(s)
  <2>1. /\ s \notin connected /\ connected' = connected \cup {s}
        /\ CallOnClientConnect(connected', own)
    BY <1>2 DEF Connect
  <2>2. own \ {s} = own
    BY <2>1 DEF IInv, Typed
  <2>3. TableOfPlayers!Announce(connected', own \ {s})
    BY <2>1, <2>2, AnnouncementRefines
  <2> QED
    BY <2>1, <2>3 DEF TableOfPlayers!Connect
<1>3. ASSUME NEW s \in Slots, UpdatePlayers(s)
      PROVE  {s} \in SUBSET (connected \ listed) /\ TableOfPlayers!List({s})
  BY <1>3 DEF UpdatePlayers, TableOfPlayers!List
<1>4. ASSUME ReconnectResume
      PROVE  call.at \in Slots /\ TableOfPlayers!Connect(call.at)
  <2>1. call.at \in Slots
    <3>1. At("reconnect")
      BY <1>4 DEF ReconnectResume
    <3> QED
      BY <3>1, AtParts DEF IInv, FrameTyped
  <2>2. /\ connected' = connected \cup {call.at}
        /\ CallOnClientConnect(connected', own \ {call.at})
    BY <1>4 DEF ReconnectResume
  <2> QED
    BY <2>1, <2>2, AnnouncementRefines DEF TableOfPlayers!Connect
<1> QED
  BY <1>1, <1>2, <1>3, <1>4 DEF TableOfPlayers!Next

\* A departure, of whatever cause, and the end of a drop: its slot may be free by then.
LEMMA GoingRefines ==
    ASSUME IInv, \/ \E s \in Slots : Reconnect(s) \/ KickClient(s)
                 \/ \E s \in Slots, name \in {"drop", "dropped"} : Drop(s, name)
                 \/ DropAgain \/ DisconnectNext
                 \/ DropDone
    PROVE  [TableOfPlayers!Next]_(TableOfPlayers!vars)
<1>1. ASSUME \/ \E s \in Slots : Reconnect(s) \/ KickClient(s)
             \/ \E s \in Slots, name \in {"drop", "dropped"} : Drop(s, name)
             \/ DropAgain \/ DisconnectNext
      PROVE  \E i, below : OnClientDisconnect(i, below) /\ UNCHANGED connected
  <2>1. ASSUME NEW s \in Slots, Reconnect(s)
        PROVE  \E i, below : OnClientDisconnect(i, below) /\ UNCHANGED connected
    BY <2>1 DEF Reconnect
  <2>2. ASSUME NEW s \in Slots, KickClient(s)
        PROVE  \E i, below : OnClientDisconnect(i, below) /\ UNCHANGED connected
    BY <2>2 DEF KickClient
  <2>3. ASSUME NEW s \in Slots, NEW name, Drop(s, name)
        PROVE  \E i, below : OnClientDisconnect(i, below) /\ UNCHANGED connected
    BY <2>3 DEF Drop
  <2>4. ASSUME DropAgain
        PROVE  \E i, below : OnClientDisconnect(i, below) /\ UNCHANGED connected
    BY <2>4 DEF DropAgain
  <2>5. ASSUME DisconnectNext
        PROVE  \E i, below : OnClientDisconnect(i, below) /\ UNCHANGED connected
    BY <2>5 DEF DisconnectNext
  <2> QED
    BY <1>1, <2>1, <2>2, <2>3, <2>4, <2>5
<1>2. ASSUME DropDone PROVE [TableOfPlayers!Next]_(TableOfPlayers!vars)
  <2>1. /\ connected' = connected \ {call.at} /\ own' = own \ {call.at}
        /\ UNCHANGED listed
    BY <1>2 DEF DropDone
  <2>2. CASE call.at \in connected
    <3>1. call.at \in TableOfPlayers!Slots
      BY <2>2 DEF IInv, Typed, TableOfPlayers!Slots, Slots
    <3>2. TableOfPlayers!Dropped(call.at)
      BY <2>1, <2>2 DEF TableOfPlayers!Dropped
    <3> QED
      BY <3>1, <3>2 DEF TableOfPlayers!Next
  <2>3. CASE call.at \notin connected
    <3>1. connected' = connected /\ own' = own
      BY <2>1, <2>3 DEF IInv, Typed
    <3> QED
      BY <2>1, <3>1 DEF TableOfPlayers!vars
  <2> QED
    BY <2>2, <2>3
<1> QED
  BY <1>1, <1>2, DepartureRefines DEF IInv

\* What the other steps leave alone.
LEMMA OthersRefine ==
    ASSUME \/ \E p, target \in Slots : SpectatePlayer(p, target)
           \/ \E e \in Edicts : SUB_Remove(e) \/ NativeEntity(e)
           \/ EntitiesOnClientDisconnect \/ ChangeMap \/ OnServerChangeMap
           \/ EraseNext \/ EraseDone \/ Stopped \/ UNCHANGED vars
    PROVE  UNCHANGED TableOfPlayers!vars
BY DEF SpectatePlayer, SUB_Remove, NativeEntity, EntitiesOnClientDisconnect, ChangeMap,
       OnServerChangeMap, EraseNext, EraseDone, Stopped, vars, TableOfPlayers!vars

\* The table of entities takes for possible only what the table of players allows:
\* whatever it is proved to do, it does under Presence.
THEOREM RestsOnPresence == Spec => ImplementsPresence
<1>1. Init => TableOfPlayers!Init
  BY DEF Init, TableOfPlayers!Init
<1>2. IInv /\ [Next]_vars => [TableOfPlayers!Next]_(TableOfPlayers!vars)
  <2> SUFFICES ASSUME IInv, [Next]_vars
               PROVE  [TableOfPlayers!Next]_(TableOfPlayers!vars)
    OBVIOUS
  <2>1. CASE LoadMap
    <3>1. PICK new \in SUBSET (connected \ listed) :
              listed' = listed \cup new /\ own' = own \cup new /\ UNCHANGED connected
      BY <2>1 DEF LoadMap
    <3>2. TableOfPlayers!List(new)
      BY <3>1 DEF TableOfPlayers!List
    <3> QED
      BY <3>2 DEF TableOfPlayers!Next
  <2> QED
    BY <2>1, ArrivalRefines, GoingRefines, OthersRefine DEF Next
<1> QED
  BY <1>1, <1>2, SpecIInv, PTL DEF Spec, ImplementsPresence, TableOfPlayers!Spec

=============================================================================
