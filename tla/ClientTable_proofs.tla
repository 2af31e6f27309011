-------------------------- MODULE ClientTable_proofs --------------------------
(***************************************************************************)
(* Theorems about the table of players, the events that happen to players  *)
(* and the dynamic lights, for every number of slots, every width of a     *)
(* byte and every bound on the user ids.                                   *)
(***************************************************************************)
EXTENDS PlayerEvents, SequenceFacts

-----------------------------------------------------------------------------
(* Rows, as a set.                                                         *)

RowsOf(t) == {t[k] : k \in DOMAIN t}

IdsOf(R) == {r.id : r \in R}

LightlessOf(R) == {r.id : r \in {q \in R : ~q.light}}

\* A sequence of rows with no client id twice.
Unique(t) == \A j, k \in DOMAIN t : t[j].id = t[k].id => j = k

\* Removing a listed client takes exactly its row away.
LEMMA RemoveTakesTheRow ==
    ASSUME NEW t \in Seq(Row), Unique(t),
           NEW k \in DOMAIN t
    PROVE  LET u == RemovePlayerFromTable(t, t[k].id)
           IN  /\ u \in Seq(Row)
               /\ Unique(u)
               /\ RowsOf(u) = RowsOf(t) \ {t[k]}
               /\ IdsOf(RowsOf(u)) = IdsOf(RowsOf(t)) \ {t[k].id}
<1> DEFINE matches == {m \in DOMAIN t : t[m].id = t[k].id}
           u == RemovePlayerFromTable(t, t[k].id)
<1>1. matches = {k}
  BY DEF Unique
<1>2. u = RemoveAt(t, k)
  BY <1>1 DEF RemovePlayerFromTable
<1>3. /\ u \in Seq(Row)
      /\ Len(u) = Len(t) - 1
      /\ \A j \in 1 .. Len(t) - 1 : u[j] = IF j < k THEN t[j] ELSE t[j + 1]
  BY <1>2, RemoveAtShifts
<1> HIDE DEF u, matches
<1>4. Len(t) \in Nat /\ DOMAIN t = 1 .. Len(t) /\ DOMAIN u = 1 .. Len(t) - 1
  BY <1>3
<1>5. Unique(u)
  <2> SUFFICES ASSUME NEW i \in DOMAIN u, NEW j \in DOMAIN u, u[i].id = u[j].id
               PROVE  i = j
    BY DEF Unique
  <2>1. u[i] = (IF i < k THEN t[i] ELSE t[i + 1])
        /\ u[j] = (IF j < k THEN t[j] ELSE t[j + 1])
    BY <1>3, <1>4
  <2>2. i \in Nat /\ j \in Nat /\ k \in Nat
        /\ i \in DOMAIN t /\ i + 1 \in DOMAIN t
        /\ j \in DOMAIN t /\ j + 1 \in DOMAIN t
    BY <1>4
  <2> QED
    BY <2>1, <2>2 DEF Unique
<1>6. RowsOf(u) = RowsOf(t) \ {t[k]}
  <2>1. ASSUME NEW r \in RowsOf(u) PROVE r \in RowsOf(t) \ {t[k]}
    <3>1. PICK j \in DOMAIN u : r = u[j]
      BY DEF RowsOf
    <3>2. j \in 1 .. Len(t) - 1 /\ r = IF j < k THEN t[j] ELSE t[j + 1]
      BY <1>3, <1>4, <3>1
    <3>3. PICK m \in DOMAIN t : r = t[m] /\ m # k
      <4>1. CASE j < k
        BY <1>4, <3>2, <4>1
      <4>2. CASE ~(j < k)
        <5>1. j + 1 \in DOMAIN t /\ j + 1 # k
          BY <1>4, <3>2, <4>2
        <5> QED
          BY <3>2, <4>2, <5>1
      <4> QED
        BY <4>1, <4>2
    <3> QED
      BY <3>3 DEF RowsOf, Unique
  <2>2. ASSUME NEW r \in RowsOf(t) \ {t[k]} PROVE r \in RowsOf(u)
    <3>1. PICK m \in DOMAIN t : r = t[m] /\ m # k
      BY DEF RowsOf
    <3>2. CASE m < k
      <4>1. m \in DOMAIN u /\ u[m] = t[m]
        BY <1>3, <1>4, <3>2
      <4> QED
        BY <3>1, <4>1 DEF RowsOf
    <3>3. CASE m > k
      <4>1. m - 1 \in DOMAIN u /\ u[m - 1] = t[m]
        BY <1>3, <1>4, <3>3
      <4> QED
        BY <3>1, <4>1 DEF RowsOf
    <3> QED
      BY <1>4, <3>1, <3>2, <3>3
  <2> QED
    BY <2>1, <2>2
<1>7. IdsOf(RowsOf(u)) = IdsOf(RowsOf(t)) \ {t[k].id}
  <2>1. t[k] \in RowsOf(t) /\ \A r \in RowsOf(t) : r.id = t[k].id => r = t[k]
    BY DEF RowsOf, Unique
  <2> QED
    BY ONLY <1>6, <2>1 DEF IdsOf
<1> QED
  BY <1>3, <1>5, <1>6, <1>7 DEF u

-----------------------------------------------------------------------------
(* What a handler leaves behind.                                           *)

Table ==
    /\ players \in Seq(Row)
    /\ Unique(players)
    /\ noLight = Cardinality(LightlessOf(RowsOf(players)))

\* The same facts, as views of the table's variables.
LEMMA TableViews ==
    /\ Listed = IdsOf(RowsOf(players))
    /\ Lightless = LightlessOf(RowsOf(players))
    /\ UniqueIds <=> Unique(players)
    /\ \A i : IsClientOnTable(i) <=> i \in IdsOf(RowsOf(players))
BY DEF Listed, Lightless, UniqueIds, Unique, IsClientOnTable, RowsOf, IdsOf,
       LightlessOf

\* The ids without dynamic lights are finitely many.
LEMMA LightlessFinite ==
    ASSUME NEW t \in Seq(Row)
    PROVE  /\ IsFiniteSet(LightlessOf(RowsOf(t)))
           /\ LightlessOf(RowsOf(t)) \subseteq Slots
           /\ IdsOf(RowsOf(t)) \subseteq Slots
           /\ RowsOf(t) \subseteq Row
<1>1. RowsOf(t) \subseteq Row
  BY DEF RowsOf
<1>2. LightlessOf(RowsOf(t)) \subseteq Slots /\ IdsOf(RowsOf(t)) \subseteq Slots
  BY <1>1 DEF LightlessOf, IdsOf, Row
<1>3. IsFiniteSet(Slots)
  BY ClientTableAssumption, FS_Interval DEF Slots
<1> QED
  BY <1>1, <1>2, <1>3, FS_Subset

\* Appending a row adds it to the rows, and keeps ids unique if its id is new.
LEMMA AppendAddsTheRow ==
    ASSUME NEW t \in Seq(Row), NEW r \in Row
    PROVE  LET u == Append(t, r)
           IN  /\ u \in Seq(Row)
               /\ RowsOf(u) = RowsOf(t) \cup {r}
               /\ Unique(t) /\ r.id \notin IdsOf(RowsOf(t)) => Unique(u)
<1> DEFINE u == Append(t, r)
<1>1. /\ u \in Seq(Row)
      /\ Len(t) \in Nat /\ DOMAIN t = 1 .. Len(t)
      /\ DOMAIN u = 1 .. Len(t) + 1
      /\ u[Len(t) + 1] = r
      /\ \A j \in 1 .. Len(t) : u[j] = t[j]
  OBVIOUS
<1> HIDE DEF u
<1>2. RowsOf(u) = RowsOf(t) \cup {r}
  BY <1>1 DEF RowsOf
<1>3. ASSUME Unique(t), r.id \notin IdsOf(RowsOf(t)) PROVE Unique(u)
  <2>1. \A j \in 1 .. Len(t) : t[j].id # r.id
    BY <1>1, <1>3 DEF IdsOf, RowsOf
  <2> QED
    BY <1>1, <1>3, <2>1 DEF Unique
<1> QED
  BY <1>1, <1>2, <1>3 DEF u

\* AddPlayerToTable keeps the table in order; it refuses the client, or adds
\* its row and counts it.
LEMMA AddKeepsTable ==
    ASSUME Table,
           NEW clients \in [Slots -> Slot], NEW i \in Slots,
           ~IsClientOnTable(i),
           AddPlayerToTable(clients, i)
    PROVE  /\ Table'
           /\ \/ /\ IsClientOnTableByNFID(clients[i].uid % ByteSize)
                 /\ UNCHANGED <<players, noLight>>
              \/ /\ RowsOf(players') = RowsOf(players) \cup {NewPlayer(clients, i)}
                 /\ Listed' = Listed \cup {i}
                 /\ Lightless' = IF clients[i].light
                                 THEN Lightless ELSE Lightless \cup {i}
                 /\ noLight' = IF clients[i].light
                               THEN noLight ELSE noLight + 1
<1> DEFINE r == NewPlayer(clients, i)
<1>1. r \in Row /\ r.id = i /\ r.light = clients[i].light
  BY DEF NewPlayer, Row, Slot
<1>2. i \notin IdsOf(RowsOf(players))
  BY TableViews
<1>3. CASE IsClientOnTableByNFID(clients[i].uid % ByteSize)
  BY <1>3 DEF AddPlayerToTable, Table
<1>4. CASE ~IsClientOnTableByNFID(clients[i].uid % ByteSize)
  <2>1. /\ players' = Append(players, r)
        /\ noLight' = noLight + (IF clients[i].light THEN 0 ELSE 1)
    BY <1>4 DEF AddPlayerToTable
  <2>2. /\ players' \in Seq(Row)
        /\ RowsOf(players') = RowsOf(players) \cup {r}
        /\ Unique(players')
    BY <1>1, <1>2, <2>1, AppendAddsTheRow DEF Table
  <2>3. IdsOf(RowsOf(players')) = IdsOf(RowsOf(players)) \cup {i}
    BY <1>1, <2>2 DEF IdsOf
  <2>4. LightlessOf(RowsOf(players')) =
           IF clients[i].light THEN LightlessOf(RowsOf(players))
                               ELSE LightlessOf(RowsOf(players)) \cup {i}
    BY <1>1, <2>2 DEF LightlessOf
  <2>5. /\ IsFiniteSet(LightlessOf(RowsOf(players)))
        /\ Cardinality(LightlessOf(RowsOf(players))) \in Nat
        /\ i \notin LightlessOf(RowsOf(players))
    BY <1>2, LightlessFinite, FS_CardinalityType DEF Table, LightlessOf, IdsOf
  <2>6. Cardinality(LightlessOf(RowsOf(players)) \cup {i}) =
           Cardinality(LightlessOf(RowsOf(players))) + 1
    BY <2>5, FS_AddElement
  <2>7. /\ clients[i].light \in BOOLEAN
        /\ noLight' = Cardinality(LightlessOf(RowsOf(players')))
        /\ noLight' = IF clients[i].light THEN noLight ELSE noLight + 1
    BY <2>1, <2>4, <2>5, <2>6 DEF Table, Slot
  <2>8. /\ Listed' = IdsOf(RowsOf(players'))
        /\ Lightless' = LightlessOf(RowsOf(players'))
    BY DEF Listed, Lightless, IdsOf, LightlessOf, RowsOf
  <2> QED
    BY <2>2, <2>3, <2>4, <2>7, <2>8, TableViews DEF Table
<1> QED
  BY <1>3, <1>4

\* OnClientDisconnect keeps the table in order; it ignores the client, or
\* takes its row out, counts it out and tells the gamemode.
LEMMA DisconnectKeepsTable ==
    ASSUME Table, slot \in [Slots -> Slot], NEW i,
           OnClientDisconnect(i)
    PROVE  /\ Table'
           /\ \/ /\ ~(IsClientOnTable(i) /\ slot[i].connected)
                 /\ UNCHANGED <<players, noLight, present>>
              \/ \E k \in DOMAIN players :
                    /\ players[k].id = i /\ i \in Slots /\ slot[i].connected
                    /\ RowsOf(players') = RowsOf(players) \ {players[k]}
                    /\ Listed' = Listed \ {i}
                    /\ Lightless' = Lightless \ {i}
                    /\ noLight' = noLight - (IF i \in Lightless THEN 1 ELSE 0)
                    /\ present' = present \ {i}
<1>1. CASE ~(IsClientOnTable(i) /\ slot[i].connected)
  BY <1>1 DEF OnClientDisconnect, Table
<1>2. CASE IsClientOnTable(i) /\ slot[i].connected
  <2>1. PICK k \in DOMAIN players : players[k].id = i
    BY <1>2 DEF IsClientOnTable
  <2>2. /\ noLight' = noLight - (IF SupportsDynamicLights(i) THEN 0 ELSE 1)
        /\ players' = RemovePlayerFromTable(players, players[k].id)
        /\ present' = present \ {i}
    BY <1>2, <2>1 DEF OnClientDisconnect
  <2>3. /\ players' \in Seq(Row)
        /\ Unique(players')
        /\ RowsOf(players') = RowsOf(players) \ {players[k]}
        /\ IdsOf(RowsOf(players')) = IdsOf(RowsOf(players)) \ {i}
    BY <2>1, <2>2, RemoveTakesTheRow DEF Table
  <2>4. i \in Slots /\ players[k].light \in BOOLEAN
    <3>1. players[k] \in Row
      <4>1. players \in Seq(Row)
        BY DEF Table
      <4> QED
        BY <2>1, <4>1
    <3> QED
      BY <2>1, <3>1 DEF Row
  <2>5. SupportsDynamicLights(i) <=> players[k].light
    <3>1. ASSUME NEW j \in DOMAIN players, players[j].id = i PROVE j = k
      BY <2>1, <3>1 DEF Table, Unique
    <3>2. ASSUME NEW j \in 1 .. k - 1 PROVE players[j].id # i
      <4>0. players \in Seq(Row)
        BY DEF Table
      <4>1. j \in DOMAIN players /\ j # k
        BY <4>0
      <4> QED
        BY <3>1, <4>1
    <3> QED
      BY <2>1, <3>1, <3>2 DEF SupportsDynamicLights
  <2>0. /\ players[k] \in RowsOf(players)
        /\ \A r \in RowsOf(players) : r.id = i => r = players[k]
    BY <2>1 DEF RowsOf, Table, Unique
  <2>6. i \in LightlessOf(RowsOf(players)) <=> ~players[k].light
    BY <2>0, <2>1 DEF LightlessOf
  <2>7. LightlessOf(RowsOf(players')) = LightlessOf(RowsOf(players)) \ {i}
    BY <2>0, <2>1, <2>3 DEF LightlessOf
  <2>8. /\ IsFiniteSet(LightlessOf(RowsOf(players)))
        /\ Cardinality(LightlessOf(RowsOf(players))) \in Nat
    BY LightlessFinite, FS_CardinalityType DEF Table
  <2>9. Cardinality(LightlessOf(RowsOf(players)) \ {i}) =
           Cardinality(LightlessOf(RowsOf(players)))
             - (IF i \in LightlessOf(RowsOf(players)) THEN 1 ELSE 0)
    <3> DEFINE L == LightlessOf(RowsOf(players))
    <3> HIDE DEF L
    <3>1. IsFiniteSet(L) /\ Cardinality(L) \in Nat
      BY <2>8 DEF L
    <3>2. Cardinality(L \ {i}) =
             IF i \in L THEN Cardinality(L) - 1 ELSE Cardinality(L)
      BY <3>1, FS_RemoveElement
    <3>3. Cardinality(L \ {i}) = Cardinality(L) - (IF i \in L THEN 1 ELSE 0)
      BY <3>1, <3>2
    <3> QED
      BY <3>3 DEF L
  <2>10. /\ noLight' = Cardinality(LightlessOf(RowsOf(players')))
         /\ noLight' = noLight
              - (IF i \in LightlessOf(RowsOf(players)) THEN 1 ELSE 0)
    <3>1. noLight' = noLight - (IF players[k].light THEN 0 ELSE 1)
      BY <2>2, <2>5
    <3>2. noLight' = noLight
              - (IF i \in LightlessOf(RowsOf(players)) THEN 1 ELSE 0)
      BY <2>6, <3>1
    <3> QED
      BY <2>7, <2>9, <3>2 DEF Table
  <2>11. /\ Listed' = IdsOf(RowsOf(players'))
         /\ Lightless' = LightlessOf(RowsOf(players'))
    BY DEF Listed, Lightless, IdsOf, LightlessOf, RowsOf
  <2>12. Table'
    BY <2>3, <2>10 DEF Table
  <2> QED
    BY <1>2, <2>1, <2>2, <2>3, <2>4, <2>7, <2>10, <2>11, <2>12, TableViews
<1> QED
  BY <1>1, <1>2

-----------------------------------------------------------------------------
(* User ids: fresh for every connection, never shared by two slots, and    *)
(* copied into the rows of their own slot only.                            *)

UserIdsOK(clients, next, R) ==
    /\ \A s \in Slots :
          /\ clients[s].uid < next
          /\ clients[s].connected => clients[s].uid # 0
    /\ \A s, t \in Slots :
          clients[s].uid # 0 /\ clients[s].uid = clients[t].uid => s = t
    /\ \A r \in R :
          /\ r.uid < next
          /\ r.connected => r.uid # 0
          /\ \A s \in Slots :
                clients[s].uid # 0 /\ r.uid = clients[s].uid => r.id = s

\* A row copied from its own slot respects the user ids.
LEMMA UserIdsAdd ==
    ASSUME NEW clients \in [Slots -> Slot], NEW next, NEW R, NEW i \in Slots,
           UserIdsOK(clients, next, R)
    PROVE  UserIdsOK(clients, next, R \cup {NewPlayer(clients, i)})
<1> DEFINE r == NewPlayer(clients, i)
<1>1. r.id = i /\ r.uid = clients[i].uid /\ r.connected = clients[i].connected
  BY DEF NewPlayer
<1> HIDE DEF r
<1>2. UserIdsOK(clients, next, R \cup {r})
  BY <1>1 DEF UserIdsOK
<1> QED
  BY <1>2 DEF r

\* A connection takes a user id no slot and no row has.
LEMMA UserIdsFresh ==
    ASSUME NEW clients \in [Slots -> Slot], NEW next \in Nat \ {0},
           NEW R \in SUBSET Row, NEW i \in Slots, NEW light \in BOOLEAN,
           UserIdsOK(clients, next, R)
    PROVE  LET after == [clients EXCEPT ![i] =
                      [connected |-> TRUE, uid |-> next, light |-> light]]
           IN  /\ after \in [Slots -> Slot]
               /\ UserIdsOK(after, next + 1, R)
<1> DEFINE after == [clients EXCEPT ![i] =
                      [connected |-> TRUE, uid |-> next, light |-> light]]
<1>1. after \in [Slots -> Slot]
  BY DEF Slot
<1>2. \A s \in Slots :
         IF s = i THEN after[s].uid = next ELSE after[s] = clients[s]
  OBVIOUS
<1>3. /\ \A s \in Slots : clients[s].uid \in Nat
      /\ \A r \in R : r.uid \in Nat
  BY DEF Slot, Row
<1> QED
  BY <1>1, <1>2, <1>3 DEF UserIdsOK

\* The first row with a slot's user id is the slot's.
LEMMA LookupResolves ==
    ASSUME Table, NEW s, NEW u,
           \A r \in RowsOf(players) : r.uid = u => r.id = s
    PROVE  /\ GetInternalIDFromNFID(u) \in {s, INVALID_USERID}
           /\ (\E r \in RowsOf(players) : r.uid = u)
                 => GetInternalIDFromNFID(u) = s
<1>1. CASE \A k \in DOMAIN players : players[k].uid # u
  BY <1>1 DEF GetInternalIDFromNFID, RowsOf
<1>2. CASE \E k \in DOMAIN players : players[k].uid = u
  <2> DEFINE First(k) == /\ players[k].uid = u
                         /\ \A j \in 1 .. k - 1 : players[j].uid # u
  <2>1. PICK k \in DOMAIN players : players[k].uid = u
    BY <1>2
  <2>2. players \in Seq(Row) /\ k \in 1 .. Len(players)
    BY DEF Table
  <2>3. ASSUME NEW j \in 1 .. k - 1 PROVE players[j].uid # u
    <3>1. j \in DOMAIN players /\ j # k
      BY <2>2
    <3>2. players[j].id # players[k].id
      BY <3>1 DEF Table, Unique
    <3> QED
      BY <2>1, <3>1, <3>2 DEF RowsOf
  <2>4. \E m \in DOMAIN players : First(m)
    BY <2>1, <2>3
  <2>5. (CHOOSE m \in DOMAIN players : First(m)) \in DOMAIN players
        /\ First(CHOOSE m \in DOMAIN players : First(m))
    BY <2>4
  <2> HIDE DEF First
  <2>6. GetInternalIDFromNFID(u) =
           players[CHOOSE m \in DOMAIN players : First(m)].id
    BY <1>2 DEF GetInternalIDFromNFID, First
  <2> QED
    BY <2>5, <2>6 DEF First, RowsOf
<1> QED
  BY <1>1, <1>2

-----------------------------------------------------------------------------
(* The inductive invariant.                                                *)

\* What every handler has to keep of the invariant, the hooks at work apart.
DataOK ==
    /\ slot \in [Slots -> Slot]
    /\ nextUid \in Nat \ {0}
    /\ Table
    /\ UserIdsOK(slot, nextUid, RowsOf(players))
    /\ present \in SUBSET Slots
    /\ PresentIsListed

\* Every hook but the innermost waits for a script.
CallsTyped ==
    /\ calls \in Seq(Call)
    /\ \A c \in Range(calls) : c.name \in {"reconnect", "drop"} => c.at \in Slots
    /\ calls # <<>> => \A c \in Range(Tail(calls)) : Waits(c)
    /\ think \in Slots
    /\ anew \in SUBSET Slots

\* Once a drop has begun no row answers to the client's user id, unless a hook
\* inside the drop has listed the slot or given it away.
DropsOK ==
    \A c \in Range(calls) :
        c.name = "drop" =>
            /\ slot[c.at].uid # 0
            /\ c.at \notin anew =>
                  \A r \in RowsOf(players) : r.uid # slot[c.at].uid

IInv == DataOK /\ CallsTyped /\ DropsOK

\* The light counter never goes below zero.
LEMMA CounterIsNatural ==
    ASSUME Table PROVE noLight \in Nat
BY LightlessFinite, FS_CardinalityType DEF Table

-----------------------------------------------------------------------------
(* What a step does to the data: one of five things.                       *)

\* A client takes slot s, or connects to it again.
Arrival(s) ==
    /\ slot' = Taken(s)
    /\ nextUid' = nextUid + 1
    /\ CallOnClientConnect(slot')

\* The mod takes the client with id i for gone.
Departure(i) == OnClientDisconnect(i) /\ UNCHANGED <<slot, nextUid>>

\* A frame or a loaded map comes to a client that has no row.
Listing(i) ==
    /\ slot[i].connected
    /\ ~IsClientOnTable(i)
    /\ AddPlayerToTable(slot, i)
    /\ UNCHANGED <<slot, nextUid, present>>

\* The engine frees slot s.
Freeing(s) ==
    /\ slot' = [slot EXCEPT ![s].connected = FALSE]
    /\ UNCHANGED <<nextUid, players, noLight, present>>

Nothing == UNCHANGED <<slot, nextUid, players, noLight, present>>

\* The innermost hook, and those it runs inside of.
LEMMA StackParts ==
    ASSUME CallsTyped, calls # <<>>
    PROVE  /\ call \in Call /\ Tail(calls) \in Seq(Call)
           /\ Range(calls) = {call} \cup Range(Tail(calls))
           /\ call.name \in {"reconnect", "drop"} => call.at \in Slots
           /\ call.name \in {"mapchange", "maploaded"} /\ call.at < MaxClients =>
                 call.at \in Slots
<1>1. /\ call \in Call /\ Tail(calls) \in Seq(Call)
      /\ Range(calls) = {call} \cup Range(Tail(calls))
  BY PopKeeps DEF CallsTyped, call
<1>2. call.at < MaxClients => call.at \in Slots
  BY <1>1, ClientTableAssumption DEF Call, Slots
<1> QED
  BY <1>1, <1>2 DEF CallsTyped

\* Every step does one of the five.
LEMMA StepKinds ==
    ASSUME CallsTyped, Step
    PROVE  \/ \E s \in Slots : Arrival(s) \/ Listing(s) \/ Freeing(s)
           \/ \E i : Departure(i)
           \/ Nothing
<1>1. CASE \E s \in Slots : Connect(s)
  BY <1>1 DEF Connect, Arrival
<1>2. CASE ReconnectResume
  <2>1. call.at \in Slots
    BY <1>2, StackParts DEF ReconnectResume, At
  <2> QED
    BY <1>2, <2>1 DEF ReconnectResume, Arrival
<1>3. CASE DropDone
  <2>1. call.at \in Slots
    BY <1>3, StackParts DEF DropDone, At
  <2> QED
    BY <1>3, <2>1 DEF DropDone, Freeing
<1>4. CASE ProcessClientsOnMapLoad
  <2>1. call.at \in Slots
    BY <1>4, StackParts DEF ProcessClientsOnMapLoad, At
  <2> QED
    BY <1>4, <2>1 DEF ProcessClientsOnMapLoad, Listing, Nothing
<1>5. CASE UpdatePlayers
  BY <1>5 DEF UpdatePlayers, Listing, Nothing, CallsTyped
<1>6. CASE OnServerChangeMap
  BY <1>6 DEF OnServerChangeMap, Departure, Nothing
<1>7. CASE \/ \E s \in Slots : Reconnect(s)
           \/ \E s \in Slots, again \in 0 .. 1 : Drop(s, again)
           \/ DropAgain
           \/ \E i \in Slots : KickClient(i)
  BY <1>7 DEF Reconnect, Drop, DropAgain, KickClient, CallOnClientDisconnect, Departure
<1>8. CASE ChangeMap \/ LoadMap \/ LoopDone
  BY <1>8 DEF ChangeMap, LoadMap, LoopDone, Nothing
<1> QED
  BY <1>1, <1>2, <1>3, <1>4, <1>5, <1>6, <1>7, <1>8 DEF Step, CallStep

\* A departure keeps what holds of table, slots and counter.
LEMMA DisconnectKeepsData ==
    ASSUME DataOK, NEW i, OnClientDisconnect(i), UNCHANGED <<slot, nextUid>>
    PROVE  DataOK' /\ RowsOf(players') \subseteq RowsOf(players)
<1>1. /\ Table'
      /\ \/ UNCHANGED <<players, noLight, present>>
         \/ \E k \in DOMAIN players :
               /\ RowsOf(players') = RowsOf(players) \ {players[k]}
               /\ Listed' = Listed \ {i}
               /\ present' = present \ {i}
  BY DisconnectKeepsTable DEF DataOK
<1>2. CASE UNCHANGED <<players, noLight, present>>
  BY <1>1, <1>2 DEF DataOK, PresentIsListed, Listed, Table
<1>3. CASE \E k \in DOMAIN players :
              /\ RowsOf(players') = RowsOf(players) \ {players[k]}
              /\ Listed' = Listed \ {i}
              /\ present' = present \ {i}
  <2>1. UserIdsOK(slot', nextUid', RowsOf(players'))
    BY <1>3 DEF DataOK, UserIdsOK
  <2>2. PresentIsListed'
    BY <1>3 DEF DataOK, PresentIsListed
  <2> QED
    BY <1>1, <1>3, <2>1, <2>2 DEF DataOK
<1> QED
  BY <1>1, <1>2, <1>3

\* An addition keeps what holds of table, slots and counter.
LEMMA AddKeepsData ==
    ASSUME DataOK, NEW i \in Slots,
           ~IsClientOnTable(i), AddPlayerToTable(slot, i),
           UNCHANGED <<slot, nextUid, present>>
    PROVE  DataOK'
<1>1. /\ Table'
      /\ \/ UNCHANGED <<players, noLight>>
         \/ /\ RowsOf(players') = RowsOf(players) \cup {NewPlayer(slot, i)}
            /\ Listed' = Listed \cup {i}
  BY AddKeepsTable DEF DataOK
<1>2. CASE UNCHANGED <<players, noLight>>
  BY <1>1, <1>2 DEF DataOK, PresentIsListed, Listed
<1>3. CASE /\ RowsOf(players') = RowsOf(players) \cup {NewPlayer(slot, i)}
           /\ Listed' = Listed \cup {i}
  <2>1. UserIdsOK(slot', nextUid', RowsOf(players'))
    BY <1>3, UserIdsAdd DEF DataOK
  <2> QED
    BY <1>1, <1>3, <2>1 DEF DataOK, PresentIsListed
<1> QED
  BY <1>1, <1>2, <1>3

\* A newcomer: a fresh user id for slot s, then callOnClientConnect.
LEMMA NewcomerKeepsData ==
    ASSUME DataOK, NEW s \in Slots, Arrival(s)
    PROVE  DataOK'
<1> USE DEF Arrival
<1>0. RowsOf(players) \in SUBSET Row
  BY LightlessFinite DEF DataOK, Table
<1>1. /\ slot' \in [Slots -> Slot]
      /\ nextUid' \in Nat \ {0}
      /\ UserIdsOK(slot', nextUid', RowsOf(players))
  <2>1. /\ slot \in [Slots -> Slot]
        /\ nextUid \in Nat \ {0}
        /\ UserIdsOK(slot, nextUid, RowsOf(players))
    BY DEF DataOK
  <2>2. nextUid' \in Nat \ {0}
    BY <2>1
  <2> QED
    BY <1>0, <2>1, <2>2, UserIdsFresh DEF Taken
<1>2. CASE UNCHANGED <<players, noLight, present>>
  <2>1. PresentIsListed'
    <3>1. nextUid' <= ByteSize => nextUid <= ByteSize
      BY ClientTableAssumption DEF DataOK
    <3> QED
      BY <1>2, <3>1 DEF DataOK, PresentIsListed, Listed
  <2>2. Table' /\ RowsOf(players') = RowsOf(players)
    BY <1>2 DEF DataOK, Table
  <2> QED
    BY <1>1, <1>2, <2>1, <2>2 DEF DataOK
<1>3. ASSUME NEW i \in Slots, ~IsClientOnTable(i),
             AddPlayerToTable(slot', i), present' = present \cup {i}
      PROVE  DataOK'
  <2>1. /\ Table'
        /\ \/ /\ IsClientOnTableByNFID(slot'[i].uid % ByteSize)
              /\ UNCHANGED <<players, noLight>>
           \/ /\ RowsOf(players') = RowsOf(players) \cup {NewPlayer(slot', i)}
              /\ Listed' = Listed \cup {i}
    BY <1>1, <1>3, AddKeepsTable DEF DataOK
  <2>2. CASE /\ IsClientOnTableByNFID(slot'[i].uid % ByteSize)
             /\ UNCHANGED <<players, noLight>>
    <3>1. nextUid' > ByteSize
      <4> SUFFICES ASSUME nextUid' <= ByteSize PROVE FALSE
        BY <1>1, ClientTableAssumption
      <4>1. slot'[i].uid \in Nat /\ slot'[i].uid < nextUid'
        BY <1>1 DEF UserIdsOK, Slot
      <4>2. slot'[i].uid % ByteSize = slot'[i].uid
        BY <1>1, <4>1, ClientTableAssumption
      <4>3. PICK k \in DOMAIN players :
               players[k].uid = slot'[i].uid /\ players[k].connected
        BY <2>2, <4>2 DEF IsClientOnTableByNFID
      <4>4. players[k].id = i
        BY <1>1, <4>3 DEF UserIdsOK, RowsOf
      <4> QED
        BY <1>3, <4>4 DEF IsClientOnTable
    <3>2. PresentIsListed'
      BY <1>1, <3>1, ClientTableAssumption DEF PresentIsListed
    <3>3. UserIdsOK(slot', nextUid', RowsOf(players'))
      BY <1>1, <2>2
    <3> QED
      BY <1>1, <1>3, <2>1, <3>2, <3>3 DEF DataOK
  <2>3. CASE /\ RowsOf(players') = RowsOf(players) \cup {NewPlayer(slot', i)}
             /\ Listed' = Listed \cup {i}
    <3>1. UserIdsOK(slot', nextUid', RowsOf(players) \cup {NewPlayer(slot', i)})
      BY <1>1, UserIdsAdd
    <3>2. nextUid' <= ByteSize => nextUid <= ByteSize
      BY <1>1, ClientTableAssumption DEF DataOK
    <3>3. PresentIsListed'
      BY <1>3, <2>3, <3>2 DEF DataOK, PresentIsListed
    <3> QED
      BY <1>1, <1>3, <2>1, <2>3, <3>1, <3>3 DEF DataOK
  <2> QED
    BY <2>1, <2>2, <2>3
<1> QED
  BY <1>2, <1>3 DEF CallOnClientConnect

\* A row is copied from the slot it is for, and only while this has no row.
RowsGrow ==
    \A r \in RowsOf(players') :
        r \in RowsOf(players) \/ \E i \in Slots \ Listed : r = NewPlayer(slot', i)

\* A slot keeps its client, or is given the next user id.
SlotsKeep ==
    /\ nextUid' >= nextUid
    /\ \A s \in Slots :
          \/ /\ slot'[s].uid = slot[s].uid /\ slot'[s].light = slot[s].light
             /\ slot'[s].connected => slot[s].connected
          \/ slot'[s].uid = nextUid

\* Adding a row leaves the rows there are where they were.
LEMMA AddGrows ==
    ASSUME Table, NEW i \in Slots, slot' \in [Slots -> Slot],
           \/ UNCHANGED <<players, noLight>>
           \/ ~IsClientOnTable(i) /\ AddPlayerToTable(slot', i)
    PROVE  RowsGrow
<1>1. CASE UNCHANGED <<players, noLight>>
  BY <1>1 DEF RowsGrow
<1>2. CASE ~IsClientOnTable(i) /\ AddPlayerToTable(slot', i)
  <2>1. RowsOf(players') \subseteq RowsOf(players) \cup {NewPlayer(slot', i)}
    BY <1>2, AddKeepsTable
  <2>2. i \notin Listed
    BY <1>2, TableViews
  <2> QED
    BY <2>1, <2>2 DEF RowsGrow
<1> QED
  BY <1>1, <1>2

\* A newcomer's row has a user id that no row had.
LEMMA NewcomerGrows ==
    ASSUME DataOK, NEW s \in Slots, Arrival(s)
    PROVE  RowsGrow /\ SlotsKeep
<1>1. slot' \in [Slots -> Slot] /\ Table
  BY DEF DataOK, Slot, Arrival, Taken
<1>2. SlotsKeep
  BY DEF DataOK, SlotsKeep, Arrival, Taken
<1>3. CASE UNCHANGED <<players, noLight, present>>
  BY <1>2, <1>3 DEF RowsGrow
<1>4. ASSUME NEW i \in Slots, ~IsClientOnTable(i), AddPlayerToTable(slot', i)
      PROVE  RowsGrow
  BY <1>1, <1>4, AddGrows
<1> QED
  BY <1>2, <1>3, <1>4 DEF Arrival, CallOnClientConnect

\* A handler that leaves the data alone keeps what holds of it.
LEMMA SameData ==
    ASSUME DataOK, Nothing
    PROVE  DataOK' /\ RowsOf(players') = RowsOf(players)
BY DEF DataOK, Nothing, Table, PresentIsListed, Listed

\* A slot that is freed keeps its user id.
LEMMA FreeingKeepsData ==
    ASSUME DataOK, NEW s \in Slots, Freeing(s)
    PROVE  /\ DataOK' /\ RowsOf(players') = RowsOf(players)
           /\ \A t \in Slots : /\ slot'[t].uid = slot[t].uid /\ slot'[t].light = slot[t].light
                               /\ slot'[t].connected <=> (t # s /\ slot[t].connected)
<1>1. slot \in [Slots -> Slot]
  BY DEF DataOK
<1>2. /\ slot' \in [Slots -> Slot]
      /\ \A t \in Slots : /\ slot'[t].uid = slot[t].uid /\ slot'[t].light = slot[t].light
                          /\ slot'[t].connected <=> (t # s /\ slot[t].connected)
  BY <1>1 DEF Slot, Freeing
<1>3. UserIdsOK(slot', nextUid', RowsOf(players'))
  BY <1>2 DEF DataOK, UserIdsOK, Freeing
<1>4. DataOK' /\ RowsOf(players') = RowsOf(players)
  BY <1>2, <1>3 DEF DataOK, Table, PresentIsListed, Listed, Freeing
<1> QED
  BY <1>2, <1>4

\* What every step keeps, and what it may do to rows and slots.
LEMMA StepKeeps ==
    ASSUME DataOK, CallsTyped, Step
    PROVE  DataOK' /\ RowsGrow /\ SlotsKeep
<1>0. slot \in [Slots -> Slot] /\ nextUid \in Nat \ {0} /\ Table
  BY DEF DataOK
<1>1. ASSUME NEW s \in Slots, Arrival(s) PROVE DataOK' /\ RowsGrow /\ SlotsKeep
  BY <1>1, NewcomerKeepsData, NewcomerGrows
<1>2. ASSUME NEW s \in Slots, Listing(s) PROVE DataOK' /\ RowsGrow /\ SlotsKeep
  <2>1. DataOK'
    BY <1>2, AddKeepsData DEF Listing
  <2>2. RowsGrow
    BY <1>0, <1>2, AddGrows DEF Listing
  <2>3. SlotsKeep
    BY <1>0, <1>2 DEF Listing, SlotsKeep
  <2> QED
    BY <2>1, <2>2, <2>3
<1>3. ASSUME NEW s \in Slots, Freeing(s) PROVE DataOK' /\ RowsGrow /\ SlotsKeep
  <2>1. /\ DataOK' /\ RowsOf(players') = RowsOf(players)
        /\ \A t \in Slots : /\ slot'[t].uid = slot[t].uid /\ slot'[t].light = slot[t].light
                            /\ slot'[t].connected => slot[t].connected
    BY <1>3, FreeingKeepsData
  <2> QED
    BY <1>0, <1>3, <2>1 DEF RowsGrow, SlotsKeep, Freeing
<1>4. ASSUME NEW i, Departure(i) PROVE DataOK' /\ RowsGrow /\ SlotsKeep
  <2>1. DataOK' /\ RowsOf(players') \subseteq RowsOf(players)
    BY <1>4, DisconnectKeepsData DEF Departure
  <2> QED
    BY <1>0, <1>4, <2>1 DEF RowsGrow, SlotsKeep, Departure
<1>5. CASE Nothing
  <2>1. DataOK' /\ RowsOf(players') = RowsOf(players)
    BY <1>5, SameData
  <2> QED
    BY <1>0, <1>5, <2>1 DEF RowsGrow, SlotsKeep, Nothing
<1> QED
  BY <1>1, <1>2, <1>3, <1>4, <1>5, StepKinds

-----------------------------------------------------------------------------
(* What a step does to the hooks at work.                                  *)

\* A hook begins, or the innermost goes on.
Pushed(c) ==
    \/ ScriptRuns /\ calls' = <<c>> \o calls
    \/ calls # <<>> /\ calls' = <<c>> \o Tail(calls)

\* The frame of such a hook.
NewFrame(c) ==
    /\ c \in Call
    /\ c.name \in {"reconnect", "drop"} => c.at \in Slots
    /\ c.name = "drop" =>
          \/ slot[c.at].connected /\ CallOnClientDisconnect(c.at)
          \/ \E d \in Range(calls) : d.name = "drop" /\ d.at = c.at
    /\ c.name = "mapchange" => c.at = 0 \/ OnServerChangeMap
    /\ c.name = "maploaded" => c.at = 0 \/ ProcessClientsOnMapLoad

StackMoves ==
    \/ calls' = calls /\ (ScriptRuns \/ Idle)
    \/ calls # <<>> /\ calls' = Tail(calls)
    \/ \E c : NewFrame(c) /\ Pushed(c)

\* Every step leaves the stack alone, or begins a hook, or moves the innermost on,
\* or ends it.
LEMMA StepMoves ==
    ASSUME IInv, Step
    PROVE  StackMoves /\ think' \in Slots
<1>0. /\ DataOK /\ CallsTyped /\ think \in Slots
      /\ slot \in [Slots -> Slot] /\ MaxClients \in Nat \ {0}
      /\ \A s \in Slots : slot[s].connected => slot[s].uid # 0
  BY ClientTableAssumption DEF IInv, DataOK, CallsTyped, UserIdsOK
<1>1. CASE \/ \E s \in Slots : Connect(s)
           \/ \E i \in Slots : KickClient(i)
  BY <1>0, <1>1 DEF Connect, KickClient, StackMoves
<1>2. CASE UpdatePlayers
  BY <1>0, <1>2 DEF UpdatePlayers, StackMoves, Slots
<1>3. ASSUME NEW s \in Slots, Reconnect(s) PROVE StackMoves /\ think' \in Slots
  <2>1. PICK l \in 0 .. 1 : Begin("reconnect", s, l) /\ think' = think
    BY <1>3 DEF Reconnect
  <2> DEFINE c == [name |-> "reconnect", at |-> s, left |-> l]
  <2>2. NewFrame(c)
    BY <1>0 DEF NewFrame, Call, Slots
  <2>3. Pushed(c)
    BY <2>1 DEF Begin, Pushed
  <2> QED
    BY <1>0, <2>1, <2>2, <2>3 DEF StackMoves
<1>4. ASSUME NEW s \in Slots, NEW again \in 0 .. 1, Drop(s, again)
      PROVE  StackMoves /\ think' \in Slots
  <2> DEFINE c == [name |-> "drop", at |-> s, left |-> again]
  <2>1. slot[s].connected /\ CallOnClientDisconnect(s) /\ Begin("drop", s, again)
    BY <1>4 DEF Drop
  <2>2. NewFrame(c)
    BY <1>0, <2>1 DEF NewFrame, Call, Slots
  <2>3. Pushed(c)
    BY <2>1 DEF Begin, Pushed
  <2> QED
    BY <1>0, <2>1, <2>2, <2>3 DEF StackMoves, CallOnClientDisconnect
<1>5. CASE DropAgain
  <2> DEFINE c == [call EXCEPT !.left = 0]
  <2>1. calls # <<>> /\ call.name = "drop" /\ calls' = <<c>> \o Tail(calls)
        /\ think' = think
    BY <1>5 DEF DropAgain, At, Advance, CallOnClientDisconnect
  <2>2. call \in Call /\ call \in Range(calls) /\ call.at \in Slots
    BY <1>0, <2>1, StackParts
  <2>3. c \in Call /\ c.name = "drop" /\ c.at = call.at
    BY <2>1, <2>2 DEF Call
  <2>4. NewFrame(c)
    BY <2>1, <2>2, <2>3 DEF NewFrame
  <2>5. Pushed(c)
    BY <2>1 DEF Pushed
  <2> QED
    BY <1>0, <2>1, <2>4, <2>5 DEF StackMoves
<1>6. ASSUME NEW name \in {"mapchange", "maploaded"}, Begin(name, 0, 0), think' = think
      PROVE  StackMoves /\ think' \in Slots
  <2> DEFINE c == [name |-> name, at |-> 0, left |-> 0]
  <2>1. NewFrame(c)
    BY <1>0 DEF NewFrame, Call
  <2>2. Pushed(c)
    BY <1>6 DEF Begin, Pushed
  <2> QED
    BY <1>0, <1>6, <2>1, <2>2 DEF StackMoves
<1>7. CASE OnServerChangeMap
  <2>1. calls # <<>> /\ call.name = "mapchange"
    BY <1>7 DEF OnServerChangeMap, At
  <2>2. call \in Call
    BY <1>0, <2>1, StackParts
  <2>3. PICK n \in 0 .. MaxClients :
           calls' = <<[call EXCEPT !.at = n]>> \o Tail(calls) /\ think' = think
    <3>1. \A i \in call.at .. MaxClients - 1 : i + 1 \in 0 .. MaxClients
      BY <1>0, <2>2 DEF Call
    <3> QED
      BY <1>0, <1>7, <3>1 DEF OnServerChangeMap, Advance
  <2> DEFINE c == [call EXCEPT !.at = n]
  <2>4. c \in Call /\ c.name = "mapchange"
    BY <2>1, <2>2 DEF Call
  <2>5. NewFrame(c)
    BY <1>7, <2>4 DEF NewFrame
  <2>6. Pushed(c)
    BY <2>1, <2>3 DEF Pushed
  <2> QED
    BY <1>0, <2>3, <2>5, <2>6 DEF StackMoves
<1>8. CASE ProcessClientsOnMapLoad
  <2> DEFINE c == [call EXCEPT !.at = call.at + 1]
  <2>1. calls # <<>> /\ call.name = "maploaded" /\ calls' = <<c>> \o Tail(calls)
        /\ call.at < MaxClients /\ think' = think
    BY <1>8 DEF ProcessClientsOnMapLoad, At, Advance
  <2>2. call \in Call
    BY <1>0, <2>1, StackParts
  <2>3. c \in Call /\ c.name = "maploaded"
    BY <1>0, <2>1, <2>2 DEF Call
  <2>4. NewFrame(c)
    BY <1>8, <2>3 DEF NewFrame
  <2>5. Pushed(c)
    BY <2>1 DEF Pushed
  <2> QED
    BY <1>0, <2>1, <2>4, <2>5 DEF StackMoves
<1>9. CASE ReconnectResume \/ DropDone \/ LoopDone
  BY <1>0, <1>9 DEF ReconnectResume, DropDone, LoopDone, At, Return, StackMoves
<1> QED
  BY <1>1, <1>2, <1>3, <1>4, <1>5, <1>6, <1>7, <1>8, <1>9
     DEF Step, CallStep, ChangeMap, LoadMap

\* A hook that begins or goes on joins those it runs inside of.
LEMMA PushedParts ==
    ASSUME CallsTyped, NEW c \in Call, Pushed(c)
    PROVE  /\ calls' \in Seq(Call) /\ calls' # <<>> /\ Head(calls') = c
           /\ Range(calls') = {c} \cup Range(Tail(calls'))
           /\ Range(Tail(calls')) \subseteq Range(calls)
           /\ \A d \in Range(Tail(calls')) : Waits(d)
<1>1. ASSUME NEW t \in Seq(Call), calls' = <<c>> \o t
      PROVE  /\ calls' \in Seq(Call) /\ calls' # <<>> /\ Head(calls') = c
             /\ Tail(calls') = t /\ Range(calls') = {c} \cup Range(t)
  <2> DEFINE u == <<c>> \o t
  <2>1. u \in Seq(Call) /\ Len(u) = 1 + Len(t) /\ Len(t) \in Nat /\ Tail(u) = t
    BY PushLength
  <2>2. Range(u) = {c} \cup Range(t)
    BY PushKeeps
  <2>3. 1 \in DOMAIN u /\ u[1] = c
    BY PushShifts
  <2> HIDE DEF u
  <2>4. u # <<>> /\ Head(u) = u[1]
    BY <2>1
  <2> QED
    BY <1>1, <2>1, <2>2, <2>3, <2>4 DEF u
<1>2. CASE ScriptRuns /\ calls' = <<c>> \o calls
  <2>1. /\ calls' \in Seq(Call) /\ calls' # <<>> /\ Head(calls') = c
        /\ Tail(calls') = calls /\ Range(calls') = {c} \cup Range(calls)
    BY <1>1, <1>2 DEF CallsTyped
  <2>2. ASSUME NEW d \in Range(calls) PROVE Waits(d)
    <3>1. calls # <<>>
      <4>1. Range(<<>>) = {}
        BY DEF Range
      <4> QED
        BY <4>1
    <3> QED
      BY <1>2, <3>1, StackParts DEF ScriptRuns, Idle, CallsTyped
  <2> QED
    BY <2>1, <2>2
<1>3. CASE calls # <<>> /\ calls' = <<c>> \o Tail(calls)
  <2>1. Tail(calls) \in Seq(Call) /\ Range(Tail(calls)) \subseteq Range(calls)
    BY <1>3, StackParts
  <2>2. /\ calls' \in Seq(Call) /\ calls' # <<>> /\ Head(calls') = c
        /\ Tail(calls') = Tail(calls) /\ Range(calls') = {c} \cup Range(Tail(calls))
    BY <1>1, <1>3, <2>1
  <2> QED
    BY <1>3, <2>1, <2>2 DEF CallsTyped
<1> QED
  BY <1>2, <1>3 DEF Pushed

\* The frames after a step: those there were, and the new one.
LEMMA FramesAfter ==
    ASSUME CallsTyped, StackMoves, NEW c \in Range(calls')
    PROVE  c \in Range(calls) \/ NewFrame(c)
<1>1. CASE calls' = calls
  BY <1>1
<1>2. CASE calls # <<>> /\ calls' = Tail(calls)
  BY <1>2, StackParts
<1>3. ASSUME NEW d, NewFrame(d), Pushed(d) PROVE c \in Range(calls) \/ NewFrame(c)
  <2>1. d \in Call
    BY <1>3 DEF NewFrame
  <2> QED
    BY <1>3, <2>1, PushedParts
<1> QED
  BY <1>1, <1>2, <1>3 DEF StackMoves

\* The stack keeps its type.
LEMMA MovesKeepTyped ==
    ASSUME CallsTyped, StackMoves, think' \in Slots, anew' \in SUBSET Slots
    PROVE  CallsTyped'
<1>1. \A c \in Range(calls') : c.name \in {"reconnect", "drop"} => c.at \in Slots
  BY FramesAfter DEF NewFrame, CallsTyped
<1>2. calls' \in Seq(Call) /\ (calls' # <<>> => \A c \in Range(Tail(calls')) : Waits(c))
  <2>1. CASE calls' = calls
    BY <2>1 DEF CallsTyped
  <2>2. CASE calls # <<>> /\ calls' = Tail(calls)
    <3>1. calls' \in Seq(Call) /\ \A c \in Range(calls') : Waits(c)
      BY <2>2, StackParts DEF CallsTyped
    <3>2. calls' # <<>> => Range(Tail(calls')) \subseteq Range(calls')
      BY <3>1, PopKeeps
    <3> QED
      BY <3>1, <3>2
  <2>3. ASSUME NEW d, NewFrame(d), Pushed(d)
        PROVE  calls' \in Seq(Call) /\ \A c \in Range(Tail(calls')) : Waits(c)
    <3>1. d \in Call
      BY <2>3 DEF NewFrame
    <3> QED
      BY <2>3, <3>1, PushedParts
  <2> QED
    BY <2>1, <2>2, <2>3 DEF StackMoves
<1> QED
  BY <1>1, <1>2 DEF CallsTyped

-----------------------------------------------------------------------------
(* The invariant is inductive.                                             *)

\* An empty server satisfies the invariant.
LEMMA InitIInv == Init => IInv /\ RowsOf(players) = {}
<1> SUFFICES ASSUME Init PROVE IInv /\ RowsOf(players) = {}
  OBVIOUS
<1> USE DEF Init
<1>1. slot \in [Slots -> Slot]
  BY DEF Slot
<1>2. RowsOf(players) = {}
  BY DEF RowsOf
<1>3. Table
  <2>1. LightlessOf(RowsOf(players)) = {}
    BY <1>2 DEF LightlessOf
  <2>2. Cardinality(LightlessOf(RowsOf(players))) = 0
    BY <2>1, FS_EmptySet
  <2> QED
    BY <2>2 DEF Table, Unique
<1>4. UserIdsOK(slot, nextUid, RowsOf(players))
  BY <1>2 DEF UserIdsOK
<1>5. DataOK
  BY <1>1, <1>3, <1>4 DEF DataOK, PresentIsListed
<1>6. Range(calls) = {}
  BY DEF Range
<1>7. CallsTyped /\ DropsOK
  BY <1>6, ClientTableAssumption DEF CallsTyped, DropsOK, Slots
<1> QED
  BY <1>2, <1>5, <1>7 DEF IInv


\* The last hook of a drop forgets the client: its user id leads to its row,
\* or to none, and a row it leads to is taken out.
LEMMA DropForgets ==
    ASSUME IInv, NEW s \in Slots, slot[s].connected,
           OnClientDisconnect(GetInternalIDFromNFID(slot[s].uid))
    PROVE  \A r \in RowsOf(players') : r.uid # slot[s].uid
<1> DEFINE u == slot[s].uid
           i == GetInternalIDFromNFID(u)
<1>1. Table /\ slot \in [Slots -> Slot]
  BY DEF IInv, DataOK
<1>2. \A r \in RowsOf(players) : r.uid = u => r.id = s
  BY DEF IInv, DataOK, UserIdsOK
<1>3. (\E r \in RowsOf(players) : r.uid = u) => i = s
  BY <1>1, <1>2, LookupResolves
<1> HIDE DEF i
<1>4. OnClientDisconnect(i)
  BY DEF i
<1>5. CASE \A r \in RowsOf(players) : r.uid # u
  <2>1. RowsOf(players') \subseteq RowsOf(players)
    BY <1>1, <1>4, DisconnectKeepsTable
  <2> QED
    BY <1>5, <2>1
<1>6. CASE \E r \in RowsOf(players) : r.uid = u
  <2>1. i = s /\ s \in IdsOf(RowsOf(players))
    BY <1>2, <1>3, <1>6 DEF IdsOf
  <2>2. IsClientOnTable(s)
    BY <2>1, TableViews
  <2>3. Listed' = Listed \ {s}
    BY <1>1, <1>4, <2>1, <2>2, DisconnectKeepsTable
  <2>4. RowsOf(players') \subseteq RowsOf(players)
    BY <1>1, <1>4, DisconnectKeepsTable
  <2>5. Listed' = IdsOf(RowsOf(players'))
    BY DEF Listed, IdsOf, RowsOf
  <2> QED
    BY <1>2, <2>3, <2>4, <2>5 DEF IdsOf
<1> QED
  BY <1>5, <1>6

\* No call is being handled, or none is left: nothing is asked of it.
\* The history knows of every slot that is listed, or given away, while a hook is at
\* work; it forgets those that leave the table again.
LEMMA HistoryKnows ==
    ASSUME Remember, calls' # <<>>, NEW s \in Slots, s \notin anew'
    PROVE  \/ s \in Listed /\ s \notin Listed'
           \/ /\ s \notin anew /\ slot'[s].uid = slot[s].uid
              /\ s \in Listed' => s \in Listed
BY DEF Remember

\* A drop whose hooks have run stays without a row of the client, or the history
\* knows better.
LEMMA StepKeepsDrops ==
    ASSUME IInv, Step, Remember, DataOK', RowsGrow, SlotsKeep, StackMoves
    PROVE  DropsOK'
<1> SUFFICES ASSUME NEW c \in Range(calls'), c.name = "drop"
             PROVE  /\ slot'[c.at].uid # 0
                    /\ c.at \notin anew' =>
                          \A r \in RowsOf(players') : r.uid # slot'[c.at].uid
  BY DEF DropsOK
<1>0. /\ CallsTyped /\ DataOK /\ nextUid \in Nat \ {0}
      /\ UserIdsOK(slot', nextUid', RowsOf(players'))
      /\ Listed' = IdsOf(RowsOf(players'))
  <2>1. Listed' = IdsOf(RowsOf(players'))
    BY DEF Listed, IdsOf, RowsOf
  <2> QED
    BY <2>1 DEF IInv, DataOK
<1>1. ASSUME NEW d \in Range(calls), d.name = "drop", d.at = c.at
      PROVE  /\ slot'[c.at].uid # 0
             /\ c.at \notin anew' => \A r \in RowsOf(players') : r.uid # slot'[c.at].uid
  <2>1. /\ c.at \in Slots /\ slot[c.at].uid # 0
        /\ c.at \notin anew => \A r \in RowsOf(players) : r.uid # slot[c.at].uid
    BY <1>0, <1>1 DEF IInv, CallsTyped, DropsOK
  <2>2. slot'[c.at].uid # 0
    BY <1>0, <2>1 DEF SlotsKeep
  <2>3. ASSUME c.at \notin anew',
               NEW r \in RowsOf(players'), r.uid = slot'[c.at].uid
        PROVE  FALSE
    <3>1. r.id = c.at /\ c.at \in Listed'
      BY <1>0, <2>1, <2>2, <2>3 DEF UserIdsOK, IdsOf
    <3>2. calls' # <<>>
      <4>1. Range(<<>>) = {}
        BY DEF Range
      <4> QED
        BY <4>1
    <3>3. c.at \notin anew /\ slot'[c.at].uid = slot[c.at].uid /\ c.at \in Listed
      BY <2>1, <2>3, <3>1, <3>2, HistoryKnows
    <3>4. r \in RowsOf(players)
      BY <3>1, <3>3 DEF RowsGrow, NewPlayer
    <3> QED
      BY <2>1, <2>3, <3>3, <3>4
  <2> QED
    BY <2>2, <2>3
<1>2. ASSUME c.at \in Slots, slot[c.at].connected, CallOnClientDisconnect(c.at)
      PROVE  /\ slot'[c.at].uid # 0
             /\ \A r \in RowsOf(players') : r.uid # slot'[c.at].uid
  <2>1. slot' = slot /\ OnClientDisconnect(GetInternalIDFromNFID(slot[c.at].uid))
    BY <1>2 DEF CallOnClientDisconnect
  <2>2. slot[c.at].uid # 0
    BY <1>2 DEF IInv, DataOK, UserIdsOK
  <2>3. \A r \in RowsOf(players') : r.uid # slot[c.at].uid
    BY <1>2, <2>1, DropForgets
  <2> QED
    BY <2>1, <2>2, <2>3
<1>3. c \in Range(calls) \/ NewFrame(c)
  BY <1>0, FramesAfter
<1> QED
  BY <1>1, <1>2, <1>3 DEF NewFrame

\* The invariant is inductive: whatever step comes next keeps it.
LEMMA NextIInv == IInv /\ [Next]_vars => IInv'
<1> SUFFICES ASSUME IInv, [Next]_vars PROVE IInv'
  OBVIOUS
<1>1. CASE Next
  <2>1. Step /\ Remember /\ DataOK /\ CallsTyped
    BY <1>1 DEF Next, IInv
  <2>2. DataOK' /\ RowsGrow /\ SlotsKeep
    BY <2>1, StepKeeps
  <2>3. StackMoves /\ think' \in Slots
    BY <2>1, StepMoves
  <2>4. anew' \in SUBSET Slots
    <3>1. Listed' = IdsOf(RowsOf(players'))
      BY DEF Listed, IdsOf, RowsOf
    <3>2. Listed' \subseteq Slots
      BY <2>2, <3>1, LightlessFinite DEF DataOK, Table
    <3> QED
      BY <2>1, <3>2 DEF Remember, CallsTyped
  <2>5. CallsTyped'
    BY <2>1, <2>3, <2>4, MovesKeepTyped
  <2>6. DropsOK'
    BY <2>1, <2>2, <2>3, StepKeepsDrops
  <2> QED
    BY <2>2, <2>5, <2>6 DEF IInv
<1>2. CASE UNCHANGED vars
  <2>1. UNCHANGED <<slot, nextUid, players, noLight, calls, think, present, anew>>
    BY <1>2 DEF vars, steps
  <2>2. DataOK' /\ RowsOf(players') = RowsOf(players)
    BY <2>1, SameData DEF IInv, Nothing
  <2> QED
    BY <2>1, <2>2 DEF IInv, CallsTyped, DropsOK
<1> QED
  BY <1>1, <1>2

\* It therefore holds all along.
LEMMA Inductive == Spec => []IInv
<1>1. Init => IInv
  BY InitIInv
<1> QED
  BY <1>1, NextIInv, PTL DEF Spec

-----------------------------------------------------------------------------
(* The theorems.                                                           *)

\* The handlers keep every variable's type; in particular the counter of
\* clients without dynamic lights, which OnClientDisconnect decrements without
\* looking, never goes below zero.
THEOREM TypeCorrect == Spec => []TypeOK
<1>1. ASSUME IInv PROVE TypeOK
  <2>1. noLight \in Nat
    BY <1>1, CounterIsNatural DEF IInv, DataOK
  <2>2. \A k \in DOMAIN calls : calls[k] \in Range(calls)
    BY DEF Range
  <2> QED
    BY <1>1, <2>1, <2>2 DEF IInv, DataOK, Table, CallsTyped, TypeOK
<1> QED
  BY <1>1, Inductive, PTL

\* No order of connections, drops, kicks, map changes and frames gives a
\* client id two rows.
THEOREM RowsAreUnique == Spec => []UniqueIds
<1>1. IInv => UniqueIds
  BY TableViews DEF IInv, DataOK, Table
<1> QED
  BY <1>1, Inductive, PTL

\* NumPlayersWithoutDynamicLightSupport counts exactly the listed clients
\* without dynamic lights.
THEOREM CounterIsExact == Spec => []LightCounterExact
<1>1. IInv => LightCounterExact
  BY TableViews DEF IInv, DataOK, Table, LightCounterExact
<1> QED
  BY <1>1, Inductive, PTL

\* GetInternalIDFromNFID never leads from a client's user id to another
\* client.
THEOREM UserIdsLeadHome == Spec => []UserIdsResolve
<1>1. ASSUME IInv PROVE UserIdsResolve
  <2> SUFFICES ASSUME NEW s \in Slots, slot[s].uid # 0
               PROVE  GetInternalIDFromNFID(slot[s].uid) \in {s, INVALID_USERID}
    BY DEF UserIdsResolve
  <2>1. \A r \in RowsOf(players) : r.uid = slot[s].uid => r.id = s
    BY <1>1 DEF IInv, DataOK, UserIdsOK
  <2> QED
    BY <1>1, <2>1, LookupResolves DEF IInv, DataOK
<1> QED
  BY <1>1, Inductive, PTL

\* Until user ids outgrow a byte, every client announced to the gamemode and
\* not taken back has a row.
THEOREM AnnouncedAreListed == Spec => []PresentIsListed
<1>1. IInv => PresentIsListed
  BY DEF IInv, DataOK
<1> QED
  BY <1>1, Inductive, PTL

\* The step that frees a slot leaves no row with the client's user id: the hooks
\* of the drop have seen to it, whatever ran between them, and only a hook that ran
\* inside the drop has listed the slot again or given it away.
THEOREM DropsForget == Spec => DropForgetsUser
<1> DEFINE Forgets ==
      \A s \in Slots \ anew :
         slot[s].connected /\ ~slot'[s].connected =>
            \A k \in DOMAIN players' : players'[k].uid # slot[s].uid
<1>1. ASSUME IInv, Next PROVE Forgets
  <2> SUFFICES ASSUME NEW s \in Slots \ anew,
                      slot[s].connected, ~slot'[s].connected
               PROVE  \A k \in DOMAIN players' : players'[k].uid # slot[s].uid
    OBVIOUS
  <2>1. slot \in [Slots -> Slot] /\ CallsTyped
    BY <1>1 DEF IInv, DataOK
  <2>2. CASE DropDone
    <3>1. /\ call \in Range(calls) /\ call.name = "drop" /\ call.at \in Slots
          /\ players' = players
          /\ slot' = [slot EXCEPT ![call.at].connected = FALSE]
      BY <2>1, <2>2, StackParts DEF DropDone, At
    <3>2. call.at = s
      BY <2>1, <3>1
    <3> QED
      BY <1>1, <3>1, <3>2 DEF IInv, DropsOK, RowsOf
  <2>3. ASSUME NEW t \in Slots, slot' = Taken(t)
        PROVE  FALSE
    BY <2>1, <2>3 DEF Taken
  <2>4. ASSUME NEW t \in Slots, Connect(t)
        PROVE  FALSE
    BY <2>3, <2>4 DEF Connect
  <2>5. ASSUME ReconnectResume
        PROVE  FALSE
    <3>1. call.at \in Slots
      BY <2>1, <2>5, StackParts DEF ReconnectResume, At
    <3> QED
      BY <2>3, <2>5, <3>1 DEF ReconnectResume
  <2>6. slot' # slot
    BY <2>1
  <2> QED
    BY <1>1, <2>2, <2>4, <2>5, <2>6
       DEF Next, Step, CallStep, Reconnect, Drop, DropAgain, CallOnClientDisconnect,
           ChangeMap, OnServerChangeMap, LoadMap, ProcessClientsOnMapLoad, LoopDone,
           UpdatePlayers, KickClient
<1>2. IInv /\ [Next]_vars => [Forgets]_vars
  BY <1>1
<1>3. Spec => [][Forgets]_vars
  BY <1>2, Inductive, PTL DEF Spec
<1> QED
  BY <1>3 DEF DropForgetsUser

-----------------------------------------------------------------------------
(* The table implements the roster.                                        *)

\* AddPlayerToTable admits a client, or does nothing.
LEMMA AddRefines ==
    ASSUME Table, NEW clients \in [Slots -> Slot], NEW i \in Slots,
           ~IsClientOnTable(i), AddPlayerToTable(clients, i),
           present' \in {present, present \cup {i}}
    PROVE  RosterOf!Next \/ UNCHANGED RosterOf!vars
<1>1. i \notin Listed /\ clients[i].light \in BOOLEAN
  BY TableViews DEF Slot
<1>2. \/ UNCHANGED <<players, noLight>>
      \/ /\ Listed' = Listed \cup {i}
         /\ Lightless' = IF clients[i].light
                         THEN Lightless ELSE Lightless \cup {i}
         /\ noLight' = IF clients[i].light THEN noLight ELSE noLight + 1
  BY AddKeepsTable
<1>3. CASE UNCHANGED <<players, noLight>>
  <2>1. UNCHANGED <<Listed, Lightless, noLight>>
    BY <1>3 DEF Listed, Lightless
  <2>2. CASE present' = present
    BY <2>1, <2>2 DEF RosterOf!vars
  <2>3. CASE present' = present \cup {i}
    <3>1. RosterOf!Refuse(i)
      BY <1>1, <2>1, <2>3 DEF RosterOf!Refuse
    <3> QED
      BY <3>1 DEF RosterOf!Next
  <2> QED
    BY <2>2, <2>3
<1>4. CASE /\ Listed' = Listed \cup {i}
           /\ Lightless' = IF clients[i].light
                           THEN Lightless ELSE Lightless \cup {i}
           /\ noLight' = IF clients[i].light THEN noLight ELSE noLight + 1
  <2>1. RosterOf!Admit(i, clients[i].light)
    BY <1>1, <1>4 DEF RosterOf!Admit
  <2> QED
    BY <1>1, <2>1 DEF RosterOf!Next
<1> QED
  BY <1>2, <1>3, <1>4

\* OnClientDisconnect dismisses a client, or does nothing.
LEMMA DisconnectRefines ==
    ASSUME Table, slot \in [Slots -> Slot], NEW i, OnClientDisconnect(i)
    PROVE  RosterOf!Next \/ UNCHANGED RosterOf!vars
<1>1. CASE ~(IsClientOnTable(i) /\ slot[i].connected)
  <2>1. UNCHANGED <<players, noLight, present>>
    BY <1>1 DEF OnClientDisconnect
  <2> QED
    BY <2>1 DEF RosterOf!vars, Listed, Lightless
<1>2. CASE IsClientOnTable(i) /\ slot[i].connected
  <2>1. /\ i \in Slots
        /\ Listed' = Listed \ {i}
        /\ Lightless' = Lightless \ {i}
        /\ noLight' = noLight - (IF i \in Lightless THEN 1 ELSE 0)
        /\ present' = present \ {i}
    BY <1>2, DisconnectKeepsTable
  <2>2. i \in Listed
    BY <1>2, TableViews
  <2>3. RosterOf!Dismiss(i)
    BY <2>1, <2>2 DEF RosterOf!Dismiss
  <2> QED
    BY <2>1, <2>3 DEF RosterOf!Next
<1> QED
  BY <1>1, <1>2

\* callOnClientConnect admits or refuses a client, or does nothing.
LEMMA ConnectRefines ==
    ASSUME Table, NEW clients \in [Slots -> Slot], CallOnClientConnect(clients)
    PROVE  RosterOf!Next \/ UNCHANGED RosterOf!vars
<1>1. CASE UNCHANGED <<players, noLight, present>>
  BY <1>1 DEF RosterOf!vars, Listed, Lightless
<1>2. ASSUME NEW i \in Slots, ~IsClientOnTable(i),
             AddPlayerToTable(clients, i), present' = present \cup {i}
      PROVE  RosterOf!Next \/ UNCHANGED RosterOf!vars
  BY <1>2, AddRefines
<1> QED
  BY <1>1, <1>2 DEF CallOnClientConnect

\* Every behaviour of the table is one of the roster.
THEOREM TableImplementsRoster == Spec => ImplementsRoster
<1>1. Init => RosterOf!Init
  BY DEF Init, RosterOf!Init, Listed, Lightless
<1>2. ASSUME IInv, Next
      PROVE  RosterOf!Next \/ UNCHANGED RosterOf!vars
  <2>1. /\ Table /\ slot \in [Slots -> Slot] /\ slot' \in [Slots -> Slot]
        /\ CallsTyped /\ Step
    BY <1>2, NextIInv DEF IInv, DataOK, Next
  <2>2. CASE UNCHANGED <<players, noLight, present>>
    BY <2>2 DEF RosterOf!vars, Listed, Lightless
  <2>3. ASSUME NEW s \in Slots, Arrival(s)
        PROVE  RosterOf!Next \/ UNCHANGED RosterOf!vars
    BY <2>1, <2>3, ConnectRefines DEF Arrival
  <2>4. ASSUME NEW s \in Slots, Listing(s)
        PROVE  RosterOf!Next \/ UNCHANGED RosterOf!vars
    BY <2>1, <2>4, AddRefines DEF Listing
  <2>5. ASSUME NEW i, Departure(i)
        PROVE  RosterOf!Next \/ UNCHANGED RosterOf!vars
    BY <2>1, <2>5, DisconnectRefines DEF Departure
  <2> QED
    BY <2>1, <2>2, <2>3, <2>4, <2>5, StepKinds DEF Freeing, Nothing
<1>3. IInv /\ [Next]_vars => [RosterOf!Next]_(RosterOf!vars)
  <2>1. UNCHANGED vars => UNCHANGED RosterOf!vars
    BY DEF vars, steps, RosterOf!vars, Listed, Lightless
  <2> QED
    BY <1>2, <2>1
<1> QED
  BY <1>1, <1>3, Inductive, PTL DEF Spec, ImplementsRoster, RosterOf!Spec

-----------------------------------------------------------------------------
(* The table keeps to Presence.                                            *)

There == {s \in Slots : slot[s].connected}

Owners == {s \in Slots : HasOwnRow(s)}

\* The connected clients that have a row of their own among the rows R.
OwnersOf(clients, R) ==
    {s \in Slots : /\ clients[s].connected
                   /\ \E r \in R : r.id = s /\ r.uid = clients[s].uid}

\* Rows instead of positions.
LEMMA OwnersByRows ==
    /\ Owners = OwnersOf(slot, RowsOf(players))
    /\ Owners' = OwnersOf(slot', RowsOf(players'))
BY DEF Owners, OwnersOf, HasOwnRow, RowsOf

\* What Presence is about depends on slots and rows only.
LEMMA PresenceViews ==
    /\ PresenceOf!Slots = Slots
    /\ UNCHANGED <<slot, players>> => UNCHANGED PresenceOf!vars
BY DEF PresenceOf!Slots, Slots, PresenceOf!vars, Listed, HasOwnRow

\* A departure is one of Presence, or none.
LEMMA DisconnectLeaves ==
    ASSUME Table, slot \in [Slots -> Slot], NEW i, OnClientDisconnect(i),
           UNCHANGED slot
    PROVE  PresenceOf!Next \/ UNCHANGED PresenceOf!vars
<1>1. CASE UNCHANGED <<players, noLight, present>>
  BY <1>1, PresenceViews
<1>2. ASSUME NEW k \in DOMAIN players, players[k].id = i, i \in Slots,
             slot[i].connected,
             RowsOf(players') = RowsOf(players) \ {players[k]},
             Listed' = Listed \ {i}
      PROVE  PresenceOf!Next
  <2>1. /\ players[k] \in RowsOf(players)
        /\ \A r \in RowsOf(players) : r.id = i => r = players[k]
    BY <1>2 DEF RowsOf, Table, Unique
  <2>2. OwnersOf(slot, RowsOf(players) \ {players[k]}) =
            OwnersOf(slot, RowsOf(players)) \ {i}
    BY <1>2, <2>1 DEF OwnersOf
  <2>3. Owners' = Owners \ {i} /\ There' = There
    BY <1>2, <2>2, OwnersByRows DEF There
  <2>4. i \in Listed \cap There
    BY <1>2 DEF Listed, There
  <2>5. PresenceOf!Leave(i)
    BY <1>2, <2>3, <2>4 DEF PresenceOf!Leave, Owners, There
  <2> QED
    BY <1>2, <2>5, PresenceViews DEF PresenceOf!Next
<1> QED
  BY <1>1, <1>2, DisconnectKeepsTable

\* A client that a frame or a map load adds is listed by a row of its own.
LEMMA AddLists ==
    ASSUME Table, slot \in [Slots -> Slot], NEW i \in Slots, slot[i].connected,
           ~IsClientOnTable(i), AddPlayerToTable(slot, i), UNCHANGED slot
    PROVE  PresenceOf!Next \/ UNCHANGED PresenceOf!vars
<1>1. CASE UNCHANGED <<players, noLight>>
  BY <1>1, PresenceViews
<1>2. CASE /\ RowsOf(players') = RowsOf(players) \cup {NewPlayer(slot, i)}
           /\ Listed' = Listed \cup {i}
  <2>1. NewPlayer(slot, i).id = i /\ NewPlayer(slot, i).uid = slot[i].uid
    BY DEF NewPlayer
  <2>2. OwnersOf(slot, RowsOf(players) \cup {NewPlayer(slot, i)}) =
            OwnersOf(slot, RowsOf(players)) \cup {i}
    BY <2>1 DEF OwnersOf
  <2>3. Owners' = Owners \cup {i} /\ There' = There
    BY <1>2, <2>2, OwnersByRows DEF There
  <2>4. {i} \in SUBSET (There \ Listed)
    BY TableViews DEF There
  <2>5. PresenceOf!List({i})
    BY <1>2, <2>3 DEF PresenceOf!List, Owners, There
  <2> QED
    BY <2>4, <2>5 DEF PresenceOf!Next, There
<1> QED
  BY <1>1, <1>2, AddKeepsTable

\* callOnClientConnect announces the lowest id that is not listed, or nobody.
LEMMA ConnectAnnounces ==
    ASSUME Table, slot' \in [Slots -> Slot], CallOnClientConnect(slot')
    PROVE  PresenceOf!Announce(There', OwnersOf(slot', RowsOf(players)))
<1> DEFINE owners == OwnersOf(slot', RowsOf(players))
<1>1. CASE UNCHANGED <<players, noLight>>
  <2>1. Listed' = Listed /\ Owners' = owners
    BY <1>1, OwnersByRows DEF Listed
  <2> HIDE DEF owners
  <2> QED
    BY <2>1 DEF PresenceOf!Announce, Owners, owners
<1>2. ASSUME NEW i \in Slots, ~IsClientOnTable(i),
             \A j \in 0 .. i - 1 : IsClientOnTable(j),
             RowsOf(players') = RowsOf(players) \cup {NewPlayer(slot', i)},
             Listed' = Listed \cup {i}
      PROVE  PresenceOf!Announce(There', owners)
  <2>1. NewPlayer(slot', i).id = i /\ NewPlayer(slot', i).uid = slot'[i].uid
    BY DEF NewPlayer
  <2>2. OwnersOf(slot', RowsOf(players) \cup {NewPlayer(slot', i)}) =
            owners \cup ({i} \cap There')
    BY <2>1 DEF OwnersOf, There
  <2>3. Owners' = owners \cup ({i} \cap There')
    BY <1>2, <2>2, OwnersByRows
  <2>4. i \in PresenceOf!Slots \ Listed /\ 0 .. i - 1 \subseteq Listed
    BY <1>2, TableViews, PresenceViews
  <2> HIDE DEF owners
  <2> QED
    BY <1>2, <2>3, <2>4 DEF PresenceOf!Announce, Owners
<1>3. ASSUME NEW i \in Slots, ~IsClientOnTable(i),
             \A j \in 0 .. i - 1 : IsClientOnTable(j), AddPlayerToTable(slot', i)
      PROVE  PresenceOf!Announce(There', owners)
  BY <1>1, <1>2, <1>3, AddKeepsTable
<1> QED
  BY <1>1, <1>3 DEF CallOnClientConnect

\* A client that is given a new user id has no row of its own: rows have older ones.
LEMMA NewcomerOwnsNothing ==
    ASSUME DataOK, NEW s \in Slots, slot' = Taken(s)
    PROVE  /\ slot' \in [Slots -> Slot]
           /\ OwnersOf(slot', RowsOf(players)) = Owners \ {s}
           /\ There' = There \cup {s}
<1>1. slot \in [Slots -> Slot] /\ nextUid \in Nat \ {0}
  BY DEF DataOK
<1>2. /\ slot' \in [Slots -> Slot]
      /\ slot'[s].uid = nextUid /\ slot'[s].connected
      /\ \A t \in Slots \ {s} : slot'[t] = slot[t]
  BY <1>1 DEF Slot, Taken
<1>3. \A r \in RowsOf(players) : r.uid # nextUid
  <2>1. \A r \in RowsOf(players) : r.uid \in Nat /\ r.uid < nextUid
    BY LightlessFinite DEF DataOK, Table, UserIdsOK, Row
  <2> QED
    BY <1>1, <2>1
<1>4. OwnersOf(slot', RowsOf(players)) = OwnersOf(slot, RowsOf(players)) \ {s}
  BY <1>2, <1>3 DEF OwnersOf
<1> QED
  BY <1>2, <1>4, OwnersByRows DEF There

\* An arrival is one of Presence, whether the client had the slot or not.
LEMMA ArrivalConnects ==
    ASSUME DataOK, NEW s \in Slots, Arrival(s)
    PROVE  PresenceOf!Next
<1>1. slot' = Taken(s) /\ CallOnClientConnect(slot') /\ Table
  BY DEF Arrival, DataOK
<1>2. /\ slot' \in [Slots -> Slot]
      /\ OwnersOf(slot', RowsOf(players)) = Owners \ {s}
      /\ There' = There \cup {s}
  BY <1>1, NewcomerOwnsNothing
<1>3. PresenceOf!Announce(There', OwnersOf(slot', RowsOf(players)))
  BY <1>1, <1>2, ConnectAnnounces
<1>4. PresenceOf!Connect(s)
  BY <1>2, <1>3 DEF PresenceOf!Connect, PresenceOf!Announce, Owners, There
<1> QED
  BY <1>4, PresenceViews DEF PresenceOf!Next

\* A slot that is freed leaves the table alone; when a hook inside the drop has freed
\* it before, nothing happens.
LEMMA FreeingDrops ==
    ASSUME DataOK, NEW s \in Slots, Freeing(s)
    PROVE  PresenceOf!Next \/ UNCHANGED PresenceOf!vars
<1>1. /\ RowsOf(players') = RowsOf(players)
      /\ \A t \in Slots : /\ slot'[t].uid = slot[t].uid
                          /\ slot'[t].connected <=> (t # s /\ slot[t].connected)
  BY FreeingKeepsData
<1>2. There' = There \ {s}
  BY <1>1 DEF There
<1>3. OwnersOf(slot', RowsOf(players)) = OwnersOf(slot, RowsOf(players)) \ {s}
  BY <1>1 DEF OwnersOf
<1>4. Owners' = Owners \ {s} /\ Listed' = Listed
  BY <1>1, <1>3, OwnersByRows DEF Listed, Freeing
<1>5. CASE s \in There
  <2>1. PresenceOf!Dropped(s)
    BY <1>2, <1>4, <1>5 DEF PresenceOf!Dropped, Owners, There
  <2> QED
    BY <2>1, PresenceViews DEF PresenceOf!Next
<1>6. CASE s \notin There
  <2>1. Owners \subseteq There
    BY DEF Owners, There, HasOwnRow
  <2>2. There' = There /\ Owners' = Owners
    BY <1>2, <1>4, <1>6, <2>1
  <2> QED
    BY <1>4, <2>2 DEF PresenceOf!vars, Owners, There
<1> QED
  BY <1>5, <1>6

\* Every behaviour of the table of players is one that Presence allows, with hooks
\* inside hooks: whose row a client is listed by moves with its arrivals, its
\* departures and its slot's.
THEOREM TableKeepsToPresence == Spec => ImplementsPresence
<1>1. Init => PresenceOf!Init
  BY DEF Init, PresenceOf!Init, Listed, HasOwnRow
<1>2. ASSUME IInv, Next
      PROVE  PresenceOf!Next \/ UNCHANGED PresenceOf!vars
  <2>1. /\ Table /\ slot \in [Slots -> Slot] /\ DataOK /\ CallsTyped /\ Step
    BY <1>2 DEF IInv, DataOK, Next
  <2>2. ASSUME NEW s \in Slots, Arrival(s)
        PROVE  PresenceOf!Next \/ UNCHANGED PresenceOf!vars
    BY <2>1, <2>2, ArrivalConnects
  <2>3. ASSUME NEW s \in Slots, Listing(s)
        PROVE  PresenceOf!Next \/ UNCHANGED PresenceOf!vars
    BY <2>1, <2>3, AddLists DEF Listing
  <2>4. ASSUME NEW s \in Slots, Freeing(s)
        PROVE  PresenceOf!Next \/ UNCHANGED PresenceOf!vars
    BY <2>1, <2>4, FreeingDrops
  <2>5. ASSUME NEW i, Departure(i)
        PROVE  PresenceOf!Next \/ UNCHANGED PresenceOf!vars
    BY <2>1, <2>5, DisconnectLeaves DEF Departure
  <2>6. CASE Nothing
    BY <2>6, PresenceViews DEF Nothing
  <2> QED
    BY <2>1, <2>2, <2>3, <2>4, <2>5, <2>6, StepKinds
<1>3. IInv /\ [Next]_vars => [PresenceOf!Next]_(PresenceOf!vars)
  <2>1. UNCHANGED vars => UNCHANGED PresenceOf!vars
    BY PresenceViews DEF vars, steps
  <2> QED
    BY <1>2, <2>1
<1> QED
  BY <1>1, <1>3, Inductive, PTL DEF Spec, ImplementsPresence, PresenceOf!Spec

-----------------------------------------------------------------------------
(* What the map's loops leave behind.                                      *)

\* While user ids fit in a byte, AddPlayerToTable refuses no client that is
\* connected and not listed.
LEMMA VisitLists ==
    ASSUME DataOK, nextUid <= ByteSize, NEW i \in Slots, slot[i].connected,
           ~IsClientOnTable(i), AddPlayerToTable(slot, i)
    PROVE  Listed' = Listed \cup {i}
<1>1. /\ slot[i].uid \in Nat /\ slot[i].uid < nextUid /\ slot[i].uid # 0
      /\ nextUid \in Nat
  BY DEF DataOK, UserIdsOK, Slot
<1>2. slot[i].uid % ByteSize = slot[i].uid
  BY <1>1, ClientTableAssumption
<1>3. ASSUME IsClientOnTableByNFID(slot[i].uid % ByteSize) PROVE FALSE
  <2>1. PICK k \in DOMAIN players : players[k].uid = slot[i].uid
    BY <1>2, <1>3 DEF IsClientOnTableByNFID
  <2>2. players[k].id = i
    BY <1>1, <2>1 DEF DataOK, UserIdsOK, RowsOf
  <2> QED
    BY <2>2 DEF IsClientOnTable
<1> QED
  BY <1>3, AddKeepsTable DEF DataOK

\* "Dump all the clients from the table because the map was changed", as far as it
\* holds: a connected client that is on the table when the loop of OnServerChangeMap
\* has ended was listed, or given its slot, by a hook inside the loop or since.
ConnectedDumped ==
    At("mapchange") /\ call.at = MaxClients =>
        \A k \in DOMAIN players :
            slot[players[k].id].connected => players[k].id \in anew

\* The slots that the loops of the map changes at work have visited.
DumpedOK ==
    \A c \in Range(calls) :
        c.name = "mapchange" =>
            \A s \in Listed : s < c.at /\ slot[s].connected => s \in anew

\* The frame on top, moved on.
LEMMA Advanced ==
    ASSUME CallsTyped, calls # <<>>, NEW c \in Call, calls' = <<c>> \o Tail(calls)
    PROVE  calls' # <<>> /\ Tail(calls') = Tail(calls) /\ Head(calls') = c
<1> DEFINE t == Tail(calls)
           u == <<c>> \o t
<1>1. t \in Seq(Call)
  BY StackParts
<1> HIDE DEF t
<1>2. u \in Seq(Call) /\ Len(u) = 1 + Len(t) /\ Len(t) \in Nat /\ Tail(u) = t
  BY <1>1, PushLength
<1>3. 1 \in DOMAIN u /\ u[1] = c
  BY <1>1, PushShifts
<1>4. calls' = u
  BY DEF t
<1> HIDE DEF u
<1>5. u # <<>> /\ Head(u) = c
  BY <1>2, <1>3
<1> QED
  BY <1>2, <1>4, <1>5 DEF t

\* One turn of the loop passes clients over that are not connected or not listed,
\* and lists none.
LEMMA LoopDumps ==
    ASSUME IInv, OnServerChangeMap
    PROVE  /\ Listed' \subseteq Listed /\ slot' = slot
           /\ Tail(calls') = Tail(calls) /\ Head(calls').name = "mapchange"
           /\ \A s \in Listed' : s < Head(calls').at /\ slot[s].connected => s < call.at
<1>0. /\ Table /\ slot \in [Slots -> Slot] /\ CallsTyped /\ MaxClients \in Nat \ {0}
      /\ Listed = IdsOf(RowsOf(players)) /\ Listed \subseteq Slots
      /\ \A i : IsClientOnTable(i) <=> i \in Listed
  BY LightlessFinite, TableViews, ClientTableAssumption DEF IInv, DataOK, Table
<1>1. /\ calls # <<>> /\ call.name = "mapchange" /\ call.at < MaxClients /\ slot' = slot
      /\ call \in Call /\ Tail(calls) \in Seq(Call)
      /\ call.at \in Nat
  <2>1. calls # <<>> /\ call.name = "mapchange" /\ call.at < MaxClients /\ slot' = slot
    BY DEF OnServerChangeMap, At
  <2>2. call \in Call /\ Tail(calls) \in Seq(Call)
    BY <1>0, <2>1, StackParts
  <2> QED
    BY <2>1, <2>2 DEF Call
<1>2. ASSUME NEW n \in 0 .. MaxClients, Advance([call EXCEPT !.at = n])
      PROVE  /\ Tail(calls') = Tail(calls)
             /\ Head(calls').name = "mapchange" /\ Head(calls').at = n
  <2> DEFINE c == [call EXCEPT !.at = n]
  <2>1. c \in Call /\ c.name = "mapchange" /\ c.at = n
    BY <1>1 DEF Call
  <2>2. calls' = <<c>> \o Tail(calls)
    BY <1>2 DEF Advance
  <2> HIDE DEF c
  <2> QED
    BY <1>0, <1>1, <2>1, <2>2, Advanced
<1>3. ASSUME NEW i \in call.at .. MaxClients - 1, Dumps(i),
             \A j \in call.at .. i - 1 : ~Dumps(j),
             OnClientDisconnect(i), Advance([call EXCEPT !.at = i + 1])
      PROVE  /\ Listed' \subseteq Listed
             /\ Tail(calls') = Tail(calls) /\ Head(calls').name = "mapchange"
             /\ \A s \in Listed' : s < Head(calls').at /\ slot[s].connected => s < call.at
  <2>1. i + 1 \in 0 .. MaxClients /\ i \in Nat
    BY <1>0, <1>1
  <2>2. /\ Tail(calls') = Tail(calls)
        /\ Head(calls').name = "mapchange" /\ Head(calls').at = i + 1
    BY <1>2, <1>3, <2>1
  <2>3. Listed' = Listed \ {i}
    BY <1>0, <1>3, DisconnectKeepsTable DEF Dumps
  <2>4. ASSUME NEW s \in Listed', s < i + 1, slot[s].connected, ~(s < call.at)
        PROVE  FALSE
    <3>1. s \in Nat /\ s # i /\ s \in Listed
      BY <1>0, <2>3 DEF Slots
    <3>2. s \in call.at .. i - 1
      BY <1>1, <2>1, <2>4, <3>1
    <3> QED
      BY <1>0, <1>3, <2>4, <3>1, <3>2 DEF Dumps
  <2> QED
    BY <2>2, <2>3, <2>4
<1>4. ASSUME \A i \in call.at .. MaxClients - 1 : ~Dumps(i),
             Advance([call EXCEPT !.at = MaxClients]), UNCHANGED players
      PROVE  /\ Listed' \subseteq Listed
             /\ Tail(calls') = Tail(calls) /\ Head(calls').name = "mapchange"
             /\ \A s \in Listed' : s < Head(calls').at /\ slot[s].connected => s < call.at
  <2>1. /\ Tail(calls') = Tail(calls)
        /\ Head(calls').name = "mapchange" /\ Head(calls').at = MaxClients
    BY <1>0, <1>2, <1>4
  <2>2. Listed' = Listed
    BY <1>4 DEF Listed
  <2>3. ASSUME NEW s \in Listed, slot[s].connected, ~(s < call.at)
        PROVE  FALSE
    <3>1. s \in call.at .. MaxClients - 1
      BY <1>0, <1>1, <2>3 DEF Slots
    <3> QED
      BY <1>0, <1>4, <2>3, <3>1 DEF Dumps
  <2> QED
    BY <2>1, <2>2, <2>3
<1> QED
  BY <1>1, <1>3, <1>4 DEF OnServerChangeMap

\* Whatever runs inside a map change's loop, the history knows of the clients it
\* lists behind the loop.
LEMMA DumpedKept ==
    ASSUME IInv, DumpedOK, Next
    PROVE  DumpedOK'
<1>0. /\ Step /\ Remember /\ SlotsKeep /\ StackMoves /\ CallsTyped
      /\ Listed \subseteq Slots /\ Listed' \subseteq Slots
      /\ slot \in [Slots -> Slot] /\ nextUid \in Nat
      /\ \A s \in Slots : slot[s].uid < nextUid
  <2>1. Step /\ Remember /\ DataOK /\ CallsTyped
    BY DEF Next, IInv
  <2>2. DataOK' /\ SlotsKeep /\ StackMoves
    BY <2>1, StepKeeps, StepMoves
  <2>3. Listed = IdsOf(RowsOf(players)) /\ Listed' = IdsOf(RowsOf(players'))
    BY DEF Listed, IdsOf, RowsOf
  <2>4. Listed \subseteq Slots /\ Listed' \subseteq Slots
    BY <2>1, <2>2, <2>3, LightlessFinite DEF DataOK, Table
  <2> QED
    BY <2>1, <2>2, <2>4 DEF DataOK, UserIdsOK
<1> SUFFICES ASSUME NEW c \in Range(calls'), c.name = "mapchange",
                    NEW s \in Listed', s < c.at, slot'[s].connected, s \notin anew'
             PROVE  FALSE
  BY DEF DumpedOK
<1>1. calls' # <<>>
  <2>1. Range(<<>>) = {}
    BY DEF Range
  <2> QED
    BY <2>1
<1>2. s \in Listed /\ s \notin anew /\ slot[s].connected
  <2>1. s \in Listed /\ s \notin anew /\ slot'[s].uid = slot[s].uid
    BY <1>0, <1>1, HistoryKnows
  <2>2. slot'[s].uid # nextUid
    BY <1>0, <2>1 DEF Slot
  <2> QED
    BY <1>0, <2>1, <2>2 DEF SlotsKeep
<1>3. c \notin Range(calls)
  BY <1>2 DEF DumpedOK
<1>4. NewFrame(c)
  BY <1>0, <1>3, FramesAfter
<1>5. c.at # 0
  BY <1>0 DEF Slots
<1>6. OnServerChangeMap
  BY <1>4, <1>5 DEF NewFrame
<1>7. calls # <<>> /\ call \in Range(calls) /\ call.name = "mapchange"
      /\ Range(Tail(calls)) \subseteq Range(calls)
  BY <1>0, <1>6, StackParts DEF OnServerChangeMap, At
<1>8. Tail(calls') = Tail(calls) /\ (s < Head(calls').at => s < call.at)
  BY <1>2, <1>6, LoopDumps
<1>9. Range(calls') = {Head(calls')} \cup Range(Tail(calls'))
  <2>1. calls' \in Seq(Call)
    BY NextIInv DEF IInv, CallsTyped
  <2> QED
    BY <1>1, <2>1, PopKeeps
<1>10. c = Head(calls')
  BY <1>3, <1>7, <1>8, <1>9
<1> QED
  BY <1>2, <1>7, <1>8, <1>10 DEF DumpedOK

\* The loop of OnServerChangeMap, with the scripts it calls and whatever hooks they
\* cause, misses no client that was on the table before the loop came to it: those
\* it leaves connected have been listed behind it.
THEOREM MapChangeDumpsConnected == Spec => []ConnectedDumped
<1>1. Init => IInv /\ DumpedOK
  <2>1. Range(<<>>) = {}
    BY DEF Range
  <2> QED
    BY <2>1, InitIInv DEF Init, DumpedOK
<1>2. IInv /\ DumpedOK /\ [Next]_vars => (IInv /\ DumpedOK)'
  <2>1. DumpedOK /\ UNCHANGED vars => DumpedOK'
    BY DEF vars, steps, DumpedOK, Listed
  <2> QED
    BY <2>1, NextIInv, DumpedKept
<1>3. IInv /\ DumpedOK => ConnectedDumped
  <2> SUFFICES ASSUME IInv, DumpedOK, At("mapchange"), call.at = MaxClients,
                      NEW k \in DOMAIN players, slot[players[k].id].connected
               PROVE  players[k].id \in anew
    BY DEF ConnectedDumped
  <2>1. players[k].id \in Listed /\ players[k] \in Row
    BY DEF IInv, DataOK, Table, Listed
  <2>2. call \in Range(calls) /\ call.name = "mapchange"
    BY StackParts DEF At, IInv
  <2>3. players[k].id < call.at
    BY <2>1, ClientTableAssumption DEF Row, Slots
  <2> QED
    BY <2>1, <2>2, <2>3 DEF DumpedOK
<1> QED
  BY <1>1, <1>2, <1>3, PTL DEF Spec

\* When the last slot has been visited every connected client is listed, as long
\* as user ids fit in a byte.
MapLoadLists ==
    [][ProcessClientsOnMapLoad /\ Head(calls').at = MaxClients /\ nextUid <= ByteSize =>
          There \subseteq Listed']_vars

\* The clients of the slots that the loop has visited.
LoadOK ==
    At("maploaded") /\ call.at < MaxClients /\ nextUid <= ByteSize =>
        \A s \in There : s < call.at => s \in Listed

\* One visit lists the client of its slot and leaves the others where they were.
LEMMA VisitKeepsLoad ==
    ASSUME IInv, LoadOK, ProcessClientsOnMapLoad, nextUid <= ByteSize
    PROVE  \A s \in There : s < Head(calls').at => s \in Listed'
<1>1. /\ DataOK /\ Table /\ slot \in [Slots -> Slot] /\ MaxClients \in Nat \ {0}
      /\ At("maploaded") /\ call.at < MaxClients /\ CallsTyped
      /\ UNCHANGED <<slot, nextUid>>
  BY ClientTableAssumption DEF ProcessClientsOnMapLoad, IInv, DataOK
<1>2. calls # <<>> /\ call \in Call /\ call.at \in Slots /\ Tail(calls) \in Seq(Call)
  BY <1>1, StackParts DEF At
<1>3. Head(calls').at = call.at + 1
  <2> DEFINE c == [call EXCEPT !.at = call.at + 1]
  <2>1. call.at + 1 \in 0 .. MaxClients
    BY <1>1, <1>2 DEF Slots
  <2>2. c \in Call /\ c.at = call.at + 1
    BY <1>2, <2>1 DEF Call
  <2>3. calls' = <<c>> \o Tail(calls)
    BY DEF ProcessClientsOnMapLoad, Advance
  <2> HIDE DEF c
  <2> QED
    BY <1>1, <1>2, <2>2, <2>3, Advanced
<1>4. \A s \in There : s < call.at => s \in Listed
  BY <1>1 DEF LoadOK
<1>5. Listed \subseteq Listed' /\ (call.at \in There => call.at \in Listed')
  <2>1. CASE ~IsClientOnTable(call.at) /\ slot[call.at].connected
    <3>1. Listed' = Listed \cup {call.at}
      BY <1>1, <1>2, <2>1, VisitLists DEF ProcessClientsOnMapLoad
    <3> QED
      BY <3>1
  <2>2. CASE ~(~IsClientOnTable(call.at) /\ slot[call.at].connected)
    <3>1. Listed' = Listed
      BY <2>2 DEF ProcessClientsOnMapLoad, Listed
    <3> QED
      BY <2>2, <3>1, TableViews DEF There
  <2> QED
    BY <2>1, <2>2
<1> SUFFICES ASSUME NEW s \in There, s < call.at + 1 PROVE s \in Listed'
  BY <1>3
<1>6. s < call.at \/ s = call.at
  BY <1>1, <1>2 DEF There, Slots
<1> QED
  BY <1>4, <1>5, <1>6

\* While the map's clients are listed no script runs and nobody leaves.
LEMMA LoadKept ==
    ASSUME IInv, LoadOK, Next
    PROVE  LoadOK'
<1>0. CallsTyped /\ Step /\ StackMoves /\ MaxClients \in Nat \ {0}
      /\ (\A s \in There' : ~(s < 0))
  BY StepMoves, ClientTableAssumption DEF IInv, Next, There, Slots
<1>1. CASE ProcessClientsOnMapLoad
  <2>1. There' = There /\ nextUid' = nextUid
    BY <1>1 DEF ProcessClientsOnMapLoad, There
  <2>2. nextUid <= ByteSize => \A s \in There : s < Head(calls').at => s \in Listed'
    BY <1>1, VisitKeepsLoad
  <2> SUFFICES ASSUME nextUid' <= ByteSize, NEW s \in There', s < Head(calls').at
               PROVE  s \in Listed'
    BY DEF LoadOK, call
  <2> QED
    BY <2>1, <2>2
<1>2. ASSUME ~ProcessClientsOnMapLoad, calls' # <<>>, Head(calls').name = "maploaded",
             Head(calls').at < MaxClients
      PROVE  Head(calls').at = 0
  <2>1. CASE calls' = calls /\ (ScriptRuns \/ Idle)
    <3>1. /\ call.name = "maploaded" /\ call.at < MaxClients
          /\ Waits(call) /\ call \in Call
      BY <1>0, <1>2, <2>1, StackParts DEF ScriptRuns, Idle, call
    <3> QED
      BY <1>0, <3>1 DEF Waits
  <2>2. CASE calls # <<>> /\ calls' = Tail(calls)
    <3>1. Tail(calls) \in Seq(Call) /\ \A d \in Range(Tail(calls)) : Waits(d)
      BY <1>0, <2>2, StackParts DEF CallsTyped
    <3> DEFINE h == Head(calls')
    <3>2. h \in Range(calls')
      BY <1>2, <2>2, <3>1, PopKeeps
    <3>3. Waits(h) /\ h.name = "maploaded" /\ h.at < MaxClients
      BY <1>2, <2>2, <3>1, <3>2
    <3> HIDE DEF h
    <3>4. h.at = MaxClients
      BY <3>3 DEF Waits
    <3> QED
      BY <1>0, <3>3, <3>4
  <2>3. ASSUME NEW c, NewFrame(c), Pushed(c) PROVE Head(calls').at = 0
    <3>1. c \in Call
      BY <2>3 DEF NewFrame
    <3>2. Head(calls') = c
      BY <1>0, <2>3, <3>1, PushedParts
    <3> QED
      BY <1>2, <2>3, <3>2 DEF NewFrame
  <2> QED
    BY <1>0, <2>1, <2>2, <2>3 DEF StackMoves
<1> QED
  BY <1>0, <1>1, <1>2 DEF LoadOK, At, call

\* After ProcessClientsOnMapLoad has visited every slot, every client that came
\* along from the previous map is listed.
THEOREM MapLoadListsConnected == Spec => MapLoadLists
<1>1. Init => IInv /\ LoadOK
  BY InitIInv DEF Init, At, LoadOK
<1>2. IInv /\ LoadOK /\ [Next]_vars => (IInv /\ LoadOK)'
  <2>1. LoadOK /\ UNCHANGED vars => LoadOK'
    BY DEF vars, steps, LoadOK, There, Listed, At, call
  <2> QED
    BY <2>1, NextIInv, LoadKept
<1>3. IInv /\ LoadOK =>
        (ProcessClientsOnMapLoad /\ Head(calls').at = MaxClients /\ nextUid <= ByteSize =>
            There \subseteq Listed')
  <2> SUFFICES ASSUME IInv, LoadOK, ProcessClientsOnMapLoad, nextUid <= ByteSize,
                      Head(calls').at = MaxClients
               PROVE  There \subseteq Listed'
    OBVIOUS
  <2>1. \A s \in There : s < MaxClients
    BY ClientTableAssumption DEF There, Slots
  <2> QED
    BY <2>1, VisitKeepsLoad
<1> QED
  BY <1>1, <1>2, <1>3, PTL DEF Spec, MapLoadLists

-----------------------------------------------------------------------------
(* What EventuallyListed rests on besides fairness.                        *)

\* The steps a hook at work may still take.
StepsLeft(c) ==
    CASE c.name = "reconnect" -> 1
      [] c.name = "drop"      -> c.left + 1
      [] OTHER                -> MaxClients - c.at + 1

\* The innermost hook has a step to take, and every step it takes ends it or brings
\* it nearer to its end; another hook begins on top of it; nothing else, in particular
\* no kick and no connection, touches it, and nothing touches those it runs inside of.
HandlersEnd ==
    [][calls # <<>> =>
          /\ StepsLeft(call) \in Nat \ {0}
          /\ \/ CallStep /\ calls' = Tail(calls)
             \/ /\ CallStep /\ calls' # <<>> /\ Tail(calls') = Tail(calls)
                /\ StepsLeft(Head(calls')) \in Nat
                /\ StepsLeft(Head(calls')) < StepsLeft(call)
             \/ calls' # <<>> /\ Tail(calls') = calls
             \/ calls' = calls]_vars

\* The hooks of a drop, a reconnection, a map change and a loaded map come to their
\* end, whatever the scripts they call do in between and whatever hooks run inside.
THEOREM HandlersRunToEnd == Spec => HandlersEnd
<1> DEFINE Nearer ==
      calls # <<>> =>
          /\ StepsLeft(call) \in Nat \ {0}
          /\ \/ CallStep /\ calls' = Tail(calls)
             \/ /\ CallStep /\ calls' # <<>> /\ Tail(calls') = Tail(calls)
                /\ StepsLeft(Head(calls')) \in Nat
                /\ StepsLeft(Head(calls')) < StepsLeft(call)
             \/ calls' # <<>> /\ Tail(calls') = calls
             \/ calls' = calls
<1>1. ASSUME IInv, Next PROVE Nearer
  <2> SUFFICES ASSUME calls # <<>> PROVE Nearer
    OBVIOUS
  <2>0. /\ CallsTyped /\ calls \in Seq(Call) /\ Step
        /\ call \in Call /\ Tail(calls) \in Seq(Call) /\ MaxClients \in Nat
    BY <1>1, StackParts, ClientTableAssumption DEF IInv, Next, CallsTyped
  <2>1. StepsLeft(call) \in Nat \ {0}
    BY <2>0 DEF StepsLeft, Call
  <2>2. CASE ReconnectResume \/ DropDone \/ LoopDone
    <3>1. CallStep /\ calls' = Tail(calls)
      BY <2>2 DEF CallStep, ReconnectResume, DropDone, LoopDone, Return
    <3> QED
      BY <2>1, <3>1
  <2>3. ASSUME NEW c \in Call, calls' = <<c>> \o Tail(calls), CallStep,
               StepsLeft(c) \in Nat, StepsLeft(c) < StepsLeft(call)
        PROVE  Nearer
    BY <2>0, <2>1, <2>3, Advanced
  <2>4. CASE DropAgain
    <3> DEFINE c == [call EXCEPT !.left = 0]
    <3>1. /\ call.name = "drop" /\ call.left = 1 /\ calls' = <<c>> \o Tail(calls)
      BY <2>4 DEF DropAgain, At, Advance
    <3>2. c \in Call /\ c.name = "drop" /\ c.left = 0
      BY <2>0, <3>1 DEF Call
    <3>3. StepsLeft(c) = 1 /\ StepsLeft(call) = 2
      BY <3>1, <3>2 DEF StepsLeft
    <3> HIDE DEF c
    <3> QED
      BY <2>3, <2>4, <3>1, <3>2, <3>3 DEF CallStep
  <2>5. ASSUME NEW n \in 0 .. MaxClients, call.name \in {"mapchange", "maploaded"},
               call.at < n, calls' = <<[call EXCEPT !.at = n]>> \o Tail(calls), CallStep
        PROVE  Nearer
    <3> DEFINE c == [call EXCEPT !.at = n]
    <3>1. c \in Call /\ c.name = call.name /\ c.at = n /\ call.at \in 0 .. MaxClients
      BY <2>0 DEF Call
    <3>2. StepsLeft(c) = MaxClients - n + 1 /\ StepsLeft(call) = MaxClients - call.at + 1
      BY <2>5, <3>1 DEF StepsLeft
    <3>3. StepsLeft(c) \in Nat /\ StepsLeft(c) < StepsLeft(call)
      BY <2>0, <2>5, <3>1, <3>2
    <3>4. calls' = <<c>> \o Tail(calls)
      BY <2>5
    <3> HIDE DEF c
    <3> QED
      BY <2>3, <2>5, <3>1, <3>3, <3>4
  <2>6. CASE OnServerChangeMap
    <3>1. call.name = "mapchange" /\ call.at \in 0 .. MaxClients - 1
      BY <2>0, <2>6 DEF OnServerChangeMap, At, Call
    <3>2. \E n \in 0 .. MaxClients :
             call.at < n /\ calls' = <<[call EXCEPT !.at = n]>> \o Tail(calls)
      <4>1. \A i \in call.at .. MaxClients - 1 : i + 1 \in 0 .. MaxClients /\ call.at < i + 1
        BY <2>0, <3>1
      <4>2. MaxClients \in 0 .. MaxClients /\ call.at < MaxClients
        BY <2>0, <3>1
      <4> QED
        BY <2>6, <4>1, <4>2 DEF OnServerChangeMap, Advance
    <3> QED
      BY <2>5, <2>6, <3>1, <3>2 DEF CallStep
  <2>7. CASE ProcessClientsOnMapLoad
    <3>1. /\ call.name = "maploaded" /\ call.at \in 0 .. MaxClients - 1
          /\ calls' = <<[call EXCEPT !.at = call.at + 1]>> \o Tail(calls)
      BY <2>0, <2>7 DEF ProcessClientsOnMapLoad, At, Advance, Call
    <3>2. call.at + 1 \in 0 .. MaxClients /\ call.at < call.at + 1
      BY <2>0, <3>1
    <3> QED
      BY <2>5, <2>7, <3>1, <3>2 DEF CallStep
  <2>8. ASSUME NEW c \in Call, calls' = <<c>> \o calls PROVE Nearer
    <3> DEFINE u == <<c>> \o calls
    <3>1. u \in Seq(Call) /\ Len(u) = 1 + Len(calls) /\ Len(calls) \in Nat /\ Tail(u) = calls
      BY <2>0, PushLength
    <3> HIDE DEF u
    <3>2. u # <<>>
      BY <3>1
    <3>3. calls' = u
      BY <2>8 DEF u
    <3> QED
      BY <2>1, <3>1, <3>2, <3>3
  <2>9. ASSUME NEW name \in {"reconnect", "drop", "mapchange", "maploaded"},
               NEW s \in 0 .. MaxClients, NEW l \in 0 .. 1, Begin(name, s, l)
        PROVE  Nearer
    <3>1. [name |-> name, at |-> s, left |-> l] \in Call
      BY DEF Call
    <3>2. calls' = <<[name |-> name, at |-> s, left |-> l]>> \o calls
      BY <2>9 DEF Begin
    <3> QED
      BY <2>8, <3>1, <3>2
  <2>10. CASE \/ \E s \in Slots : Reconnect(s)
              \/ \E s \in Slots, again \in 0 .. 1 : Drop(s, again)
              \/ ChangeMap \/ LoadMap
    <3>1. Slots \subseteq 0 .. MaxClients /\ 0 \in 0 .. MaxClients
      BY <2>0 DEF Slots
    <3> QED
      BY <2>9, <2>10, <3>1 DEF Reconnect, Drop, ChangeMap, LoadMap
  <2>11. CASE \/ \E s \in Slots : Connect(s)
              \/ \E i \in Slots : KickClient(i)
              \/ UpdatePlayers
    BY <2>1, <2>11 DEF Connect, KickClient, UpdatePlayers
  <2> QED
    BY <2>0, <2>2, <2>4, <2>6, <2>7, <2>10, <2>11 DEF Step, CallStep
<1>2. IInv /\ [Next]_vars => [Nearer]_vars
  BY <1>1
<1>3. Spec => [][Nearer]_vars
  BY <1>2, Inductive, PTL DEF Spec
<1> QED
  BY <1>3 DEF HandlersEnd

\* The turns of UpdatePlayers before the one of slot s.
TurnsBefore(s) == IF s >= think THEN s - think ELSE s - think + MaxClients

\* A connected client that a step leaves unlisted has its turn nearer after every
\* turn of UpdatePlayers, and no other step takes its turn away; the turn of a
\* client lists it.
TurnsCome ==
    [][\A s \in Slots :
          nextUid <= ByteSize /\ s \in There \ Listed /\ s \in There' \ Listed' =>
              /\ TurnsBefore(s)' \in Nat
              /\ TurnsBefore(s)' <= TurnsBefore(s)
              /\ UpdatePlayers => TurnsBefore(s)' < TurnsBefore(s)]_vars

\* UpdatePlayers comes to every client that is not listed: its turns go round in
\* order, each lists the client it comes to, and no hook moves them.
THEOREM ClientsHaveTheirTurn == Spec => TurnsCome
<1> DEFINE Comes ==
      \A s \in Slots :
          nextUid <= ByteSize /\ s \in There \ Listed /\ s \in There' \ Listed' =>
              /\ TurnsBefore(s)' \in Nat
              /\ TurnsBefore(s)' <= TurnsBefore(s)
              /\ UpdatePlayers => TurnsBefore(s)' < TurnsBefore(s)
<1>1. ASSUME IInv, Next PROVE Comes
  <2> SUFFICES ASSUME NEW s \in Slots, nextUid <= ByteSize,
                      s \in There \ Listed, s \notin Listed'
               PROVE  /\ TurnsBefore(s)' \in Nat
                      /\ TurnsBefore(s)' <= TurnsBefore(s)
                      /\ UpdatePlayers => TurnsBefore(s)' < TurnsBefore(s)
    OBVIOUS
  <2>1. /\ DataOK /\ MaxClients \in Nat \ {0}
        /\ think \in 0 .. MaxClients - 1 /\ s \in 0 .. MaxClients - 1
        /\ slot[s].connected /\ ~IsClientOnTable(s)
    BY <1>1, ClientTableAssumption, TableViews DEF IInv, CallsTyped, Slots, There
  <2>2. CASE UpdatePlayers
    <3>1. think # s
      <4> SUFFICES ASSUME think = s PROVE FALSE
        OBVIOUS
      <4>1. AddPlayerToTable(slot, s)
        BY <2>1, <2>2 DEF UpdatePlayers
      <4>2. Listed' = Listed \cup {s}
        BY <2>1, <4>1, VisitLists
      <4> QED
        BY <4>2
    <3>2. think' = IF think + 1 = MaxClients THEN 0 ELSE think + 1
      <4>1. think' = (think + 1) % MaxClients
        BY <2>2 DEF UpdatePlayers
      <4>2. think + 1 \in Nat /\ think + 1 <= MaxClients
        BY <2>1
      <4>3. CASE think + 1 = MaxClients
        BY <2>1, <4>1, <4>3
      <4>4. CASE think + 1 # MaxClients
        BY <2>1, <4>1, <4>2, <4>4
      <4> QED
        BY <4>3, <4>4
    <3> QED
      BY <2>1, <3>1, <3>2 DEF TurnsBefore
  <2>3. CASE ~UpdatePlayers
    <3>1. think' = think
      BY <1>1, <2>3
         DEF Next, Step, CallStep, Connect, Reconnect, ReconnectResume, Drop,
             CallOnClientDisconnect, DropAgain, DropDone, ChangeMap, OnServerChangeMap, LoadMap,
             ProcessClientsOnMapLoad, LoopDone, KickClient
    <3> QED
      BY <2>1, <2>3, <3>1 DEF TurnsBefore
  <2> QED
    BY <2>2, <2>3
<1>2. IInv /\ [Next]_vars => [Comes]_vars
  BY <1>1
<1>3. Spec => [][Comes]_vars
  BY <1>2, Inductive, PTL DEF Spec
<1> QED
  BY <1>3 DEF TurnsCome

-----------------------------------------------------------------------------
(* Events, between the gamemode and the plugins.                            *)

\* What the steps of the table may do to rows and slots.
LEMMA StepsGrow == IInv /\ [Next]_vars => RowsGrow /\ SlotsKeep
<1> SUFFICES ASSUME IInv, [Next]_vars PROVE RowsGrow /\ SlotsKeep
  OBVIOUS
<1>1. CASE Next
  BY <1>1, StepKeeps DEF Next, IInv
<1>2. CASE UNCHANGED vars
  BY <1>2 DEF vars, steps, RowsGrow, SlotsKeep, IInv, DataOK
<1> QED
  BY <1>1, <1>2

\* The row of a client that holds its slot knows whether it has lights.
LightsOK ==
    \A r \in RowsOf(players), s \in Slots :
        r.uid # 0 /\ r.uid = slot[s].uid => r.light = slot[s].light

\* An event that is under way is about the client of one slot: its user id
\* leads to this slot's row or to none, for as long as the event lasts.
EventOK ==
    event # NoEvent =>
        /\ event.uid \in Nat \ {0} /\ event.uid < nextUid
        /\ \E t \in Slots :
              /\ event.told \in {t, INVALID_USERID}
              /\ \A r \in RowsOf(players) : r.uid = event.uid => r.id = t
              /\ \A s \in Slots : slot[s].uid = event.uid => s = t

EventIInv == IInv /\ LightsOK /\ EventOK

\* The table's steps keep what holds of the clients given lights.
LEMMA StepKeepsLights ==
    ASSUME IInv, LightsOK, [Next]_vars PROVE LightsOK'
<1>1. RowsGrow /\ SlotsKeep /\ IInv'
  BY StepsGrow, NextIInv
<1>2. /\ slot' \in [Slots -> Slot]
      /\ UserIdsOK(slot', nextUid', RowsOf(players'))
      /\ UserIdsOK(slot, nextUid, RowsOf(players))
      /\ nextUid \in Nat /\ RowsOf(players) \subseteq Row
  BY <1>1, LightlessFinite DEF IInv, DataOK, Table
<1>3. \A s, t \in Slots :
         slot'[s].uid # 0 /\ slot'[s].uid = slot'[t].uid => s = t
  BY <1>2 DEF UserIdsOK
<1> SUFFICES ASSUME NEW r \in RowsOf(players'), NEW s \in Slots,
                    r.uid # 0, r.uid = slot'[s].uid
             PROVE  r.light = slot'[s].light
  BY DEF LightsOK
<1>4. ASSUME NEW i \in Slots, r = NewPlayer(slot', i)
      PROVE  r.light = slot'[s].light
  <2>1. r.uid = slot'[i].uid /\ r.light = slot'[i].light
    BY <1>4 DEF NewPlayer
  <2>2. i = s
    BY <1>3, <2>1
  <2> QED
    BY <2>1, <2>2
<1>5. CASE r \in RowsOf(players)
  <2>1. r.uid \in Nat /\ r.uid < nextUid
    BY <1>2, <1>5 DEF UserIdsOK, Row
  <2>2. slot'[s].uid = slot[s].uid /\ slot'[s].light = slot[s].light
    BY <1>1, <1>2, <2>1 DEF SlotsKeep
  <2> QED
    BY <1>5, <2>2 DEF LightsOK
<1> QED
  BY <1>1, <1>4, <1>5 DEF RowsGrow

\* The table's steps keep what holds of the event being told.
LEMMA StepKeepsEvent ==
    ASSUME IInv, EventOK, [Next]_vars, UNCHANGED event PROVE EventOK'
<1>1. RowsGrow /\ SlotsKeep /\ IInv'
  BY StepsGrow, NextIInv
<1>2. nextUid \in Nat /\ nextUid' \in Nat
  BY <1>1 DEF IInv, DataOK
<1> SUFFICES ASSUME event # NoEvent
             PROVE  /\ event.uid \in Nat \ {0} /\ event.uid < nextUid'
                    /\ \E t \in Slots :
                        /\ event.told \in {t, INVALID_USERID}
                        /\ \A r \in RowsOf(players') :
                              r.uid = event.uid => r.id = t
                        /\ \A s \in Slots :
                              slot'[s].uid = event.uid => s = t
  BY DEF EventOK
<1>3. event.uid \in Nat \ {0} /\ event.uid < nextUid
  BY DEF EventOK
<1>4. PICK t \in Slots :
         /\ event.told \in {t, INVALID_USERID}
         /\ \A r \in RowsOf(players) : r.uid = event.uid => r.id = t
         /\ \A s \in Slots : slot[s].uid = event.uid => s = t
  BY DEF EventOK
<1>5. \A s \in Slots : slot'[s].uid = event.uid => s = t
  BY <1>1, <1>2, <1>3, <1>4 DEF SlotsKeep
<1>6. \A r \in RowsOf(players') : r.uid = event.uid => r.id = t
  BY <1>1, <1>4, <1>5 DEF RowsGrow, NewPlayer
<1> QED
  BY <1>1, <1>2, <1>3, <1>4, <1>5, <1>6 DEF SlotsKeep

\* Telling the gamemode or a plugin keeps what holds of the event.
LEMMA TellKeepsEvent ==
    ASSUME IInv, NEW s \in Slots, TellGamemode(s) PROVE EventOK'
<1>1. /\ Table /\ UserIdsOK(slot, nextUid, RowsOf(players))
      /\ slot \in [Slots -> Slot]
  BY DEF IInv, DataOK
<1>2. /\ slot[s].connected
      /\ event' = [uid   |-> slot[s].uid,
                   told  |-> GetInternalIDFromNFID(slot[s].uid),
                   depth |-> Len(calls)]
      /\ UNCHANGED <<slot, nextUid, players>>
  BY DEF TellGamemode, vars, steps
<1>3. slot[s].uid \in Nat \ {0} /\ slot[s].uid < nextUid
  BY <1>1, <1>2 DEF UserIdsOK, Slot
<1>4. /\ \A r \in RowsOf(players) : r.uid = slot[s].uid => r.id = s
      /\ \A t \in Slots : slot[t].uid = slot[s].uid => t = s
  BY <1>1, <1>3 DEF UserIdsOK
<1>5. GetInternalIDFromNFID(slot[s].uid) \in {s, INVALID_USERID}
  BY <1>1, <1>4, LookupResolves
<1> QED
  BY <1>2, <1>3, <1>4, <1>5 DEF EventOK

\* The invariant of the composition holds all along.
LEMMA EventsInductive == EventsSpec => []EventIInv
<1>1. EventsInit => EventIInv
  <2> SUFFICES ASSUME EventsInit PROVE EventIInv
    OBVIOUS
  <2>1. IInv /\ RowsOf(players) = {}
    BY InitIInv DEF EventsInit
  <2> QED
    BY <2>1 DEF EventIInv, LightsOK, EventOK, EventsInit
<1>2. EventIInv /\ [EventsNext]_allvars => EventIInv'
  <2> SUFFICES ASSUME EventIInv, [EventsNext]_allvars PROVE EventIInv'
    OBVIOUS
  <2>1. IInv /\ LightsOK /\ EventOK
    BY DEF EventIInv
  <2>2. [Next]_vars
    BY DEF EventsNext, TellGamemode, TellPlugins, TableStep, allvars
  <2>3. IInv' /\ LightsOK'
    BY <2>1, <2>2, NextIInv, StepKeepsLights
  <2>4. EventOK'
    <3>1. ASSUME NEW s \in Slots, TellGamemode(s) PROVE EventOK'
      BY <2>1, <3>1, TellKeepsEvent
    <3>2. CASE TellPlugins
      BY <3>2 DEF TellPlugins, EventOK
    <3>3. CASE UNCHANGED event
      BY <2>1, <2>2, <3>3, StepKeepsEvent
    <3> QED
      BY <3>1, <3>2, <3>3 DEF EventsNext, TableStep, allvars
  <2> QED
    BY <2>3, <2>4 DEF EventIInv
<1> QED
  BY <1>1, <1>2, PTL DEF EventsSpec

\* The events leave the table as they find it: what holds of the table alone
\* holds of it while players spawn, die and are equipped.
THEOREM EventsLeaveTable == EventsSpec => FairSpec
<1>1. EventsInit => Init
  BY DEF EventsInit
<1>2. [EventsNext]_allvars => [Next]_vars
  BY DEF EventsNext, TellGamemode, TellPlugins, TableStep, allvars
<1> QED
  BY <1>1, <1>2, PTL DEF EventsSpec, Spec, FairSpec

\* Between the gamemode's lookup of a user id and the plugins' kicks, drops and
\* connections may happen, but the user id never comes to lead to another
\* player.
THEOREM PluginsHearOfSameClient == EventsSpec => SameClientTold
<1> DEFINE Same == TellPlugins => \/ ToldPlugins = event.told
                                  \/ INVALID_USERID \in {ToldPlugins, event.told}
<1>1. ASSUME EventIInv PROVE Same
  <2> SUFFICES ASSUME TellPlugins
               PROVE  \/ ToldPlugins = event.told
                      \/ INVALID_USERID \in {ToldPlugins, event.told}
    OBVIOUS
  <2>1. PICK t \in Slots :
           /\ event.told \in {t, INVALID_USERID}
           /\ \A r \in RowsOf(players) : r.uid = event.uid => r.id = t
    BY <1>1 DEF TellPlugins, EventIInv, EventOK
  <2>2. ToldPlugins \in {t, INVALID_USERID}
    BY <1>1, <2>1, LookupResolves DEF EventIInv, IInv, DataOK, ToldPlugins
  <2> QED
    BY <2>1, <2>2
<1>2. EventIInv /\ [EventsNext]_allvars => [Same]_allvars
  BY <1>1
<1> QED
  BY <1>2, EventsInductive, PTL DEF EventsSpec, SameClientTold

\* UTIL_Create_TE_DLIGHT spares every client that does not support lights and
\* has a row of its own.
THEOREM OldClientsSpared == EventsSpec => []LightsSpareOldClients
<1>1. ASSUME EventIInv PROVE LightsSpareOldClients
  <2> SUFFICES ASSUME NEW s \in UTIL_Create_TE_DLIGHT, ~slot[s].light,
                      NEW k \in DOMAIN players, players[k].id = s,
                      players[k].uid = slot[s].uid
               PROVE  FALSE
    BY DEF LightsSpareOldClients
  <2>1. /\ Table /\ LightsOK /\ UserIdsOK(slot, nextUid, RowsOf(players))
        /\ noLight = Cardinality(Lightless)
    BY <1>1, TableViews DEF EventIInv, IInv, DataOK, Table
  <2>2. s \in Slots /\ slot[s].uid # 0 /\ players[k] \in RowsOf(players)
    BY <2>1 DEF UTIL_Create_TE_DLIGHT, UserIdsOK, RowsOf
  <2>3. ~players[k].light
    BY <2>1, <2>2 DEF LightsOK
  <2>4. ~SupportsDynamicLights(s)
    BY <2>1, <2>3 DEF SupportsDynamicLights, Table, Unique
  <2>5. s \in Lightless
    BY <2>3 DEF Lightless
  <2>6. IsFiniteSet(Lightless)
    BY <2>1, LightlessFinite, TableViews DEF Table
  <2>7. noLight # 0
    BY <2>1, <2>5, <2>6, FS_EmptySet
  <2> QED
    BY <2>4, <2>7 DEF UTIL_Create_TE_DLIGHT
<1> QED
  BY <1>1, EventsInductive, PTL

=============================================================================
