---------------------------- MODULE PlayersProofs -----------------------------
(***************************************************************************)
(* A player that stays has its own client, for any number of players, keys *)
(* and users.  OwnClient alone is not inductive: a new player must get a   *)
(* key nobody has (VacantIsFree) and there must be one (EnoughKeys), which *)
(* rests on no key being in the list of free ones twice.                   *)
(*                                                                         *)
(* On top of that, EventInv follows the events of one tick: at each phase  *)
(* the tickets of a player and the lists of its key are those of its view, *)
(* or will be once the event it carries is applied (Due).  It needs to     *)
(* know which events there are (EventsTracked, JoinEvents), and that two   *)
(* entities have the same key only while one leaves and the other has not  *)
(* been heard of (KeysApart).                                              *)
(***************************************************************************)
EXTENDS Players, SequenceTheorems, FiniteSetTheorems, TLAPS

SlabTypeOK ==
    /\ client_id \in [Entities -> 0 .. MaxClients]
    /\ uuid \in [Entities -> Users \cup {None}]
    /\ clients \in [ClientIds -> Users \cup {None}]
    /\ vacant \in Seq(ClientIds)
    /\ new_players \in Seq(Users)
    /\ removing \subseteq InEcs
    /\ \A e \in InEcs : uuid[e] \in Users

VacantIsFree ==
    /\ \A i \in 1 .. Len(vacant) : clients[vacant[i]] = None
    /\ \A i, j \in 1 .. Len(vacant) : i # j => vacant[i] # vacant[j]

EnoughKeys == Len(new_players) <= Len(vacant)

ClientInv == SlabTypeOK /\ VacantIsFree /\ EnoughKeys /\ OwnClient

clientvars == <<client_id, uuid, clients, vacant, new_players, removing>>

-----------------------------------------------------------------------------
LEMMA ClientInvInit == Init => ClientInv
<1> SUFFICES ASSUME Init PROVE ClientInv OBVIOUS
<1>1. InEcs = {} BY DEF Init, InEcs
<1>2. vacant \in Seq(ClientIds) /\ Len(vacant) = MaxClients /\ \A i \in 1 .. MaxClients : vacant[i] = i
  <2>1. vacant = [i \in 1 .. MaxClients |-> i] BY DEF Init, ClientIds
  <2> QED BY <2>1, PlayersAssumption, SMT DEF ClientIds
<1>3. 0 \in 0 .. MaxClients BY PlayersAssumption
<1>4. SlabTypeOK BY <1>1, <1>2, <1>3 DEF Init, SlabTypeOK
<1>5. VacantIsFree BY <1>2, PlayersAssumption DEF Init, VacantIsFree, ClientIds
<1>6. EnoughKeys BY <1>2, PlayersAssumption DEF Init, EnoughKeys
<1>7. OwnClient BY <1>1 DEF Init, OwnClient, Staying
<1> QED BY <1>4, <1>5, <1>6, <1>7 DEF ClientInv

\* What does not touch players, users and keys.
LEMMA OthersKeep == ClientInv /\ UNCHANGED clientvars => ClientInv'
BY DEF ClientInv, clientvars, SlabTypeOK, VacantIsFree, EnoughKeys, OwnClient, Staying, InEcs

\* Connect leaves one free key for each player that waits.
LEMMA ConnectKeeps ==
    ASSUME ClientInv, NEW u \in Users, Connect(u)
    PROVE  ClientInv'
<1>1. /\ new_players' = Append(new_players, u) /\ Len(new_players) < Len(vacant)
      /\ UNCHANGED <<client_id, uuid, removing, clients, vacant>>
      BY DEF Connect, ecsvars
<1>2. new_players \in Seq(Users) /\ vacant \in Seq(ClientIds) BY DEF ClientInv, SlabTypeOK
<1>3. new_players' \in Seq(Users) /\ Len(new_players') = Len(new_players) + 1
      BY <1>1, <1>2, AppendProperties
<1>4. EnoughKeys'
  <2>1. Len(new_players) \in Nat /\ Len(vacant) \in Nat BY <1>2, LenProperties
  <2> QED BY <1>1, <1>3, <2>1 DEF EnoughKeys
<1>5. SlabTypeOK' BY <1>1, <1>3 DEF ClientInv, SlabTypeOK, InEcs
<1>6. VacantIsFree' BY <1>1 DEF ClientInv, VacantIsFree
<1>7. OwnClient' BY <1>1 DEF ClientInv, OwnClient, Staying, InEcs
<1> QED BY <1>4, <1>5, <1>6, <1>7 DEF ClientInv

LEMMA AcceptKeeps ==
    ASSUME ClientInv, NEW e \in Entities, NEW p \in Centers, AcceptNewPlayer(e, p)
    PROVE  ClientInv'
<1> DEFINE u == Head(new_players)
           id == Head(vacant)
<1>1. /\ new_players # <<>> /\ e \notin InEcs
      /\ clients' = [clients EXCEPT ![id] = u]
      /\ vacant' = Tail(vacant) /\ new_players' = Tail(new_players)
      /\ client_id' = [client_id EXCEPT ![e] = id] /\ uuid' = [uuid EXCEPT ![e] = u]
      /\ removing' = removing
      BY DEF AcceptNewPlayer
<1>2. /\ client_id \in [Entities -> 0 .. MaxClients] /\ uuid \in [Entities -> Users \cup {None}]
      /\ clients \in [ClientIds -> Users \cup {None}]
      /\ vacant \in Seq(ClientIds) /\ new_players \in Seq(Users)
      /\ removing \subseteq InEcs /\ \A f \in InEcs : uuid[f] \in Users
      BY DEF ClientInv, SlabTypeOK
<1>3. u \in Users /\ new_players' \in Seq(Users) /\ Len(new_players') = Len(new_players) - 1
      BY <1>1, <1>2, HeadTailProperties
<1>4. Len(vacant) \in Nat /\ Len(vacant) > 0 /\ Len(new_players) \in Nat
  <2>1. Len(new_players) > 0 /\ Len(new_players) \in Nat BY <1>1, <1>2, EmptySeq, LenProperties
  <2> QED BY <1>2, <2>1, LenProperties DEF ClientInv, EnoughKeys
<1>5. vacant # <<>> BY <1>4
<1>6. /\ id \in ClientIds /\ vacant' \in Seq(ClientIds) /\ Len(vacant') = Len(vacant) - 1
      /\ \A i \in 1 .. Len(vacant') : vacant'[i] = vacant[i + 1]
      BY <1>1, <1>2, <1>5, HeadTailProperties
<1>7. id = vacant[1] BY <1>2, <1>5
<1>8. clients[id] = None
  <2>1. 1 \in 1 .. Len(vacant) BY <1>4
  <2> QED BY <1>7, <2>1 DEF ClientInv, VacantIsFree
<1> HIDE DEF u, id
<1>9. None \notin Users BY PlayersAssumption
<1>10. id \in 1 .. MaxClients /\ id # 0 BY <1>6 DEF ClientIds
<1>11. InEcs' = InEcs \cup {e} BY <1>1, <1>2, <1>10, SMT DEF InEcs
<1>12. SlabTypeOK'
  <2>1. client_id' \in [Entities -> 0 .. MaxClients] BY <1>1, <1>2, <1>10, SMT
  <2>2. uuid' \in [Entities -> Users \cup {None}] BY <1>1, <1>2, <1>3
  <2>3. clients' \in [ClientIds -> Users \cup {None}] BY <1>1, <1>2, <1>3
  <2>4. \A f \in InEcs' : uuid'[f] \in Users BY <1>1, <1>2, <1>3, <1>11 DEF InEcs
  <2>5. removing' \subseteq InEcs' BY <1>1, <1>2, <1>11
  <2> QED BY <1>3, <1>6, <2>1, <2>2, <2>3, <2>4, <2>5 DEF SlabTypeOK
<1>13. VacantIsFree'
  <2>1. \A i \in 1 .. Len(vacant') : i + 1 \in 1 .. Len(vacant) /\ i + 1 # 1 BY <1>4, <1>6
  <2>2. 1 \in 1 .. Len(vacant) BY <1>4
  <2>3. \A i \in 1 .. Len(vacant') : vacant'[i] # id /\ clients[vacant'[i]] = None
        BY <1>6, <1>7, <2>1, <2>2 DEF ClientInv, VacantIsFree
  <2>4. \A i \in 1 .. Len(vacant') : clients'[vacant'[i]] = None
    <3>1. \A i \in 1 .. Len(vacant') : vacant'[i] \in ClientIds BY <1>6, ElementOfSeq
    <3> QED BY <1>1, <1>2, <2>3, <3>1
  <2>5. \A i, j \in 1 .. Len(vacant') : i # j => vacant'[i] # vacant'[j]
    <3> SUFFICES ASSUME NEW i \in 1 .. Len(vacant'), NEW j \in 1 .. Len(vacant'), i # j
                 PROVE  vacant'[i] # vacant'[j]
        OBVIOUS
    <3>1. i + 1 # j + 1 BY <1>4, <1>6
    <3>2. vacant[i + 1] # vacant[j + 1] BY <2>1, <3>1 DEF ClientInv, VacantIsFree
    <3> QED BY <1>6, <3>2
  <2> QED BY <2>4, <2>5 DEF VacantIsFree
<1>14. EnoughKeys' BY <1>3, <1>4, <1>6 DEF ClientInv, EnoughKeys
<1>15. OwnClient'
  <2>1. Staying' = Staying \cup {e} BY <1>1, <1>2, <1>11 DEF Staying
  <2>2. \A f \in Staying : f # e /\ f \in Entities /\ client_id[f] \in ClientIds /\ client_id[f] # id
    <3> SUFFICES ASSUME NEW f \in Staying
                 PROVE  f # e /\ f \in Entities /\ client_id[f] \in ClientIds /\ client_id[f] # id
        OBVIOUS
    <3>1. f \in InEcs /\ f # e /\ f \in Entities BY <1>1 DEF Staying, InEcs
    <3>2. clients[client_id[f]] = uuid[f] BY DEF ClientInv, OwnClient
    <3>3. client_id[f] # id BY <1>2, <1>8, <1>9, <3>1, <3>2
    <3>4. client_id[f] \in 1 .. MaxClients BY <1>2, <3>1, SMT DEF InEcs
    <3> QED BY <3>1, <3>3, <3>4 DEF ClientIds
  <2>3. \A f \in Staying : client_id'[f] = client_id[f] /\ uuid'[f] = uuid[f]
                               /\ clients'[client_id[f]] = clients[client_id[f]]
        BY <1>1, <1>2, <2>2
  <2>4. client_id'[e] = id /\ uuid'[e] = u /\ clients'[id] = u BY <1>1, <1>2, <1>6
  <2>5. \A f \in Staying' : clients'[client_id'[f]] = uuid'[f]
        BY <2>1, <2>3, <2>4 DEF ClientInv, OwnClient
  <2>6. \A f, g \in Staying' : client_id'[g] = client_id'[f] => g = f
        BY <2>1, <2>2, <2>3, <2>4 DEF ClientInv, OwnClient
  <2>7. \A k \in ClientIds : clients'[k] # None => \E f \in Staying' : client_id'[f] = k
    <3> SUFFICES ASSUME NEW k \in ClientIds, clients'[k] # None
                 PROVE  \E f \in Staying' : client_id'[f] = k
        OBVIOUS
    <3>1. CASE k = id BY <2>1, <2>4, <3>1
    <3>2. CASE k # id
      <4>1. clients[k] # None BY <1>1, <1>2, <3>2
      <4>2. PICK f \in Staying : client_id[f] = k BY <4>1 DEF ClientInv, OwnClient
      <4> QED BY <2>1, <2>3, <4>2
    <3> QED BY <3>1, <3>2
  <2> QED BY <2>5, <2>6, <2>7 DEF OwnClient
<1> QED BY <1>12, <1>13, <1>14, <1>15 DEF ClientInv

\* A client goes in the same step as its player becomes one that does not stay.
LEMMA RemoveKeeps == ClientInv /\ RemoveDisconnected => ClientInv'
<1> SUFFICES ASSUME ClientInv, RemoveDisconnected PROVE ClientInv' OBVIOUS
<1> DEFINE keys == {client_id[e] : e \in Gone}
<1>1. /\ removing' = Gone
      /\ client_id' = [e \in Entities |-> IF e \in removing THEN 0 ELSE client_id[e]]
      /\ uuid' = [e \in Entities |-> IF e \in removing THEN None ELSE uuid[e]]
      /\ clients' = [i \in ClientIds |-> IF i \in keys THEN None ELSE clients[i]]
      /\ new_players' = new_players
      BY DEF RemoveDisconnected, Despawn
<1>2. PICK freed \in SetToSeqs(keys) : vacant' = freed \o vacant BY DEF RemoveDisconnected
<1>3. /\ client_id \in [Entities -> 0 .. MaxClients] /\ uuid \in [Entities -> Users \cup {None}]
      /\ clients \in [ClientIds -> Users \cup {None}]
      /\ vacant \in Seq(ClientIds) /\ new_players \in Seq(Users)
      /\ removing \subseteq InEcs /\ \A f \in InEcs : uuid[f] \in Users
      BY DEF ClientInv, SlabTypeOK
<1>4. Gone \subseteq Staying /\ Staying \subseteq InEcs /\ InEcs \subseteq Entities
      BY DEF Gone, Staying, InEcs
<1>5. \A e \in InEcs : client_id[e] \in ClientIds BY <1>3, SMT DEF InEcs, ClientIds
<1>6. keys \subseteq ClientIds BY <1>4, <1>5
<1>7. IsFiniteSet(keys) /\ Cardinality(keys) \in Nat
  <2>1. IsFiniteSet(ClientIds) BY PlayersAssumption, FS_Interval DEF ClientIds
  <2> QED BY <1>6, <2>1, FS_Subset, FS_CardinalityType
<1>8. /\ freed \in Seq(ClientIds) /\ \A i \in 1 .. Len(freed) : freed[i] \in keys
      /\ \A i, j \in 1 .. Len(freed) : i # j => freed[i] # freed[j]
  <2> HIDE DEF keys
  <2>1. /\ freed \in [1 .. Cardinality(keys) -> keys]
        /\ \A i, j \in 1 .. Cardinality(keys) : i # j => freed[i] # freed[j]
        BY DEF SetToSeqs
  <2>2. freed \in Seq(keys) /\ Len(freed) = Cardinality(keys) BY <1>7, <2>1, SMT
  <2>3. freed \in Seq(ClientIds) BY <1>6, <1>7, <2>1, SMT
  <2> QED BY <2>1, <2>2, <2>3
<1>9. \A e \in Gone : clients[client_id[e]] # None
      BY <1>3, <1>4, PlayersAssumption DEF ClientInv, OwnClient
<1>10. \A k \in keys : clients[k] # None BY <1>9
<1> HIDE DEF keys
<1>11. InEcs' = InEcs \ removing
  <2>1. \A e \in Entities : client_id'[e] = IF e \in removing THEN 0 ELSE client_id[e] BY <1>1
  <2> QED BY <2>1 DEF InEcs
<1>12. /\ vacant' \in Seq(ClientIds) /\ Len(vacant') = Len(freed) + Len(vacant)
       /\ Len(freed) \in Nat /\ Len(vacant) \in Nat
       /\ \A i \in 1 .. Len(freed) + Len(vacant) :
              vacant'[i] = IF i <= Len(freed) THEN freed[i] ELSE vacant[i - Len(freed)]
       BY <1>2, <1>3, <1>8, ConcatProperties, LenProperties
<1>13. SlabTypeOK'
  <2>1. client_id' \in [Entities -> 0 .. MaxClients] BY <1>1, <1>3, PlayersAssumption, SMT
  <2>2. uuid' \in [Entities -> Users \cup {None}] BY <1>1, <1>3
  <2>3. clients' \in [ClientIds -> Users \cup {None}] BY <1>1, <1>3
  <2>4. removing' \subseteq InEcs' BY <1>1, <1>4, <1>11 DEF Gone
  <2>5. \A f \in InEcs' : uuid'[f] \in Users BY <1>1, <1>3, <1>4, <1>11
  <2> QED BY <1>1, <1>3, <1>12, <2>1, <2>2, <2>3, <2>4, <2>5 DEF SlabTypeOK
<1>14. VacantIsFree'
  <2>1. \A i \in 1 .. Len(vacant') :
            \/ i \in 1 .. Len(freed) /\ vacant'[i] = freed[i]
            \/ i - Len(freed) \in 1 .. Len(vacant) /\ vacant'[i] = vacant[i - Len(freed)]
        BY <1>12
  <2>2. \A i \in 1 .. Len(vacant') : vacant'[i] \in ClientIds BY <1>12, ElementOfSeq
  <2>3. \A i \in 1 .. Len(vacant) : clients[vacant[i]] = None BY DEF ClientInv, VacantIsFree
  <2>4. \A i \in 1 .. Len(vacant') : clients'[vacant'[i]] = None
    <3> SUFFICES ASSUME NEW i \in 1 .. Len(vacant') PROVE clients'[vacant'[i]] = None OBVIOUS
    <3>1. CASE vacant'[i] \in keys BY <1>1, <2>2, <3>1
    <3>2. CASE vacant'[i] \notin keys
      <4>1. clients[vacant'[i]] = None BY <1>8, <2>1, <2>3, <3>2
      <4> QED BY <1>1, <2>2, <3>2, <4>1
    <3> QED BY <3>1, <3>2
  <2>5. \A i, j \in 1 .. Len(vacant') : i # j => vacant'[i] # vacant'[j]
    <3> SUFFICES ASSUME NEW i \in 1 .. Len(vacant'), NEW j \in 1 .. Len(vacant'), i # j
                 PROVE  vacant'[i] # vacant'[j]
        OBVIOUS
    <3>1. CASE i \in 1 .. Len(freed) /\ j \in 1 .. Len(freed) BY <1>8, <1>12, <3>1
    <3>2. CASE i \in 1 .. Len(freed) /\ j \notin 1 .. Len(freed)
      <4>1. vacant'[i] \in keys BY <1>8, <1>12, <3>2
      <4>2. clients[vacant'[j]] = None BY <2>1, <2>3, <3>2
      <4> QED BY <1>10, <4>1, <4>2
    <3>3. CASE i \notin 1 .. Len(freed) /\ j \in 1 .. Len(freed)
      <4>1. vacant'[j] \in keys BY <1>8, <1>12, <3>3
      <4>2. clients[vacant'[i]] = None BY <2>1, <2>3, <3>3
      <4> QED BY <1>10, <4>1, <4>2
    <3>4. CASE i \notin 1 .. Len(freed) /\ j \notin 1 .. Len(freed)
      <4>1. /\ i - Len(freed) \in 1 .. Len(vacant) /\ vacant'[i] = vacant[i - Len(freed)]
            /\ j - Len(freed) \in 1 .. Len(vacant) /\ vacant'[j] = vacant[j - Len(freed)]
            BY <2>1, <3>4
      <4>2. i - Len(freed) # j - Len(freed) BY <1>12
      <4> QED BY <4>1, <4>2 DEF ClientInv, VacantIsFree
    <3> QED BY <3>1, <3>2, <3>3, <3>4
  <2> QED BY <2>4, <2>5 DEF VacantIsFree
<1>15. EnoughKeys'
  <2>1. Len(new_players) \in Nat BY <1>3, LenProperties
  <2> QED BY <1>1, <1>12, <2>1 DEF ClientInv, EnoughKeys
<1>16. OwnClient'
  <2>1. Staying' = Staying \ Gone BY <1>1, <1>11 DEF Staying
  <2>2. \A f \in Staying' : /\ f \in Staying /\ client_id'[f] = client_id[f] /\ uuid'[f] = uuid[f]
                            /\ client_id[f] \in ClientIds /\ client_id[f] \notin keys
    <3> SUFFICES ASSUME NEW f \in Staying'
                 PROVE  /\ f \in Staying /\ client_id'[f] = client_id[f] /\ uuid'[f] = uuid[f]
                        /\ client_id[f] \in ClientIds /\ client_id[f] \notin keys
        OBVIOUS
    <3>1. f \in Staying /\ f \notin Gone /\ f \in Entities /\ f \notin removing
          BY <1>4, <2>1 DEF Staying
    <3>2. \A e \in Gone : client_id[e] # client_id[f]
          BY <1>4, <3>1 DEF ClientInv, OwnClient
    <3>3. client_id[f] \notin keys BY <3>2 DEF keys
    <3> QED BY <1>1, <1>4, <1>5, <3>1, <3>3
  <2>3. \A f \in Staying' : clients'[client_id'[f]] = uuid'[f]
        BY <1>1, <2>2 DEF ClientInv, OwnClient
  <2>4. \A f, g \in Staying' : client_id'[g] = client_id'[f] => g = f
        BY <2>2 DEF ClientInv, OwnClient
  <2>5. \A k \in ClientIds : clients'[k] # None => \E f \in Staying' : client_id'[f] = k
    <3> SUFFICES ASSUME NEW k \in ClientIds, clients'[k] # None
                 PROVE  \E f \in Staying' : client_id'[f] = k
        OBVIOUS
    <3>1. k \notin keys /\ clients[k] # None BY <1>1
    <3>2. PICK f \in Staying : client_id[f] = k BY <3>1 DEF ClientInv, OwnClient
    <3>3. f \notin Gone BY <3>1, <3>2 DEF keys
    <3>4. f \in Staying' BY <2>1, <3>3
    <3> QED BY <2>2, <3>2, <3>4
  <2> QED BY <2>3, <2>4, <2>5 DEF OwnClient
<1> QED BY <1>13, <1>14, <1>15, <1>16 DEF ClientInv

LEMMA ClientInvStep == ClientInv /\ [Next]_playersvars => ClientInv'
<1> SUFFICES ASSUME ClientInv, [Next]_playersvars PROVE ClientInv' OBVIOUS
<1>1. CASE \E e \in Entities, p \in Centers : AcceptNewPlayer(e, p) BY <1>1, AcceptKeeps
<1>2. CASE \E u \in Users : Connect(u) BY <1>2, ConnectKeeps
<1>3. CASE RemoveDisconnected BY <1>3, RemoveKeeps
<1>4. CASE \/ UpdatePlayerViews \/ UpdateViewOnJoin \/ RemoveDeadEntities \/ UpdateTickets
           \/ EndPoll \/ HandlePackets \/ UpdateSubscriptions
           \/ UNCHANGED playersvars \/ \E id \in ClientIds : Hangup(id)
  <2>1. UNCHANGED clientvars
        BY <1>4 DEF UpdatePlayerViews, UpdateViewOnJoin, RemoveDeadEntities, UpdateTickets, EndPoll,
           HandlePackets, UpdateSubscriptions, Hangup, playersvars, ecsvars, servervars, clientvars
  <2> QED BY <2>1, OthersKeep
<1> QED BY <1>1, <1>2, <1>3, <1>4 DEF Next

\* Whatever comes and goes in whatever order (lib.rs accept_new_players,
\* player_leave.rs remove_disconnected_clients, the slab of client.rs), each
\* player that stays has a client of its own user, and each client a player.
THEOREM PlayersHaveOwnClient == PlayersSpec => []OwnClient
<1>1. ClientInv => OwnClient BY DEF ClientInv
<1> QED BY <1>1, ClientInvInit, ClientInvStep, PTL DEF PlayersSpec

ClientFound ==
    phase = "remove_disconnected_clients" => \A e \in Staying : clients[client_id[e]] # None

\* The unwrap of player_leave.rs:64 always finds the client.
THEOREM UnwrapFindsClient == PlayersSpec => []ClientFound
<1>1. ClientInv => ClientFound
      BY PlayersAssumption DEF ClientInv, SlabTypeOK, OwnClient, ClientFound, Staying
<1> QED BY <1>1, ClientInvInit, ClientInvStep, PTL DEF PlayersSpec

-----------------------------------------------------------------------------
(* The events, the tickets and the subscriptions. *)

Viewing == tracked["update_player_views"]
Joined == tracked["update_view_on_join"]

Counts == [Chunks -> Nat]
Events == [old : Centers \cup {None}, new : Centers \cup {None}]

AfterTickets == {"poll_new_players", "handle_packets", "update_chunk_subscriptions",
                 "remove_disconnected_clients"}
BeforeTickets == {"remove_dead_entities", "update_tickets_for_players"}
BeforeLists == BeforeTickets \cup
                   {"poll_new_players", "handle_packets", "update_chunk_subscriptions"}

EventTypeOK ==
    /\ phase \in {"update_player_views", "update_view_on_join"} \cup BeforeTickets \cup AfterTickets
    /\ view \in [Entities -> Centers] /\ position \in [Entities -> Centers]
    /\ view_event \in [Entities -> Events]
    /\ tracked \in [{"update_player_views", "update_view_on_join"} -> SUBSET Entities]
    /\ tickets \in [Entities -> Counts] /\ subscriptions \in [ClientIds -> Counts]
    /\ joining \subseteq InEcs

\* An entity that is not there has left nothing behind for the next of its number.
Absent == \A e \in Entities \ InEcs : view_event[e] = NoEvent /\ tickets[e] = Nothing

EventsTracked == \A e \in Entities : view_event[e] # NoEvent => e \in Viewing \cup Joined

\* A player that joined has no tickets before its first event is applied, and no
\* event in the rest of the tick it was accepted in.
JoinEvents ==
    \A e \in joining :
        /\ tickets[e] = Nothing
        /\ phase \in BeforeTickets => view_event[e] = [old |-> None, new |-> view[e]]
        /\ phase \in AfterTickets => view_event[e] = NoEvent /\ e \notin removing

\* A player has a list of tickets from its first view on, unless views are empty.
ListsKept == (\E p \in Centers : Around[p] # {}) => \A e \in InEcs \ joining : e \in by_entity

\* Counts that are right, and counts that the event under way makes right.
Right(counts, e) == counts = InView(e)
Due(counts, e) == Updated(counts, view_event[e]) = InView(e)

TicketsRight ==
    \A e \in Staying \ (joining \cup lost) :
        IF phase \in BeforeTickets \/ (phase = "update_view_on_join" /\ e \in Viewing)
        THEN Due(tickets[e], e) ELSE Right(tickets[e], e)

DeadTickets ==
   \A e \in removing :
        /\ phase = "update_tickets_for_players" => tickets[e] = Nothing
        /\ phase \in AfterTickets /\ view_event[e] = NoEvent => tickets[e] = Nothing

\* Two entities share a key only from when the second is accepted until the end of
\* the tick, when the first is despawned.
KeysApart ==
    \A e, f \in InEcs :
        e # f /\ client_id[e] = client_id[f] =>
            /\ phase \in AfterTickets
            /\ (e \in joining /\ f \in removing) \/ (f \in joining /\ e \in removing)

\* Whose chunks the list entries of a key are, or are about to be.
Listed(id) ==
   {e \in InEcs : /\ client_id[e] = id
                  /\ phase \in BeforeTickets \/ e \notin joining
                  /\ phase = "remove_disconnected_clients" => e \notin removing}

SubscriptionsRight ==
    \A id \in ClientIds \ lost :
        /\ Listed(id) = {} => subscriptions[id] = Nothing
        /\ \A e \in Listed(id) :
               IF phase \in BeforeLists \/ (phase = "update_view_on_join" /\ e \in Viewing)
               THEN Due(subscriptions[id], e) ELSE Right(subscriptions[id], e)

EventInv ==
    /\ EventTypeOK /\ Absent /\ EventsTracked /\ JoinEvents /\ ListsKept
    /\ TicketsRight /\ DeadTickets /\ KeysApart /\ SubscriptionsRight

PlayersInv == ClientInv /\ EventInv

-----------------------------------------------------------------------------
\* The counts of one who sees the chunks around a center, or none.
ViewOf(center) == [c \in Chunks |-> IF c \in Seen(center) THEN 1 ELSE 0]

LEMMA InViewIs == \A e \in Entities : InView(e) = ViewOf(view[e])
BY DEF InView, ViewOf

LEMMA ViewOfNone == ViewOf(None) = Nothing
BY DEF ViewOf, Nothing, Seen

LEMMA ViewOfType == \A center : ViewOf(center) \in Counts
BY DEF ViewOf, Counts

\* Applying a view update takes the counts of the old view to those of the new.
LEMMA UpdatedView ==
    ASSUME NEW a, NEW b
    PROVE  Updated(ViewOf(a), [old |-> a, new |-> b]) = ViewOf(b)
<1>1. \A c \in Chunks : /\ c \in old_chunks([old |-> a, new |-> b]) <=> c \in Seen(a) /\ c \notin Seen(b)
                        /\ c \in new_chunks([old |-> a, new |-> b]) <=> c \in Seen(b) /\ c \notin Seen(a)
      BY DEF old_chunks, new_chunks
<1>2. \A c \in Chunks : ViewOf(a)[c] = IF c \in Seen(a) THEN 1 ELSE 0
      BY DEF ViewOf
<1>3. Pred(1) = 0 BY DEF Pred
<1> QED BY <1>1, <1>2, <1>3 DEF Updated, ViewOf

LEMMA UpdatedNone == \A counts \in Counts : Updated(counts, NoEvent) = counts
<1>1. old_chunks(NoEvent) = {} /\ new_chunks(NoEvent) = {}
      BY DEF old_chunks, new_chunks, NoEvent
<1> QED BY <1>1 DEF Updated, Counts

LEMMA UpdatedType == \A counts \in Counts : \A event : Updated(counts, event) \in Counts
BY DEF Updated, Counts, Pred

LEMMA EventTypes == NoEvent \in Events /\ Nothing \in Counts /\ \A p, q \in Centers \cup {None} : [old |-> p, new |-> q] \in Events
BY DEF NoEvent, Events, Nothing, Counts

LEMMA EventInvInit == Init => EventInv
<1> SUFFICES ASSUME Init PROVE EventInv OBVIOUS
<1>1. InEcs = {} BY DEF Init, InEcs
<1>2. EventTypeOK BY PlayersAssumption, EventTypes DEF Init, EventTypeOK
<1>3. Absent /\ EventsTracked /\ JoinEvents BY <1>1 DEF Init, Absent, EventsTracked, JoinEvents
<1>4. ListsKept /\ TicketsRight /\ DeadTickets /\ KeysApart
      BY <1>1 DEF Init, ListsKept, TicketsRight, DeadTickets, KeysApart, Staying
<1>5. SubscriptionsRight
  <2>1. \A id \in ClientIds : Listed(id) = {} BY <1>1 DEF Listed
  <2>2. \A id \in ClientIds : subscriptions[id] = Nothing BY DEF Init
  <2> QED BY <2>1, <2>2 DEF SubscriptionsRight
<1> QED BY <1>2, <1>3, <1>4, <1>5 DEF EventInv

\* The steps that touch none of this but the clock and positions.
LEMMA EventsKeep ==
    ASSUME EventInv, position' \in [Entities -> Centers],
           UNCHANGED <<client_id, view, joining, removing, view_event, tracked, tickets, by_entity,
                       subscriptions, lost>>,
           \/ phase' = phase
           \/ phase = "poll_new_players" /\ phase' = "handle_packets"
           \/ phase = "handle_packets" /\ phase' = "update_chunk_subscriptions"
    PROVE  EventInv'
<1>1. /\ InEcs' = InEcs /\ Staying' = Staying /\ Viewing' = Viewing /\ Joined' = Joined
      BY DEF InEcs, Staying, Viewing, Joined
<1>2. /\ phase' \in AfterTickets <=> phase \in AfterTickets
      /\ phase' \in BeforeTickets <=> phase \in BeforeTickets
      /\ phase' \in BeforeLists <=> phase \in BeforeLists
      /\ \A p \in {"update_player_views", "update_view_on_join", "update_tickets_for_players",
                   "remove_disconnected_clients"} : phase' = p <=> phase = p
      BY DEF AfterTickets, BeforeTickets, BeforeLists
<1>3. EventTypeOK'
  <2>1. phase' \in {"update_player_views", "update_view_on_join"} \cup BeforeTickets \cup AfterTickets
        BY DEF EventInv, EventTypeOK, BeforeTickets, AfterTickets
  <2> QED BY <1>1, <2>1 DEF EventInv, EventTypeOK
<1>4. Absent' /\ EventsTracked' /\ JoinEvents' /\ ListsKept' /\ DeadTickets' /\ KeysApart'
      BY <1>1, <1>2 DEF EventInv, Absent, EventsTracked, JoinEvents, ListsKept, DeadTickets, KeysApart
<1>5. \A e \in Entities : InView(e)' = InView(e) BY DEF InView
<1>6. InEcs \subseteq Entities /\ Staying \subseteq InEcs BY DEF InEcs, Staying
<1>7. TicketsRight'
      BY <1>1, <1>2, <1>5, <1>6 DEF EventInv, TicketsRight, Due, Right
<1>8. SubscriptionsRight'
  <2>1. \A id : Listed(id)' = Listed(id) BY <1>1, <1>2 DEF Listed
  <2>2. \A id : Listed(id) \subseteq Entities BY <1>6 DEF Listed
  <2> QED BY <1>1, <1>2, <1>5, <2>1, <2>2 DEF EventInv, SubscriptionsRight, Due, Right
<1> QED BY <1>3, <1>4, <1>7, <1>8 DEF EventInv

LEMMA ViewsKeep ==
    ASSUME PlayersInv, UpdatePlayerViews
    PROVE  EventInv'
<1>1. /\ phase = "update_player_views" /\ phase' = "update_view_on_join"
      /\ tracked' = [tracked EXCEPT !["update_player_views"] = Moved]
      /\ view' = [e \in Entities |-> IF e \in Moved THEN position[e] ELSE view[e]]
      /\ UNCHANGED <<client_id, position, joining, removing, tickets, by_entity, subscriptions, lost>>
      BY DEF UpdatePlayerViews, RunInserting, ticketvars
<1>2. view_event' = [e \in Entities |-> IF e \in Moved THEN [old |-> view[e], new |-> position[e]]
                                        ELSE IF e \in Viewing THEN NoEvent ELSE view_event[e]]
      BY DEF UpdatePlayerViews, RunInserting, Viewing
<1>3. EventTypeOK /\ Moved \subseteq InEcs /\ InEcs \subseteq Entities /\ Staying \subseteq InEcs
      /\ view \in [Entities -> Centers] /\ position \in [Entities -> Centers] /\ None \notin Centers
      BY PlayersAssumption DEF PlayersInv, EventInv, EventTypeOK, Moved, InEcs, Staying
<1>4. InEcs' = InEcs /\ Staying' = Staying /\ Viewing' = Moved /\ Joined' = Joined
      BY <1>1, <1>3 DEF InEcs, Staying, Viewing, Joined, EventTypeOK
<1>5. \A e \in Entities \ Moved : view'[e] = view[e] /\ InView(e)' = InView(e)
      BY <1>1 DEF InView
<1>6. \A e \in Moved : view_event'[e] = [old |-> view[e], new |-> view'[e]] /\ view_event'[e] # NoEvent
      BY <1>1, <1>2, <1>3 DEF NoEvent
<1>7. EventTypeOK'
  <2>1. view' \in [Entities -> Centers] BY <1>1, <1>3
  <2>2. view_event' \in [Entities -> Events]
    <3>1. \A e \in Entities : view_event[e] \in Events BY <1>3 DEF EventTypeOK
    <3>2. \A e \in Entities : [old |-> view[e], new |-> position[e]] \in Events BY <1>3, EventTypes
    <3> QED BY <1>2, <3>1, <3>2, EventTypes
  <2>3. tracked' \in [{"update_player_views", "update_view_on_join"} -> SUBSET Entities]
        BY <1>1, <1>3 DEF EventTypeOK
  <2> QED BY <1>1, <1>3, <1>4, <2>1, <2>2, <2>3 DEF EventTypeOK
<1>8. Absent'
      BY <1>1, <1>2, <1>3, <1>4 DEF PlayersInv, EventInv, Absent
<1>9. EventsTracked'
      BY <1>2, <1>4 DEF PlayersInv, EventInv, EventsTracked
<1>10. JoinEvents' BY <1>1 DEF PlayersInv, EventInv, JoinEvents, BeforeTickets, AfterTickets
<1>11. ListsKept' BY <1>1, <1>4 DEF PlayersInv, EventInv, ListsKept
<1>12. DeadTickets' BY <1>1 DEF DeadTickets, AfterTickets
<1>13. KeysApart' BY <1>1, <1>4 DEF PlayersInv, EventInv, KeysApart, AfterTickets
<1>14. \A e \in Moved : \A counts : Right(counts, e) => Due(counts, e)'
  <2> SUFFICES ASSUME NEW e \in Moved, NEW counts, Right(counts, e)
               PROVE  Updated(counts, view_event'[e]) = InView(e)'
      BY DEF Due
  <2>1. counts = ViewOf(view[e]) BY <1>3, InViewIs DEF Right
  <2>2. InView(e)' = ViewOf(view'[e]) BY DEF InView, ViewOf
  <2> QED BY <1>6, <2>1, <2>2, UpdatedView
<1>15. \A e \in Entities \ Moved : \A counts : Right(counts, e) => Right(counts, e)'
       BY <1>5 DEF Right
<1>16. TicketsRight'
  <2>1. \A e \in Staying \ (joining \cup lost) : Right(tickets[e], e)
        BY <1>1 DEF PlayersInv, EventInv, TicketsRight, BeforeTickets
  <2>2. \A e \in Staying \ (joining \cup lost) : IF e \in Moved THEN Due(tickets[e], e)' ELSE Right(tickets[e], e)'
    <3> SUFFICES ASSUME NEW e \in Staying \ (joining \cup lost)
                 PROVE  IF e \in Moved THEN Due(tickets[e], e)' ELSE Right(tickets[e], e)'
        OBVIOUS
    <3>1. PICK counts : counts = tickets[e] OBVIOUS
    <3>2. tickets'[e] = counts BY <1>1, <3>1
    <3>3. IF e \in Moved THEN Due(counts, e)' ELSE Right(counts, e)'
          BY <1>3, <1>14, <1>15, <2>1, <3>1
    <3> QED BY <3>2, <3>3 DEF Due, Right
  <2> QED BY <1>1, <1>4, <2>2 DEF TicketsRight, BeforeTickets
<1>17. SubscriptionsRight'
  <2>1. \A id : Listed(id)' = Listed(id) BY <1>1, <1>4 DEF Listed, BeforeTickets
  <2>2. \A id \in ClientIds \ lost :
            /\ Listed(id) = {} => subscriptions[id] = Nothing
            /\ \A e \in Listed(id) : Right(subscriptions[id], e)
        BY <1>1 DEF PlayersInv, EventInv, SubscriptionsRight, BeforeTickets, BeforeLists
  <2>3. \A id \in ClientIds \ lost : \A e \in Listed(id) :
            IF e \in Moved THEN Due(subscriptions[id], e)' ELSE Right(subscriptions[id], e)'
    <3> SUFFICES ASSUME NEW id \in ClientIds \ lost, NEW e \in Listed(id)
                 PROVE  IF e \in Moved THEN Due(subscriptions[id], e)' ELSE Right(subscriptions[id], e)'
        OBVIOUS
    <3>1. PICK counts : counts = subscriptions[id] OBVIOUS
    <3>2. subscriptions'[id] = counts BY <1>1, <3>1
    <3>3. e \in Entities BY <1>3 DEF Listed
    <3>4. IF e \in Moved THEN Due(counts, e)' ELSE Right(counts, e)'
          BY <1>14, <1>15, <2>2, <3>1, <3>3
    <3> QED BY <3>2, <3>4 DEF Due, Right
  <2> QED BY <1>1, <1>4, <2>1, <2>2, <2>3 DEF SubscriptionsRight, BeforeLists, BeforeTickets
<1> QED BY <1>7, <1>8, <1>9, <1>10, <1>11, <1>12, <1>13, <1>16, <1>17 DEF EventInv

\* A player that joins has no event but the one it gets here.
LEMMA JoinsKeep ==
    ASSUME PlayersInv, UpdateViewOnJoin
    PROVE  EventInv'
<1>1. /\ phase = "update_view_on_join" /\ phase' = "remove_dead_entities"
      /\ tracked' = [tracked EXCEPT !["update_view_on_join"] = joining]
      /\ lost' = lost \cup Missed \cup {client_id[e] : e \in Missed}
      /\ UNCHANGED <<client_id, uuid, view, position, joining, removing, tickets, by_entity, subscriptions>>
      BY DEF UpdateViewOnJoin, RunInserting, ticketvars, ecsvars
<1>2. view_event' = [e \in Entities |-> IF e \in joining THEN [old |-> None, new |-> view[e]]
                                        ELSE IF e \in Joined THEN NoEvent ELSE view_event[e]]
      BY DEF UpdateViewOnJoin, RunInserting, Joined
<1>3. EventTypeOK /\ joining \subseteq InEcs /\ InEcs \subseteq Entities /\ Staying \subseteq InEcs
      /\ Missed = (Viewing \cap Joined) \ joining
      /\ view \in [Entities -> Centers] /\ None \notin Centers
      BY PlayersAssumption DEF PlayersInv, EventInv, EventTypeOK, InEcs, Staying, Missed, Viewing, Joined
<1>4. InEcs' = InEcs /\ Staying' = Staying /\ Viewing' = Viewing /\ Joined' = joining
      BY <1>1, <1>3 DEF InEcs, Staying, Viewing, Joined, EventTypeOK
<1>5. phase' \in BeforeTickets /\ phase' \notin AfterTickets /\ phase' \in BeforeLists
      BY <1>1 DEF BeforeTickets, AfterTickets, BeforeLists
<1>6. phase \notin BeforeTickets /\ phase \notin AfterTickets /\ phase \notin BeforeLists
      BY <1>1 DEF BeforeTickets, AfterTickets, BeforeLists
<1>7. EventTypeOK'
  <2>1. view_event' \in [Entities -> Events]
    <3>1. \A e \in Entities : view_event[e] \in Events BY <1>3 DEF EventTypeOK
    <3>2. \A e \in Entities : [old |-> None, new |-> view[e]] \in Events BY <1>3, EventTypes
    <3> QED BY <1>2, <3>1, <3>2, EventTypes
  <2>2. tracked' \in [{"update_player_views", "update_view_on_join"} -> SUBSET Entities]
        BY <1>1, <1>3 DEF EventTypeOK
  <2> QED BY <1>1, <1>3, <1>4, <1>5, <2>1, <2>2 DEF EventTypeOK
<1>8. Absent'
      BY <1>1, <1>2, <1>3, <1>4 DEF PlayersInv, EventInv, Absent
<1>9. EventsTracked'
      BY <1>2, <1>4 DEF PlayersInv, EventInv, EventsTracked
<1>10. JoinEvents' BY <1>1, <1>2, <1>3, <1>5 DEF PlayersInv, EventInv, JoinEvents
<1>11. ListsKept' BY <1>1, <1>4 DEF PlayersInv, EventInv, ListsKept
<1>12. DeadTickets' BY <1>1, <1>5 DEF DeadTickets
<1>13. KeysApart' BY <1>1, <1>4, <1>6 DEF PlayersInv, EventInv, KeysApart
<1>14. \A e \in Entities : InView(e)' = InView(e) BY <1>1 DEF InView
\* What the event that an entity has from here on makes of its counts.
<1>15. \A e \in joining : Due(Nothing, e)'
  <2> SUFFICES ASSUME NEW e \in joining PROVE Due(Nothing, e)' OBVIOUS
  <2>1. view_event'[e] = [old |-> None, new |-> view[e]] BY <1>2, <1>3
  <2> QED BY <1>3, <1>14, <2>1, InViewIs, UpdatedView, ViewOfNone DEF Due
<1>16. \A e \in Entities \ joining : \A counts \in Counts :
           e \notin lost' =>
               IF e \in Viewing THEN Due(counts, e) => Due(counts, e)' ELSE Right(counts, e) => Due(counts, e)'
  <2> SUFFICES ASSUME NEW e \in Entities \ joining, NEW counts \in Counts, e \notin lost'
               PROVE  IF e \in Viewing THEN Due(counts, e) => Due(counts, e)' ELSE Right(counts, e) => Due(counts, e)'
      OBVIOUS
  <2>1. CASE e \in Viewing
    <3>1. e \notin Joined BY <1>1, <1>3, <2>1
    <3>2. view_event'[e] = view_event[e] BY <1>2, <3>1
    <3> QED BY <1>14, <2>1, <3>2 DEF Due
  <2>2. CASE e \notin Viewing
    <3>1. view_event'[e] = NoEvent BY <1>2, <2>2 DEF PlayersInv, EventInv, EventsTracked
    <3> QED BY <1>14, <2>2, <3>1, UpdatedNone DEF Due, Right
  <2> QED BY <2>1, <2>2
<1>17. TicketsRight'
  <2> SUFFICES ASSUME NEW e \in Staying \ (joining \cup lost') PROVE Due(tickets[e], e)'
      BY <1>1, <1>4, <1>5 DEF TicketsRight
  <2>1. e \in Staying \ (joining \cup lost) /\ e \in Entities \ joining /\ e \notin lost' BY <1>1, <1>3
  <2>2. PICK counts \in Counts : counts = tickets[e] BY <1>3, <2>1 DEF EventTypeOK
  <2>3. IF e \in Viewing THEN Due(counts, e) ELSE Right(counts, e)
        BY <1>1, <1>6, <2>1, <2>2 DEF PlayersInv, EventInv, TicketsRight
  <2>4. Due(counts, e)' BY <1>16, <2>1, <2>3
  <2> QED BY <1>1, <2>2, <2>4 DEF Due
<1>18. SubscriptionsRight'
  <2>1. \A id : Listed(id) = {e \in InEcs : client_id[e] = id /\ e \notin joining}
        BY <1>1, <1>6 DEF Listed
  <2>2. \A id : Listed(id)' = {e \in InEcs : client_id[e] = id}
        BY <1>1, <1>4, <1>5 DEF Listed
  <2> SUFFICES ASSUME NEW id \in ClientIds \ lost'
               PROVE  /\ Listed(id)' = {} => subscriptions[id] = Nothing
                      /\ \A e \in Listed(id)' : Due(subscriptions[id], e)'
      BY <1>1, <1>5 DEF SubscriptionsRight, Due
  <2>3. id \in ClientIds \ lost BY <1>1
  <2>4. Listed(id)' = {} => subscriptions[id] = Nothing
        BY <2>1, <2>2, <2>3 DEF PlayersInv, EventInv, SubscriptionsRight
  <2>5. ASSUME NEW e \in Listed(id)' PROVE Due(subscriptions[id], e)'
    <3>1. e \in InEcs /\ e \in Entities /\ client_id[e] = id BY <1>3, <2>2, <2>5
    <3>2. PICK counts \in Counts : counts = subscriptions[id] BY <1>3 DEF EventTypeOK
    <3>3. Due(counts, e)'
      <4>1. CASE e \in joining
        <5>1. Listed(id) = {} BY <1>6, <2>1, <3>1, <4>1 DEF PlayersInv, EventInv, KeysApart
        <5>2. counts = Nothing BY <2>3, <3>2, <5>1 DEF PlayersInv, EventInv, SubscriptionsRight
        <5> QED BY <1>15, <4>1, <5>2
      <4>2. CASE e \notin joining
        <5>1. e \in Listed(id) BY <2>1, <3>1, <4>2
        <5>2. IF e \in Viewing THEN Due(counts, e) ELSE Right(counts, e)
              BY <1>1, <1>6, <2>3, <3>2, <5>1 DEF PlayersInv, EventInv, SubscriptionsRight
        <5>3. CASE e \notin lost' BY <1>16, <3>1, <4>2, <5>2, <5>3
        <5>4. CASE e \in lost'
          <6>1. e \notin Missed BY <1>1, <3>1
          <6>2. e \notin Viewing \/ e \notin Joined BY <1>3, <4>2, <6>1
          <6>3. view_event'[e] = IF e \in Viewing THEN view_event[e] ELSE NoEvent
                BY <1>2, <3>1, <4>2, <6>2 DEF PlayersInv, EventInv, EventsTracked
          <6> QED BY <1>14, <3>1, <5>2, <6>3, UpdatedNone DEF Due, Right
        <5> QED BY <5>3, <5>4
      <4> QED BY <4>1, <4>2
    <3> QED BY <1>1, <3>2, <3>3 DEF Due
  <2> QED BY <2>4, <2>5
<1> QED BY <1>7, <1>8, <1>9, <1>10, <1>11, <1>12, <1>13, <1>17, <1>18 DEF EventInv

LEMMA DeadKeep ==
    ASSUME PlayersInv, RemoveDeadEntities
    PROVE  EventInv'
<1>1. /\ phase = "remove_dead_entities" /\ phase' = "update_tickets_for_players"
      /\ tickets' = [e \in Entities |-> IF e \in removing THEN Nothing ELSE tickets[e]]
      /\ UNCHANGED <<client_id, view, position, joining, removing, view_event, tracked, by_entity, subscriptions, lost>>
      BY DEF RemoveDeadEntities, ecsvars, eventvars
<1>2. EventTypeOK /\ joining \subseteq InEcs /\ InEcs \subseteq Entities /\ Staying \subseteq InEcs
      /\ Staying \cap removing = {}
      BY DEF PlayersInv, EventInv, EventTypeOK, InEcs, Staying
<1>3. InEcs' = InEcs /\ Staying' = Staying /\ Viewing' = Viewing /\ Joined' = Joined
      BY <1>1 DEF InEcs, Staying, Viewing, Joined
<1>4. /\ phase \in BeforeTickets /\ phase' \in BeforeTickets /\ phase \in BeforeLists /\ phase' \in BeforeLists
      /\ phase \notin AfterTickets /\ phase' \notin AfterTickets
      BY <1>1 DEF BeforeTickets, AfterTickets, BeforeLists
<1>5. EventTypeOK'
  <2>1. tickets' \in [Entities -> Counts] BY <1>1, <1>2, EventTypes DEF EventTypeOK
  <2> QED BY <1>1, <1>2, <1>3, <1>4, <2>1 DEF EventTypeOK
<1>6. Absent' BY <1>1, <1>3 DEF PlayersInv, EventInv, Absent
<1>7. EventsTracked' BY <1>1, <1>3 DEF PlayersInv, EventInv, EventsTracked
<1>8. JoinEvents' BY <1>1, <1>2, <1>4 DEF PlayersInv, EventInv, JoinEvents
<1>9. ListsKept' BY <1>1, <1>3 DEF PlayersInv, EventInv, ListsKept
<1>10. DeadTickets'
  <2>1. removing \subseteq Entities BY <1>2 DEF PlayersInv, ClientInv, SlabTypeOK
  <2> QED BY <1>1, <1>4, <2>1 DEF DeadTickets
<1>11. KeysApart' BY <1>1, <1>3, <1>4 DEF PlayersInv, EventInv, KeysApart
<1>12. \A e : InView(e)' = InView(e) BY <1>1 DEF InView
<1>13. TicketsRight'
  <2>1. \A e \in Staying \ (joining \cup lost) : Due(tickets[e], e) /\ tickets'[e] = tickets[e]
        BY <1>1, <1>2, <1>4 DEF PlayersInv, EventInv, TicketsRight
  <2> QED BY <1>1, <1>3, <1>4, <1>12, <2>1 DEF TicketsRight, Due
<1>14. SubscriptionsRight'
  <2>1. \A id : Listed(id)' = Listed(id) BY <1>1, <1>3, <1>4 DEF Listed
  <2>2. \A id \in ClientIds \ lost :
            /\ Listed(id) = {} => subscriptions[id] = Nothing
            /\ \A e \in Listed(id) : Due(subscriptions[id], e)
        BY <1>4 DEF PlayersInv, EventInv, SubscriptionsRight
  <2> QED BY <1>1, <1>4, <1>12, <2>1, <2>2 DEF SubscriptionsRight, Due
<1> QED BY <1>5, <1>6, <1>7, <1>8, <1>9, <1>10, <1>11, <1>13, <1>14 DEF EventInv

\* Every count that was due is right, and that of a player that joined is its first view.
LEMMA TicketsKeep ==
    ASSUME PlayersInv, UpdateTickets
    PROVE  EventInv'
<1>1. /\ phase = "update_tickets_for_players" /\ phase' = "poll_new_players"
      /\ tickets' = [e \in Entities |-> Updated(tickets[e], view_event[e])]
      /\ by_entity' = by_entity \cup {e \in Entities : new_chunks(view_event[e]) # {}}
      /\ joining' = {}
      /\ UNCHANGED <<client_id, view, position, removing, view_event, tracked, subscriptions, lost>>
      BY DEF UpdateTickets, eventvars
<1>2. EventTypeOK /\ joining \subseteq InEcs /\ InEcs \subseteq Entities /\ Staying \subseteq InEcs
      /\ view \in [Entities -> Centers] /\ None \notin Centers
      BY PlayersAssumption DEF PlayersInv, EventInv, EventTypeOK, InEcs, Staying
<1>3. InEcs' = InEcs /\ Staying' = Staying /\ Viewing' = Viewing /\ Joined' = Joined
      BY <1>1 DEF InEcs, Staying, Viewing, Joined
<1>4. /\ phase \in BeforeTickets /\ phase' \notin BeforeTickets /\ phase \in BeforeLists /\ phase' \in BeforeLists
      /\ phase \notin AfterTickets /\ phase' \in AfterTickets
      BY <1>1 DEF BeforeTickets, AfterTickets, BeforeLists
<1>5. EventTypeOK'
  <2>1. tickets' \in [Entities -> Counts] BY <1>1, <1>2, UpdatedType DEF EventTypeOK
  <2>2. joining' \subseteq InEcs' BY <1>1
  <2> QED BY <1>1, <1>2, <1>4, <2>1, <2>2 DEF EventTypeOK
<1>6. Absent'
  <2>1. Updated(Nothing, NoEvent) = Nothing BY EventTypes, UpdatedNone
  <2> QED BY <1>1, <1>3, <2>1 DEF PlayersInv, EventInv, Absent
<1>7. EventsTracked' BY <1>1, <1>3 DEF PlayersInv, EventInv, EventsTracked
<1>8. JoinEvents' BY <1>1 DEF JoinEvents
<1>9. ListsKept'
  <2> SUFFICES ASSUME \E p \in Centers : Around[p] # {}, NEW e \in InEcs
               PROVE  e \in by_entity'
      BY <1>1, <1>3 DEF ListsKept
  <2>1. CASE e \in joining
    <3>1. view_event[e] = [old |-> None, new |-> view[e]]
          BY <1>4, <2>1 DEF PlayersInv, EventInv, JoinEvents
    <3>2. view[e] \in Centers BY <1>2
    <3>3. Around[view[e]] # {} BY <3>2, PlayersAssumption
    <3>4. new_chunks(view_event[e]) # {} BY <1>2, <3>1, <3>2, <3>3 DEF new_chunks, Seen
    <3> QED BY <1>1, <1>2, <3>4
  <2>2. CASE e \notin joining BY <1>1, <2>2 DEF PlayersInv, EventInv, ListsKept
  <2> QED BY <2>1, <2>2
<1>10. DeadTickets'
  <2>1. removing \subseteq Entities BY <1>2 DEF PlayersInv, ClientInv, SlabTypeOK
  <2>2. \A e \in removing : view_event[e] = NoEvent => tickets'[e] = Nothing
    <3> SUFFICES ASSUME NEW e \in removing, view_event[e] = NoEvent PROVE tickets'[e] = Nothing OBVIOUS
    <3>1. tickets[e] = Nothing BY <1>1 DEF PlayersInv, EventInv, DeadTickets
    <3> QED BY <1>1, <2>1, <3>1, EventTypes, UpdatedNone
  <2> QED BY <1>1, <2>2 DEF DeadTickets
<1>11. KeysApart' BY <1>3, <1>4, <1>1 DEF PlayersInv, EventInv, KeysApart
<1>12. \A e : InView(e)' = InView(e) BY <1>1 DEF InView
<1>13. TicketsRight'
  <2> SUFFICES ASSUME NEW e \in Staying \ lost PROVE tickets'[e] = InView(e)
      BY <1>1, <1>3, <1>4, <1>12 DEF TicketsRight, Right
  <2>1. Due(tickets[e], e)
    <3>1. CASE e \in joining
      <4>1. tickets[e] = Nothing /\ view_event[e] = [old |-> None, new |-> view[e]]
            BY <1>4, <3>1 DEF PlayersInv, EventInv, JoinEvents
      <4> QED BY <1>2, <4>1, InViewIs, UpdatedView, ViewOfNone DEF Due
    <3>2. CASE e \notin joining BY <1>4, <3>2 DEF PlayersInv, EventInv, TicketsRight
    <3> QED BY <3>1, <3>2
  <2> QED BY <1>1, <1>2, <2>1 DEF Due
<1>14. SubscriptionsRight'
  <2>1. \A id : Listed(id)' = Listed(id) BY <1>1, <1>3, <1>4 DEF Listed
  <2>2. \A id \in ClientIds \ lost :
            /\ Listed(id) = {} => subscriptions[id] = Nothing
            /\ \A e \in Listed(id) : Due(subscriptions[id], e)
        BY <1>4 DEF PlayersInv, EventInv, SubscriptionsRight
  <2> QED BY <1>1, <1>4, <1>12, <2>1, <2>2 DEF SubscriptionsRight, Due
<1> QED BY <1>5, <1>6, <1>7, <1>8, <1>9, <1>10, <1>11, <1>13, <1>14 DEF EventInv

\* The key that an accepted player gets is nobody's who stays.
LEMMA AcceptEventsKeep ==
    ASSUME PlayersInv, NEW e \in Entities, NEW p \in Centers, AcceptNewPlayer(e, p)
    PROVE  EventInv'
<1> DEFINE id == Head(vacant)
<1>1. /\ phase = "poll_new_players" /\ phase' = "poll_new_players" /\ e \notin InEcs
      /\ client_id' = [client_id EXCEPT ![e] = id]
      /\ position' = [position EXCEPT ![e] = p] /\ view' = [view EXCEPT ![e] = Origin]
      /\ joining' = joining \cup {e}
      /\ UNCHANGED <<removing, view_event, tracked, tickets, by_entity, subscriptions, lost>>
      BY DEF AcceptNewPlayer, eventvars, ticketvars
<1>2. EventTypeOK /\ joining \subseteq InEcs /\ InEcs \subseteq Entities /\ Staying \subseteq InEcs
      /\ removing \subseteq InEcs /\ client_id \in [Entities -> 0 .. MaxClients]
      /\ view \in [Entities -> Centers]
      BY DEF PlayersInv, ClientInv, SlabTypeOK, EventInv, EventTypeOK, InEcs, Staying
\* The key is in the list of free keys.
<1>3. id \in ClientIds /\ clients[id] = None
  <2>1. new_players # <<>> /\ new_players \in Seq(Users) /\ vacant \in Seq(ClientIds)
        BY DEF AcceptNewPlayer, PlayersInv, ClientInv, SlabTypeOK
  <2>2. Len(new_players) > 0 /\ Len(new_players) \in Nat BY <2>1, EmptySeq, LenProperties
  <2>3. Len(vacant) \in Nat /\ Len(vacant) > 0
        BY <2>1, <2>2, LenProperties DEF PlayersInv, ClientInv, EnoughKeys
  <2>4. id = vacant[1] /\ 1 \in 1 .. Len(vacant) BY <2>1, <2>3
  <2>5. id \in ClientIds BY <2>1, <2>4, ElementOfSeq
  <2> QED BY <2>4, <2>5 DEF PlayersInv, ClientInv, VacantIsFree
<1> HIDE DEF id
<1>4. id # 0 /\ id \in 0 .. MaxClients BY <1>3, PlayersAssumption DEF ClientIds
<1>5. \A f \in InEcs : client_id[f] = id => f \in removing
  <2>1. \A f \in Staying : client_id[f] # id
        BY <1>2, <1>3, PlayersAssumption DEF PlayersInv, ClientInv, SlabTypeOK, OwnClient
  <2> QED BY <2>1 DEF Staying
<1>6. InEcs' = InEcs \cup {e} BY <1>1, <1>2, <1>4 DEF InEcs
<1>7. Staying' = Staying \cup {e} BY <1>1, <1>2, <1>6 DEF Staying
<1>8. Viewing' = Viewing /\ Joined' = Joined BY <1>1 DEF Viewing, Joined
<1>9. /\ phase \notin BeforeTickets /\ phase' \notin BeforeTickets /\ phase \in BeforeLists /\ phase' \in BeforeLists
      /\ phase \in AfterTickets /\ phase' \in AfterTickets
      BY <1>1 DEF BeforeTickets, AfterTickets, BeforeLists
<1>10. view_event[e] = NoEvent /\ tickets[e] = Nothing BY <1>1 DEF PlayersInv, EventInv, Absent
<1>11. \A f \in InEcs : f # e /\ client_id'[f] = client_id[f] /\ view'[f] = view[f]
       BY <1>1, <1>2
<1>12. client_id'[e] = id BY <1>1, <1>2
<1>13. EventTypeOK'
  <2>1. view' \in [Entities -> Centers] /\ position' \in [Entities -> Centers]
        BY <1>1, <1>2, PlayersAssumption DEF EventTypeOK
  <2>2. joining' \subseteq InEcs' BY <1>1, <1>2, <1>6
  <2> QED BY <1>1, <1>2, <2>1, <2>2 DEF EventTypeOK
<1>14. Absent' BY <1>1, <1>6 DEF PlayersInv, EventInv, Absent
<1>15. EventsTracked' BY <1>1, <1>8 DEF PlayersInv, EventInv, EventsTracked
<1>16. JoinEvents'
  <2>1. e \notin removing BY <1>1, <1>2
  <2> QED BY <1>1, <1>9, <1>10, <2>1 DEF PlayersInv, EventInv, JoinEvents
<1>17. ListsKept' BY <1>1, <1>6 DEF PlayersInv, EventInv, ListsKept
<1>18. DeadTickets' BY <1>1 DEF PlayersInv, EventInv, DeadTickets
<1>19. KeysApart'
  <2> SUFFICES ASSUME NEW f \in InEcs', NEW g \in InEcs', f # g, client_id'[f] = client_id'[g]
               PROVE  (f \in joining' /\ g \in removing) \/ (g \in joining' /\ f \in removing)
      BY <1>1, <1>9 DEF KeysApart
  <2>1. CASE f \in InEcs /\ g \in InEcs
        BY <1>1, <1>11, <2>1 DEF PlayersInv, EventInv, KeysApart
  <2>2. CASE f = e BY <1>1, <1>5, <1>6, <1>11, <1>12, <2>2
  <2>3. CASE g = e BY <1>1, <1>5, <1>6, <1>11, <1>12, <2>3
  <2> QED BY <1>6, <2>1, <2>2, <2>3
<1>20. \A f \in InEcs : InView(f)' = InView(f) BY <1>11 DEF InView
<1>21. TicketsRight'
  <2>1. \A f \in Staying \ (joining \cup lost) : tickets[f] = InView(f)
        BY <1>1, <1>9 DEF PlayersInv, EventInv, TicketsRight, Right
  <2>2. \A f \in Staying' \ (joining' \cup lost') : f \in Staying \ (joining \cup lost) /\ f \in InEcs
        BY <1>1, <1>2, <1>7
  <2> QED BY <1>1, <1>9, <1>20, <2>1, <2>2 DEF TicketsRight, Right
<1>22. SubscriptionsRight'
  <2>1. \A k : Listed(k) = {f \in InEcs : client_id[f] = k /\ f \notin joining}
        BY <1>1, <1>9 DEF Listed
  <2>2. \A k : Listed(k)' = {f \in InEcs' : client_id'[f] = k /\ f \notin joining'}
        BY <1>1, <1>9 DEF Listed
  <2>3. \A k : Listed(k)' = Listed(k) BY <1>1, <1>6, <1>11, <2>1, <2>2
  <2>4. \A k : Listed(k) \subseteq InEcs BY <2>1
  <2>5. \A k \in ClientIds \ lost :
            /\ Listed(k) = {} => subscriptions[k] = Nothing
            /\ \A f \in Listed(k) : Due(subscriptions[k], f)
        BY <1>9 DEF PlayersInv, EventInv, SubscriptionsRight
  <2> QED BY <1>1, <1>9, <1>20, <2>3, <2>4, <2>5 DEF SubscriptionsRight, Due
<1> QED BY <1>13, <1>14, <1>15, <1>16, <1>17, <1>18, <1>19, <1>21, <1>22 DEF EventInv

LEMMA PacketsKeep ==
    ASSUME PlayersInv, HandlePackets
    PROVE  EventInv'
<1> DEFINE movers == {e \in InEcs : clients[client_id[e]] # None}
<1>1. PICK to \in [movers -> Centers] :
          position' = [e \in Entities |-> IF e \in DOMAIN to THEN to[e] ELSE position[e]]
      BY DEF HandlePackets
<1>2. position \in [Entities -> Centers] BY DEF PlayersInv, EventInv, EventTypeOK
<1>3. position' \in [Entities -> Centers] BY <1>1, <1>2
<1>4. /\ phase = "handle_packets" /\ phase' = "update_chunk_subscriptions"
      /\ UNCHANGED <<client_id, view, joining, removing, view_event, tracked, tickets, by_entity,
                     subscriptions, lost>>
      BY DEF HandlePackets, eventvars, ticketvars
<1> QED BY <1>3, <1>4, EventsKeep DEF PlayersInv

\* The counts of a key change by the event of the one player listed under it, and
\* lose the view of that player if it leaves.
LEMMA ListsKeep ==
    ASSUME PlayersInv, UpdateSubscriptions
    PROVE  EventInv'
<1>1. /\ phase = "update_chunk_subscriptions" /\ phase' = "remove_disconnected_clients"
      /\ UNCHANGED <<client_id, view, position, joining, removing, view_event, tracked, tickets, by_entity, lost>>
      BY DEF UpdateSubscriptions, ecsvars, eventvars, ticketvars
<1>2. \A id \in ClientIds :
          subscriptions'[id] = [c \in Chunks |->
              IF \E e \in Leaving(id) : c \in Seen(view[e]) THEN Pred(Updated(subscriptions[id], EventOf(id))[c])
              ELSE Updated(subscriptions[id], EventOf(id))[c]]
      BY DEF UpdateSubscriptions
<1>3. EventTypeOK /\ joining \subseteq InEcs /\ InEcs \subseteq Entities /\ Staying \subseteq InEcs
      /\ removing \subseteq InEcs
      BY DEF PlayersInv, ClientInv, SlabTypeOK, EventInv, EventTypeOK, InEcs, Staying
<1>4. InEcs' = InEcs /\ Staying' = Staying /\ Viewing' = Viewing /\ Joined' = Joined
      BY <1>1 DEF InEcs, Staying, Viewing, Joined
<1>5. /\ phase \notin BeforeTickets /\ phase' \notin BeforeTickets /\ phase \in BeforeLists /\ phase' \notin BeforeLists
      /\ phase \in AfterTickets /\ phase' \in AfterTickets
      BY <1>1 DEF BeforeTickets, AfterTickets, BeforeLists
<1>6. \A id \in ClientIds : Updated(subscriptions[id], EventOf(id)) \in Counts
      BY <1>3, UpdatedType DEF EventTypeOK
<1>7. EventTypeOK'
  <2>1. \A id \in ClientIds : subscriptions'[id] \in Counts
    <3> SUFFICES ASSUME NEW id \in ClientIds PROVE subscriptions'[id] \in Counts OBVIOUS
    <3>1. PICK updated \in Counts : updated = Updated(subscriptions[id], EventOf(id)) BY <1>6
    <3>2. PICK seen : \A c : c \in seen <=> \E e \in Leaving(id) : c \in Seen(view[e])
          <4> WITNESS UNION {Seen(view[e]) : e \in Leaving(id)}
          <4> QED OBVIOUS
    <3>3. subscriptions'[id] = [c \in Chunks |-> IF c \in seen THEN Pred(updated[c]) ELSE updated[c]]
          BY <1>2, <3>1, <3>2
    <3>4. \A n \in Nat : Pred(n) \in Nat BY DEF Pred
    <3>5. \A c \in Chunks : updated[c] \in Nat BY DEF Counts
    <3> QED BY <3>3, <3>4, <3>5 DEF Counts
  <2>2. subscriptions' \in [ClientIds -> Counts] BY <2>1 DEF UpdateSubscriptions
  <2> QED BY <1>1, <1>3, <1>4, <1>5, <2>2 DEF EventTypeOK
<1>8. Absent' /\ EventsTracked' BY <1>1, <1>4 DEF PlayersInv, EventInv, Absent, EventsTracked
<1>9. JoinEvents' BY <1>1, <1>5 DEF PlayersInv, EventInv, JoinEvents
<1>10. ListsKept' BY <1>1, <1>4 DEF PlayersInv, EventInv, ListsKept
<1>11. DeadTickets' BY <1>1, <1>5 DEF PlayersInv, EventInv, DeadTickets
<1>12. KeysApart' BY <1>1, <1>4, <1>5 DEF PlayersInv, EventInv, KeysApart
<1>13. \A e : InView(e)' = InView(e) BY <1>1 DEF InView
<1>14. TicketsRight'
  <2>1. \A e \in Staying \ (joining \cup lost) : tickets[e] = InView(e)
        BY <1>1, <1>5 DEF PlayersInv, EventInv, TicketsRight, Right
  <2> QED BY <1>1, <1>4, <1>5, <1>13, <2>1 DEF TicketsRight, Right
<1>15. SubscriptionsRight'
  <2>1. \A id : Listed(id) = {e \in InEcs : client_id[e] = id /\ e \notin joining}
        BY <1>1, <1>5 DEF Listed
  <2>2. \A id : Listed(id)' = {e \in Listed(id) : e \notin removing}
        BY <1>1, <1>4, <1>5, <2>1 DEF Listed
  <2>3. \A id : Leaving(id) \subseteq Listed(id)
    <3>1. joining \cap removing = {} BY <1>5 DEF PlayersInv, EventInv, JoinEvents
    <3> QED BY <1>3, <2>1, <3>1 DEF Leaving
  <2>4. \A id : \A e \in InEcs : client_id[e] = id /\ view_event[e] # NoEvent => e \in Listed(id)
        BY <1>5, <2>1 DEF PlayersInv, EventInv, JoinEvents
  <2>5. \A id : \A e, f \in Listed(id) : e = f
        BY <2>1 DEF PlayersInv, EventInv, KeysApart
  <2> SUFFICES ASSUME NEW id \in ClientIds \ lost
               PROVE  /\ Listed(id)' = {} => subscriptions'[id] = Nothing
                      /\ \A e \in Listed(id)' : subscriptions'[id] = InView(e)
      BY <1>1, <1>5, <1>13 DEF SubscriptionsRight, Right
  <2>6. CASE Listed(id) = {}
    <3>1. EventOf(id) = NoEvent BY <2>4, <2>6 DEF EventOf
    <3>2. Leaving(id) = {} BY <2>3, <2>6
    <3>3. subscriptions[id] = Nothing BY <2>6 DEF PlayersInv, EventInv, SubscriptionsRight
    <3>4. Updated(subscriptions[id], EventOf(id)) = Nothing BY <3>1, <3>3, EventTypes, UpdatedNone
    <3>5. subscriptions'[id] = [c \in Chunks |-> Nothing[c]] BY <1>2, <3>2, <3>4
    <3>6. subscriptions'[id] = Nothing BY <3>5 DEF Nothing
    <3> QED BY <2>2, <2>6, <3>6
  <2>7. ASSUME NEW f \in Listed(id) PROVE /\ Listed(id)' = {} => subscriptions'[id] = Nothing
                                          /\ \A e \in Listed(id)' : subscriptions'[id] = InView(e)
    <3>1. Listed(id) = {f} /\ f \in InEcs /\ client_id[f] = id /\ f \in Entities BY <1>3, <2>1, <2>5
    <3>2. EventOf(id) = view_event[f]
      <4> DEFINE with == {e \in InEcs : client_id[e] = id /\ view_event[e] # NoEvent}
      <4>1. with \subseteq {f} BY <2>4, <3>1
      <4>2. CASE view_event[f] = NoEvent
        <5>1. with = {} BY <4>1, <4>2
        <5> QED BY <4>2, <5>1 DEF EventOf
      <4>3. CASE view_event[f] # NoEvent
        <5>1. with = {f} BY <3>1, <4>1, <4>3
        <5>2. (CHOOSE e \in with : TRUE) = f BY <5>1
        <5> QED BY <5>1, <5>2 DEF EventOf
      <4> QED BY <4>2, <4>3
    <3>3. Updated(subscriptions[id], EventOf(id)) = InView(f)
          BY <1>5, <3>1, <3>2 DEF PlayersInv, EventInv, SubscriptionsRight, Due
    <3>4. \A c \in Chunks : InView(f)[c] = IF c \in Seen(view[f]) THEN 1 ELSE 0 BY DEF InView
    <3>5. CASE f \in removing
      <4>1. Leaving(id) = {f} BY <2>3, <3>1, <3>5 DEF Leaving
      <4>2. subscriptions'[id] = [c \in Chunks |-> IF c \in Seen(view[f]) THEN Pred(InView(f)[c]) ELSE InView(f)[c]]
            BY <1>2, <3>3, <4>1
      <4>3. subscriptions'[id] = Nothing BY <3>4, <4>2 DEF Pred, Nothing
      <4> QED BY <2>2, <3>1, <3>5, <4>3
    <3>6. CASE f \notin removing
      <4>1. Leaving(id) = {} BY <2>3, <3>1, <3>6 DEF Leaving
      <4>2. subscriptions'[id] = [c \in Chunks |-> InView(f)[c]] BY <1>2, <3>3, <4>1
      <4>3. subscriptions'[id] = InView(f) BY <4>2 DEF InView
      <4> QED BY <2>2, <3>1, <3>6, <4>3
    <3> QED BY <3>5, <3>6
  <2> QED BY <2>6, <2>7
<1> QED BY <1>7, <1>8, <1>9, <1>10, <1>11, <1>12, <1>14, <1>15 DEF EventInv

\* The entities that leave are gone, and nothing of them is left but what is lost.
LEMMA DisconnectedKeep ==
    ASSUME PlayersInv, RemoveDisconnected
    PROVE  EventInv'
<1>1. /\ phase = "remove_disconnected_clients" /\ phase' = "update_player_views"
      /\ removing' = Gone
      /\ client_id' = [e \in Entities |-> IF e \in removing THEN 0 ELSE client_id[e]]
      /\ position' = [e \in Entities |-> IF e \in removing THEN Origin ELSE position[e]]
      /\ view' = [e \in Entities |-> IF e \in removing THEN Origin ELSE view[e]]
      /\ view_event' = [e \in Entities |-> IF e \in removing THEN NoEvent ELSE view_event[e]]
      /\ tracked' = [s \in DOMAIN tracked |-> tracked[s] \ removing]
      /\ tickets' = [e \in Entities |-> IF e \in removing THEN Nothing ELSE tickets[e]]
      /\ by_entity' = by_entity \ removing
      /\ lost' = lost \ removing
      /\ joining' = joining /\ subscriptions' = subscriptions
      BY DEF RemoveDisconnected, Despawn
<1>2. EventTypeOK /\ joining \subseteq InEcs /\ InEcs \subseteq Entities
      /\ removing \subseteq InEcs /\ Gone \subseteq Staying
      BY DEF PlayersInv, ClientInv, SlabTypeOK, EventInv, EventTypeOK, InEcs, Staying, Gone
<1>3. InEcs' = Staying /\ Staying = InEcs \ removing BY <1>1, <1>2 DEF InEcs, Staying
<1>4. Staying' = Staying \ Gone BY <1>1, <1>3 DEF Staying
<1>5. /\ phase \notin BeforeTickets /\ phase' \notin BeforeTickets /\ phase \notin BeforeLists /\ phase' \notin BeforeLists
      /\ phase \in AfterTickets /\ phase' \notin AfterTickets
      BY <1>1 DEF BeforeTickets, AfterTickets, BeforeLists
<1>6. joining \subseteq Staying
      BY <1>2, <1>3, <1>5 DEF PlayersInv, EventInv, JoinEvents
<1>7. \A e \in Staying : /\ e \in Entities /\ e \notin removing /\ client_id'[e] = client_id[e]
                         /\ view'[e] = view[e] /\ tickets'[e] = tickets[e]
      BY <1>1, <1>2, <1>3
<1>8. /\ Viewing' = Viewing \ removing /\ Joined' = Joined \ removing
      /\ tracked' \in [{"update_player_views", "update_view_on_join"} -> SUBSET Entities]
      BY <1>1, <1>2 DEF Viewing, Joined, EventTypeOK
<1>9. EventTypeOK'
  <2>1. view' \in [Entities -> Centers] /\ position' \in [Entities -> Centers]
        BY <1>1, <1>2, PlayersAssumption DEF EventTypeOK
  <2>2. view_event' \in [Entities -> Events] BY <1>1, <1>2, EventTypes DEF EventTypeOK
  <2>3. tickets' \in [Entities -> Counts] BY <1>1, <1>2, EventTypes DEF EventTypeOK
  <2> QED BY <1>1, <1>2, <1>3, <1>6, <1>8, <2>1, <2>2, <2>3 DEF EventTypeOK
<1>10. Absent' BY <1>1, <1>2, <1>3 DEF PlayersInv, EventInv, Absent
<1>11. EventsTracked' BY <1>1, <1>8 DEF PlayersInv, EventInv, EventsTracked
<1>12. JoinEvents' BY <1>1, <1>5, <1>6, <1>7 DEF PlayersInv, EventInv, JoinEvents
<1>13. ListsKept' BY <1>1, <1>3 DEF PlayersInv, EventInv, ListsKept
<1>14. DeadTickets' BY <1>1, <1>5 DEF DeadTickets
<1>15. KeysApart'
  <2>1. \A e, f \in Staying : client_id[e] = client_id[f] => e = f
        BY DEF PlayersInv, ClientInv, OwnClient
  <2> QED BY <1>3, <1>7, <2>1 DEF KeysApart
<1>16. \A e \in Staying : InView(e)' = InView(e) BY <1>7 DEF InView
<1>17. TicketsRight'
  <2>1. \A e \in Staying \ (joining \cup lost) : tickets[e] = InView(e)
        BY <1>1, <1>5 DEF PlayersInv, EventInv, TicketsRight, Right
  <2>2. \A e \in Staying' \ (joining' \cup lost') : e \in Staying \ (joining \cup lost)
        BY <1>1, <1>4, <1>7
  <2> QED BY <1>1, <1>5, <1>7, <1>16, <2>1, <2>2 DEF TicketsRight, Right
<1>18. SubscriptionsRight'
  <2>1. \A id : Listed(id)' = Listed(id)
    <3>1. \A id : Listed(id) = {e \in Staying : client_id[e] = id /\ e \notin joining}
          BY <1>1, <1>3, <1>5 DEF Listed
    <3>2. \A id : Listed(id)' = {e \in Staying : client_id'[e] = id /\ e \notin joining}
          BY <1>1, <1>3, <1>5 DEF Listed
    <3> QED BY <1>7, <3>1, <3>2
  <2>2. \A id : Listed(id) \subseteq Staying BY <1>1, <1>3 DEF Listed
  <2>3. ClientIds \ lost' \subseteq ClientIds \ lost
        BY <1>1, <1>2, PlayersAssumption DEF ClientIds
  <2>4. \A id \in ClientIds \ lost :
            /\ Listed(id) = {} => subscriptions[id] = Nothing
            /\ \A e \in Listed(id) : subscriptions[id] = InView(e)
        BY <1>1, <1>5 DEF PlayersInv, EventInv, SubscriptionsRight, Right
  <2> QED BY <1>1, <1>5, <1>16, <2>1, <2>2, <2>3, <2>4 DEF SubscriptionsRight, Right
<1> QED BY <1>9, <1>10, <1>11, <1>12, <1>13, <1>14, <1>15, <1>17, <1>18 DEF EventInv

LEMMA PlayersInvStep == PlayersInv /\ [Next]_playersvars => PlayersInv'
<1> SUFFICES ASSUME PlayersInv, [Next]_playersvars PROVE PlayersInv' OBVIOUS
<1>1. ClientInv' BY ClientInvStep DEF PlayersInv
<1>2. EventInv'
  <2>1. CASE UpdatePlayerViews BY <2>1, ViewsKeep
  <2>2. CASE UpdateViewOnJoin BY <2>2, JoinsKeep
  <2>3. CASE RemoveDeadEntities BY <2>3, DeadKeep
  <2>4. CASE UpdateTickets BY <2>4, TicketsKeep
  <2>5. CASE \E e \in Entities, p \in Centers : AcceptNewPlayer(e, p) BY <2>5, AcceptEventsKeep
  <2>6. CASE HandlePackets BY <2>6, PacketsKeep
  <2>7. CASE UpdateSubscriptions BY <2>7, ListsKeep
  <2>8. CASE RemoveDisconnected BY <2>8, DisconnectedKeep
  <2>9. CASE EndPoll \/ (\E u \in Users : Connect(u)) \/ (\E id \in ClientIds : Hangup(id))
             \/ UNCHANGED playersvars
    <3>1. /\ UNCHANGED <<client_id, view, position, joining, removing, view_event, tracked, tickets,
                         by_entity, subscriptions, lost>>
          /\ phase' = phase \/ (phase = "poll_new_players" /\ phase' = "handle_packets")
          BY <2>9 DEF EndPoll, Connect, Hangup, playersvars, ecsvars, eventvars, ticketvars
    <3>2. EventInv /\ position' \in [Entities -> Centers]
          BY <3>1 DEF PlayersInv, EventInv, EventTypeOK
    <3> QED BY <3>1, <3>2, EventsKeep
  <2> QED BY <2>1, <2>2, <2>3, <2>4, <2>5, <2>6, <2>7, <2>8, <2>9 DEF Next
<1> QED BY <1>1, <1>2 DEF PlayersInv

LEMMA PlayersAlwaysInv == PlayersSpec => []PlayersInv
<1>1. Init => PlayersInv BY ClientInvInit, EventInvInit DEF PlayersInv
<1> QED BY <1>1, PlayersInvStep, PTL DEF PlayersSpec

\* Neither the unwrap of ChunkTickets::remove_ticket nor that of
\* remove_disconnected_clients fails: who has a view to leave has a list of tickets.
THEOREM TickNeverPanics == PlayersSpec => []NoPanic
<1>1. PlayersInv => NoPanic
  <2> SUFFICES ASSUME PlayersInv PROVE NoPanic OBVIOUS
  <2>1. ASSUME phase = "update_tickets_for_players", NEW e \in Entities, old_chunks(view_event[e]) # {}
        PROVE  e \in by_entity
    <3>1. Seen(view_event[e].old) # {} BY <2>1 DEF old_chunks
    <3>2. view_event[e].old # None BY <3>1 DEF Seen
    <3>3. view_event[e].old \in Centers
      <4>1. view_event[e] \in Events BY DEF PlayersInv, EventInv, EventTypeOK
      <4> QED BY <3>2, <4>1 DEF Events
    <3>4. \E p \in Centers : Around[p] # {} BY <3>1, <3>2, <3>3 DEF Seen
    <3>5. e \in InEcs BY <3>2 DEF PlayersInv, EventInv, Absent, NoEvent
    <3>6. e \notin joining
      <4>1. e \in joining => view_event[e] = [old |-> None, new |-> view[e]]
            BY <2>1 DEF PlayersInv, EventInv, JoinEvents, BeforeTickets
      <4> QED BY <3>2, <4>1
    <3> QED BY <3>4, <3>5, <3>6 DEF PlayersInv, EventInv, ListsKept
  <2>2. ASSUME NEW e \in Staying PROVE clients[client_id[e]] # None
        BY PlayersAssumption DEF PlayersInv, ClientInv, SlabTypeOK, OwnClient, Staying
  <2> QED BY <2>1, <2>2 DEF NoPanic
<1> QED BY <1>1, PlayersAlwaysInv, PTL

\* update_tickets_for_players: from the end of its run to the next move every
\* player holds exactly the tickets of its view, unless it missed an event.
THEOREM TicketsAreTheView == PlayersSpec => []TicketsMatchView
<1>1. PlayersInv => TicketsMatchView
      BY DEF PlayersInv, EventInv, EventTypeOK, TicketsRight, Right, TicketsMatchView, BeforeTickets
<1> QED BY <1>1, PlayersAlwaysInv, PTL

\* remove_dead_entities against update_tickets_for_players: the tickets of one who
\* left come back only by an event of the tick it left in.
THEOREM LeaksNeedLateEvents == PlayersSpec => []OnlyLateEventsLeak
<1>1. PlayersInv => OnlyLateEventsLeak
      BY DEF PlayersInv, EventInv, DeadTickets, OnlyLateEventsLeak, LeftBehind, AfterTickets
<1> QED BY <1>1, PlayersAlwaysInv, PTL

\* update_chunk_subscriptions: the lists of the chunks hold a key exactly where
\* the player of that key looks, also after the key went from one to the next.
THEOREM SubscriptionsAreTheView == PlayersSpec => []SubscriptionsMatchView
<1>1. PlayersInv => SubscriptionsMatchView
  <2> SUFFICES ASSUME PlayersInv, phase \in {"remove_disconnected_clients", "update_player_views"},
                      NEW id \in ClientIds \ lost
               PROVE  IF Subscribed(id) = {} THEN subscriptions[id] = Nothing
                      ELSE \A e \in Subscribed(id) : subscriptions[id] = InView(e)
      BY DEF SubscriptionsMatchView
  <2>1. phase \notin BeforeTickets /\ phase \notin BeforeLists /\ phase # "update_view_on_join"
        BY DEF BeforeTickets, BeforeLists
  <2>2. Subscribed(id) = Listed(id) BY <2>1 DEF Subscribed, Listed
  <2> QED BY <2>1, <2>2 DEF PlayersInv, EventInv, SubscriptionsRight, Right
<1> QED BY <1>1, PlayersAlwaysInv, PTL
==============================================================================
