------------------------------- MODULE Players -------------------------------
(***************************************************************************)
(* Players coming, moving and going: server/feather/feather common/src     *)
(* view.rs and chunk/loading.rs, ecs/src event.rs and system.rs, server/src*)
(* lib.rs, chunk_subscriptions.rs and systems/player_{join,leave}.rs.      *)
(* The executor runs the systems of a tick in the order they were added,   *)
(* and phase names the one that runs next.  They talk through components   *)
(* called events, which the system that inserted them takes away just      *)
(* before it runs again; meanwhile connections open and close at any time. *)
(*                                                                         *)
(* A position is the chunk it lies in, and a connection the user behind    *)
(* it.  The chunks themselves are those of ChunkWorld: a chunk has tickets *)
(* there while tickets says so.  hecs never gives an entity number twice,  *)
(* here an entity comes again: what is left of it then is forgotten.       *)
(***************************************************************************)
EXTENDS Integers, Sequences, FiniteSets, SequencesExt, TLC

CONSTANTS
    Entities,       \* of players
    Users,          \* uuids
    MaxClients,     \* a bound: keys of the slab of clients
    Chunks,
    Centers,        \* the chunks a player may be in
    Around,         \* the chunks in view from each center
    Origin,         \* the chunk of Position::default()
    None,
    MaxQueue        \* a bound: new players waiting

ASSUME PlayersAssumption ==
    /\ Origin \in Centers /\ Around \in [Centers -> SUBSET Chunks]
    /\ None \notin Users /\ None \notin Centers
    /\ MaxClients \in Nat /\ MaxQueue \in Nat
    \* lost holds entities and keys.
    /\ Entities \cap (1 .. MaxClients) = {}
    \* The view distance is the same everywhere: View::is_empty everywhere or nowhere.
    /\ \A p, q \in Centers : Around[p] = {} => Around[q] = {}

VARIABLES
    phase,          \* the system that runs next
    client_id,      \* component of each entity, 0 if the entity is not there
    uuid, position, view,
    joining,        \* entities with a PlayerJoinEvent
    removing,       \* entities with an EntityRemoveEvent, despawned next time
    view_event,     \* ViewUpdateEvent of each entity
    tracked,        \* the entities whose event each system is to take away
    clients,        \* the slab: the user behind each key
    closed,         \* the clients that are disconnected
    vacant,         \* free keys, the one used next first
    new_players,
    tickets,        \* how many tickets each entity has for each chunk
    by_entity,      \* the entities ChunkTickets has a list for
    subscriptions,  \* how often each key is in the list of each chunk
    lost            \* history: entities and keys that missed an event

ecsvars == <<client_id, uuid, position, view, joining, removing>>
eventvars == <<view_event, tracked>>
servervars == <<clients, closed, vacant, new_players>>
ticketvars == <<tickets, by_entity>>
playersvars == <<phase, ecsvars, eventvars, servervars, ticketvars, subscriptions, lost>>

-----------------------------------------------------------------------------
ClientIds == 1 .. MaxClients

InEcs == {e \in Entities : client_id[e] # 0}

\* View::difference; None is the empty view.
Seen(center) == IF center = None THEN {} ELSE Around[center]
new_chunks(event) == Seen(event.new) \ Seen(event.old)
old_chunks(event) == Seen(event.old) \ Seen(event.new)
NoEvent == [old |-> None, new |-> None]

Nothing == [c \in Chunks |-> 0]
Pred(n) == IF n = 0 THEN 0 ELSE n - 1

\* What inserting and removing the chunks of a view update makes of the counts.
Updated(counts, event) ==
    [c \in Chunks |-> IF c \in old_chunks(event) THEN Pred(counts[c])
                      ELSE IF c \in new_chunks(event) THEN counts[c] + 1
                      ELSE counts[c]]

Init ==
    /\ phase = "update_player_views"
    /\ client_id = [e \in Entities |-> 0]
    /\ uuid = [e \in Entities |-> None]
    /\ position = [e \in Entities |-> Origin] /\ view = [e \in Entities |-> Origin]
    /\ joining = {} /\ removing = {}
    /\ view_event = [e \in Entities |-> NoEvent]
    /\ tracked = [update_player_views |-> {}, update_view_on_join |-> {}]
    /\ clients = [i \in ClientIds |-> None]
    /\ closed = {}
    /\ vacant = [i \in ClientIds |-> i]
    /\ new_players = <<>>
    /\ tickets = [e \in Entities |-> Nothing] /\ by_entity = {}
    /\ subscriptions = [i \in ClientIds |-> Nothing]
    /\ lost = {}

-----------------------------------------------------------------------------
(* EventTracker: what a system inserted is taken off the entities before it *)
(* runs again.  An entity has one ViewUpdateEvent: inserting replaces it,   *)
(* and taking it away takes away whoever's it is.                           *)
RunInserting(system, event) ==
    /\ view_event' = [e \in Entities |->
                          IF e \in DOMAIN event THEN event[e]
                          ELSE IF e \in tracked[system] THEN NoEvent
                          ELSE view_event[e]]
    /\ tracked' = [tracked EXCEPT ![system] = DOMAIN event]

\* Players who crossed into another chunk since the last tick.
Moved == {e \in InEcs : position[e] # view[e]}

UpdatePlayerViews ==
    /\ phase = "update_player_views"
    /\ phase' = "update_view_on_join"
    /\ RunInserting("update_player_views", [e \in Moved |-> [old |-> view[e], new |-> position[e]]])
    /\ view' = [e \in Entities |-> IF e \in Moved THEN position[e] ELSE view[e]]
    /\ UNCHANGED <<client_id, uuid, position, joining, removing, servervars, ticketvars,
                   subscriptions, lost>>

\* Whose move of this tick nobody is going to see.
Missed == (tracked["update_player_views"] \cap tracked["update_view_on_join"]) \ joining

UpdateViewOnJoin ==
    /\ phase = "update_view_on_join"
    /\ phase' = "remove_dead_entities"
    /\ RunInserting("update_view_on_join", [e \in joining |-> [old |-> None, new |-> view[e]]])
    /\ lost' = lost \cup Missed \cup {client_id[e] : e \in Missed}
    /\ UNCHANGED <<ecsvars, servervars, ticketvars, subscriptions>>

\* The mutants take the list out of by_entity, and look at no dead entity.
MutTakeList ==
    /\ phase = "remove_dead_entities"
    /\ phase' = "update_tickets_for_players"
    /\ tickets' = [e \in Entities |-> IF e \in removing THEN Nothing ELSE tickets[e]]
    /\ by_entity' = by_entity \ removing
    /\ UNCHANGED <<ecsvars, eventvars, servervars, subscriptions, lost>>
MutIgnoreDead ==
    /\ phase = "remove_dead_entities"
    /\ phase' = "update_tickets_for_players"
    /\ UNCHANGED <<ecsvars, eventvars, servervars, ticketvars, subscriptions, lost>>

\* ChunkTickets::take_entity_tickets: the list of the entity stays, empty.
RemoveDeadEntities ==
    /\ phase = "remove_dead_entities"
    /\ phase' = "update_tickets_for_players"
    /\ tickets' = [e \in Entities |-> IF e \in removing THEN Nothing ELSE tickets[e]]
    /\ UNCHANGED <<ecsvars, eventvars, servervars, by_entity, subscriptions, lost>>

\* The mutant hands out new tickets and keeps the old.
MutUpdateTickets ==
    /\ phase = "update_tickets_for_players"
    /\ phase' = "poll_new_players"
    /\ tickets' = [e \in Entities |->
                      [c \in Chunks |-> tickets[e][c] + IF c \in new_chunks(view_event[e]) THEN 1 ELSE 0]]
    /\ by_entity' = by_entity \cup {e \in Entities : new_chunks(view_event[e]) # {}}
    /\ joining' = {}
    /\ UNCHANGED <<client_id, uuid, position, view, removing, eventvars, servervars,
                   subscriptions, lost>>

\* The system, and the removal of the events that poll_new_players inserted.
UpdateTickets ==
    /\ phase = "update_tickets_for_players"
    /\ phase' = "poll_new_players"
    /\ tickets' = [e \in Entities |-> Updated(tickets[e], view_event[e])]
    /\ by_entity' = by_entity \cup {e \in Entities : new_chunks(view_event[e]) # {}}
    /\ joining' = {}
    /\ UNCHANGED <<client_id, uuid, position, view, removing, eventvars, servervars,
                   subscriptions, lost>>

-----------------------------------------------------------------------------
(* Server::accept_new_players and accept_new_player, for one new player.    *)

\* The first client of the same user, in the order of the slab, is disconnected.
OldClient(u) == LET same == {i \in ClientIds : clients[i] = u}
                IN  {i \in same : \A j \in same : i <= j}

AcceptNewPlayer(e, p) ==
    LET u == Head(new_players)
        id == Head(vacant)
    IN  /\ phase = "poll_new_players"
        /\ new_players # <<>>
        /\ e \notin InEcs
        /\ clients' = [clients EXCEPT ![id] = u]
        /\ closed' = closed \cup OldClient(u)
        /\ vacant' = Tail(vacant)
        /\ new_players' = Tail(new_players)
        /\ client_id' = [client_id EXCEPT ![e] = id]
        /\ uuid' = [uuid EXCEPT ![e] = u]
        /\ position' = [position EXCEPT ![e] = p]
        /\ view' = [view EXCEPT ![e] = Origin]
        /\ joining' = joining \cup {e}
        /\ UNCHANGED <<phase, removing, eventvars, ticketvars, subscriptions, lost>>

EndPoll ==
    /\ phase = "poll_new_players"
    /\ new_players = <<>>
    /\ phase' = "handle_packets"
    /\ UNCHANGED <<ecsvars, eventvars, servervars, ticketvars, subscriptions, lost>>

\* Movement packets, which go by ClientId, move whom they will.
HandlePackets ==
    /\ phase = "handle_packets"
    /\ phase' = "update_chunk_subscriptions"
    /\ \E to \in [{e \in InEcs : clients[client_id[e]] # None} -> Centers] :
           position' = [e \in Entities |-> IF e \in DOMAIN to THEN to[e] ELSE position[e]]
    /\ UNCHANGED <<client_id, uuid, view, joining, removing, eventvars, servervars, ticketvars,
                   subscriptions, lost>>

\* The lists of a chunk hold keys; only one entity of a key has an event.
EventOf(id) ==
    LET with == {e \in InEcs : client_id[e] = id /\ view_event[e] # NoEvent}
    IN  IF with = {} THEN NoEvent ELSE view_event[CHOOSE e \in with : TRUE]
Leaving(id) == {e \in removing : client_id[e] = id}

\* The mutant forgets the players that left.
MutUpdateSubscriptions ==
    /\ phase = "update_chunk_subscriptions"
    /\ phase' = "remove_disconnected_clients"
    /\ subscriptions' = [id \in ClientIds |-> Updated(subscriptions[id], EventOf(id))]
    /\ UNCHANGED <<ecsvars, eventvars, servervars, ticketvars, lost>>

UpdateSubscriptions ==
    /\ phase = "update_chunk_subscriptions"
    /\ phase' = "remove_disconnected_clients"
    /\ subscriptions' =
           [id \in ClientIds |->
               LET updated == Updated(subscriptions[id], EventOf(id))
               IN  [c \in Chunks |-> IF \E e \in Leaving(id) : c \in Seen(view[e]) THEN Pred(updated[c])
                                     ELSE updated[c]]]
    /\ UNCHANGED <<ecsvars, eventvars, servervars, ticketvars, lost>>

-----------------------------------------------------------------------------
(* remove_disconnected_clients: those of the last time are despawned, which *)
(* takes their components with them; tickets stay behind.                   *)

Gone == {e \in InEcs \ removing : client_id[e] \in closed}

\* The mutant removes the client and leaves the entity alone.
MutDespawn == removing' = {} /\ UNCHANGED client_id

Despawn ==
    /\ removing' = Gone
    /\ client_id' = [e \in Entities |-> IF e \in removing THEN 0 ELSE client_id[e]]

RemoveDisconnected ==
    LET keys == {client_id[e] : e \in Gone}
    IN  /\ phase = "remove_disconnected_clients"
        /\ phase' = "update_player_views"
        /\ Despawn
        /\ uuid' = [e \in Entities |-> IF e \in removing THEN None ELSE uuid[e]]
        /\ position' = [e \in Entities |-> IF e \in removing THEN Origin ELSE position[e]]
        /\ view' = [e \in Entities |-> IF e \in removing THEN Origin ELSE view[e]]
        /\ view_event' = [e \in Entities |-> IF e \in removing THEN NoEvent ELSE view_event[e]]
        /\ tracked' = [s \in DOMAIN tracked |-> tracked[s] \ removing]
        /\ tickets' = [e \in Entities |-> IF e \in removing THEN Nothing ELSE tickets[e]]
        /\ by_entity' = by_entity \ removing
        /\ lost' = lost \ removing
        /\ clients' = [i \in ClientIds |-> IF i \in keys THEN None ELSE clients[i]]
        /\ closed' = closed \ keys
        /\ \E freed \in SetToSeqs(keys) : vacant' = freed \o vacant
        /\ UNCHANGED <<joining, new_players, subscriptions>>

-----------------------------------------------------------------------------
(* The connections.  Two bounds: the keys and entities of the instance, and *)
(* that nobody new comes once a key is in lists that nothing will clear.    *)
Connect(u) ==
    /\ lost \cap ClientIds = {}
    /\ Len(new_players) < MaxQueue
    /\ Len(new_players) < Len(vacant) /\ Len(new_players) < Cardinality(Entities \ InEcs)
    /\ new_players' = Append(new_players, u)
    /\ UNCHANGED <<phase, ecsvars, eventvars, clients, closed, vacant, ticketvars, subscriptions, lost>>

Hangup(id) ==
    /\ clients[id] # None
    /\ closed' = closed \cup {id}
    /\ UNCHANGED <<phase, ecsvars, eventvars, clients, vacant, new_players, ticketvars,
                   subscriptions, lost>>

Next ==
    \/ UpdatePlayerViews \/ UpdateViewOnJoin \/ RemoveDeadEntities \/ UpdateTickets
    \/ \E e \in Entities, p \in Centers : AcceptNewPlayer(e, p)
    \/ EndPoll
    \/ HandlePackets \/ UpdateSubscriptions \/ RemoveDisconnected
    \/ \E u \in Users : Connect(u)
    \/ \E id \in ClientIds : Hangup(id)

PlayersSpec == Init /\ [][Next]_playersvars

-----------------------------------------------------------------------------
Staying == InEcs \ removing

\* A key of the slab is used again while the entity of its last client is still
\* there; no player that stays ever shares one or finds another user behind it.
OwnClient ==
    /\ \A e \in Staying :
           /\ clients[client_id[e]] = uuid[e]
           /\ \A f \in Staying : client_id[f] = client_id[e] => f = e
    /\ \A id \in ClientIds : clients[id] # None => \E e \in Staying : client_id[e] = id

\* The unwraps of ChunkTickets::remove_ticket and of remove_disconnected_clients,
\* a panic of which ends the tick loop, always find what they look for.
NoPanic ==
    /\ phase = "update_tickets_for_players" =>
           \A e \in Entities : old_chunks(view_event[e]) # {} => e \in by_entity
    /\ phase = "remove_disconnected_clients" => \A e \in Staying : clients[client_id[e]] # None

InView(e) == [c \in Chunks |-> IF c \in Seen(view[e]) THEN 1 ELSE 0]

\* Once the tickets of a tick are handed out every player has one ticket for
\* each chunk of its view and none elsewhere, but for those that missed a move.
TicketsMatchView ==
    phase \notin {"update_view_on_join", "remove_dead_entities", "update_tickets_for_players"} =>
        \A e \in Staying \ (joining \cup lost) : tickets[e] = InView(e)

\* A client hears of the chunks in view of its player and of no others: nothing
\* is left behind for the next client that gets the key.
Subscribed(id) ==
    {e \in InEcs \ joining : client_id[e] = id /\ (phase = "update_player_views" \/ e \notin removing)}
SubscriptionsMatchView ==
    phase \in {"remove_disconnected_clients", "update_player_views"} =>
        \A id \in ClientIds \ lost :
            IF Subscribed(id) = {} THEN subscriptions[id] = Nothing
            ELSE \A e \in Subscribed(id) : subscriptions[id] = InView(e)

\* A ticket outlives its player only if the player moved or joined in the very
\* tick it left, whose event comes after the tickets of the dead are taken.
LeftBehind == {e \in removing : phase = "remove_disconnected_clients" /\ tickets[e] # Nothing}
OnlyLateEventsLeak == \A e \in LeftBehind : view_event[e] # NoEvent

\* "all systems have exactly one chance to observe the event before it is
\* dropped": an event stays until the system that inserted it runs again.
EventsAreObserved == \A e \in tracked["update_player_views"] : view_event[e] # NoEvent

==============================================================================
