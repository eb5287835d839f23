\* Players: two users, two keys, three entities, two places.
SPECIFICATION PlayersSpec
CONSTANTS
    e1 = e1
    e2 = e2
    e3 = e3
    u1 = u1
    u2 = u2
    p = p
    q = q
    Entities = {e1, e2, e3}
    Users = {u1, u2}
    MaxClients = 2
    Chunks = {1, 2, 3}
    Centers = {p, q}
    Around <- MCAround
    Origin = p
    None = None
    MaxQueue = 2
INVARIANT
    EventsAreObserved
