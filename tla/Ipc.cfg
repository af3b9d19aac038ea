SPECIFICATION Spec
CONSTANTS
    s1 = s1
    s2 = s2
    r1 = r1
    v1 = v1
    v2 = v2
    Envs = {s1, s2, r1}
    Senders = {s1, s2}
    Receivers = {r1}
    Mortal = {r1}
    Values = {v1, v2}
    MaxGen = 1
INVARIANTS WakeupsExact
PROPERTIES ImplementsRendezvous SendersMeetReceivers
CHECK_DEADLOCK FALSE
