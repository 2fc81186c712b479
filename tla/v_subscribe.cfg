SPECIFICATION Spec
CONSTANTS
    t1 = t1
    t2 = t2
    s1 = s1
    s2 = s2
    w1 = w1
    w2 = w2
    c1 = c1
    c2 = c2
    k1 = k1
    NoTask = NoTask
    NoKey = NoKey
    Loop = Loop
    Listener = Listener
    Tasks = {t1}
    Sends = {s1}
    Keys = {k1}
    Watchers = {w1}
    Cancelers = {c1}
    Callers <- MCCallers
    Receivers <- MCReceivers
    INCOMING_CAPACITY = 1
INVARIANTS AcceptedStreamsProduce
CHECK_DEADLOCK FALSE
