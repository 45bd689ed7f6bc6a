SPECIFICATION Spec
CONSTANTS
    Clients = {c1}
    Handles = {h1}
    Subs = {s1}
    MaxRounds = 1
INVARIANT NoOrphanedClient
CHECK_DEADLOCK FALSE
