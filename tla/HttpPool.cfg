SPECIFICATION Spec
CONSTANTS
    Keys = {k1, k2, k3}
    Users = {u1, u2, u3, u4}
    MaxClients = 1
    MaxCreated = 3
INVARIANTS
    InUseNeverClosed
    CountsAreExact
