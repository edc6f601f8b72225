\* Two calls of `vk boot` at once, over one or two state directories, endpoints and key
\* files or over the keyring, on both systems, on a clean machine or one with stale
\* sockets, in a synced folder or not.
SPECIFICATION MCSpec
CONSTANTS
    Boots = {b1, b2}
    Stores = {s1, s2}
    Endpoints = {e1, e2}
    Files = {f1, f2}
    Keyring = Keyring
    Nobody = Nobody
    b1 = b1
    s1 = s1
    e1 = e1
    f1 = f1
INVARIANTS
    OneDaemon
    RefusalLeavesNothing
PROPERTIES
    EnrolmentStands
    BootReturns
\* Calls return and daemons end.
CHECK_DEADLOCK FALSE
