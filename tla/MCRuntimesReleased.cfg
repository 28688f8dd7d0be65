SPECIFICATION MCSpec
CONSTANTS
    Threads = {t1, t2}
    VMs = {v1, v2, v3, v4, v5}
    NoVM = NoVM
    Nobody = Nobody
    \* Two downloads of two extensions, of which one defines completeGrant.
    Waiters = {w1, w2}
    Exts = {a, b}
    Scripted = {a}
    States = {s1}
    None = None
PROPERTIES ExchangeReleases
\* Every download may have been told, and every operation have returned.
CHECK_DEADLOCK FALSE
