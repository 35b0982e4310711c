SPECIFICATION Spec
CONSTANTS
    NULL = NULL
    c1 = c1
    c2 = c2
    ana = ana
    con1 = con1
    t1 = t1
    t2 = t2
    Clients = {c1, c2}
    Principals = {ana, con1}
    RoleOf <- Roles
    Versions = {1, 2}
    Tokens = {t1, t2}
    Treatments = {"rebook", "escalate"}
    Operated = {1, 2}
    MaxEvents = 2
    Outcomes = {"confirmed", "rejected", "unknown"}
SYMMETRY Symmetry
CHECK_DEADLOCK FALSE
INVARIANT OneLiveResolution
