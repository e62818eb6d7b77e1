CONSTANTS
    Client = {c1}
    User = {u1}
    Call = {q1}
    Used = {"remediation/approve", "learning/map", "mttr"}
    RATE_LIMIT_PER_MIN = 2
    Minute = 2
    JWT_EXPIRY = 2
    MaxTime = 4
    MaxUpsets = 2
    None = None
SPECIFICATION Spec
INVARIANTS
    RateIsBounded
    RoleWasHeld
