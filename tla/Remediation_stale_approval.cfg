CONSTANTS
    Control = {c1}
    r1 = r1  r2 = r2  r3 = r3  r4 = r4  r5 = r5
    ann = ann  bob = bob  op = op  bot = bot
    Request = {r1, r2, r3}
    Actor = {ann, bob}
    Role <- RoleOf
    ActorType <- TypeOf
    Facts <- LowOrDual
    UseMock = TRUE
    NoRow = NoRow
    Nobody = Nobody
    Calls <- RegenerateCalls
    MayCrash = {}
    MaxInFlight = 2
    MaxEvals = 1
SPECIFICATION Spec
CHECK_DEADLOCK FALSE
INVARIANTS
    ApprovalIsCurrent
