CONSTANTS
    Control = {c1}
    r1 = r1  r2 = r2  r3 = r3  r4 = r4  r5 = r5
    ann = ann  bob = bob  op = op  bot = bot
    Request = {r1, r2, r3}
    Actor = {ann, bob, bot}
    Role <- RoleOf
    ActorType <- TypeOf
    Facts <- LowOrDual
    UseMock = TRUE
    NoRow = NoRow
    Nobody = Nobody
    Calls <- ProgressCalls
    MayCrash = {r2}
    MaxInFlight = 3
    MaxEvals = 2
SPECIFICATION FairSpec
CHECK_DEADLOCK FALSE
INVARIANTS
    ApproverHasSigned
PROPERTIES
    EveryRequestEnds
