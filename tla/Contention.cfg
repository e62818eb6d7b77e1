CONSTANTS
    Control = {c1}
    r1 = r1  r2 = r2  r3 = r3  r4 = r4  r5 = r5
    ann = ann  bob = bob  op = op  bot = bot
    Request = {r1, r2, r3, r4}
    Actor = {ann, bob}
    Role <- RoleOf
    ActorType <- TypeOf
    Facts <- SignedOrRisky
    UseMock = TRUE
    NoRow = NoRow
    Nobody = Nobody
    Calls <- ContentionCalls
    MayCrash = {r2}
    MaxInFlight = 2
    MaxEvals = 2
SPECIFICATION HSpec
CHECK_DEADLOCK FALSE
SYMMETRY SignerSymmetry
INVARIANTS
    TypeOK
    NoLostQuorum
    ApprovedIsSafe
    LedgerExplainsRow
    RestorePointKnown
    OpenIsUnapproved
    TwoPersonRule
    UncontestedQuorum
    
PROPERTIES
    ImplementsSignoff
