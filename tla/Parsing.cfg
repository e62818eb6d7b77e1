CONSTANTS
    x = x  y = y
    r1 = r1  r2 = r2
    cisco = cisco
    corp = corp  public = public
    Community = {corp, public}
    Default = {public}
    PolicyId = {1}
    Host = {}
    Acl = {}
    Unset = Unset
    Nothing = Nothing
    Run <- MCRun
    Block <- MCBlock
    TextOf <- MCTextOf
    Text = {x, y}
    Vendor <- MCVendor
    VendorOf <- MCVendorOf
    ChunksOf <- MCChunksOf
    Deterministic <- MCDeterministic
    Distance <- MCDistance
    Overlap <- MCOverlap
    Reads <- MCReads
    Logprob <- MCLogprob
    Fidelity <- MCFidelity
    Task = {t1, t2}
    Admin = {a1}
SPECIFICATION Spec
CHECK_DEADLOCK FALSE
SYMMETRY TaskSymmetry
INVARIANTS
    AlarmSurvives
    ReadingsAreSound
    FullAgreementHidesNothing
    MappedIsStored
PROPERTIES
    ImplementsParseJob
