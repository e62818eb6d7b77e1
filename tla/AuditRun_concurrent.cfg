CONSTANTS
    clean = clean  weak = weak  worse = worse  other = other
    c1 = c1  c2 = c2
    Upload = {u1}
    File = {f1}
    Baseline = {clean, weak}
    Control = {c1, c2}
    Violations <- MCViolations
    Evaluation = {e1, e2}
    Report = {p1}
    Nothing = Nothing
    Direct = {e2}
    MaxCopies = 2
    MaxBusy = 2
SPECIFICATION FairSpec
CHECK_DEADLOCK FALSE
INVARIANTS
    TypeOK
    DetectedOnce
    NotifiedOnce
    StatusMeansEvaluated
    CleanReportIsTrue
    LatestIsStored
    ReportCitesTheLatest
PROPERTIES
    LeavesIngested
    DetectedIsAnnounced
