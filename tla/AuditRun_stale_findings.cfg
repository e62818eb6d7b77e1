CONSTANTS
    clean = clean  weak = weak  worse = worse  other = other
    c1 = c1  c2 = c2
    Upload = {u1}
    File = {f1}
    Baseline = {clean, weak}
    Control = {c1, c2}
    Violations <- MCViolations
    Evaluation = {e1, e2, e3}
    Report = {p1}
    Nothing = Nothing
    Direct = {e3}
    MaxCopies = 2
    MaxBusy = 2
SPECIFICATION Spec
CHECK_DEADLOCK FALSE
SYMMETRY TaskSymmetry
INVARIANTS
    FindingsAreCurrent
