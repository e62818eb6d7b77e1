CONSTANTS
    Agreements <- BoundaryAgreements
    Confidences <- SomeConfidences
    Radii = {0, 2, 3}
    Found = {"CRITICAL", "MEDIUM", "LOW", "UNRECOGNISED"}
SPECIFICATION Spec
INVARIANTS
    DefaultRuleNeverFires
    HighRiskReachabilityNeedsTwo
    OperatorAloneIsLocal
    UnknownEvidenceBlocks
PROPERTIES
    WorseEvidenceNeverLoosens
