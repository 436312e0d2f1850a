CONSTANTS
    Cves = {c1, c2, c3}
    Sources <- MCSources
    Structured <- MCStructured
    Authoritative <- MCAuthoritative
    Rated = {c1, c2}
    BatchSize = 1
    MaxObservations = 3
    MaxFailures = 1
    MaxRulings = 2
SPECIFICATION FairSpec
INVARIANTS ConfidenceIsCurrent NoOvertaking
PROPERTIES ConfidenceOnlyGrows EveryCveIsRevalidated
CHECK_DEADLOCK FALSE
