CONSTANTS
    Clients = {c1, c2, c3}
    Permits = 2
    Deadline = 1
    ProbeDeadline = 1
    TTL = 2
    MaxBatches = 2
SPECIFICATION FairSpec
INVARIANTS PermitsAccounted StatsFresh ItemIsSupported
PROPERTIES ImplementsBoundedService AdmitsAgain
