\* Two syncs compete for one sandbox: the cap, the children, the rows and the deadlines.
CONSTANTS
    Fetches = {f1, f2}
    max_concurrent = 1
    MAX_PROTOCOL_VIOLATIONS = 3
    MaxStrays = 1
SPECIFICATION FairSpec
INVARIANTS SandboxTypeOK SandboxesBounded CompletedDidNotDie
PROPERTY FetchEnds
