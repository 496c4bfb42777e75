\* One source, two contents, two requests at a time, overlapping wherever the locks let them.
CONSTANTS
    Sources = {git}
    Digests = {d1, d2}
    Requests = {r1, r2}
SPECIFICATION Spec
INVARIANTS ExtTypeOK TombstoneIsOff
PROPERTIES ContentMovesWithRecord OnlyAdminsEnable
SYMMETRY Symmetry
