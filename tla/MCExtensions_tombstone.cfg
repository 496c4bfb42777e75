\* One source, one content, two requests at a time.
CONSTANTS
    Sources = {git}
    Digests = {d1}
    Requests = {r1, r2}
SPECIFICATION Spec
INVARIANT TombstoneNeedsReimport
