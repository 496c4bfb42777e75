\* A user's vector schedule and a banner, faults, sleeps: every branch of the pass, and that it comes round again.
CONSTANTS
    Schedules = {digest, checkin}
    Banner = {checkin}
    Locked = {digest}
    Asap = {}
    UserOwned = {digest}
    Slots = {1, 2}
    GRACE = 1
    OVERLAP_RETRY = 1
    BACKOFF_BASE_SECONDS = 1
    BACKOFF_MAX_SECONDS = 3
    MaxRung = 2
    FAILURE_ALERT_THRESHOLD = 2
    MaxFaults = 2
SPECIFICATION FairSpec
INVARIANTS SchedTypeOK OneJobPerSchedule
PROPERTIES BackoffRespected RunsAgain
