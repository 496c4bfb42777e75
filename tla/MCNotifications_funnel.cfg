\* One alert read from the run scan, one other emitter, one fault; two notifications at a time.
CONSTANTS
    Alerts = {slo}
    RunBased = {slo}
    Others = {paused}
    Webhook = {slo}
    Email = {paused}
    Events = {e1, e2}
    MAX_ATTEMPTS = 2
    MaxFaults = 1
SPECIFICATION FairSpec
INVARIANTS NotifyTypeOK SentOnce OutboxHolds QuietWhileLive
PROPERTIES RaisedIsAnnounced DeliveryEnds DeferredGoesOut
