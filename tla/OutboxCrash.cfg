SPECIFICATION Spec
CONSTANTS
    started = started
    stopped = stopped
    refused = refused
    keyless = keyless
    res1 = res1
    res2 = res2
    Events = {refused, keyless}
    NoEvent = NoEvent
    Reservations = {res1, res2}
    Blank = Blank
    Res <- MCResOf
    Terminal <- MCTerminal
    Observable = {refused, keyless}
    Verdict <- MCVerdict
    Emitters = {e1}
    Drainers = {d1}
    Backend = "redis"
    MaxPerPass = 2
    HasPublisher = TRUE
    HasSettler = TRUE
    Drop = FALSE
    Outages = TRUE
    StoreFaults = TRUE
    Crashes = TRUE
INVARIANTS
    RecordKept
