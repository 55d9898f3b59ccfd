SPECIFICATION FairSpec
CONSTANTS
    started = started
    stopped = stopped
    refused = refused
    keyless = keyless
    res1 = res1
    res2 = res2
    Events = {started, stopped}
    NoEvent = NoEvent
    Reservations = {res1, res2}
    Blank = Blank
    Res <- MCResOf
    Terminal <- MCTerminal
    Observable = {started, stopped}
    Verdict <- MCVerdict
    Emitters = {e1}
    Drainers = {d1}
    Backend = "ddb"
    MaxPerPass = 2
    HasPublisher = TRUE
    HasSettler = TRUE
    Drop = FALSE
    Outages = TRUE
    StoreFaults = FALSE
    Crashes = FALSE
INVARIANTS
    TypeOK
    NothingLost
    ChargedNeverVoided
PROPERTIES
    EventuallyResolved
    ImplementsMoneyEvents
