\* Two callers start and shut down an interval job and a timeout job; timers
\* fire and bodies end.
SPECIFICATION FairSpec
CONSTANTS
    c1 = c1  c2 = c2
    tick = tick  once = once
    Callers = {c1, c2}
    Intervals = {tick}
    Timeouts = {once}
    MaxStarts = 3
INVARIANTS
    DriversAreKnown
PROPERTIES
    IntervalsGoOn
    ShutdownEnds
\* A registry that nobody starts again comes to rest.
CHECK_DEADLOCK FALSE
