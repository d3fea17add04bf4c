\* Two requests that compete for one permit.
CONSTANTS
    N = 2
    MaxConcurrent = 1
    Workers = 2
    TimeLimit = 2
SPECIFICATION ClockSpec
INVARIANT RequestsTimeLimited
\* When every request is answered only the clock goes on.
CHECK_DEADLOCK FALSE
