\* A batch run, the web service and the command line.
SPECIFICATION FairSpec
CONSTANTS
    Batches = {run}
    Others = {web, cli}
    Attempts = 3
    MaxFaults = 2
INVARIANTS
    ReadyMeansUsable
    RacesCostTwoAttempts
PROPERTIES
    EveryProcessGetsReady
