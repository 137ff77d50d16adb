CONSTANTS
    parent = parent  child = child
    p1 = p1  p2 = p2  c1 = c1
    handler = handler  childHandler = childHandler
    Schedulers = {parent, child}
    Descendants <- Nested
    Workers = {p1, p2, c1}
    Home <- AtHome
    Requesters = {handler}
    Top <- Handles
    MaxStarts = 1
    MaxRunners = 2
    Ratio = 2
    MaxJobs = 3
    MaxControls = 3
    b1 = b1  b2 = b2  b3 = b3
    Blocks = {b1, b2, b3}
    First = {b1, b2}
    NRunners = 2
    Batch <- Dealt
    Hash <- Hashed
    MaxMessages = 4
    LateStart = FALSE
SPECIFICATION PartsSpec
CHECK_DEADLOCK FALSE
INVARIANTS NoWorkWhileHeld  SoleWorkerHasLeft OneUser 
PROPERTIES RequestGranted StopEndsWorkers AddedIsAdopted ZombiesAreDeleted
