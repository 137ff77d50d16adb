CONSTANTS
    Submitters = {s1, s2}
    Tasks = {t1, t2}
    Threads = {w1, w2, w3}
    MaxThreads = 2
    Owner = o
    MaxCalls = 6
    Holders = {h1, h2, h3}
SPECIFICATION PartsSpec
CHECK_DEADLOCK FALSE
INVARIANTS SizeBounded StopEndsTimer ReadersExcludeWriters
PROPERTIES TaskStarts ShutdownEnds HooksInOrder RunningIsWoken
