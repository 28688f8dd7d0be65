SPECIFICATION MCSpec
CONSTANT EntryLimit = 70
CONSTANT Lace = 2
CONSTANT PageSegments = 3
CONSTANT MaxHeaderPages = 3
\* Two callers, one path, two ISRCs: one write, two builds, one step of time.
CONSTANT Callers = {t1, t2}
CONSTANT Paths = {p1}
CONSTANT ISRCs = {first, second}
CONSTANT None = None
CONSTANT TTL = 1
CONSTANT MaxWrites = 1
CONSTANT MaxBuilds = 2
CONSTANT MaxTime = 1
INVARIANTS  TagsAsAsked LibraryKept AnswersAsMeant CacheHonest
\* Nothing happens to an input of an algorithm.
CHECK_DEADLOCK FALSE
