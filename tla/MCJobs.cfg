SPECIFICATION FairSpec
CONSTANTS
    t1 = t1
    t2 = t2
    s1 = s1
    Job = {1}
    Hour <- Late
    HoursPerDay = 2
    MaxDays = 1
    StaleAfter = 3
    Tick = {t1, t2}
    Staff = {s1}
    LastClock = 5
    MaxMishaps = 1
INVARIANTS TypeOK ExclusiveRun RowIsHonest
PROPERTIES EveryDateIsRun TroubleIsTold
CHECK_DEADLOCK FALSE
