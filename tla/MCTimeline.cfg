CONSTANTS
    a1 = a1
    a2 = a2
    r1 = r1
    api = api
    mon = mon
    tue = tue
    nextMon = nextMon
    Activity = {a1, a2}
    Trip = {short}
    NoFactor = {}
    BadInput = {}
    Day = {mon, tue, nextMon}
    Moves <- FarMove
    Request = {r1}
    Targets <- AnyTarget
    Process = {api}
    ProcessOf <- OneProcess
    MaxFaults = 1
    Null = Null
    Week = {1, 2}
    Month = {1, 2}
    WeekOf <- DayInWeek
    MonthOf <- DayInWeek
CHECK_DEADLOCK FALSE
SPECIFICATION TFairSpec
INVARIANTS
    SummariesExact
    RebuildHeals
PROPERTIES
    
    SummariesCatchUp
