SPECIFICATION Spec
CONSTANTS
    Minute = 2
    Hour = 4
    Day = 12
    Weekend = {1}
    DefaultRate = 1
    NoRow = NoRow
    MaxRows = 2
    Schedules <- MCSchedules
    Ranges <- MCRanges
    Catalogs <- MCCatalogs
    Queries <- MCQueries
    SearchPage = 2
    Anything = Anything
INVARIANTS TypeOK GridTellsTheTruth ShownPricesAddUp NobodyPlaysWhenClosed RevenueIsEarned
INVARIANTS SearchFindsAll PriceWithinBudget ListAndDetailAgree
CHECK_DEADLOCK FALSE
