CONSTANTS
    eventsToSync <- MCEventsToSync
    Events = {"old", "past", "soon", "later"}
    KindOf <- MCKindOf
    BlockOf <- MCBlockOf
    Window = 1
    StartHead = 3
    MaxHead = 5
    MaxProviders = 5
    MaxFaults = 3
    MaxCrashes = 1
SPECIFICATION LifeSpec
INVARIANTS OneContractListens StartLeavesNoGap
PROPERTY ListensAgain
CHECK_DEADLOCK FALSE
