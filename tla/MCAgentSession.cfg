CONSTANTS
    Files = 2
    MaxEdits = 1
    MaxFaults = 2
SPECIFICATION FairSpec
CHECK_DEADLOCK FALSE
INVARIANTS TypeOK RestoredIsNotBlank JoinIsOwed
PROPERTIES RemovedIsCollected OlderOnlyByRestore RoundAdvances JoinIsAnswered CollectionEnds
