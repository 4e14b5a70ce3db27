CONSTANTS
    Op = {set, del}
    Torn = Torn
    Policies = {"Always", "Interval", "Never"}
    MaxLog = 3
SPECIFICATION PSpec
INVARIANTS TypeOK SequencesConsecutive SyncedSurvives FlushedSurvives
