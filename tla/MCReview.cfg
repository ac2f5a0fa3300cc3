SPECIFICATION FairSpec
CONSTANTS
    MaxReviewRounds = 2
    PageSize = 30
    People <- Everybody
    MaxCommit = 3
    MaxRemarks = 1
    MaxFaults = 1
INVARIANTS
    TypeOK
    MergedWasApproved
    OneVerdict
PROPERTIES
    ReviewSettles
    MergeRecorded
CHECK_DEADLOCK FALSE
