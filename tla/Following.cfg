CONSTANTS
    MaxItems = 3
    MaxRedeploys = 1
    MaxDrops = 2
    Limit = 2
    Nameless <- NamelessLogs
    Unreadable <- UnreadableLogs
    Home = home
    Other = other
    Followed <- AllFollowed
SPECIFICATION FairSpec
INVARIANTS FailureReported OneProject
PROPERTIES ReadingHolds FollowEnds TailAdvances
