\* A repository with private keys, and nobody editing it.
CONSTANTS
    Paths = {1, 2, 3, 4}
    Ignored = {}
    Excluded = {4}
    Symlinks = {2}
    Contents <- MCContents
    Oversize = {"big"}
    Unreadable = {"locked"}
    Binary = {"bin"}
    Lines <- MCLines
    VersionHint <- MCVersionHint
    RuleIds <- MCRuleIds
    RuleOf <- MCRuleOf
    Hits <- MCHits
    Detections <- MCDetections
    Workers = {w1, w2}
    StartDisks <- MCKeyDisks
    MaxEdits = 0
    Absent = Absent
    Unread = Unread
    Pending = Pending
    NoCache = NoCache
    NoReport = NoReport
SPECIFICATION Spec
INVARIANTS PrivateKeysNeverEmitted
