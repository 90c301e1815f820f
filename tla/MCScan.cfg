\* Four files, two threads, one edit at any moment.
CONSTANTS
    Paths = {1, 2, 3, 4}
    Ignored = {}
    Excluded = {4}
    Symlinks = {2}
    Contents <- MCContents
    Oversize = {"big"}
    Unreadable = {"locked"}
    Binary = {"bin"}
    Lines <- MCLines
    VersionHint <- MCVersionHint
    RuleIds <- MCRuleIds
    RuleOf <- MCRuleOf
    Hits <- MCHits
    Detections <- MCDetections
    Workers = {w1, w2}
    StartDisks <- MCStartDisks
    MaxEdits = 1
    Absent = Absent
    Unread = Unread
    Pending = Pending
    NoCache = NoCache
    NoReport = NoReport
SPECIFICATION Spec
INVARIANTS TypeOK DetectionsAsRead FindingsExact FirstsInOrder SeverityNeverLowered
    OneVersionPerFile KnownKeysMasked SnippetOnTarget
PROPERTIES WriteOnce Termination ImplementsPromise
