CONSTANTS
    Files <- MCFiles
    Rules <- MCRules
SPECIFICATION Spec
INVARIANT KeySizeReported
