CONSTANTS
    Files <- MCFiles
    Rules <- MCRules
SPECIFICATION Spec
INVARIANTS TypeOK ChainCovered
