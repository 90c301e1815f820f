\* Nodes of more than five lexemes are cut, and two hits are kept of a rule.
CONSTANTS
    Parses <- MCParses
    Rules <- MCRules
    ClipLength = 5
    Limit = 2
SPECIFICATION Spec
INVARIANTS TypeOK MatchesExact HitsLocated
