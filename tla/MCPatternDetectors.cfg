CONSTANTS
    Rules <- MCRules
    Alphabet = {"name", "dashed", "remark", "mark", "blank", "newline"}
    MaxLength = 5
    Limit = 2
    Marker = {"dashed"}
SPECIFICATION DetectSpec
INVARIANTS DetectTypeOK HitsExact
