\* Every directory of three files out of eleven.
CONSTANTS
    Entries = {"one", "two", "three"}
    RuleTexts <- MCRuleTexts
    RuleKind = {"regex", "key"}
    BadPattern = {"("}
    RuleDirs <- MCRuleDirs
SPECIFICATION Spec
INVARIANTS TypeOK LookupExact OrderOfTheWalkForgotten AllOrNothing
