SPECIFICATION Spec
CONSTANTS
    Names = 2
    Words <- MCWords
    MaxLines <- MCMaxLines
    Rules <- MCRules
INVARIANTS GemfileComplete
