\* One sample, one line in HTML and two in Markdown, two actions in SARIF.
CONSTANTS
    Results <- MCResults
    FileText <- MCFileText
    DomId <- MCDomId
    ActionIds = {"x", "y", "z"}
    Samples = 1
    HtmlLines = 1
    MarkdownLines = 2
    NextActions = 2
SPECIFICATION Spec
INVARIANTS TypeOK FindingsAccounted SeverityAgreed ActionsOnce DocumentsClean
PROPERTY ClickShowsItsFile
