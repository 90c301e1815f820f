\* Two invocations into one directory.
CONSTANTS
    MaxRuns = 2
SPECIFICATION CliSpec
INVARIANTS CliTypeOK VerdictDelivered InventorySeals
PROPERTIES WritesItsOwnInOrder
