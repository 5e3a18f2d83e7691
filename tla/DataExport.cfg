\* Two requests for one account, one retry each; the message of the first may be handed out
\* twice.
SPECIFICATION FairExportSpec
CONSTANTS
    Exports = {1, 2}
    MaxRetries = 1
    Redelivered = {1}
INVARIANTS
    OneActive
    LinkLeadsToArchive
PROPERTIES
    ReadyUntilExpired
    ExportSettles
\* Every request may be over and expired.
CHECK_DEADLOCK FALSE
