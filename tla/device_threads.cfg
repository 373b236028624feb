CONSTANT MaxMoves = 2
SPECIFICATION FairSpec
\* The process ends.
CHECK_DEADLOCK FALSE
INVARIANTS
    OneMessageAfterExit
    AnswersFirst
PROPERTIES
    ExitObeyed
    UnpluggedLeaves
