SPECIFICATION Spec
CONSTANTS
    MaxRequests = 2
    MaxPages = 1
    Kinds <- AllKinds
    Env <- Evaluating
INVARIANT TypeOK
INVARIANT RunningTasksCanBeRevoked
INVARIANT AnswerIsOfTheArea
CHECK_DEADLOCK FALSE
