SPECIFICATION FairSpec
CONSTANTS
    Output = {o1}
    View = {v1}
    Char <- MCChar
    Password <- MCPassword
    BufferSize = 3
    MaxFilled = 2
    Zero = "zero"
    Noop = Noop
    NULL = NULL
INVARIANTS AnswersKeepStep OutputsAgree
PROPERTIES StaysDark LockIsSafe AnswerArrives OutputsGoDark ShutdownEnds
CHECK_DEADLOCK FALSE
