SPECIFICATION DirectFairSpec
CONSTANTS
    Sends = {q1, q2}
INVARIANTS
    ResumedExactlyOnce
    AnswerFreed
PROPERTIES
    EverySendAnswered
