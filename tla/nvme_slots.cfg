SPECIFICATION IOSpec
CONSTANTS
    Thread = {t1, t2}
    Unset = Unset
INVARIANTS AnswersOwn
CHECK_DEADLOCK FALSE
