SPECIFICATION Spec
CONSTANTS
    Calls = {t1, t2, t3}
    Names = {a, b, c}
    NoName = noname
    MaxId = 4
SYMMETRY AnyCallAnyName
CHECK_DEADLOCK FALSE
INVARIANTS
    TypeOK
    AnswerWasTrue
    ErrorsExplained
    AddsAgree
