SPECIFICATION Spec
CONSTANTS
    Calls = {c1, c2, c3}
    MaxPeriods = 4
SYMMETRY AnyCall
INVARIANTS
    TypeOK
    AtMostOneOpen
    AnswerStands
PROPERTIES
    AnswersWereTrue
