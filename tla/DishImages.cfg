SPECIFICATION Spec
CONSTANTS
    Calls = {c1, c2, c3, c4}
    Dishes = {d1}
SYMMETRY AnyCallAnyDish
CHECK_DEADLOCK FALSE
INVARIANTS
    TypeOK
    MissingImageHasCause
    NothingLeaks
PROPERTIES
    CommittedImageStored
