SPECIFICATION Spec
CONSTANTS
    Calls = {t1, t2, t3}
    Dishes = {d1}
    Categories = {k1}
    Restaurants = {r1, r2}
    Names = {n1, n2}
    NoRow = norow
    MaxPool = 3
SYMMETRY AnyId
CHECK_DEADLOCK FALSE
INVARIANTS
    TypeOK
    CirclesHaveACause
    StuckFillsPool
    CategoriesAsGiven
