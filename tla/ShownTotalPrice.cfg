SPECIFICATION Spec
CONSTANTS
    Dishes = {d1, d2, d3}
    Prices = {5, 100, 250}
    MaxCount = 2
    MaxInt = 255
SYMMETRY AnyDish
INVARIANTS
    TotalPriceIsOfLine
