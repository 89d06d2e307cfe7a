SPECIFICATION Spec
CONSTANTS
    People = {p1, p2}
    Names = {deleted, n1, n2}
    Deleted = deleted
    Calls = {c1, c2}
SYMMETRY AnyPersonAnyName
INVARIANTS
    TypeOK
    MenuFollowsRole
PROPERTIES
    RestartRepairsMenus
    RolesStayPersonal
