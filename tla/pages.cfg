SPECIFICATION PagesSpec
CONSTANTS
    Items = {w, x, y, z, v}
    Wanted = w
    PageSize = 2
    Readers = {"GetAllPages", "findByName"}
    Changes = {"append", "insert", "delete"}
    MaxChanges = 2
    CutBodies = TRUE
INVARIANTS
    PagesTypeOK
    ListsEverything
    AbsentIsAbsent
