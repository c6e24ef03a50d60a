SPECIFICATION Spec
CONSTANTS
    Lists <- MCLists
    Sizes = {1000, 5000, 9000}
    Schemes = {"gpt", "mbr"}
    Word = 8192
INVARIANTS
    TypeOK
    Disjoint
    NumbersArePlaces
    OrderedIsComplete
    SizeKept
CHECK_DEADLOCK FALSE
