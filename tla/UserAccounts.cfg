CONSTANTS
    Request = {r1, r2}
    UserId = {u1, u2}
    Email = {e1, e2}
    Password = {p1, p2}
    Default = p1
    None = None
    Gone = Gone
    MaxTokens = 2
SPECIFICATION Spec
SYMMETRY Symmetry
INVARIANTS
    TypeOK
PROPERTIES
    TableSpec
    SuccessIsTrue
    ReplacedByOwner
CHECK_DEADLOCK FALSE
