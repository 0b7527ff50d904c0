CONSTANTS
    png = png
    jpg = jpg
    Request = {r1, r2, r3}
    Data = {d1, d2}
    Ext = {png, jpg, none}
    NoExt = none
    Absent = absent
    Empty = empty
    Torn = torn
    Nobody = nobody
SPECIFICATION Spec
SYMMETRY Symmetry
INVARIANTS
    OneAvatar
    LastBegunWins
PROPERTIES
    SentIsWhole
    BrokenForCause
