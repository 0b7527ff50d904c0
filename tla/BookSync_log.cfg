CONSTANTS
    BookId = {b1}
    Request = {r1}
    MaxBacklog = 1
    MaxFaults = 0
SPECIFICATION Spec
PROPERTIES
    NothingDeletedMeansNoBook
