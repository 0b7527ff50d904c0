CONSTANTS
    BookId = {b1}
    Request = {r1, r2}
    MaxBacklog = 3
    MaxFaults = 2
SPECIFICATION FairSpec
INVARIANTS
    LiveBookMirrored
    DeletedBookRemoved
    SnapshotSaved
    MirrorAccounted
PROPERTIES
    NothingLostWhileConsuming
    MirrorSpec
    SyncCompletes
    ConsumerSettles
    CreationArrives
    DeletionArrives
