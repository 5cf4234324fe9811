CONSTANTS
    e1 = e1
    e2 = e2
    e3 = e3
    Edits = {e1, e2, e3}
    None = None
    Torn = Torn
    Snapshot = Snapshot
    QueueCapacity = 2
    JournalCapacity = 3
SPECIFICATION Spec
INVARIANTS
    TypeOK
    FileFollowsCommits
    CleanStopKeepsEdits
    RejectedNeverDurable
    LateEditsRejected
PROPERTIES
    SnapshotsOfWrittenEdits
    CommittedBecomesDurable
