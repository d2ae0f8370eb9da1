\* One session of one or two photos, with every fault.
SPECIFICATION Spec
CONSTANTS
    st1 = st1
    st2 = st2
    s = s
    NULL = NULL
    Self = s
    Student = {st1, st2}
    Similarity = {0, 1, 2}
    Threshold = 1
    MaxImages = 2
    MaxFaces = 2
    MaxPhotos = 2
    RowLimit = 2
    Faults = {"crash", "refresh", "load", "mark", "disk", "ack"}
INVARIANTS
    FilesBackRows
    OrphansComeFromFailures
    BestIsNearest
PROPERTIES
    TaskEnds
    KeepsReview
CHECK_DEADLOCK FALSE
