\* Two calls at a time about one student; process, database and storage fail.
SPECIFICATION Spec
CONSTANTS
    st1 = st1
    p1 = p1
    p2 = p2
    p3 = p3
    p4 = p4
    i1 = i1
    i2 = i2
    i3 = i3
    r1 = r1
    r2 = r2
    NULL = NULL
    Student = {st1}
    Photo = {p1, p2, p3, p4}
    Usable = {p1, p2, p3}
    Image = {i1, i2, i3}
    Req = {r1, r2}
    MaxPhotos = 2
    MaxBatch = 2
    Faults = {"crash", "db", "ack", "disk"}
SYMMETRY Symmetry
INVARIANTS
    TypeOK
    PhotosHaveFiles
    NoDuplicatePhoto
    EmbeddingsFitPhotos
    OverlapsBoundTheCap
PROPERTIES
    BatchGoesOn
    ErasureIsComplete
CHECK_DEADLOCK FALSE
