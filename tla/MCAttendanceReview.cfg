\* Overlapping review calls on one session, with every fault.
SPECIFICATION Spec
CONSTANTS
    s1 = s1
    s2 = s2
    st1 = st1
    st2 = st2
    teacher = teacher
    admin = admin
    r1 = r1
    r2 = r2
    r3 = r3
    NULL = NULL
    Session = {s1}
    Student = {st1, st2}
    Actor = {teacher, admin}
    Admin = {admin}
    Teacher <- MCTeacher
    Similarity = {0, 1, 2}
    Threshold = 1
    MaxFaces = 2
    Req = {r1, r2}
    CallInputs <- ReviewInputs
    Faults = {"crash", "refresh", "load", "mark"}
SYMMETRY ReqSymmetry
INVARIANTS
    TypeOK
    NothingHalfCommitted
    AiVerdictIsDraft
    ManualVerdictIsAudited
    EvidenceIsJustified
    ConfirmationIsAudited
PROPERTIES
    KeepsOverlapPromise
CHECK_DEADLOCK FALSE
