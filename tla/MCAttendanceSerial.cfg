\* Review calls that do not overlap, on two sessions; fair tasks, no fault.
SPECIFICATION SerialSpec
CONSTANTS
    s1 = s1
    s2 = s2
    st1 = st1
    st2 = st2
    teacher = teacher
    admin = admin
    r1 = r1
    r2 = r2
    r3 = r3
    NULL = NULL
    Session = {s1, s2}
    Student = {st1, st2}
    Actor = {teacher, admin}
    Admin = {admin}
    Teacher <- MCTeacher
    Similarity = {1}
    Threshold = 1
    MaxFaces = 1
    Req = {r1, r2}
    CallInputs <- SerialInputs
    Faults = {}
INVARIANTS
    ConfirmedOnce
    AuditMatchesRegister
    EvidenceIsJustified
PROPERTIES
    KeepsPromise
    EditsTakeEffect
    ProcessingEnds
CHECK_DEADLOCK FALSE
