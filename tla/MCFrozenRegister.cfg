\* Two overlapping calls: an edit and a confirmation.
SPECIFICATION Spec
CONSTANTS
    s1 = s1
    s2 = s2
    st1 = st1
    st2 = st2
    teacher = teacher
    admin = admin
    r1 = r1
    r2 = r2
    r3 = r3
    NULL = NULL
    Session = {s1}
    Student = {st1, st2}
    Actor = {teacher, admin}
    Admin = {admin}
    Teacher <- MCTeacher
    Similarity = {1}
    Threshold = 1
    MaxFaces = 1
    Req = {r1, r2}
    CallInputs <- ReviewInputs
    Faults = {}
PROPERTIES
    FrozenRegister
CHECK_DEADLOCK FALSE
