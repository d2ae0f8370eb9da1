\* A task whose first load raises; every other step is fair.
SPECIFICATION FairSpec
CONSTANTS
    s1 = s1
    s2 = s2
    st1 = st1
    st2 = st2
    teacher = teacher
    admin = admin
    r1 = r1
    r2 = r2
    r3 = r3
    NULL = NULL
    Session = {s1}
    Student = {st1, st2}
    Actor = {teacher, admin}
    Admin = {admin}
    Teacher <- MCTeacher
    Similarity = {1}
    Threshold = 1
    MaxFaces = 1
    Req = {r1}
    CallInputs <- PollInputs
    Faults = {"load"}
PROPERTIES
    ProcessingEnds
CHECK_DEADLOCK FALSE
