\* Overlapping calls on one class, two students and the accounts.
SPECIFICATION Spec
CONSTANTS
    k1 = k1
    k2 = k2
    st1 = st1
    st2 = st2
    st3 = st3
    teacher = teacher
    other = other
    adm1 = adm1
    adm2 = adm2
    r1 = r1
    r2 = r2
    r3 = r3
    NULL = NULL
    Classroom = {k1, k2}
    Student = {st1, st2, st3}
    User = {teacher, other, adm1, adm2}
    Admin = {adm1, adm2}
    Key = {"k", "s", "t", "o", "c", "a", "A"}
    Lower <- MCLower
    Name = {"n", "m"}
    InitialRows <- MCRows
    Req = {r1, r2, r3}
    CallInputs <- RosterInputs
SYMMETRY ReqSymmetry
INVARIANTS
    KeysAreUnique
    FailuresHaveReasons
PROPERTIES
    RosterCallsTakeEffect
    EnrolledWereActive
    PatchesTakeEffect
CHECK_DEADLOCK FALSE
