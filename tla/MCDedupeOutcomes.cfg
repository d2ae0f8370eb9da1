\* Lists of up to five faces, two students, three similarities.
SPECIFICATION Spec
CONSTANTS
    st1 = st1
    st2 = st2
    Student = {st1, st2}
    Similarity = {0, 1, 2}
    Threshold = 1
    NULL = NULL
    Lengths = {0, 1, 2, 3, 4, 5}
INVARIANTS
    ComputesDedupe
    OneMatchPerStudent
CHECK_DEADLOCK FALSE
