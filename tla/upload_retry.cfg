SPECIFICATION Spec
CONSTANTS
    Subs = {s1, s2}
    Size = 2
    MaxCount = 2
INVARIANT UploadsTheContents
CHECK_DEADLOCK FALSE
