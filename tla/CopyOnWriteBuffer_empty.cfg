CONSTANTS
    Handle = {h1, h2}
    Storage = {s1, s2, s3}
    Null = Null
    Byte = {a, b}
    MaxLen = 2
    EmptyInputs = TRUE
SPECIFICATION Spec
INVARIANT IsConsistent
