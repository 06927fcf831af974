SPECIFICATION Spec
CONSTANTS
 Acolyte = {a, b}
 Operator = {o}
 Group = {g}
 MAX_ENTRIES = 2
 MaxMessages = 3
 MaxForgets = 1
 MaxReflections = 2
 None = None
INVARIANT DerivedForgotten
CHECK_DEADLOCK FALSE
