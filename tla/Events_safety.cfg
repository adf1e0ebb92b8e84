SPECIFICATION Spec
CONSTANTS
    a = a
    b = b
    s = s
    t = t
    Other = Other
    Names = {a, b}
    Sinks = {s, t}
    Wants <- MCWants
    Priorities = {0, 1}
    MaxRegs = 3
    MaxAdds = 2
    MaxDepth = 2
INVARIANT BoundWhenThere
PROPERTY NoneSkipped
CHECK_DEADLOCK FALSE
