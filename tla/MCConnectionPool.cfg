SPECIFICATION Spec
CONSTANTS
    None = None
    Calls = {"q1", "q2", "q3"}
    Size = 2
    Workers = 3
    MaxRefusals = 1
INVARIANTS TypeOK Exclusive Conserved
PROPERTIES CallsEnd ImplementsCalls
CHECK_DEADLOCK FALSE
