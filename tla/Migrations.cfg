SPECIFICATION Spec
CONSTANTS
    Runs = {r1, r2, r3}
    Files = 2
INVARIANTS
    OutcomesHold
PROPERTIES
    Versioned
    RunsEnd
