CONSTANTS
    Lines = {x}
    MaxRuns = 1
    MaxInputs = 2
SPECIFICATION Spec
CONSTRAINT FewCalls
INVARIANTS InputOnce
PROPERTIES NeverBack Settles
