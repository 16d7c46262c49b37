SPECIFICATION Spec
CONSTANTS
    t1 = t1
    t2 = t2
    s1 = s1
    s2 = s2
    coding = coding
    test = test
    b1 = b1
    b2 = b2
    Tasks = {t1, t2}
    Stages = {s1, s2}
    Roles = {coding, test}
    Boxes = {b1, b2}
    None = None
    MaxConcurrent = 2
    MaxFaults = 1
SYMMETRY MCSymmetry
INVARIANTS TypeOK Accounted StageBoxUp ChatHasReader
