CONSTANTS
    Key = {k1, k2}
    Val = {v1, v2}
    TTL = {}
    None = None
    Torn = Torn
    TornMagic = TornMagic
    Bad = Bad
    Policies = {"Always"}
    SegmentSize = 1
    MaxSegments = 1
    Failures = {"power"}
    MaxLog = 3
    MaxSegment = 1
    MaxNow = 0
SPECIFICATION Spec
SYMMETRY Symmetry
INVARIANT IndexSound
INVARIANT RecoversPuts
