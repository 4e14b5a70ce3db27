CONSTANTS
    Key = {k1, k2}
    Val = {v1}
    TTL = {0}
    None = None
    Torn = Torn
    TornMagic = TornMagic
    Bad = Bad
    Policies = {"Always"}
    SegmentSize = 0
    MaxSegments = 1
    Failures = {"kill"}
    MaxLog = 3
    MaxSegment = 1
    MaxNow = 1
SPECIFICATION Spec
SYMMETRY Symmetry
INVARIANT TypeOK
INVARIANT IndexSound
INVARIANT BloomCoversIndex
INVARIANT AppendOnly
INVARIANT ReadYourWrites
PROPERTY ImplementsVolumeMap
