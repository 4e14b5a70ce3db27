CONSTANTS
    IP = {a1, a2}
    None = None
    Cost = 2
    Burst = 2
    Window = 4
    MaxNow = 6
    Tenant = {t1}
    Caller = {c1, c2, c3}
    Size = {1, 2}
    DefaultQuota <- MCDefault
    Quotas <- MCQuotas
    QuotaWindow = 2
    MaxObjects = 3
    MaxRequests = 4
    Volume = {1, 2, 3, 4}
    Key = {"k1"}
    Shard = {"s1"}
    Weight <- MCWeight
    Replicas = 2
    State = {"alive", "draining"}
    Put = {p1, p2}
    MaxChanges = 3
SPECIFICATION MCSpec
SYMMETRY Symmetry
CHECK_DEADLOCK FALSE
INVARIANTS TypeOK AdmissionBound QuotaTypeOK OvershootBounded UsageCovers StoredBounded RateExact
    FullOrNone PlacementsOverlap
PROPERTIES  RebalanceKeepsShards
