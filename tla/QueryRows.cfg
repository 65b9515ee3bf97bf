CONSTANTS
    a = a
    b = b
    c1 = c1
    c2 = c2
    e1 = e1
    e2 = e2
    q1 = q1
    q2 = q2
    s1 = s1
    s2 = s2
    k1 = k1
    k2 = k2
    l1 = l1
    x1 = x1
    x2 = x2
    v1 = v1
    v2 = v2
    m1 = m1
    r1 = r1
    r2 = r2
    DB = {a, b}
    Conn = {c1, c2}
    Env = {e1, e2}
    Query = {q1, q2}
    Sql = {s1, s2}
    Schema = {k1, k2}
    NoDB = NoDB
    NoConfig = NoConfig
    NoPool = NoPool
    NoHandle = NoHandle
    NoQuery = NoQuery
    NoWorker = NoWorker
    Metric = {m1}
    LabelName = {l1, x1, x2}
    LabelValues = {v1, v2}
    RowKey = {r1, r2}
    MetricOf <- OneMetric
    StaticNames <- Static
    MultiRow = {k1}
    ValuesOf <- Values
    ColsOf <- Columns
    BadRow = {r2}
    NoRow = NoRow
    NoVec = NoVec
    Configs <- Clones
    MaxReloads = 2
SPECIFICATION Spec
INVARIANTS
    ValuesHaveOwners
    PublishedRowsStay
    VecLivesWithItsWorkers
    NoValueWhileDown
    HealthFollowsWorkers
    ConflictIsShown
PROPERTIES
    StopSparesOthers
CHECK_DEADLOCK FALSE
