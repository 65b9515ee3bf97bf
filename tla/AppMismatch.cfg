CONSTANTS
    a = a
    b = b
    c1 = c1
    c2 = c2
    e1 = e1
    e2 = e2
    q1 = q1
    q2 = q2
    s1 = s1
    s2 = s2
    k1 = k1
    k2 = k2
    DB = {a, b}
    Conn = {c1, c2}
    Env = {e1, e2}
    Query = {q1}
    Sql = {s1, s2}
    Schema = {k1, k2}
    NoDB = NoDB
    NoConfig = NoConfig
    NoPool = NoPool
    NoHandle = NoHandle
    NoQuery = NoQuery
    NoWorker = NoWorker
    MaxReloads = 2
    Configs <- OneQueryConfigs
SPECIFICATION Spec
INVARIANT InvariantNeverViolated
