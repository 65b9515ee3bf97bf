CONSTANTS
    a = a
    c1 = c1
    c2 = c2
    e1 = e1
    DB = {a}
    Conn = {c1, c2}
    Env = {e1}
    Query = {}
    Sql = {}
    Schema = {}
    NoDB = NoDB
    NoConfig = NoConfig
    NoPool = NoPool
    NoHandle = NoHandle
    NoQuery = NoQuery
    NoWorker = NoWorker
    NoSeries = NoSeries
    MaxReloads = 2
    Wanted <- OneDatabase
SPECIFICATION FairSpec
INVARIANT
    ConfigAppliedIsExact
PROPERTIES
    SilentDeathShows
    StatsCatchUp
