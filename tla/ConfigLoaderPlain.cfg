CONSTANTS
    a = a
    b = b
    q = q
    f = f
    g = g
    out = out
    none = none
    o = o
    r = r
    x = x
    p = p
    y = y
    dr = dr
    ds = ds
    dt = dt
    dn = dn
    DB = {a, b}
    Name = {q}
    File = {root, f, g, out, none}
    root = root
    Dir = {dr, ds, dt, dn}
    DirOf <- DirsOf
    Outside = {out}
    Path = {o, r, x, p, y}
    PathOrder <- Order
    Join <- Joined
    Base = {o, r, y}
    BaseOf <- Bases
    Contents <- PlainContents
    MaxIncludeDepth = 2
    NoDB = NoDB
    NoQuery = NoQuery
    NoFile = NoFile
    NoEntry = NoEntry
SPECIFICATION Spec
INVARIANT
    ClonesDiffer
