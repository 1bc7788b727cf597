SPECIFICATION Spec
CONSTANTS
    u = u
    v = v
    x = x
    y = y
    m = m
    a = a
    A = A
    b = b
    Users = {u, v}
    Me = me
    Nicks = {m, a, A, b}
    Chans = {x, y}
    Key <- MCKey
    None = none
    Settings <- MCSettings
INVARIANTS
    MembersTracked
    KeepsAsking
