\* Two requests about one machine beside a call of the panel, or two calls of the
\* panel, crashes at any step
CONSTANTS
    Members = {m1}
    Ips = {i1}
    Tokens = {t1, t2}
    Clients = {c1, c2}
    Admins = {a1, a2}
    Together <- RequestsOrPanel
    TTL = 1
    MaxTime = 1
    None = None
    NoIp = NoIp
SPECIFICATION Spec
SYMMETRY Symmetry
INVARIANTS
    TypeOK
    BannedNeverServed
    BannedNeverGranted
    RetiredStaysDead
    KeysDurable
    BansDurable
    AckedBanHoldsUntorn
PROPERTY
    KeysLiveOnce
