SPECIFICATION Spec
CONSTANTS
    Handlers = {h1, h2}
    Apps = {a1, a2}
    Domains = {p1, p2, local}
    Public = {p1, p2}
    Instances = {i1, i2}
    Typed = {t1}
    Decodable = {}
    None = None
    MaxRequests = 3
    MaxFailures = 1
INVARIANTS OneTunnel ConnectedServes DisabledMeansStopped PublishedIsServed
SYMMETRY TunnelSymmetry
CHECK_DEADLOCK FALSE
