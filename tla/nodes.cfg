SPECIFICATION Spec
CONSTANTS
    Streams = {s1, s2, s3}
    NodeIds = {n1}
    Certificates = {c1, c2}
    MaxPending = 2
    None = None
INVARIANT AcceptedIsEnrolled
PROPERTY SettlesOnCurrent
CHECK_DEADLOCK FALSE
