CONSTANTS
    Kids = {k1}
    Stranger = stranger
    Refetch = 2
    TTL = 4
    Stale = 6
    Timeout = 1
SPECIFICATION Spec
INVARIANTS RevokedKeyDies UnavailableMeansIt RotationIsPickedUp
