SPECIFICATION Spec
CONSTANTS
    Users = {u1, u2, u3}
    Guests = {u3}
    Invites = {i1}
    Requests = {r1, r2}
    None = None
SYMMETRY Symmetry
INVARIANTS
    TypeOK
    OwnerCanWrite
    NothingOutlivesTheGroup
    RedeemedInviteIsGone
PROPERTIES
    
    FreshRequestsDeleteOwnGroup
    FreshRequestsEmptyNoGroup
    FreshRequestsHaveAuthority
CHECK_DEADLOCK FALSE
