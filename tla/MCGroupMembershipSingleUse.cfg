SPECIFICATION Spec
CONSTANTS
    Users = {u1, u2, u3}
    Guests = {u3}
    Invites = {i1}
    Requests = {r1, r2}
    None = None
SYMMETRY Symmetry
INVARIANT
    SingleUseInviteUsedOnce
CHECK_DEADLOCK FALSE
