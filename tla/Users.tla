--------------------------------- MODULE Users ---------------------------------
(***************************************************************************)
(* The users: mail links, sessions, and the connections their requests     *)
(* wait for.  A request without a connection has done nothing yet, and     *)
(* which one it gets makes no difference to it: the pool delays, and a     *)
(* behaviour is about the one or about the other.                          *)
(***************************************************************************)
EXTENDS Session, ConnectionPool

VARIABLE about     \* "sessions" or "pool"

UsersInit ==
    /\ Init /\ PoolInit
    /\ about \in {"sessions", "pool"}
    /\ about = "pool" => focus = "links"

UsersNext ==
    \/ about = "sessions" /\ Next /\ UNCHANGED <<poolVars, about>>
    \/ about = "pool" /\ PoolNext /\ UNCHANGED <<vars, about>>

UsersSpec ==
    UsersInit /\ [][UsersNext]_<<vars, poolVars, about>>
    /\ WF_vars(about = "sessions" /\ MailerStep /\ UNCHANGED <<clientVars, poolVars, about>>)
================================================================================
