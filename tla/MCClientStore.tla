---------------------------- MODULE MCClientStore ----------------------------
EXTENDS ClientStore, TLC

MCFocuses ==
    {[app |-> "web", slice |-> "positions", live |-> TRUE],
     [app |-> "web", slice |-> "files", live |-> TRUE],
     [app |-> "web", slice |-> "accounts", live |-> TRUE],
     [app |-> "mobile", slice |-> "positions", live |-> TRUE],
     [app |-> "mobile", slice |-> "accounts", live |-> TRUE],
     [app |-> "mobile", slice |-> "positions", live |-> FALSE]}
=============================================================================
