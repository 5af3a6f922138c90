---------------------------- MODULE MCLiveUpdates ----------------------------
EXTENDS LiveUpdates, TLC

MCFocuses ==
    {[app |-> "web", tab |-> "group_invite", live |-> TRUE],
     [app |-> "web", tab |-> "group_log", live |-> TRUE],
     [app |-> "web", tab |-> "group_log", live |-> FALSE],
     [app |-> "mobile", tab |-> "group_log", live |-> TRUE]}
=============================================================================
