------------------------------ MODULE LaggingView ------------------------------
(***************************************************************************)
(* What the pages of the application promise about what they show, without *)
(* connections, subscriptions and requests: a page shows a version of its  *)
(* topic that was current at some time since the page asked for it.        *)
(***************************************************************************)
EXTENDS Integers

CONSTANTS
    Topics,     \* what a page can show: groups, members, invites, ...
    Readers     \* questions that can be open at a time

VARIABLES
    version,    \* the number of committed changes of every topic
    asked,      \* the open questions: a topic and its version when it was asked
    shown       \* the version of every topic that is shown, -1 for none

viewVars == <<version, asked, shown>>

Open == [topic : Topics, since : Nat]
NotAsking == [topic |-> "none"]

Init ==
    /\ version = [t \in Topics |-> 0]
    /\ asked = [r \in Readers |-> NotAsking]
    /\ shown = [t \in Topics |-> -1]

\* Some topics change, in one transaction of the server.
Change ==
    /\ version' \in [Topics -> Nat]
    /\ \A t \in Topics : version'[t] >= version[t]
    /\ UNCHANGED <<asked, shown>>

Ask(r, t) ==
    /\ asked[r] = NotAsking
    /\ asked' = [asked EXCEPT ![r] = [topic |-> t, since |-> version[t]]]
    /\ UNCHANGED <<version, shown>>

\* The answer is as old as the question, or newer.
Show(r) ==
    /\ asked[r] # NotAsking
    /\ asked' = [asked EXCEPT ![r] = NotAsking]
    /\ \E n \in asked[r].since .. version[asked[r].topic] : shown' = [shown EXCEPT ![asked[r].topic] = n]
    /\ UNCHANGED version

\* No answer.
GiveUp(r) ==
    /\ asked' = [asked EXCEPT ![r] = NotAsking]
    /\ UNCHANGED <<version, shown>>

Next ==
    \/ Change
    \/ \E r \in Readers : (\E t \in Topics : Ask(r, t)) \/ Show(r) \/ GiveUp(r)

Spec == Init /\ [][Next]_viewVars
=============================================================================
