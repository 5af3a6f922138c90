------------------------------- MODULE MCUsers -------------------------------
(* The constants of Users: who has an account at first, versions. *)
EXTENDS Users, TLC

CONSTANTS u1, u2, a1, a2

MCHome == "links" :> (u1 :> a1) @@ "web" :> (u1 :> a1 @@ u2 :> a2) @@ "mobile" :> (u1 :> a1 @@ u2 :> a2)
MCVersions == {<<0, 13, 0>>, <<0, 14, 0>>}
================================================================================
