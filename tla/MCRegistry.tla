----------------------------- MODULE MCRegistry -----------------------------
(* Instances of Registry: two users, two devices and two contacts let a    *)
(* device move between users and a contact move under a waiting call; two  *)
(* calls wait on the same user, one for each kind of wait.                 *)
EXTENDS Registry

MCTTLs == {1}
=============================================================================
