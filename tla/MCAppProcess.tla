---------------------------- MODULE MCAppProcess ----------------------------
(* Instances of AppProcess for TLC. *)
EXTENDS AppProcess

TheAdmins == {"a1", "a2"}
=============================================================================
