-------------------------------- MODULE MCUser ---------------------------------
(* User on small instances. *)
EXTENDS User

===============================================================================
