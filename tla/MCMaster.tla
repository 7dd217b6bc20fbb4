------------------------------- MODULE MCMaster --------------------------------
(* Master on small instances. *)
EXTENDS Master

===============================================================================
