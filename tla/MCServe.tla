-------------------------------- MODULE MCServe --------------------------------
(* Serve with a child that writes text, a device query and colour queries. *)
EXTENDS Serve
================================================================================
