------------------------------ MODULE MCServer ------------------------------
(* Server, with its clients as model values. *)
EXTENDS Server

=============================================================================
