------------------------------ MODULE MCServices ------------------------------
(* Services for TLC: its constants have values in Services.cfg. *)
EXTENDS Services, TLC
===============================================================================
