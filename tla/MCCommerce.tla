------------------------------ MODULE MCCommerce ------------------------------
(* Commerce for TLC.                                                       *)
EXTENDS Commerce
=============================================================================
