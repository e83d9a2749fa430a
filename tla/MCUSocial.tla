----------------------------- MODULE MCUSocial -----------------------------
(***************************************************************************)
(* Addresses of USocial for TLC.                                           *)
(***************************************************************************)
EXTENDS USocial

Two   == 1 .. 2
Three == 1 .. 3
Four  == 1 .. 4
=============================================================================
