----------------------------- MODULE MCFreelance ----------------------------
(***************************************************************************)
(* Instances of Freelance with two servers.                                *)
(***************************************************************************)
EXTENDS Freelance

CONSTANTS s1, s2

MCEndpoints == <<s1, s2>>

=============================================================================
