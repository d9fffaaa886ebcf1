-------------------------- MODULE MCControlSocket --------------------------
(***************************************************************************)
(* One client and one peer on the control socket, for TLC.                 *)
(***************************************************************************)
EXTENDS ControlSocket

CONSTANTS k1, p1
=============================================================================
