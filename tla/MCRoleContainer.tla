--------------------------- MODULE MCRoleContainer ---------------------------
(***************************************************************************)
(* One user, two groups, of which one can be in the other.                 *)
(***************************************************************************)
EXTENDS RoleContainer, TLC

CONSTANTS u, g, h

MCUser == {u}
MCGroup == {g, h}
MCSymmetry == Permutations(MCGroup)
================================================================================
