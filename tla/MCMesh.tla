-------------------------------- MODULE MCMesh --------------------------------
(***************************************************************************)
(* A small instance of both halves of the mesh.                            *)
(***************************************************************************)
EXTENDS Mesh, MCMeshSync

CONSTANTS n1, n2
=============================================================================
