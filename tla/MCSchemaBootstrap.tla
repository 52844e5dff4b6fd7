-------------------------- MODULE MCSchemaBootstrap --------------------------
(***************************************************************************)
(* Two operations, or three when one of them is to roll back and another   *)
(* to recover, over two images and one row.                                *)
(***************************************************************************)
EXTENDS SchemaBootstrap, TLC

Interchangeable == Permutations(Op) \cup Permutations(Service) \cup Permutations(Row)
==============================================================================
