--------------------------- MODULE MCPatchMachine ---------------------------
(* Two references and a relation between them, in one direction and to     *)
(* itself; a required and an optional field.                               *)
EXTENDS PatchMachine

CONSTANTS r1, r2

OneWay == {<<r1, r2>>, <<r1, r1>>}
=============================================================================
