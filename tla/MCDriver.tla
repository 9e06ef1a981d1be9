------------------------------ MODULE MCDriver ------------------------------
(* Every command line over two file names. *)
EXTENDS Driver

MCPaths == {"a.b", "out.asm"}
MCOptions ==
  [valid : BOOLEAN, help : BOOLEAN, version : BOOLEAN, input : MCPaths \cup {NoPath},
   output : MCPaths, target : {"ir", "x86_64_nasm", "other"}]
=============================================================================
