------------------------------- MODULE MCKernel -------------------------------
(***************************************************************************)
(* Archives with nothing in them, with no module, with two modules and     *)
(* between them a file that is none and whose name is a prefix of the      *)
(* second's, and with the same name twice and different bytes.  Agents use *)
(* every name, also those the archive does not hold.                       *)
(***************************************************************************)
EXTENDS Kernel

CONSTANTS d1, d2   \* the contents of files

MCPids == {0, 1}
MCDir == <<"d">>
MCModule == <<"d", ".wasm">>
MCOther == <<"e", ".wasm">>
MCFileNames == {MCDir, MCModule, MCOther}
MCPaths == {<< >>} \cup MCFileNames
MCFileData == {d1, d2}

Entry(name, data) == [name |-> name, data |-> data]
MCArchives ==
  {<< >>,
   <<Entry(MCDir, d1)>>,
   <<Entry(MCOther, d1), Entry(MCDir, d1), Entry(MCModule, d1)>>,
   <<Entry(MCModule, d1), Entry(MCModule, d2)>>}
=============================================================================
