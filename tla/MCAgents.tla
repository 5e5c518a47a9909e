------------------------------- MODULE MCAgents -------------------------------
(***************************************************************************)
(* Two agents and the supervisor; names of which one is a prefix of the    *)
(* other; capabilities to send to agent 2, to read below a prefix, and     *)
(* whatever file system capability an agent requests.                      *)
(***************************************************************************)
EXTENDS AgentSystem

MCPids == {0, 1, 2}
MCDir == <<"d">>
MCFileNames == {<<"d">>, <<"d", "x">>}
MCPaths == {<< >>, <<"d">>, <<"d", "x">>}
MCNewCaps == {ProcessCap(2, TRUE, FALSE), FileSystemCap(MCDir, TRUE, FALSE)}
=============================================================================
