------------------------------- MODULE FileMap -------------------------------
(***************************************************************************)
(* What the file system promises its callers: a map from names to          *)
(* contents.  A system file keeps the content it was mounted with for      *)
(* ever; any other name holds what was written last, until it is deleted.  *)
(* The answer to a write or a deletion says whether it was done.           *)
(***************************************************************************)
CONSTANTS FileNames, FileData, NoFile

VARIABLES
  content,   \* the content of every name, NoFile where there is none
  system,    \* the names of the system files
  op         \* the last call: what, the name, the data and the answer

mapVars == <<content, system, op>>

MapInit == /\ content = [n \in FileNames |-> NoFile]
           /\ system = {}
           /\ op = << >>

(* The first system file of a name is the one that counts. *)
MapRegister(n, d) ==
  /\ op' = <<"register", n, d, TRUE>>
  /\ n \in system \/ content[n] = NoFile
  /\ content' = IF n \in system THEN content ELSE [content EXCEPT ![n] = d]
  /\ system' = system \cup {n}

MapWrite(n, d) ==
  /\ op' = <<"write", n, d, n \notin system>>
  /\ content' = IF n \in system THEN content ELSE [content EXCEPT ![n] = d]
  /\ UNCHANGED system

MapDelete(n) ==
  /\ op' = <<"delete", n, NoFile, n \notin system /\ content[n] # NoFile>>
  /\ content' = IF n \in system THEN content ELSE [content EXCEPT ![n] = NoFile]
  /\ UNCHANGED system

MapNext ==
  \E n \in FileNames : \/ \E d \in FileData : MapRegister(n, d) \/ MapWrite(n, d)
                       \/ MapDelete(n)

MapSpec == MapInit /\ [][MapNext]_mapVars
=============================================================================
