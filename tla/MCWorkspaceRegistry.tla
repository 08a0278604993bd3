------------------------ MODULE MCWorkspaceRegistry ------------------------
(* Folders, one of them a copy of the first workspace, for TLC. *)
EXTENDS WorkspaceRegistry

MCRoots == {"personal", "papers", "copy"}
MCId == [r \in MCRoots |-> IF r = "copy" THEN "personal" ELSE r]

(* First launch: nothing is registered and everybody asks at once. *)
LaunchCallers == {"all", "addPapers", "addCopy", "appearance"}
LaunchOp ==
  [c \in LaunchCallers |->
     CASE c = "addPapers" -> [kind |-> "add", root |-> "papers"]
       [] c = "addCopy" -> [kind |-> "add", root |-> "copy"]
       [] OTHER -> [kind |-> c, root |-> "personal"]]
LaunchRegistered == <<>>
=============================================================================
