---------------------------- MODULE MCDispatcher ----------------------------
(* A drive and a job, each announced and removed, and a broken message. *)
EXTENDS DispatcherSystem

MCBlocks == {1}

Broken == [path |-> None]
MCUndecodable == {Broken}

MCMessages ==
  [w \in Watches |->
     MCUndecodable \cup
     IF w = "removals"
     THEN {Removed(d, {DriveIface}) : d \in Drives} \cup {Removed(j, {JobIface}) : j \in JobPaths}
     ELSE {Added(d, [removable |-> TRUE]) : d \in Drives}
          \cup {Added(j, [op |-> Mkfs, objects |-> <<1>>]) : j \in JobPaths}]
=============================================================================
