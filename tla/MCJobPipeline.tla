--------------------------- MODULE MCJobPipeline ----------------------------
(* Two jobs of any of four operations, one of them announced twice or
   losing an interface that sorts before Job's, and a block device. *)
EXTENDS JobPipeline

MCBlocks == {1}
MCUndecodable == {}

MCAnnounced ==
  {[op |-> o, objects |-> <<1>>] : o \in {Erase, Mkfs, MountFs, OtherOperation}}

(* Sorts before Job. *)
EarlierInterface == {{BlockIface}}
=============================================================================
