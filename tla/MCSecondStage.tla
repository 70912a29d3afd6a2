---------------------------- MODULE MCSecondStage ----------------------------
(***************************************************************************)
(* Entries of 3 words in a sector of 9: room for two, where SMAP_t has 21.  *)
(* The third and the fourth entry cover the FAT, the fifth the directory.  *)
(***************************************************************************)
EXTENDS SecondStage

Mode(width, height, depth) == [x |-> width, y |-> height, bits |-> depth]

MCWanted == Mode(1280, 720, 32)

MCModes == {MCWanted, Mode(1280, 720, 24), Mode(640, 480, 32), Mode(4096, 2303, 32),
            Mode(4096, 2304, 32)}

MCModeLists == UNION {[1 .. n -> MCModes] : n \in 0 .. 2} \cup {<<Mode(640, 480, 32), MCWanted, MCWanted>>}

MCKernelChains == {<<>>, <<3, 4>>, <<4, 5>>}
==============================================================================
