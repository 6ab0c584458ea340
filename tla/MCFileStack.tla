----------------------------- MODULE MCFileStack -----------------------------
(* Packages with a file of a whole header and sections of several sectors, with  *)
(* neighbours before and after it, with an empty file, and with more files than  *)
(* the table is read for.                                                        *)
EXTENDS FileStack

MCPartitions == {<<2, 13, 3>>, <<13, 0>>, <<0, 13>>, <<13, 1, 1>>, <<12, 1, 1, 1>>}
=============================================================================
