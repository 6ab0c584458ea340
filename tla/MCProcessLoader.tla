--------------------------- MODULE MCProcessLoader ---------------------------
(* Values of ProcessLoader's constants for TLC. Sizes are in half pages: a     *)
(* section may fill its pages or not, and .bss may fit into the last page of   *)
(* .data, go beyond it or be absent.                                           *)
EXTENDS ProcessLoader

MCModules ==
    [text : {2}, ro : {1}, data : {1, 2}, bss : {0, 2}]
    \cup [text : {3}, ro : {1}, data : {1}, bss : {1, 2}]
=============================================================================
