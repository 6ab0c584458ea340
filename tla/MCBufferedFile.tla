---------------------------- MODULE MCBufferedFile ----------------------------
(* BufferedFile on files of up to four bytes with chunks of three: reads within a   *)
(* chunk, of one, and beyond, lines of more than one line buffer, and lines that    *)
(* the file ends.                                                                   *)
EXTENDS BufferedFile

MCBytes == {1, 2}
=============================================================================
