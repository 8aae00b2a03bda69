------------------------------ MODULE MCSource ------------------------------
(***************************************************************************)
(* Small files for Source: every kind of character, and reads that return  *)
(* one character or a pair that belongs together.                          *)
(***************************************************************************)
EXTENDS Source

MCChunks == {<<c>> : c \in Chars} \cup {<<CR, LF>>, <<ESC, M>>}
=============================================================================
