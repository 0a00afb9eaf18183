------------------------- MODULE MC_BootconfigTrailer -------------------------
(***************************************************************************)
(* Model-checking instance of BootconfigTrailer: a NUL, a newline, an      *)
(* ASCII letter and one byte >= 128 as the alphabet, files of up to two    *)
(* bytes, and a three-line preamble ("a\n" each line) as in the source.    *)
(***************************************************************************)
EXTENDS BootconfigTrailer

MC_Bytes == {0, 10, 97, 200}
MC_Preamble == <<97, 10, 97, 10, 97, 10>>
MC_Magic == <<35, 66, 10>>
MC_RamdiskBytes == <<7, 7>>
=============================================================================
