------------------------------- MODULE MCCodec ------------------------------
(***************************************************************************)
(* The instance of Codec for TLC: four characters suffice to write a key   *)
(* with its quotes and colon into a text.                                  *)
(***************************************************************************)
EXTENDS Codec

MCAlphabet == {"\"", "\\", "\n", "BS", "ESC", "hi", ":", "m", "u", "b"}
=============================================================================
