----------------------------- MODULE MCFraming ------------------------------
(* The instance of Framing for TLC: an empty body, a text and one with a NUL. *)
EXTENDS Framing

ThreeBodies == {<<>>, <<3>>, <<1, 0, 2>>}
OneByte == <<2>>
=============================================================================
