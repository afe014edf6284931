----------------------------- MODULE TextBytes ------------------------------
(***************************************************************************)
(* The bytes of a generated text, as the two constraints sort them. A byte *)
(* is a one-letter string ("nl" is the one control byte), a text a         *)
(* sequence of bytes.                                                      *)
(***************************************************************************)
CONSTANT Bytes  \* the bytes of the instance

Quote == "\""
Escape == "\\"
Control == {"nl"}
Space == {" ", "nl"}
Digit == {"0", "1", "2", "3", "4", "5", "6", "7", "8", "9"}
Hex == Digit \cup {"a", "b", "c", "d", "e", "f", "A", "B", "C", "D", "E", "F"}
Escapable == {Quote, Escape, "/", "b", "f", "n", "r", "t"}
=============================================================================
