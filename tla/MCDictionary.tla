---------------------------- MODULE MCDictionary ----------------------------
(***************************************************************************)
(* Model checking of Dictionary, with four-bit bytes of which 8 to 11 are  *)
(* the lower-case forms of 4 to 7.                                         *)
(***************************************************************************)
EXTENDS Dictionary

Interesting8  == <<-8, -1, 0, 1>>
Interesting16 == Interesting8 \o <<-128, 127>>
Interesting32 == Interesting16 \o <<4096>>

LowerCase == [b \in Byte |-> IF b \in 4 .. 7 THEN b + 4 ELSE b]

\* The last one is too long for MAX_DICT_FILE.
SomeUserTokens == {<<1, 2, 3, 3, 2>>, <<4, 5, 2>>, <<1, 2, 3, 1, 2, 3>>}

\* A run of one byte, an interesting value in either order, a user token in
\* another case, a token in two cases, and tokens of two lengths.
SomeAutoTokens ==
  {<<1, 1, 1>>, <<0, 0, 0, 1>>, <<8, 9, 2>>, <<1, 2, 6>>, <<1, 2, 10>>,
   <<1, 2, 3>>, <<3, 2, 1, 2>>, <<2, 1, 3>>}

=============================================================================
