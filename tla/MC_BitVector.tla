---------------------------- MODULE MC_BitVector ----------------------------
(***************************************************************************)
(* Model-checking instance of BitVector.  Sizes 0, 12 and 16: zero bytes,  *)
(* a size that is not a multiple of 8, and two whole bytes.  The texts     *)
(* cover two bytes with a separator, a short string, one that is too long  *)
(* for its buffer, and an illegal character.                               *)
(***************************************************************************)
EXTENDS BitVector

Txt(s) == [i \in 1..Len(s) |-> SubSeq(s, i, i)]

MCSizes == {0, 12, 16}

MCTexts == { Txt("10100101 00000001"),
             Txt("00000000 0000"), Txt("1 1"), Txt("01x") }

\* Sizes and texts that are not whole bytes, for the panic run.
MCOddSizes == {12}

MCOddTexts == { Txt("1 1") }

\* A 40-bit string whose only 1 is bit 32.
MCWideTexts == { Txt("00000000 00000000 00000000 00000000 10000000") }

=============================================================================
