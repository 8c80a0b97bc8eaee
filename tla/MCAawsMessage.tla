--------------------------- MODULE MCAawsMessage ---------------------------
(* AawsMessage with lengths on both sides of the widths of their fields.   *)
EXTENDS AawsMessage

\* Empty, short, just within 16 bits, and just beyond.  Four of the longest do
\* not fit a word any more (WordModulus in the .cfg).
SomeSizes == {0, 3, 65535, 65536}
=============================================================================
