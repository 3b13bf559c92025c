--------------------------- MODULE MCJournalEditor ---------------------------
(* Three texts of one entry, as interchangeable model values.              *)
EXTENDS JournalEditor, TLC

TextSymmetry == Permutations(Texts)
=============================================================================
