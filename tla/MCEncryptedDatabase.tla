------------------------- MODULE MCEncryptedDatabase -------------------------
(* Two interchangeable passphrases: a lost one and its replacement.        *)
EXTENDS EncryptedDatabase, TLC

KeySymmetry == Permutations(Keys)
=============================================================================
