------------------------------- MODULE MCWebApp -------------------------------
(* Two setups at once; texts, requests, passwords and zones are interchangeable. *)
EXTENDS WebApp, TLC

Symmetry == Permutations(Texts) \cup Permutations(Setups)
            \cup Permutations(Passwords) \cup Permutations(Zones)
=============================================================================
