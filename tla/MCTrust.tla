------------------------------- MODULE MCTrust -------------------------------
(* Two devices, of which one may come with the name and address of the      *)
(* other, and two handshakes at the same time.                              *)
EXTENDS Trust, TLC

Symmetry ==
    Permutations(Device) \cup Permutations(Fingerprint) \cup Permutations(Name)
        \cup Permutations(Handshake)

=============================================================================
