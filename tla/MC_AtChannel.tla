---------------------------- MODULE MC_AtChannel ----------------------------
(* Small instances of AtChannel for TLC.                                    *)
EXTENDS AtChannel, TLC

\* The senders are interchangeable: no action or property names one.
SenderSymmetry == Permutations(Senders)
=============================================================================
