---- MODULE MCOutbox ----
(* Small instances of Outbox for TLC; the .cfg files choose the sizes. *)
EXTENDS Outbox, TLC

CONSTANTS w1, w2

\* The replicas run the same code.
MCSymmetry == Permutations(Workers)

====
