----------------------------- MODULE MCRestore -----------------------------
(* Instances of Restore for TLC.                                            *)
EXTENDS Restore
====
