---------------------------- MODULE MCDownloads ----------------------------
(* Instances of Downloads for TLC: a model of two chunks, and a larger       *)
(* release of three.                                                        *)
EXTENDS Downloads

CONSTANTS small, large

MCLength == [b \in Builds |-> IF b = small THEN 2 ELSE 3]
====
