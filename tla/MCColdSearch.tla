----------------------------- MODULE MCColdSearch -----------------------------
(* An instance of ColdSearch for TLC: p was received in january and edited in *)
(* february, q has an event in january only.                                 *)
EXTENDS ColdSearch

CONSTANTS p, q, jan, feb

MCBucketsOf == [m \in Messages |-> IF m = p THEN {jan, feb} ELSE {jan}]
====
