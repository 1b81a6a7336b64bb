------------------------------ MODULE MCMedia ------------------------------
(* Instances of Media for TLC: video and text are assets of three and two   *)
(* bytes, a third is a document of one.                                     *)
EXTENDS Media, TLC

CONSTANTS video, text, doc

MCSize == [a \in Assets |-> CASE a = video -> 3 [] a = text -> 2 [] OTHER -> 1]

\* The clouds are alike.
CloudsAlike == Permutations(Clouds)
====
