------------------------------ MODULE SealedLog ------------------------------
(***************************************************************************)
(* What the incremental backup promises, without threads, memory, SQLite   *)
(* or a chain of manifests: a log that only grows, a mark up to which its  *)
(* rows are sealed, the sealed rows the sink holds, and the rows that a    *)
(* published manifest reaches.  Backup implements this specification when  *)
(* nothing compacts.                                                       *)
(***************************************************************************)
EXTENDS Integers, Sequences

CONSTANT Typed    \* the types of the rows that are backed up

VARIABLES
    log,          \* the rows written so far
    upto,         \* rows 1..upto have been sealed
    sealed,       \* the rows that are in a durable segment
    stored,       \* the rows that are in a segment the sink holds
    published     \* the rows that a manifest at the sink lists

vars == <<log, upto, sealed, stored, published>>

Rows(n) == {i \in 1..n : log[i].type \in Typed}

Init ==
    /\ log = <<>> /\ upto = 0
    /\ sealed = {} /\ stored = {} /\ published = {}

Record ==
    /\ Len(log') > Len(log)
    /\ \A i \in 1..Len(log) : log'[i] = log[i]
    /\ UNCHANGED <<upto, sealed, stored, published>>

Seal ==
    /\ \E n \in upto + 1 .. Len(log) : upto' = n /\ sealed' = Rows(n)
    /\ UNCHANGED <<log, stored, published>>

\* What is uploaded was sealed first, ...
Store ==
    /\ stored \subseteq stored' /\ stored' \subseteq sealed
    /\ UNCHANGED <<log, upto, sealed, published>>

\* ... and what is published was uploaded first.
Publish ==
    /\ published \subseteq published' /\ published' \subseteq stored
    /\ UNCHANGED <<log, upto, sealed, stored>>

Next == Record \/ Seal \/ Store \/ Publish

Spec == Init /\ [][Next]_vars
====
