------------------------------ MODULE MCBackup ------------------------------
(* Instances of Backup for TLC.                                             *)
EXTENDS Backup
====
