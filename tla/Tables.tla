------------------------------- MODULE Tables -------------------------------
(***************************************************************************)
(* A SQL table is a function whose domain is the set of row ids in use.    *)
(***************************************************************************)
EXTENDS Integers

(* INSERT of one row under a fresh id.                                     *)
Insert(table, id, row) ==
    [i \in DOMAIN table \cup {id} |-> IF i = id THEN row ELSE table[i]]

(* Faulty: an UPDATE that forgets the version.                             *)
AdvanceSameVersion(row, status) == [row EXCEPT !.status = status]

(* The SET part of a conditional UPDATE: a new status, the next version.   *)
Advance(row, status) == [row EXCEPT !.status = status, !.version = @ + 1]

(* A table with no rows.                                                   *)
EmptyTable == [i \in {} |-> i]
=============================================================================
