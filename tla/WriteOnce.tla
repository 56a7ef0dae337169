------------------------------ MODULE WriteOnce ------------------------------
(***************************************************************************)
(* What a table whose rows are inserted and never changed promises to all  *)
(* who use it, however their calls overlap and wherever they are cut off:  *)
(* there is one row of each key, from the step that inserts it on, and     *)
(* whoever is told a row of the table is told one that stays.              *)
(***************************************************************************)

CONSTANT Key(_)     \* what a row is identified by

VARIABLES
    rows,           \* the table
    told            \* the rows that were given as answers

OneOfEachKey(table) == \A r, s \in table : Key(r) = Key(s) => r = s

OnceInit == OneOfEachKey(rows) /\ told = {}

\* One step, a transaction, may insert several rows and answer with some of them.
OnceNext ==
    /\ rows \subseteq rows' /\ OneOfEachKey(rows')
    /\ told \subseteq told' /\ told' \subseteq rows'

OnceSpec == OnceInit /\ [][OnceNext]_<<rows, told>>
=============================================================================
