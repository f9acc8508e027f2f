----------------------------- MODULE RecordFile -----------------------------
(***************************************************************************)
(* What Parquet writers promise: the records a writer accepted stand in    *)
(* its row group under construction, in order and whole, until that row    *)
(* group is written to the writer's file as it is, or is given up as a     *)
(* whole; no writer touches the records of another.                        *)
(***************************************************************************)
EXTENDS Naturals, Sequences

CONSTANT Writers

VARIABLES pending,  \* per writer: the row group under construction
          file      \* per writer: row groups

vars == <<pending, file>>

Init == /\ pending = [w \in Writers |-> <<>>]
        /\ file = [w \in Writers |-> <<>>]

Accept(w) == /\ pending'[w] # <<>>
             /\ pending' = [pending EXCEPT ![w] = Append(@, pending'[w][Len(pending'[w])])]
             /\ UNCHANGED file

Write(w) == /\ pending[w] # <<>>
            /\ file' = [file EXCEPT ![w] = Append(@, pending[w])]
            /\ pending' = [pending EXCEPT ![w] = <<>>]

GiveUp(w) == pending' = [pending EXCEPT ![w] = <<>>] /\ UNCHANGED file

Next == \E w \in Writers : Accept(w) \/ Write(w) \/ GiveUp(w)

Spec == Init /\ [][Next]_vars
=============================================================================
