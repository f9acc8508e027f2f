----------------------------- MODULE TimeSeries -----------------------------
(***************************************************************************)
(* What a circular buffer promises: a sliding window of the newest "rows"  *)
(* time slots.  A cell of the window keeps its value until it is written   *)
(* or its slot leaves the window; a slot that enters the window is empty,  *)
(* and a slot that left it is never seen again.                            *)
(***************************************************************************)
EXTENDS Integers

CONSTANTS rows, Columns,
          Slots,  \* time slots: times divided by seconds_per_row
          Cells,  \* what a cell may hold, NAN among it
          NAN     \* the content of an empty cell

VARIABLES newest, cell

Window(top) == {s \in Slots : top - rows < s /\ s <= top}

Init ==
  /\ newest = rows - 1
  /\ cell = [s \in Slots |-> [c \in Columns |-> NAN]]

\* The window moves to top, which empties the slots that leave it.
Moved(top) == [s \in Slots |-> IF s \in Window(top) THEN cell[s]
                               ELSE [c \in Columns |-> NAN]]

\* The window moves, if at all, to the slot that is written, and one cell is
\* written at most.
Advance(top) ==
  /\ top >= newest
  /\ newest' = top
  /\ \/ cell' = Moved(top)
     \/ \E s \in (IF top > newest THEN {top} ELSE Window(top)), c \in Columns, v \in Cells :
          cell' = [Moved(top) EXCEPT ![s][c] = v]

Next == \E top \in Slots : Advance(top)

Spec == Init /\ [][Next]_<<newest, cell>>
=============================================================================
