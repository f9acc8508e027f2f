--------------------------- MODULE CircularBuffer ---------------------------
(***************************************************************************)
(* circular_buffer/circular_buffer.c: a sliding window of time series data *)
(* in a ring of rows, with the change of every cell since the last output  *)
(* kept beside it.  The module models the lua_sandbox build: add and set,  *)
(* which move the window, the reads, annotations, output() in the cbuf     *)
(* format, which sends everything, and in the cbufd format, which sends    *)
(* the changes and clears them, and the serialization that carries the     *)
(* buffer over a restart.  Times are whole seconds (the conversion from    *)
(* nanoseconds truncates), values are small integers and NAN; infinities   *)
(* are not modelled.                                                       *)
(***************************************************************************)
EXTENDS Integers, Sequences

CONSTANTS rows, columns, seconds_per_row,  \* arguments of new()
          Magnitudes,  \* of the values given to add and set
          MaxTime,     \* last time (bound of the model)
          Given,       \* times given to add and set
          MaxValue,    \* largest value of a cell (bound of the model)
          Methods,     \* aggregation methods to try
          MayFail,     \* BOOLEAN: an output may fail half way
          Texts,       \* of the annotations
          Precision,   \* of a time written with %g (six digits), in seconds
          Mixed,       \* BOOLEAN: values and annotations at the same time
                       \* (bound of the model)
          NAN, NIL

ASSUME DimensionsAssumption ==
  /\ rows \in Nat /\ rows > 1 /\ columns \in 1 .. 256
  /\ seconds_per_row \in Nat \ {0}
ASSUME BoundsAssumption ==
  /\ MaxTime \in Nat /\ MaxTime >= seconds_per_row * (rows - 1)
  /\ Given \subseteq 0 .. MaxTime
  /\ MaxValue \in Nat /\ Magnitudes \subseteq 0 .. MaxValue
ASSUME NANAssumption == NAN \notin Int /\ NIL \notin Int /\ NAN # NIL
ASSUME PrecisionAssumption == Precision \in Nat \ {0} /\ Mixed \in BOOLEAN

Columns == 1 .. columns
Rows == 0 .. rows - 1
Times == 0 .. MaxTime
Cells == (-MaxValue .. MaxValue) \cup {NAN}
Values == Magnitudes \cup {-m : m \in Magnitudes}

ASSUME MethodsAssumption == Methods \subseteq {"sum", "min", "max", "none"}

VARIABLES
  cb,        \* [current_time, current_row, values, deltas]
  headers,   \* aggregation method of each column
  received,  \* what a reader of the cbufd output makes of it, by slot
  lost,      \* cells <<slot, column>> the reader cannot know: their change
             \* went with a failed output, or their aggregation was changed
  anno,      \* the annotation table: [slot, column, text, delta]
  heard,     \* the annotations the reader has: [slot, column, text]
  excused    \* <<slot, column>> whose annotation it need not have

vars == <<cb, headers, received, lost, anno, heard, excused>>

EmptyRow == [c \in Columns |-> NAN]
EmptyRows == [r \in Rows |-> EmptyRow]

New == [current_time |-> seconds_per_row * (rows - 1), current_row |-> rows - 1,
        values |-> EmptyRows, deltas |-> EmptyRows]

Slot(t) == t \div seconds_per_row
CurrentSlot(b) == Slot(b.current_time)
Slots == 0 .. Slot(MaxTime)
Window(b) == {s \in Slots : CurrentSlot(b) - rows < s /\ s <= CurrentSlot(b)}

\* a + b, where NAN is what was never set.
Plus(a, b) == IF a = NAN THEN b ELSE IF b = NAN THEN a ELSE a + b

-----------------------------------------------------------------------------
(* check_row, clear_rows and copy_cleared_row.                             *)

\* copy_cleared_row: the rows behind a cleared one that are overwritten by it,
\* in blocks that double; f gives them when n rows are left to copy.
CopyClearedRow(num) ==
  LET f[n \in 0 .. num] ==
        IF n = 0 THEN {}
        ELSE LET pool == 1 + num - n
                 ask  == IF n >= pool THEN pool ELSE n
             IN (pool .. pool + ask - 1) \cup f[n - ask]
  IN f[num]

\* mutant: row 0 is left as it is when the rows to clear wrap around
RowsToClearUnwrapped(b, num_rows) ==
  LET n   == IF num_rows >= rows THEN rows ELSE num_rows
      row == IF b.current_row + 1 >= rows THEN 0 ELSE b.current_row + 1
  IN {row} \cup IF row + n - 1 >= rows
                THEN {row + i : i \in CopyClearedRow(rows - row - 1)}
                ELSE {row + i : i \in CopyClearedRow(n - 1)}

\* mutant: one row too many is cleared
RowsToClearOneMore(b, num_rows) ==
  LET n   == IF num_rows >= rows THEN rows ELSE num_rows + 1
      row == IF b.current_row + 1 >= rows THEN 0 ELSE b.current_row + 1
  IN {(row + i) % rows : i \in 0 .. n - 1}

\* clear_rows: the rows behind the current one, from 0 again after the last.
RowsToClear(b, num_rows) ==
  LET n   == IF num_rows >= rows THEN rows ELSE num_rows
      row == IF b.current_row + 1 >= rows THEN 0 ELSE b.current_row + 1
  IN {row} \cup IF row + n - 1 >= rows
                THEN {row + i : i \in CopyClearedRow(rows - row - 1)}
                       \cup {0} \cup CopyClearedRow(row + n - 1 - rows)
                ELSE {row + i : i \in CopyClearedRow(n - 1)}

\* check_row with advance set: the buffer after it ...
Advanced(b, t) ==
  LET row_delta == Slot(t) - CurrentSlot(b)
      cleared   == RowsToClear(b, row_delta)
  IN IF row_delta <= 0 THEN b
     ELSE [current_time |-> t - (t % seconds_per_row),
           current_row  |-> Slot(t) % rows,
           values |-> [r \in Rows |-> IF r \in cleared THEN EmptyRow ELSE b.values[r]],
           deltas |-> [r \in Rows |-> IF r \in cleared THEN EmptyRow ELSE b.deltas[r]]]

\* ... and, with or without advance, whether it returns a row, and which.
InBuffer(b, t) ==
  /\ Slot(t) <= CurrentSlot(b)
  /\ CurrentSlot(b) - Slot(t) < rows

RowOf(t) == Slot(t) % rows

-----------------------------------------------------------------------------
(* add and set.                                                            *)

\* The value of the cell, and the change recorded for it.
Written(b, row, c, new, delta) ==
  [b EXCEPT !.values[row][c] = new, !.deltas[row][c] = delta]

\* cb_add on a cell.
AddTo(b, row, c, v) ==
  LET old == b.values[row][c]
      pending == b.deltas[row][c]
      new == Plus(old, v)
  IN Written(b, row, c, new,
             IF new = old \/ headers[c] = "none" THEN pending
             ELSE IF headers[c] = "sum" THEN Plus(pending, v)
             ELSE new)

\* cb_set on a cell: an extreme is written only if it is one.
SetTo(b, row, c, v) ==
  LET old == b.values[row][c]
      pending == b.deltas[row][c]
  IN CASE headers[c] = "sum" ->
            Written(b, row, c, v, IF v = old THEN pending
                                  ELSE Plus(pending, IF old = NAN THEN v ELSE v - old))
       [] headers[c] = "none" -> Written(b, row, c, v, pending)
       [] OTHER ->
            IF old # NAN /\ (IF headers[c] = "min" THEN v >= old ELSE v <= old)
            THEN b ELSE Written(b, row, c, v, v)

Init ==
  /\ cb = New
  /\ headers \in [Columns -> Methods]
  /\ received = [s \in Slots |-> EmptyRow]
  /\ lost = {} /\ anno = {} /\ heard = {} /\ excused = {}

\* The reader keeps what belongs to the window of b.
Forgets(b) ==
  /\ received' = [s \in Slots |-> IF s \in Window(b) THEN received[s] ELSE EmptyRow]
  /\ lost' = {x \in lost : x[1] \in Window(b)}
  /\ heard' = {h \in heard : h.slot \in Window(b)}
  /\ excused' = {x \in excused : x[1] \in Window(b)}

\* Bound of the model.
InRange(b) == b.values \in [Rows -> [Columns -> Cells]]

\* The window has moved as in b, the cell is written if the time is in it.
Commit(b, written) ==
  /\ cb' = written
  /\ InRange(written)
  /\ written = b \/ Mixed \/ anno = {}
  /\ Forgets(b)
  /\ UNCHANGED <<headers, anno>>

Add == \E t \in Given, c \in Columns, v \in Values :
         LET b == Advanced(cb, t)
         IN Commit(b, IF InBuffer(b, t) THEN AddTo(b, RowOf(t), c, v) ELSE b)

Set == \E t \in Given, c \in Columns, v \in Values :
         LET b == Advanced(cb, t)
         IN Commit(b, IF InBuffer(b, t) THEN SetTo(b, RowOf(t), c, v) ELSE b)

\* The column is out of range, or the value is NAN: the window has moved when
\* either call finds out.
Refuse ==
  \E t \in Given :
    /\ cb' = Advanced(cb, t)
    /\ Forgets(cb')
    /\ UNCHANGED <<headers, anno>>

\* cb_set_header: the reader is told with the next output, and cannot tell
\* which of the values it has were meant for the old aggregation.
SetHeader ==
  \E c \in Columns, aggregation \in Methods :
    /\ headers' = [headers EXCEPT ![c] = aggregation]
    /\ aggregation # headers[c]
    /\ lost' = lost \cup {x \in Window(cb) \X {c} : cb.values[x[1] % rows][c] # NAN}
    /\ received' = [s \in Slots |-> IF <<s, c>> \in lost'
                                    THEN [received[s] EXCEPT ![c] = NAN] ELSE received[s]]
    /\ UNCHANGED <<cb, anno, heard, excused>>

-----------------------------------------------------------------------------
(* Annotations.                                                            *)

\* The entries of a place in the table: one at most.
At(s, c) == {a \in anno : a.slot = s /\ a.column = c}

\* An annotation is still to be sent when the new one asks for it, or when
\* the one it replaces was: the flag is only ever set.
Pending(s, c, delta) == delta \/ \E a \in At(s, c) : a.delta

\* cb_annotate: the window does not move, outside of it nothing happens.
Annotate ==
  \E t \in Given, c \in Columns, text \in Texts, delta \in BOOLEAN :
    LET s == Slot(t)
        asked == delta \/ \E a \in At(s, c) : a.delta
    IN /\ InBuffer(cb, t)
       /\ Mixed \/ cb.values = EmptyRows
       /\ anno' = (anno \ At(s, c)) \cup
            {[slot |-> s, column |-> c, text |-> text, delta |-> Pending(s, c, delta)]}
       /\ excused' = IF asked THEN excused \ {<<s, c>>} ELSE excused \cup {<<s, c>>}
       /\ UNCHANGED <<cb, headers, received, lost, heard>>

\* get_start_time.
StartTime(b) == b.current_time - seconds_per_row * (rows - 1)

TimeOfSlot(s) == s * seconds_per_row

\* output_annotations prunes what is older than the window.
InTime(a) == TimeOfSlot(a.slot) >= StartTime(cb)

Place(a) == <<a.slot, a.column>>
Heard(a) == [slot |-> a.slot, column |-> a.column, text |-> a.text]

\* mutant: a full output clears the flags as well
FlagAfterAny(format, a) == FALSE

\* An entry is sent in the cbufd format once, when its flag is set, and in the
\* cbuf format every time, which leaves the flag alone.
FlagAfter(format, a) == a.delta /\ format = "cbuf"

\* output_annotations: the table after it was through with the entries visited.
AfterOutput(format, visited) ==
  (anno \ visited) \cup {[a EXCEPT !.delta = FlagAfter(format, a)] :
                           a \in {a \in visited : InTime(a)}}

-----------------------------------------------------------------------------
(* output(), and serialization.                                            *)

\* The rows as output_cbuf and output_cbufd visit them, oldest first, and the
\* time output_cbufd gives the i-th of them.
Visited(b, i) == (b.current_row + i) % rows
TimeOf(b, i) == StartTime(b) + seconds_per_row * (i - 1)

Dirty(b, row) == \E c \in Columns : b.deltas[row][c] # NAN

\* What the reader makes of a change: it adds up sums and replaces extremes.
Merged(old, delta, method) ==
  CASE delta = NAN -> old
    [] delta # NAN /\ method = "sum" -> Plus(old, delta)
    [] OTHER -> delta

\* The changes written with the time of slot s.
Sent(s) ==
  LET lines == {i \in 1 .. rows : Slot(TimeOf(cb, i)) = s}
  IN IF lines = {} THEN EmptyRow
     ELSE cb.deltas[Visited(cb, CHOOSE i \in lines : TRUE)]

\* cb_output in the cbufd format: the annotations and the rows that changed.
OutputCbufd ==
  LET told == {a \in anno : InTime(a) /\ a.delta}
  IN /\ received' = [s \in Slots |-> [c \in Columns |->
                      IF <<s, c>> \in lost THEN NAN
                      ELSE Merged(received[s][c], Sent(s)[c], headers[c])]]
     /\ cb' = [cb EXCEPT !.deltas = EmptyRows]
     /\ anno' = AfterOutput("cbufd", anno)
     /\ heard' = {h \in heard : Place(h) \notin {Place(a) : a \in told}}
                   \cup {Heard(a) : a \in told}
     /\ UNCHANGED <<headers, lost, excused>>

\* cb_output in the cbuf format: every annotation and every row, and no flag or
\* change is cleared for the next cbufd output.
OutputCbuf ==
  /\ anno' = AfterOutput("cbuf", anno)
  /\ UNCHANGED <<cb, headers, received, lost, heard, excused>>

\* The output buffer is full after "written" cells, the end of a row or the one
\* after: they are cleared, and
\* nothing reaches the reader, whose copy of them is of no use from then on.
\* The annotations come first: their flags are cleared by then.
RowsFail(written) ==
  LET cells == {x \in (1 .. rows) \X Columns : (x[1] - 1) * columns + x[2] <= written}
  IN /\ cb' = [cb EXCEPT !.deltas = [r \in Rows |-> [c \in Columns |->
                 IF \E x \in cells : Visited(cb, x[1]) = r /\ x[2] = c
                 THEN NAN ELSE cb.deltas[r][c]]]]
     /\ lost' = lost \cup {<<Slot(TimeOf(cb, x[1])), x[2]>> :
          x \in {x \in cells : cb.deltas[Visited(cb, x[1])][x[2]] # NAN}}
     /\ received' = [s \in Slots |-> [c \in Columns |->
                      IF <<s, c>> \in lost' THEN NAN ELSE received[s][c]]]

\* The annotations of "visited" were written, or only pruned, before the end.
AnnotationsFail(visited) ==
  LET unheard == {Place(a) : a \in {a \in visited : InTime(a) /\ a.delta}}
  IN /\ anno' = AfterOutput("cbufd", visited)
     /\ excused' = excused \cup unheard
     /\ heard' = {h \in heard : Place(h) \notin unheard}

OutputFails ==
  /\ MayFail
  /\ \/ \E written \in 0 .. rows * columns : RowsFail(written) /\ AnnotationsFail(anno)
     \/ /\ \E visited \in SUBSET anno : AnnotationsFail(visited)
        /\ UNCHANGED <<cb, lost, received>>
  /\ UNCHANGED headers

\* cb_serialize and then cb_fromstring on a new buffer: the times of the
\* changed rows are written out and looked up again with check_row.
Restored(b) ==
  LET read == [b EXCEPT !.deltas = EmptyRows]
      Lines(row) == {i \in 1 .. rows : /\ Dirty(b, Visited(b, i))
                                       /\ InBuffer(read, TimeOf(b, i))
                                       /\ RowOf(TimeOf(b, i)) = row}
  IN [read EXCEPT !.deltas = [row \in Rows |->
        IF Lines(row) = {} THEN EmptyRow
        ELSE b.deltas[Visited(b, CHOOSE i \in Lines(row) : TRUE)]]]

\* The time of an annotation is serialized with %g: six digits of nanoseconds,
\* which for a time of these days is a multiple of 10000 seconds.
Printed(t) ==
  LET q == t \div Precision
      r == t % Precision
  IN CASE 2 * r < Precision -> q * Precision
       [] 2 * r > Precision -> (q + 1) * Precision
       [] OTHER -> (q + (q % 2)) * Precision

\* The annotate calls of the serialized data, in any order, put an annotation
\* where its printed time belongs, or nowhere if that is not in the window.
\* The last one there gives the text, any of them the flag.
Replayed(a) == [a EXCEPT !.slot = Slot(Printed(TimeOfSlot(a.slot)))]
Kept == {a \in anno : InTime(a) /\ InBuffer(cb, Printed(TimeOfSlot(a.slot)))}
Together(a) == {b \in Kept : Place(Replayed(b)) = Place(Replayed(a))}
Reannotated == {[Replayed(a) EXCEPT !.delta = \E b \in Together(a) : b.delta] : a \in Kept}

\* The reader need not have what was moved, or what it did not have before.
Misplaced == {Place(Replayed(a)) : a \in {a \in Kept : Replayed(a) # a \/ Place(a) \in excused}}

Restart ==
  /\ cb' = Restored(cb)
  /\ anno' \in {table \in SUBSET Reannotated : \A a \in Reannotated :
                  \E b \in table : \A x \in table : Place(x) = Place(a) <=> x = b}
  /\ excused' = Misplaced
  /\ UNCHANGED <<headers, received, lost, heard>>

Next ==
  \/ Add \/ Set \/ Refuse \/ SetHeader \/ Annotate
  \/ OutputCbufd \/ OutputCbuf \/ OutputFails \/ Restart

Spec == Init /\ [][Next]_vars

-----------------------------------------------------------------------------
(* The reads.                                                              *)

\* cb_get: a cell of the window, which does not move for it.
Get(c, t) == IF InBuffer(cb, t) THEN cb.values[RowOf(t)][c] ELSE NIL

\* output_cbuf: the values of every row, the oldest first.
OutputRows(c) == [i \in 1 .. rows |-> cb.values[Visited(cb, i)][c]]

\* mutant: the end is left out
GetRangeExclusive(c, start, end) ==
  IF ~InBuffer(cb, start) \/ ~InBuffer(cb, end) THEN NIL
  ELSE [i \in 1 .. (RowOf(end) - RowOf(start)) % rows |->
          cb.values[(RowOf(start) + i - 1) % rows][c]]

\* cb_get_range: the rows from the one of start to the one of end.
GetRange(c, start, end) ==
  IF ~InBuffer(cb, start) \/ ~InBuffer(cb, end) THEN NIL
  ELSE [i \in 1 .. ((RowOf(end) - RowOf(start)) % rows) + 1 |->
          cb.values[(RowOf(start) + i - 1) % rows][c]]

-----------------------------------------------------------------------------
(* Properties.                                                             *)

\* What get returns for every slot, with NAN where it returns nothing.
Shown ==
  [s \in Slots |-> [c \in Columns |->
     IF Get(c, TimeOfSlot(s)) = NIL THEN NAN ELSE Get(c, TimeOfSlot(s))]]

\* The ring implements the sliding window of TimeSeries: rows are cleared and
\* reused exactly when their slot leaves the window, however far it jumps, and
\* a restart changes nothing.
Series == INSTANCE TimeSeries WITH newest <- CurrentSlot(cb), cell <- Shown
ImplementsSeries == Series!Spec

\* A reader that merges every cbufd output, and the changes still to come, has
\* the values of the buffer: no change is lost, sent twice or given the wrong
\* time, and a failed output loses only what it had written by then.
DeltasAreExact ==
  \A s \in Window(cb), c \in Columns :
     headers[c] # "none" /\ <<s, c>> \notin lost =>
       Merged(received[s][c], cb.deltas[s % rows][c], headers[c])
          = cb.values[s % rows][c]

\* get_range returns the cells of the slots between its bounds, in order, and
\* without bounds what a cbuf output sends: both read the window that get reads.
RangeIsWindow ==
  \A c \in Columns :
    /\ OutputRows(c) = GetRange(c, StartTime(cb), cb.current_time)
    /\ \A start \in Times, end \in Times :
         start <= end /\ Slot(start) \in Window(cb) /\ Slot(end) \in Window(cb) =>
           LET range == GetRange(c, start, end)
           IN /\ Len(range) = Slot(end) - Slot(start) + 1
              /\ \A i \in 1 .. Len(range) :
                   range[i] = Get(c, start + (i - 1) * seconds_per_row)

\* A reader of the cbufd output has every annotation of the window, with its
\* last text, that is not to be sent any more: an output in the other format,
\* an annotation that replaces another one, and the move of the window do not
\* make it miss one.  (Excused are what was annotated without delta, what went
\* with a failed output, and what a restart put into another row.)
AnnotationsDelivered ==
  \A a \in anno :
    a.slot \in Window(cb) /\ ~a.delta /\ Place(a) \notin excused => Heard(a) \in heard
=============================================================================
