-------------------------------- MODULE Editor -----------------------------
(***************************************************************************)
(* The text editor (src/src/editor.c): a fixed grid of rows, a cursor and a  *)
(* scroll position, edited key by key; saving writes the rows with line ends *)
(* and opening reads them back.  NL is the line end in a file.               *)
(***************************************************************************)
EXTENDS Integers, Sequences, SequencesExt

CONSTANTS
  EdMaxRows,   \* ED_MAX_ROWS
  EdMaxCols,   \* ED_MAX_COLS
  EdChars,     \* characters typed
  EdScreen     \* rows of text on the screen, VGA_HEIGHT - 2

NL == "nl"

VARIABLES
  edRows,     \* ed_buffer, the first ed_rows rows as sequences
  edX, edY,   \* cx, cy
  edScroll,   \* scroll_y
  edFile,     \* what was last saved, or <<"none">>
  edOpen      \* the editor is running

edVars == <<edRows, edX, edY, edScroll, edFile, edOpen>>

EdInit ==
  /\ edRows = << <<>> >> /\ edX = 0 /\ edY = 1 /\ edScroll = 0
  /\ edFile = <<"none">> /\ edOpen = TRUE

Row == edRows[edY]
EdKeep == UNCHANGED <<edFile, edOpen>>
Still == EdKeep /\ UNCHANGED <<edRows, edScroll>>

-----------------------------------------------------------------------------
(* ed_save: every row and a line end, except behind an empty last row; an    *)
(* empty text is one line end.                                               *)
EdLine_SkipsEmpty(rows, i) ==   \* mutant: no line end behind any empty row
  IF rows[i] # <<>> THEN Append(rows[i], NL) ELSE rows[i]
EdLine(rows, i) == IF i < Len(rows) \/ rows[i] # <<>> THEN Append(rows[i], NL) ELSE rows[i]
EdBytes(rows) ==
  LET text == FlattenSeq([i \in DOMAIN rows |-> EdLine(rows, i)])
  IN  IF text = <<>> THEN <<NL>> ELSE text
ed_save ==
  /\ edFile' = EdBytes(edRows)
  /\ UNCHANGED <<edRows, edX, edY, edScroll, edOpen>>

(* editor_open: characters into columns as long as they fit; a line end      *)
(* starts a row while there are rows; what is behind the last line end is a  *)
(* row of its own unless it is empty.                                        *)
EdRowsOf(bytes) ==
  LET step(rows, c) ==
        IF Len(rows) > EdMaxRows THEN rows
        ELSE IF c = NL THEN Append(rows, <<>>)
        ELSE IF Len(rows[Len(rows)]) < EdMaxCols
          THEN [rows EXCEPT ![Len(rows)] = Append(@, c)] ELSE rows
  IN  FoldLeft(step, << <<>> >>, bytes)
EdLoad(bytes) ==
  LET rows == EdRowsOf(bytes)
      n    == Len(rows)
  IN  IF n > EdMaxRows \/ (n > 1 /\ rows[n] = <<>>) THEN SubSeq(rows, 1, n - 1) ELSE rows
EdExit ==
  /\ edOpen /\ edOpen' = FALSE
  /\ UNCHANGED <<edRows, edX, edY, edScroll, edFile>>
editor_open ==
  /\ ~edOpen
  /\ edOpen' = TRUE
  /\ edRows' = IF edFile = <<"none">> THEN << <<>> >> ELSE EdLoad(edFile)
  /\ edX' = 0 /\ edY' = 1 /\ edScroll' = 0
  /\ UNCHANGED edFile

-----------------------------------------------------------------------------
(* Keys. *)
Smaller(a, b) == IF a < b THEN a ELSE b
EdUp ==
  LET y == IF edY > 1 THEN edY - 1 ELSE edY
  IN  /\ edY' = y
      /\ edScroll' = IF y - 1 < edScroll THEN y - 1 ELSE edScroll
      /\ edX' = Smaller(edX, Len(edRows[y]))
      /\ EdKeep /\ UNCHANGED edRows
EdDown ==
  LET y == IF edY < Len(edRows) THEN edY + 1 ELSE edY
  IN  /\ edY' = y
      /\ edScroll' = IF y - 1 >= edScroll + EdScreen THEN y - EdScreen ELSE edScroll
      /\ edX' = Smaller(edX, Len(edRows[y]))
      /\ EdKeep /\ UNCHANGED edRows
EdLeft ==
  /\ IF edX > 0 THEN edX' = edX - 1 /\ UNCHANGED edY
     ELSE IF edY > 1 THEN edY' = edY - 1 /\ edX' = Len(edRows[edY - 1])
     ELSE UNCHANGED <<edX, edY>>
  /\ Still
EdRight ==
  /\ IF edX < Len(Row) THEN edX' = edX + 1 /\ UNCHANGED edY
     ELSE IF edY < Len(edRows) THEN edY' = edY + 1 /\ edX' = 0
     ELSE UNCHANGED <<edX, edY>>
  /\ Still
(* Enter splits the row if there is a row left; it does not scroll. *)
EdSplit == Len(edRows) < EdMaxRows
EdEnter ==
  /\ IF EdSplit
       THEN /\ edRows' = InsertAt([edRows EXCEPT ![edY] = SubSeq(Row, 1, edX)], edY + 1,
                                  SubSeq(Row, edX + 1, Len(Row)))
            /\ edY' = edY + 1 /\ edX' = 0
       ELSE UNCHANGED <<edRows, edX, edY>>
  /\ EdKeep /\ UNCHANGED edScroll
(* Backspace removes a character, or joins the row to the one above when     *)
(* both fit.                                                                 *)
EdBackspace ==
  /\ IF edX > 0
       THEN edRows' = [edRows EXCEPT ![edY] = RemoveAt(@, edX)] /\ edX' = edX - 1 /\ UNCHANGED edY
     ELSE IF edY > 1 /\ Len(edRows[edY - 1]) + Len(Row) < EdMaxCols
       THEN /\ edRows' = RemoveAt([edRows EXCEPT ![edY - 1] = @ \o Row], edY)
            /\ edY' = edY - 1 /\ edX' = Len(edRows[edY - 1])
     ELSE UNCHANGED <<edRows, edX, edY>>
  /\ EdKeep /\ UNCHANGED edScroll
EdType(c) ==
  /\ IF Len(Row) < EdMaxCols
       THEN edRows' = [edRows EXCEPT ![edY] = InsertAt(@, edX + 1, c)] /\ edX' = edX + 1
       ELSE UNCHANGED <<edRows, edX>>
  /\ EdKeep /\ UNCHANGED <<edY, edScroll>>

EdNext ==
  \/ edOpen /\ (EdUp \/ EdDown \/ EdLeft \/ EdRight \/ EdEnter \/ EdBackspace)
  \/ edOpen /\ \E c \in EdChars : EdType(c)
  \/ edOpen /\ ed_save
  \/ EdExit \/ editor_open

-----------------------------------------------------------------------------
(* The text stays inside the grid and the cursor inside the text: every      *)
(* index the editor uses is one of ed_buffer.                                *)
EdTypeOK ==
  /\ Len(edRows) \in 1 .. EdMaxRows
  /\ \A i \in DOMAIN edRows : Len(edRows[i]) <= EdMaxCols
  /\ edY \in DOMAIN edRows /\ edX \in 0 .. Len(Row)

(* Saving and opening give the text back, except for empty rows at its end,  *)
(* of which one is dropped each time.                                        *)
EdTrim(rows) ==
  LET full == {i \in DOMAIN rows : rows[i] # <<>>}
  IN  IF full = {} THEN << <<>> >>
      ELSE SubSeq(rows, 1, CHOOSE i \in full : \A j \in full : j <= i)
EdRoundTrip == EdTrim(EdLoad(EdBytes(edRows))) = EdTrim(edRows)

(* The rows a text has after saving and opening are those it had, or one     *)
(* fewer.                                                                    *)
EdRowsKept == Len(EdLoad(EdBytes(edRows))) \in {Len(edRows), Len(edRows) - 1}
=============================================================================
