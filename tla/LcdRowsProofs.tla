---------------------------- MODULE LcdRowsProofs ----------------------------
(* The rows of the LCD stay whole, for any threads, rows and texts.         *)
EXTENDS LcdRows, TLAPS

USE WritersAssumption, WidthAssumption, TextsAssumption, BootAssumption

\* Every variable keeps to its values, the cursor to the display.
THEOREM TypeCorrect == Spec => []TypeOK
  <1> USE DEF TypeOK, WriterSteps
  <1>1. Init => TypeOK
    BY DEF Init, Cells, Blank, Columns
  <1>2. TypeOK /\ [Next]_vars => TypeOK'
    <2> SUFFICES ASSUME TypeOK, [Next]_vars PROVE TypeOK'
      OBVIOUS
    <2>1. ASSUME NEW t \in AllTexts, BeginAlone(t) PROVE TypeOK'
      <3>1. Head(boot) \in Rows
        BY <2>1 DEF BeginAlone, Alone
      <3> QED BY <2>1, <3>1 DEF BeginAlone
    <2>2. ASSUME NEW w \in Writers, NEW r \in Rows, NEW t \in Texts[r],
                 Begin(w, r, t)
          PROVE  TypeOK'
      <3>1. t \in AllTexts
        BY DEF AllTexts
      <3> QED BY <2>2, <3>1 DEF Begin
    <2>3. ASSUME NEW w \in Writers, SetPage(w) PROVE TypeOK'
      BY <2>3 DEF SetPage
    <2>4. ASSUME NEW w \in Writers, SetColumn(w) PROVE TypeOK'
      BY <2>4 DEF SetColumn, Columns
    <2>5. ASSUME NEW w \in Writers, Put(w) PROVE TypeOK'
      <3>1. <<text[w], next[w]>> \in Cells
        BY DEF Cells
      <3>2. screen' \in [Rows -> [Columns -> Cells]]
        BY <2>5, <3>1 DEF Put
      <3>3. col' \in Columns
        BY <2>5 DEF Put, Columns
      <3>4. pc' \in [Writers -> WriterSteps] /\ next' \in [Writers -> Nat]
        BY <2>5 DEF Put
      <3>5. last' \in [Rows -> AllTexts \cup {NoText}]
        BY <2>5 DEF Put
      <3> QED BY <2>5, <3>2, <3>3, <3>4, <3>5 DEF Put
    <2>6. ASSUME NEW w \in Writers, End(w) PROVE TypeOK'
      <3>1. boot' \in Seq(Rows)
        <4>1. boot # <<>> => Tail(boot) \in Seq(Rows)
          OBVIOUS
        <4> QED BY <2>6, <4>1 DEF End, Alone
      <3>2. lock' \in Writers \cup {Nobody}
        BY <2>6 DEF End
      <3> QED BY <2>6, <3>1, <3>2 DEF End
    <2>7. CASE UNCHANGED vars
      BY <2>7 DEF vars
    <2> QED BY <2>1, <2>2, <2>3, <2>4, <2>5, <2>6, <2>7 DEF Next, WriterStep
  <1> QED BY <1>1, <1>2, PTL DEF Spec

-----------------------------------------------------------------------------
(* At most one writer is at work, the cursor is its own, and what it has   *)
(* written so far is on the screen.                                        *)

Active(w) == pc[w] # "out"

MutexInv ==
    /\ \A w \in Writers : Active(w) => IF Alone THEN w = Main ELSE lock = w
    /\ Alone => lock = Nobody

CursorInv ==
    \A w \in Writers :
      /\ Active(w) => text[w] \in Texts[row[w]]
      /\ pc[w] \in {"page", "column"} => next[w] = 1
      /\ pc[w] \in {"column", "put"} => page = row[w]
      /\ pc[w] = "put" => col = next[w] /\ next[w] \in 1..Length[text[w]]

ShownInv ==
    \A w \in Writers :
      /\ pc[w] = "put" =>
           \A i \in 1..(next[w] - 1) : screen[row[w]][i] = <<text[w], i>>
      /\ pc[w] = "end" =>
           /\ last[row[w]] = text[w]
           /\ \A i \in 1..Length[text[w]] : screen[row[w]][i] = <<text[w], i>>

RowInv == MutexInv /\ CursorInv /\ ShownInv /\ RowsIntact /\ PaddedExact

LEMMA OneWriter ==
  ASSUME MutexInv, NEW w \in Writers, NEW u \in Writers, Active(w), Active(u)
  PROVE  w = u
BY DEF MutexInv

LEMMA RowInit == Init => RowInv
  <1> SUFFICES ASSUME Init PROVE RowInv
    OBVIOUS
  <1> USE DEF Init
  <1>1. MutexInv /\ CursorInv /\ ShownInv
    BY DEF MutexInv, CursorInv, ShownInv, Active
  <1>2. RowsIntact
    <2>1. \A r \in Rows : Length[last[r]] = 0
      OBVIOUS
    <2> QED BY <2>1 DEF RowsIntact
  <1>3. PaddedExact
    <2>1. ASSUME NEW r \in Rows, NEW t \in Texts[r],
                 NEW i \in (Length[t] + 1)..Width
          PROVE  screen[r][i] = Blank
      <3>1. Length[t] \in 0..Width
        BY DEF AllTexts
      <3>2. i \in Columns
        BY <3>1 DEF Columns
      <3> QED BY <3>2
    <2> QED BY <2>1 DEF PaddedExact
  <1> QED BY <1>1, <1>2, <1>3 DEF RowInv

\* A writer begins only when no other is at work, and disturbs no row yet.
LEMMA RowBegin ==
  ASSUME TypeOK, RowInv, NEW w \in Writers, NEW r \in Rows,
         NEW t \in Texts[r],
         \A u \in Writers : pc[u] = "out",
         row' = [row EXCEPT ![w] = r], text' = [text EXCEPT ![w] = t],
         pc' = [pc EXCEPT ![w] = "page"], next' = [next EXCEPT ![w] = 1],
         UNCHANGED <<screen, page, col, boot, last>>,
         IF Alone THEN w = Main /\ lock' = lock ELSE lock' = w
  PROVE  RowInv'
  <1> USE DEF RowInv, TypeOK
  <1>1. MutexInv'
    BY DEF MutexInv, Active, Alone
  <1>2. CursorInv'
    BY DEF CursorInv, Active
  <1>3. ShownInv'
    BY DEF ShownInv
  <1>4. RowsIntact'
    BY DEF RowsIntact, BeingWritten
  <1>5. PaddedExact'
    BY DEF PaddedExact
  <1> QED BY <1>1, <1>2, <1>3, <1>4, <1>5

\* Moving the cursor changes no row.
LEMMA RowMove ==
  ASSUME TypeOK, RowInv, NEW w \in Writers, SetPage(w) \/ SetColumn(w)
  PROVE  RowInv'
  <1> USE DEF RowInv, TypeOK
  <1>0. /\ pc[w] \in {"page", "column"}
        /\ \A u \in Writers : u # w => pc[u] = "out" /\ pc'[u] = "out"
        /\ UNCHANGED <<screen, lock, row, text, next, boot, last>>
        /\ pc'[w] # "out"
    BY OneWriter DEF SetPage, SetColumn, Active
  <1>1. MutexInv'
    BY <1>0 DEF MutexInv, Active, Alone
  <1>2. CursorInv'
    <2>1. text[w] \in Texts[row[w]] /\ next[w] = 1
      BY <1>0 DEF CursorInv, Active
    <2>2. Length[text[w]] >= 1
      <3>1. text[w] \in AllTexts
        BY <2>1 DEF AllTexts
      <3> QED BY <3>1
    <2> QED BY <1>0, <2>1, <2>2 DEF CursorInv, SetPage, SetColumn, Active
  <1>3. ShownInv'
    BY <1>0 DEF ShownInv, SetPage, SetColumn, CursorInv
  <1>4. RowsIntact'
    BY <1>0 DEF RowsIntact, BeingWritten
  <1>5. PaddedExact'
    BY <1>0 DEF PaddedExact
  <1> QED BY <1>1, <1>2, <1>3, <1>4, <1>5

\* A character lands in the next cell of its own row.
LEMMA RowPut ==
  ASSUME TypeOK, RowInv, NEW w \in Writers, Put(w)
  PROVE  RowInv'
  <1> USE DEF RowInv, TypeOK
  <1> DEFINE R == row[w]
             T == text[w]
             N == next[w]
  <1>0. /\ pc[w] = "put"
        /\ \A u \in Writers : u # w => pc[u] = "out" /\ pc'[u] = "out"
        /\ UNCHANGED <<page, lock, row, text, boot>>
        /\ pc'[w] = IF N = Length[T] THEN "end" ELSE "put"
        /\ next'[w] = N + 1
    BY OneWriter DEF Put, Active
  <1>1. /\ R \in Rows /\ T \in Texts[R] /\ page = R /\ col = N
        /\ N \in 1..Length[T] /\ T \in AllTexts
        /\ Length[T] \in 1..Width /\ N \in Columns
    <2>1. T \in Texts[R] /\ R \in Rows /\ T \in AllTexts
      BY <1>0 DEF CursorInv, Active, AllTexts
    <2>2. Length[T] \in 1..Width
      BY <2>1
    <2> QED BY <1>0, <2>1, <2>2 DEF CursorInv, Columns
  <1>2. /\ screen'[R][N] = <<T, N>>
        /\ \A i \in Columns : i # N => screen'[R][i] = screen[R][i]
        /\ \A r \in Rows : r # R => screen'[r] = screen[r]
    BY <1>1 DEF Put
  <1>3. /\ N # Length[T] => last' = last /\ col' = N + 1
        /\ N = Length[T] => last' = [last EXCEPT ![R] = T]
    BY <1>1 DEF Put
  <1> HIDE DEF R, T, N
  <1>4. MutexInv'
    BY <1>0 DEF MutexInv, Active, Alone
  <1>5. CursorInv'
    BY <1>0, <1>1, <1>3 DEF CursorInv, Active, R, T, N
  <1>6. \A i \in 1..N : screen'[R][i] = <<T, i>>
    <2>1. ASSUME NEW i \in 1..(N - 1) PROVE screen'[R][i] = <<T, i>>
      <3>1. screen[R][i] = <<T, i>>
        BY <1>0 DEF ShownInv, R, T, N
      <3>2. i \in Columns /\ i # N
        BY <1>1 DEF Columns
      <3> QED BY <1>2, <3>1, <3>2
    <2>2. N \in Nat
      BY <1>1
    <2>3. \A i \in 1..N : i = N \/ i \in 1..(N - 1)
      BY <2>2
    <2> QED BY <1>2, <2>1, <2>3
  <1>7. ShownInv'
    <2>1. CASE N = Length[T]
      <3>1. last'[R] = T
        BY <1>1, <1>3, <2>1
      <3> QED BY <1>0, <1>6, <2>1, <3>1 DEF ShownInv, R, T
    <2>2. CASE N # Length[T]
      <3>1. next'[w] - 1 = N
        BY <1>0, <1>1
      <3> QED BY <1>0, <1>6, <2>2, <3>1 DEF ShownInv, R, T
    <2> QED BY <2>1, <2>2
  <1>8. RowsIntact'
    <2>1. ASSUME NEW r \in Rows, ~BeingWritten(r)'
          PROVE  \A i \in 1..Length[last'[r]] : screen'[r][i] = <<last'[r], i>>
      <3>1. r # R
        BY <1>0, <2>1 DEF BeingWritten, R
      <3>2. ~BeingWritten(r)
        BY <1>0, <3>1 DEF BeingWritten, R
      <3>3. screen'[r] = screen[r] /\ last'[r] = last[r]
        BY <1>1, <1>2, <1>3, <3>1
      <3> QED BY <3>2, <3>3 DEF RowsIntact
    <2> QED BY <2>1 DEF RowsIntact
  <1>9. PaddedExact'
    <2>1. ASSUME NEW r \in Rows, Padded(r), NEW t \in Texts[r],
                 NEW i \in (Length[t] + 1)..Width
          PROVE  screen'[r][i] = Blank
      <3>1. screen[r][i] = Blank
        BY <2>1 DEF PaddedExact
      <3>2. CASE r = R
        <4>1. Length[t] = Length[T]
          BY <1>1, <2>1, <3>2 DEF Padded
        <4>2. i \in Columns /\ i # N
          BY <1>1, <4>1 DEF Columns
        <4> QED BY <1>2, <3>1, <3>2, <4>2
      <3> QED BY <1>2, <3>1, <3>2
    <2> QED BY <2>1 DEF PaddedExact, Padded
  <1> QED BY <1>4, <1>5, <1>7, <1>8, <1>9

\* A writer leaves its row whole.
LEMMA RowEnd ==
  ASSUME TypeOK, RowInv, NEW w \in Writers, End(w)
  PROVE  RowInv'
  <1> USE DEF RowInv, TypeOK
  <1>0. /\ pc[w] = "end"
        /\ \A u \in Writers : pc'[u] = "out"
        /\ \A u \in Writers : u # w => pc[u] = "out"
        /\ UNCHANGED <<screen, page, col, row, text, next, last>>
    BY OneWriter DEF End, Active
  <1>1. MutexInv'
    <2>1. lock' = Nobody
      BY DEF End, MutexInv
    <2> QED BY <1>0, <2>1 DEF MutexInv, Active
  <1>2. CursorInv' /\ ShownInv'
    BY <1>0 DEF CursorInv, ShownInv, Active
  <1>3. RowsIntact'
    <2>1. ASSUME NEW r \in Rows, ~BeingWritten(r)
          PROVE  \A i \in 1..Length[last[r]] : screen[r][i] = <<last[r], i>>
      BY <2>1 DEF RowsIntact
    <2>2. ASSUME NEW r \in Rows, BeingWritten(r)
          PROVE  \A i \in 1..Length[last[r]] : screen[r][i] = <<last[r], i>>
      <3>1. r = row[w]
        BY <1>0, <2>2 DEF BeingWritten
      <3> QED BY <1>0, <3>1 DEF ShownInv
    <2> QED BY <1>0, <2>1, <2>2 DEF RowsIntact
  <1>4. PaddedExact'
    BY <1>0 DEF PaddedExact
  <1> QED BY <1>1, <1>2, <1>3, <1>4

LEMMA RowNext == TypeOK /\ RowInv /\ [Next]_vars => RowInv'
  <1> SUFFICES ASSUME TypeOK, RowInv, [Next]_vars PROVE RowInv'
    OBVIOUS
  <1>1. ASSUME NEW t \in AllTexts, BeginAlone(t) PROVE RowInv'
    <2> DEFINE h == Head(boot)
    <2>1. h \in Rows /\ t \in Texts[h] /\ Main \in Writers /\ Alone
      BY <1>1 DEF BeginAlone, Alone, TypeOK
    <2>2. \A u \in Writers : pc[u] = "out"
      BY <1>1 DEF BeginAlone, RowInv, MutexInv, Active
    <2> QED BY <1>1, <2>1, <2>2, RowBegin DEF BeginAlone
  <1>2. ASSUME NEW w \in Writers, NEW r \in Rows, NEW t \in Texts[r],
               Begin(w, r, t)
        PROVE  RowInv'
    <2>1. \A u \in Writers : pc[u] = "out"
      BY <1>2 DEF Begin, RowInv, MutexInv, Active
    <2> QED BY <1>2, <2>1, RowBegin DEF Begin
  <1>3. ASSUME NEW w \in Writers, WriterStep(w) PROVE RowInv'
    BY <1>3, RowMove, RowPut, RowEnd DEF WriterStep
  <1>4. CASE UNCHANGED vars
    BY <1>4 DEF vars, RowInv, MutexInv, CursorInv, ShownInv, RowsIntact,
                PaddedExact, BeingWritten, Active, Alone
  <1> QED BY <1>1, <1>2, <1>3, <1>4 DEF Next

THEOREM RowCorrect == Spec => []RowInv
BY RowInit, RowNext, TypeCorrect, PTL DEF Spec

\* Every row that nobody is writing shows the last text written on it.
THEOREM RowsIntactAlways == Spec => []RowsIntact
  <1>1. RowInv => RowsIntact
    BY DEF RowInv
  <1> QED BY <1>1, RowCorrect, PTL

\* A row of padded texts never shows the tail of an older one.
THEOREM PaddedExactAlways == Spec => []PaddedExact
  <1>1. RowInv => PaddedExact
    BY DEF RowInv
  <1> QED BY <1>1, RowCorrect, PTL

\* A row changes only under the hand of a writer of that row: the cursor that
\* ssd1306_puts follows is on the row of whoever sends characters.
THEOREM OwnRowOnlyAlways == Spec => OwnRowOnly
  <1> DEFINE ByHand == \A r \in Rows : screen'[r] # screen[r] =>
                         \E w \in Writers : pc[w] = "put" /\ row[w] = r
  <1>1. TypeOK /\ RowInv /\ [Next]_vars => [ByHand]_vars
    <2> SUFFICES ASSUME TypeOK, RowInv, Next,
                        NEW r \in Rows, screen'[r] # screen[r]
                 PROVE  \E w \in Writers : pc[w] = "put" /\ row[w] = r
      OBVIOUS
    <2>1. PICK w \in Writers : Put(w)
      BY DEF Next, WriterStep, BeginAlone, Begin, SetPage, SetColumn, End
    <2>2. pc[w] = "put" /\ page = row[w]
      BY <2>1 DEF Put, RowInv, CursorInv
    <2>3. r = page
      BY <2>1 DEF Put, TypeOK
    <2> QED BY <2>2, <2>3
  <1> QED BY <1>1, TypeCorrect, RowCorrect, PTL DEF Spec, OwnRowOnly

-----------------------------------------------------------------------------
(* A row is written at once.                                               *)

LEMMA NoHand ==
    ASSUME NEW r \in Rows, \A u \in Writers : pc[u] = "out"
    PROVE  \A c \in Columns : Finished[r][c] = screen[r][c]
  BY DEF Finished, Hand

LEMMA OneHand ==
    ASSUME NEW w \in Writers, pc[w] # "out",
           \A u \in Writers : u # w => pc[u] = "out", NEW r \in Rows
    PROVE  \A c \in Columns :
             Finished[r][c] = IF r = row[w] /\ c <= Length[text[w]]
                              THEN <<text[w], c>> ELSE screen[r][c]
  <1>1. Hand(r) = IF r = row[w] THEN {w} ELSE {}
    BY DEF Hand
  <1> QED BY <1>1 DEF Finished

\* The same in the next state.
LEMMA NextNoHand ==
    ASSUME NEW r \in Rows, \A u \in Writers : pc'[u] = "out"
    PROVE  \A c \in Columns : Finished'[r][c] = screen'[r][c]
  BY DEF Finished, Hand

LEMMA NextOneHand ==
    ASSUME NEW w \in Writers, pc'[w] # "out",
           \A u \in Writers : u # w => pc'[u] = "out", NEW r \in Rows
    PROVE  \A c \in Columns :
             Finished'[r][c] = IF r = row'[w] /\ c <= Length[text'[w]]
                               THEN <<text'[w], c>> ELSE screen'[r][c]
  <1>1. Hand(r)' = IF r = row'[w] THEN {w} ELSE {}
    BY DEF Hand
  <1> QED BY <1>1 DEF Finished

LEMMA SameCells ==
    ASSUME \A r \in Rows : \A c \in Columns : Finished'[r][c] = Finished[r][c]
    PROVE  Finished' = Finished
  <1>1. /\ Finished = [r \in Rows |-> [c \in Columns |-> Finished[r][c]]]
        /\ Finished' = [r \in Rows |-> [c \in Columns |-> Finished'[r][c]]]
    BY DEF Finished
  <1>2. \A r \in Rows : [c \in Columns |-> Finished'[r][c]] = [c \in Columns |-> Finished[r][c]]
    OBVIOUS
  <1> QED BY <1>1, <1>2

\* To begin is to write.
LEMMA BeginWrites ==
    ASSUME TypeOK, NEW w \in Writers, NEW r \in Rows, NEW t \in Texts[r],
           \A u \in Writers : pc[u] = "out",
           row' = [row EXCEPT ![w] = r], text' = [text EXCEPT ![w] = t],
           pc' = [pc EXCEPT ![w] = "page"], UNCHANGED screen
    PROVE  Atomic!Write(r, t)
  <1>1. /\ pc'[w] # "out" /\ row'[w] = r /\ text'[w] = t
        /\ \A u \in Writers : u # w => pc'[u] = "out"
    BY DEF TypeOK
  <1>2. \A s \in Rows : \A c \in Columns :
          Finished'[s][c] = IF s = r /\ c <= Length[t] THEN <<t, c>> ELSE Finished[s][c]
    BY <1>1, NoHand, NextOneHand
  <1>3. \A s \in Rows :
          Finished'[s] = IF s = r THEN Atomic!Written(Finished[r], t) ELSE Finished[s]
    <2> TAKE s \in Rows
    <2>1. /\ Finished[s] = [c \in Columns |-> Finished[s][c]]
          /\ Finished'[s] = [c \in Columns |-> Finished'[s][c]]
      BY DEF Finished
    <2>2. CASE s = r
      <3>1. Atomic!Written(Finished[r], t)
              = [c \in Columns |-> IF c <= Length[t] THEN <<t, c>> ELSE Finished[r][c]]
        BY DEF Atomic!Written, Atomic!Columns, Columns
      <3> QED BY <1>2, <2>1, <2>2, <3>1
    <2>3. CASE s # r
      BY <1>2, <2>1, <2>3
    <2> QED BY <2>2, <2>3
  <1>4. Finished' = [Finished EXCEPT ![r] = Atomic!Written(Finished[r], t)]
    BY <1>3 DEF Finished
  <1> QED BY <1>4 DEF Atomic!Write

\* The cell is one the writer has already written or is still going to write.
Masked(w, r, c) == r = row[w] /\ c <= Length[text[w]]

\* To move the cursor, send a character or unlock writes nothing more.
LEMMA HandWrites ==
    ASSUME TypeOK, RowInv, NEW w \in Writers, WriterStep(w)
    PROVE  Finished' = Finished
  <1>1. /\ pc[w] # "out" /\ UNCHANGED <<row, text>>
        /\ \A u \in Writers : u # w => pc[u] = "out" /\ pc'[u] = "out"
    <2>1. pc[w] # "out" /\ \A u \in Writers : u # w => pc'[u] = pc[u]
      BY DEF WriterStep, SetPage, SetColumn, Put, End, TypeOK
    <2>2. \A u \in Writers : u # w => pc[u] = "out"
      BY <2>1, OneWriter DEF RowInv, Active
    <2> QED BY <2>1, <2>2 DEF WriterStep, SetPage, SetColumn, Put, End
  <1>5. \A r \in Rows : \A c \in Columns :
          /\ Masked(w, r, c) => Finished[r][c] = <<text[w], c>>
          /\ ~Masked(w, r, c) => Finished[r][c] = screen[r][c]
    BY <1>1, OneHand DEF Masked
  <1>6. ASSUME pc'[w] # "out"
        PROVE  \A r \in Rows : \A c \in Columns :
                 /\ Masked(w, r, c) => Finished'[r][c] = <<text[w], c>>
                 /\ ~Masked(w, r, c) => Finished'[r][c] = screen'[r][c]
    <2>1. \A r \in Rows : \A c \in Columns :
            Finished'[r][c] = IF r = row'[w] /\ c <= Length[text'[w]]
                              THEN <<text'[w], c>> ELSE screen'[r][c]
      BY <1>1, <1>6, NextOneHand
    <2> QED BY <1>1, <2>1 DEF Masked
  <1>2. CASE SetPage(w) \/ SetColumn(w)
    <2>1. pc'[w] # "out" /\ UNCHANGED screen
      BY <1>2 DEF SetPage, SetColumn, TypeOK
    <2>2. \A r \in Rows : \A c \in Columns :
            /\ Masked(w, r, c) => Finished'[r][c] = <<text[w], c>>
            /\ ~Masked(w, r, c) => Finished'[r][c] = screen'[r][c]
      BY <1>6, <2>1
    <2>3. ASSUME NEW r \in Rows, NEW c \in Columns PROVE Finished'[r][c] = Finished[r][c]
      BY <1>5, <2>1, <2>2
    <2> QED BY <2>3, SameCells
  <1>3. CASE Put(w)
    <2>1. /\ pc[w] = "put" /\ pc'[w] # "out"
          /\ screen' = [screen EXCEPT ![page][col] = <<text[w], next[w]>>]
      BY <1>3 DEF Put, TypeOK
    <2>2. /\ page = row[w] /\ col = next[w] /\ next[w] \in 1..Length[text[w]]
          /\ text[w] \in Texts[row[w]]
      BY <2>1 DEF RowInv, CursorInv, Active
    <2>3. \A r \in Rows : \A c \in Columns :
            Masked(w, r, c) \/ screen'[r][c] = screen[r][c]
      <3>1. text[w] \in AllTexts
        BY <2>2 DEF AllTexts, TypeOK
      <3>2. Length[text[w]] \in Nat
        BY <3>1
      <3> QED BY <2>1, <2>2, <3>2 DEF Masked, TypeOK, Columns
    <2>5. \A r \in Rows : \A c \in Columns :
            /\ Masked(w, r, c) => Finished'[r][c] = <<text[w], c>>
            /\ ~Masked(w, r, c) => Finished'[r][c] = screen'[r][c]
      BY <1>6, <2>1
    <2>4. ASSUME NEW r \in Rows, NEW c \in Columns PROVE Finished'[r][c] = Finished[r][c]
      BY <1>5, <2>3, <2>5
    <2> QED BY <2>4, SameCells
  <1>4. CASE End(w)
    <2>1. pc[w] = "end" /\ UNCHANGED screen /\ \A u \in Writers : pc'[u] = "out"
      BY <1>1, <1>4 DEF End, TypeOK
    <2>2. \A i \in 1..Length[text[w]] : screen[row[w]][i] = <<text[w], i>>
      BY <2>1 DEF RowInv, ShownInv
    <2>3. \A c \in Columns : c <= Length[text[w]] => c \in 1..Length[text[w]]
      BY DEF Columns
    <2>4. ASSUME NEW r \in Rows, NEW c \in Columns PROVE Finished'[r][c] = Finished[r][c]
      <3>1. Finished'[r][c] = screen'[r][c]
        BY <2>1, NextNoHand
      <3>2. Masked(w, r, c) => screen[r][c] = <<text[w], c>>
        BY <2>2, <2>3 DEF Masked, Columns
      <3> QED BY <1>5, <2>1, <3>1, <3>2
    <2> QED BY <2>4, SameCells
  <1> QED BY <1>2, <1>3, <1>4 DEF WriterStep

\* The functions that write on the OLED implement AtomicRows: each row is written
\* as if at once, for any threads, rows, texts and width.
THEOREM WrittenAtOnceAlways == Spec => WrittenAtOnce
  <1>1. Init => Atomic!Init
    <2> SUFFICES ASSUME Init PROVE Atomic!Init
      OBVIOUS
    <2>1. \A r \in Rows : \A c \in Columns : Finished[r][c] = Blank
      BY NoHand DEF Init
    <2>2. Finished = [r \in Rows |-> [c \in Columns |-> Finished[r][c]]]
      BY DEF Finished
    <2>3. \A r \in Rows : [c \in Columns |-> Finished[r][c]] = [c \in Columns |-> Blank]
      BY <2>1
    <2>4. Finished = [r \in Rows |-> [c \in Columns |-> Blank]]
      BY <2>2, <2>3
    <2> QED BY <2>4 DEF Atomic!Init, Atomic!Columns, Columns
  <1>2. TypeOK /\ RowInv /\ [Next]_vars => [Atomic!Next]_Finished
    <2> SUFFICES ASSUME TypeOK, RowInv, [Next]_vars PROVE [Atomic!Next]_Finished
      OBVIOUS
    <2>1. ASSUME NEW t \in AllTexts, BeginAlone(t) PROVE Atomic!Next
      <3>1. PICK r \in Rows : r = Head(boot)
        BY <2>1 DEF BeginAlone, Alone, TypeOK
      <3>2. t \in Texts[r] /\ \A u \in Writers : pc[u] = "out"
        BY <2>1, <3>1 DEF BeginAlone, RowInv, MutexInv, Active
      <3>3. Atomic!Write(r, t)
        BY <2>1, <3>1, <3>2, BeginWrites DEF BeginAlone
      <3> QED BY <3>2, <3>3 DEF Atomic!Next
    <2>2. ASSUME NEW w \in Writers, NEW r \in Rows, NEW t \in Texts[r], Begin(w, r, t)
          PROVE  Atomic!Next
      <3>1. \A u \in Writers : pc[u] = "out"
        BY <2>2 DEF Begin, RowInv, MutexInv, Active
      <3>2. Atomic!Write(r, t)
        BY <2>2, <3>1, BeginWrites DEF Begin
      <3> QED BY <3>2 DEF Atomic!Next
    <2>3. ASSUME NEW w \in Writers, WriterStep(w) PROVE Finished' = Finished
      BY <2>3, HandWrites
    <2>4. CASE UNCHANGED vars
      BY <2>4 DEF vars, Finished, Hand
    <2> QED BY <2>1, <2>2, <2>3, <2>4 DEF Next
  <1> QED BY <1>1, <1>2, TypeCorrect, RowCorrect, PTL
          DEF Spec, WrittenAtOnce, Atomic!Spec

\* lcd_mutex_lock is held only by a thread in the middle of a row, which goes on until
\* it gives it back: no thread waits for one that has left.
THEOREM LockInUseAlways == Spec => []LockInUse
  <1>1. Init => LockInUse
    BY DEF Init, LockInUse
  <1>2. TypeOK /\ RowInv /\ LockInUse /\ [Next]_vars => LockInUse'
    <2> SUFFICES ASSUME TypeOK, RowInv, LockInUse, [Next]_vars PROVE LockInUse'
      OBVIOUS
    <2> USE DEF TypeOK, LockInUse
    <2>1. ASSUME NEW t \in AllTexts, BeginAlone(t) PROVE LockInUse'
      BY <2>1 DEF BeginAlone
    <2>2. ASSUME NEW w \in Writers, NEW r \in Rows, NEW t \in Texts[r], Begin(w, r, t)
          PROVE  LockInUse'
      BY <2>2 DEF Begin
    <2>3. ASSUME NEW w \in Writers, SetPage(w) \/ SetColumn(w) \/ Put(w) PROVE LockInUse'
      BY <2>3 DEF SetPage, SetColumn, Put
    <2>4. ASSUME NEW w \in Writers, End(w) PROVE LockInUse'
      <3>1. CASE Alone
        BY <2>4, <3>1 DEF End, RowInv, MutexInv
      <3>2. CASE ~Alone
        BY <2>4, <3>2 DEF End
      <3> QED BY <3>1, <3>2
    <2>5. CASE UNCHANGED vars
      BY <2>5 DEF vars
    <2> QED BY <2>1, <2>2, <2>3, <2>4, <2>5 DEF Next, WriterStep
  <1> QED BY <1>1, <1>2, TypeCorrect, RowCorrect, PTL DEF Spec
=============================================================================
