------------------------------- MODULE LcdRows -------------------------------
(***************************************************************************)
(* The OLED of the fan daemon, Projet/daemon/ssd1306.c, and the rows the   *)
(* daemon writes on it (lcd_write_header, lcd_write_mode, lcd_write_freq,  *)
(* lcd_write_temp of Projet/daemon/daemon.c).                              *)
(*                                                                         *)
(* The display has one cursor.  A row is written by moving the cursor to   *)
(* its start and then sending its characters one by one, so that two       *)
(* threads must not write at once: they take lcd_mutex_lock, except main   *)
(* before it creates the other thread.  Character i of text t is the pair  *)
(* <<t, i>>; only the length of a text matters beside its identity.        *)
(***************************************************************************)
EXTENDS Integers, Sequences

CONSTANTS
    Writers,     \* the threads that write, Main among them
    Main,
    Rows,        \* the rows of the display
    Width,       \* characters in a row
    Texts,       \* per row, the texts written on it
    Length,      \* per text, its length
    BootRows,    \* the rows main writes before it creates the other thread
    Nobody,      \* the mutex is free
    NoText       \* nothing has been written on a row yet

AllTexts == UNION {Texts[r] : r \in Rows}

ASSUME WritersAssumption == Main \in Writers /\ Nobody \notin Writers
ASSUME WidthAssumption == Width \in Nat \ {0}
ASSUME TextsAssumption ==
    /\ NoText \notin AllTexts
    /\ Length \in [AllTexts \cup {NoText} -> 0..Width]
    /\ \A t \in AllTexts \cup {NoText} : Length[t] = 0 <=> t = NoText
ASSUME BootAssumption == BootRows \in Seq(Rows)

Blank == <<NoText, 0>>
Columns == 1..Width
Cells == (AllTexts \cup {NoText}) \X Nat

VARIABLES
    screen,      \* per row and column, the character shown
    page, col,   \* the cursor
    lock,        \* who holds lcd_mutex_lock
    pc, row, text,   \* per writer: its step, and what it is writing where
    next,        \* per writer, the next character of its text
    boot,        \* the rows main has still to write before the thread starts
    last         \* ghost: per row, the last text written to its end

vars == <<screen, page, col, lock, pc, row, text, next, boot, last>>

Init ==
    /\ screen = [r \in Rows |-> [c \in Columns |-> Blank]]
    /\ page \in Rows /\ col = 1
    /\ lock = Nobody
    /\ pc = [w \in Writers |-> "out"]
    /\ row = [w \in Writers |-> page] /\ text = [w \in Writers |-> NoText]
    /\ next = [w \in Writers |-> 1]
    /\ boot = BootRows
    /\ last = [r \in Rows |-> NoText]

Alone == boot # <<>>

\* main, before pthread_create: no lock is taken.
BeginAlone(t) ==
    /\ Alone /\ pc[Main] = "out"
    /\ t \in Texts[Head(boot)]
    /\ row' = [row EXCEPT ![Main] = Head(boot)]
    /\ text' = [text EXCEPT ![Main] = t]
    /\ pc' = [pc EXCEPT ![Main] = "page"]
    /\ next' = [next EXCEPT ![Main] = 1]
    /\ UNCHANGED <<screen, page, col, lock, boot, last>>

\* Variant of Begin: the mutex is not waited for.
BeginUnlocked(w, r, t) ==
    /\ ~Alone /\ pc[w] = "out"
    /\ lock' = w
    /\ row' = [row EXCEPT ![w] = r]
    /\ text' = [text EXCEPT ![w] = t]
    /\ pc' = [pc EXCEPT ![w] = "page"]
    /\ next' = [next EXCEPT ![w] = 1]
    /\ UNCHANGED <<screen, page, col, boot, last>>

\* pthread_mutex_lock(&lcd_mutex_lock)
Begin(w, r, t) ==
    /\ ~Alone /\ pc[w] = "out" /\ lock = Nobody
    /\ lock' = w
    /\ row' = [row EXCEPT ![w] = r]
    /\ text' = [text EXCEPT ![w] = t]
    /\ pc' = [pc EXCEPT ![w] = "page"]
    /\ next' = [next EXCEPT ![w] = 1]
    /\ UNCHANGED <<screen, page, col, boot, last>>

\* ssd1306_set_position(0, row): the page, then the column.
SetPage(w) ==
    /\ pc[w] = "page"
    /\ page' = row[w]
    /\ pc' = [pc EXCEPT ![w] = "column"]
    /\ UNCHANGED <<screen, col, lock, row, text, next, boot, last>>

\* Variant of SetColumn: the column is one too low.
SetColumnLow(w) ==
    /\ pc[w] = "column"
    /\ col' = 0
    /\ pc' = [pc EXCEPT ![w] = "put"]
    /\ UNCHANGED <<screen, page, lock, row, text, next, boot, last>>

SetColumn(w) ==
    /\ pc[w] = "column"
    /\ col' = 1
    /\ pc' = [pc EXCEPT ![w] = "put"]
    /\ UNCHANGED <<screen, page, lock, row, text, next, boot, last>>

\* ssd1306_puts: a character goes where the cursor is and moves it; past the
\* last column it is back at the first.
Put(w) ==
    /\ pc[w] = "put"
    /\ screen' = [screen EXCEPT ![page][col] = <<text[w], next[w]>>]
    /\ col' = IF col = Width THEN 1 ELSE col + 1
    /\ next' = [next EXCEPT ![w] = @ + 1]
    /\ IF next[w] = Length[text[w]]
       THEN /\ pc' = [pc EXCEPT ![w] = "end"]
            /\ last' = [last EXCEPT ![row[w]] = text[w]]
       ELSE UNCHANGED <<pc, last>>
    /\ UNCHANGED <<page, lock, row, text, boot>>

\* Variant of End: the mutex is kept.
EndLocked(w) ==
    /\ pc[w] = "end"
    /\ pc' = [pc EXCEPT ![w] = "out"]
    /\ boot' = IF Alone THEN Tail(boot) ELSE boot
    /\ UNCHANGED <<screen, page, col, lock, row, text, next, last>>

\* pthread_mutex_unlock, or main's next row
End(w) ==
    /\ pc[w] = "end"
    /\ pc' = [pc EXCEPT ![w] = "out"]
    /\ IF Alone
       THEN boot' = Tail(boot) /\ UNCHANGED lock
       ELSE lock' = Nobody /\ UNCHANGED boot
    /\ UNCHANGED <<screen, page, col, row, text, next, last>>

WriterStep(w) == SetPage(w) \/ SetColumn(w) \/ Put(w) \/ End(w)

Next == \/ \E t \in AllTexts : BeginAlone(t)
        \/ \E w \in Writers : \/ WriterStep(w)
                              \/ \E r \in Rows : \E t \in Texts[r] : Begin(w, r, t)

\* A writer finishes its row; the next one need not come.
Spec == Init /\ [][Next]_vars /\ \A w \in Writers : WF_vars(WriterStep(w))

-----------------------------------------------------------------------------
WriterSteps == {"out", "page", "column", "put", "end"}

\* Every variable keeps to its values, the cursor to the display.
TypeOK ==
    /\ screen \in [Rows -> [Columns -> Cells]]
    /\ page \in Rows /\ col \in Columns
    /\ lock \in Writers \cup {Nobody}
    /\ pc \in [Writers -> WriterSteps]
    /\ row \in [Writers -> Rows]
    /\ text \in [Writers -> AllTexts \cup {NoText}]
    /\ next \in [Writers -> Nat]
    /\ boot \in Seq(Rows)
    /\ last \in [Rows -> AllTexts \cup {NoText}]

BeingWritten(r) == \E w \in Writers : pc[w] # "out" /\ row[w] = r

\* A row nobody is writing shows, from its first column, the last text written
\* on it, whole and unmixed, whichever threads write which rows.
RowsIntact ==
    \A r \in Rows : ~BeingWritten(r) =>
        \A i \in 1..Length[last[r]] : screen[r][i] = <<last[r], i>>

\* A row whose texts all have the same length shows nothing after its text:
\* the mode row, whose texts are padded, never keeps a tail of an older text.
Padded(r) == \A s, t \in Texts[r] : Length[s] = Length[t]
PaddedExact ==
    \A r \in Rows : Padded(r) =>
        \A t \in Texts[r] : \A i \in (Length[t] + 1)..Width : screen[r][i] = Blank

\* A row changes only under the hand of a writer of that row.
OwnRowOnly ==
    [][\A r \in Rows : screen'[r] # screen[r] =>
         \E w \in Writers : pc[w] = "put" /\ row[w] = r]_vars

\* The screen as it will be when the row under a hand is finished: whoever looks
\* at it in between sees a part of it, but no other writer does.
Hand(r) == {w \in Writers : pc[w] # "out" /\ row[w] = r}
Finished ==
    [r \in Rows |-> [c \in Columns |->
        IF \E w \in Hand(r) : c <= Length[text[w]]
        THEN <<text[CHOOSE w \in Hand(r) : TRUE], c>> ELSE screen[r][c]]]

Atomic == INSTANCE AtomicRows WITH shown <- Finished

\* A row is written as if at once, when its writer begins: the characters sent one
\* by one mix with no other row and with no other writer's.
WrittenAtOnce == Atomic!Spec

\* lcd_mutex_lock is held only by a thread in the middle of a row.
LockInUse == \A w \in Writers : lock = w => pc[w] # "out"

\* Whoever takes lcd_mutex_lock gives it back.
LockReleased == \A w \in Writers : lock = w ~> lock = Nobody
=============================================================================
