------------------------------ MODULE AtomicRows ------------------------------
(***************************************************************************)
(* What the daemon's functions that write on the OLED promise each other:  *)
(* a row is written at once.  A text replaces the first characters of its  *)
(* row, what stood behind them stays, and no other row changes.            *)
(***************************************************************************)
EXTENDS Naturals

CONSTANTS Rows, Width, Texts, Length, Blank   \* as in LcdRows

VARIABLE shown   \* per row and column, the character

Columns == 1..Width

Init == shown = [r \in Rows |-> [c \in Columns |-> Blank]]

Written(line, t) == [c \in Columns |-> IF c <= Length[t] THEN <<t, c>> ELSE line[c]]

Write(r, t) == shown' = [shown EXCEPT ![r] = Written(shown[r], t)]

Next == \E r \in Rows : \E t \in Texts[r] : Write(r, t)

Spec == Init /\ [][Next]_shown
=============================================================================
