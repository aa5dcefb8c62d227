------------------------------ MODULE MCLcdRows ------------------------------
(* A small instance of LcdRows for TLC: a mode row with two padded texts    *)
(* and a frequency row whose texts differ in length.                       *)
EXTENDS LcdRows

CONSTANTS main, events, nobody, noText, auto, manual, freq2, freq20, modeRow,
          freqRow

MCTexts == [r \in {modeRow, freqRow} |->
              IF r = modeRow THEN {auto, manual} ELSE {freq2, freq20}]
MCLength == [t \in {noText, auto, manual, freq2, freq20} |->
               IF t = noText THEN 0 ELSE IF t = freq20 THEN 3 ELSE 2]
MCBootRows == <<modeRow>>
=============================================================================
