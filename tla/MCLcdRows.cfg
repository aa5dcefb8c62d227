SPECIFICATION Spec
CONSTANTS
    main = main
    events = events
    nobody = nobody
    noText = noText
    auto = auto
    manual = manual
    freq2 = freq2
    freq20 = freq20
    modeRow = modeRow
    freqRow = freqRow
    Writers = {main, events}
    Main = main
    Rows = {modeRow, freqRow}
    Width = 4
    Texts <- MCTexts
    Length <- MCLength
    BootRows <- MCBootRows
    Nobody = nobody
    NoText = noText
INVARIANTS
    TypeOK
PROPERTIES
    WrittenAtOnce
    LockReleased
