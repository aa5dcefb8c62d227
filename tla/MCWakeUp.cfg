\* The three exercises; two readers and two buttons for the last.
SPECIFICATION Spec
CONSTANTS
    Readers <- MCReaders
    Irqs <- MCIrqs
CHECK_DEADLOCK FALSE
INVARIANTS
    TypeOK
    NoticeKept
    ThreadsEnded
PROPERTIES
    Noticed
    UnloadEnds
