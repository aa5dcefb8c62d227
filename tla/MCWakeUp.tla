------------------------------ MODULE MCWakeUp ------------------------------
(* A small instance of WakeUp for TLC.                                     *)
EXTENDS WakeUp

MCReaders == {"reader1", "reader2"}
MCIrqs == {"irq0", "irq2"}
=============================================================================
