------------------------- MODULE MCCrashingHeapFile -------------------------
(* CrashingHeapFile with ids that all collide and with sizes that leave     *)
(* slack in blocks; damaged bytes are read as a record or as zeros.         *)
EXTENDS CrashingHeapFile

MCHash == [id \in Id |-> 0]

MCBlobSize == [data \in Data |-> data]

MCDamagedRecord == {MakeRecord(0, 0, 0), MakeRecord(1, 0, 2)}
=============================================================================
