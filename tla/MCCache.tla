------------------------------- MODULE MCCache -------------------------------
(* Instances of the file cache for TLC.  t1 changes the file, or flushes   *)
(* everything; t2 does the rest, its flush of the file at any time.        *)
EXTENDS Cache, TLC

CONSTANTS t1, t2

MCFatOf == [i \in 0 .. FileBlocks - 1 |-> i % FatBlocks]

\* The contents of one block are told apart, those of the others are not:
\* every property is about each block for itself.
FileValue == [k \in Key |-> IF k = <<"file", 1>> THEN {0, 1} ELSE {0}]
NoValue   == [k \in Key |-> {0}]
FatValue  == [k \in Key |-> IF k = <<"fat", 0>> THEN {0, 1} ELSE {0}]

\* Every transfer can fail, or every one but a read of the FAT.
AllFail  == {"read", "write"} \X Key
MostFail == AllFail \ ({"read"} \X Fat)

FileCalls  == {"CcInitializeCacheMap", "CcUninitializeCacheMap", "CcSetFileSizes",
               "CcCopyWrite", "NxcFlushAll"}
OtherCalls == {"CcCopyRead", "CcPurgeCacheSection", "CcFlushCache", "FscSetCacheSize"}

TwoThreads == (t1 :> FileCalls) @@ (t2 :> OtherCalls)
OneWorker  == (t1 :> (FileCalls \cup OtherCalls \cup {"CcPinRead", "FscInvalidateIdleBlocks"}))
              @@ (t2 :> {"FscInvalidateIdleBlocks"})
PinsOnly   == (t1 :> {"CcFlushCache"}) @@ (t2 :> {"CcPinRead", "FscInvalidateIdleBlocks"})
===============================================================================
