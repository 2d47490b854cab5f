------------------------------ MODULE MCKMutex ------------------------------
(* A small instance of KMutex for TLC.                                     *)
EXTENDS KMutex, FiniteSets

CONSTANTS t1, t2, t3

MCThreads  == {t1, t2, t3}
MCRunOrder == <<t1, t2, t3>>
MCQueues   == {"km_waitq"}
=============================================================================
