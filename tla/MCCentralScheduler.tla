------------------------- MODULE MCCentralScheduler -------------------------
(* CentralScheduler with two or three nodes and three applications.        *)
EXTENDS CentralScheduler

TwoOneTwo == <<2, 1, 2>>
LongShort == <<3, 1, 1>>
ShrinkingDues == <<6, 5, 4>>
=============================================================================
