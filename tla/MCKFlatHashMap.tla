---------------------------- MODULE MCKFlatHashMap ----------------------------
(* Groups of two slots, tables of 4 and 8.  Keys 1 to 3 start at the last  *)
(* group of both tables, so that probing wraps around; keys 1 and 3 also   *)
(* share their control byte.                                               *)
EXTENDS KFlatHashMap

MCHash(k) == IF k <= 3 THEN 6 ELSE 2 * k
MCH2(k)   == k % 2
===============================================================================
