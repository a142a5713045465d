------------------------------- MODULE MCBoard ------------------------------
(* The two drivers on one board, the LED driver with two readers, and each *)
(* of the programs.                                                        *)
EXTENDS Board

CONSTANTS q1, q2

MCScenes == {{"bbb", "mth"}, {"bbb", q1, q2}}
MCDrivers == {{"bbb", "mth"}}
NoScenes == {}
=============================================================================
