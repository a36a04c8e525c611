---------------------------- MODULE MCTimestamps ----------------------------
(* A build with a narrow time_t: the 64, 34, 30 and 32 bits of the i386 build *)
(* are scaled down to 13, 7, 6 and 8.                                         *)
EXTENDS Timestamps
MCSecond == 0 .. 9
=============================================================================
