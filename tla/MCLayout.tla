------------------------------ MODULE MCLayout ------------------------------
(* Small instances of Layout for TLC: 16-bit ints, pages of 512 bytes. *)
EXTENDS Layout

Configs(counters, numRows, rowLens, numVars) ==
  [options : {0}, num_counters : counters, num_rows : numRows,
   row_len : rowLens, num_vars : numVars]

SmallConfigs == Configs({0, 1, 3}, {0, 1, 3, 4, 6}, {0, 5, 16}, {0, 1, 2, 5})
                  \cup Configs({0, 40000}, {700, 3000}, {16}, {1})
                  \cup Configs(0 .. 260 \cup 32767 .. 32770 \cup 65534 .. 65535, {1}, {0}, {1})
OldConfigs   == Configs({1}, {4}, {16}, {1})
BigConfigs   == Configs({1}, {2048}, {16}, {1})
SmallIds     == 0 .. 9 \cup 65534 .. 65535
=============================================================================
