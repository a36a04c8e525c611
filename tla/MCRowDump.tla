----------------------------- MODULE MCRowDump -----------------------------
(* Small instances of RowDump for TLC. *)
EXTENDS RowDump

MCSize == [filename |-> 1, lineno |-> 1, string |-> 2, int |-> 1]

\* The behaviours in which the utility is run only when the program is over.
AfterSpec ==
  /\ DumpInit /\ [][Program \/ End \/ (~alive /\ PrintRows)]_dvars
  /\ WF_dvars(PrintRows)
=============================================================================
