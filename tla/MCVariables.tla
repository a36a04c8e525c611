---------------------------- MODULE MCVariables ----------------------------
(* A small instance of Variables for TLC. *)
EXTENDS Variables

ById(k, i, x) == [op |-> "id", kind |-> k, id |-> i, value |-> x]
ByName(n, x)  == [op |-> "name", name |-> n, value |-> x]

\* Nonsense by index stores any value, the good ones too.  int1 is set by index, and
\* the lines with interval and with a bad argument end in the first pass.
MCCommand ==
  {<<ById("int", 1, Nonsense)>>,
   <<ByName("stopflag", Nonsense)>>,
   <<ByName("stopflag", 1), ById("int", 0, 0)>>,
   <<ByName("interval", 1)>>,
   <<ByName("int1", 1)>>,
   <<ById("int", 0, 1), [op |-> "bad"]>>}

MCIndexed == [n \in {"int1"} |-> [kind |-> "int", id |-> 1]]
=============================================================================
