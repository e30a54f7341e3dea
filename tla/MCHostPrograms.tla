--------------------------- MODULE MCHostPrograms ---------------------------
(* HostPrograms with one radio, two cars and short logs, a flash of four    *)
(* pages of two bytes, maps of two roads, and a pool of three buffers.      *)
EXTENDS HostPrograms

OneRadio == <<"rf">>

Full(zeros) == [count |-> 2, zeros |-> zeros]
Tail1(zeros) == [count |-> 1, zeros |-> zeros]
SomeFiles ==
  {<<Tail1({0})>>, <<Full({0}), Full({0, 1})>>, <<Full({}), Full({1}), Full({0})>>,
   <<Full({0, 1}), Full({0}), Tail1({})>>,
   <<Full({1}), Full({0}), Full({0, 1}), Full({})>>,
   <<Full({0}), Full({}), Full({0}), Tail1({0})>>,
   <<Full({0}), Full({0, 1}), Full({0, 1}), Full({0, 1})>>}
=============================================================================
