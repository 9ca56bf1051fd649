------------------------------- MODULE MCWire -------------------------------
EXTENDS Wire

Device(path, busid, n) ==
  [sys_path |-> path, busid |-> busid, busnum |-> 1, devnum |-> 2, speed |-> 3,
   ids |-> 4 + Len(busid), interfaces |-> [k \in 1..n |-> <<k, 1, 2>>]]

\* A device with more interfaces than a u8 counts, one with two, one with none
\* and a path that does not fit.
Devices == <<Device(<<5>>, <<6>>, 5), Device(<<5, 6>>, <<6, 7>>, 2), Device(<<5, 6, 7>>, <<>>, 0)>>

\* Known, known, unknown, and one that does not fit into the field.
Asked == {<<6>>, <<6, 7>>, <<7>>, <<6, 7, 6>>}

Control ==
  [ep : {0, 2}, dir : {0, 1}, length : {-1, 0, 1, 2}, packets : {0}, wLength : {0, 2, 3}]
Interrupt ==
  [ep : {1}, dir : {0, 1}, length : {0, 2, 3}, packets : {-1, 0, 1, 2}, wLength : {0}]
Transfers == Control \cup Interrupt
=============================================================================
