----------------------------- MODULE MCI2CCalls -----------------------------
(* The calls of two libraries on one master, some of them empty, some longer *)
(* than the FIFO and one longer than the port can read.                      *)
EXTENDS I2CCalls

SomeCalls ==
  [by : {"device"}, op : {"write"}, n : {3}, stop : BOOLEAN]
    \cup [by : {"device"}, op : {"read"}, n : {2, 4}, stop : {TRUE}]
    \cup [by : {"wire"}, op : {"write"}, n : {0}, stop : {TRUE}]
    \cup [by : {"wire"}, op : {"read"}, n : {2}, stop : {FALSE}]
=============================================================================
