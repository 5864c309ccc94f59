----------------------------- MODULE MCConnections -----------------------------
EXTENDS Connections, TLC

CONSTANTS e1, e2, e3

Three == {e1, e2, e3}
Two == {e1, e2}
AllSettings ==
  {[entities |-> Three, listeners |-> Three, events |-> {"clock"}],
   [entities |-> Two, listeners |-> Two, events |-> {"talker", "fast connect"}],
   [entities |-> Two, listeners |-> {e1}, events |-> {"talker", "mappings"}],
   [entities |-> Two, listeners |-> Two, events |-> {"talker", "latency"}]}
=============================================================================
