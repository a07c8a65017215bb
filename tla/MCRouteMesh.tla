---------------------------- MODULE MCRouteMesh ----------------------------
(* TLC instances of RouteMesh: three nodes in range of each other and a hive *)
(* that is only heard.                                                       *)
EXTENDS RouteMesh

MCLinks == {{"a", "b"}, {"b", "c"}, {"a", "c"}}
MCCompressed == [n \in {"a", "b", "c"} |-> n]
MCFits ==
  [h \in {"a", "b", "c", "mcu"} |-> IF h = "mcu" THEN {"small"} ELSE {"small", "large"}]
MCRequests ==
  {[origin |-> "a", dest |-> "c", mgmt |-> FALSE, size |-> "large", k |-> FloodK],
   [origin |-> "b", dest |-> "all", mgmt |-> TRUE, size |-> "small", k |-> 1]}
=============================================================================
