----------------------------- MODULE MCVsockProxy -----------------------------
(* Instances of VsockProxy for TLC.                                            *)
EXTENDS VsockProxy

V4(t) == [ip |-> "four", v4 |-> TRUE, ttl |-> t]
V6(t) == [ip |-> "six", v4 |-> FALSE, ttl |-> t]

(* A failure, and two families with different lifetimes.                     *)
SomeAnswers == {<<>>, <<V6(1), V4(0)>>}
SomeAliases == {<<>>, <<V4(1)>>}

Listed(name, port) == [valid |-> TRUE, address |-> name, port |-> port]
Malformed == [valid |-> FALSE, address |-> None, port |-> 0]

(* The host is listed, listed with a port that wraps, listed under another     *)
(* name, and listed after a malformed entry.                                   *)
SomeConfigs ==
  {<<Listed("host", 443)>>, <<Listed("alias", 443), Listed("host", 65979)>>,
   <<Listed("alias", 443), Listed("host", 80)>>, <<Malformed, Listed("host", 443)>>}

(* The first connection carries data both ways, the second one occupies the    *)
(* pool.                                                                        *)
CONSTANT c1
OneTalks == [c \in Conn |-> [s \in Side |-> IF c # c1 THEN 0 ELSE IF s = "client" THEN 2 ELSE 1]]
OneCloses == [c \in Conn |-> IF c = c1 THEN {"half", "closed", "reset"} ELSE {"closed"}]
================================================================================
