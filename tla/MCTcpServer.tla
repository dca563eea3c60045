----------------------------- MODULE MCTcpServer -----------------------------
(* Constants of the TcpServer instances: setThreadNum(0), where the base   *)
(* loop serves the connections, and setThreadNum(1).                       *)
EXTENDS TcpServer

MCPools == {<<>>, <<"io1">>}
MCOnePool == {<<"io1">>}
MCSend == {"send"}
MCNone == {}
MCCalls == {"send", "shutdown", "forceClose", "forceCloseWithDelay"}
==============================================================================
