---------------------------- MODULE MCTcpClient ----------------------------
(* Instances of TcpClient for TLC: the application's call sequences.       *)
EXTENDS TcpClient

\* The application connects and never asks to stop.
StayConnected == <<"connect">>

\* The application connects, then disconnects and stops the client, in
\* the order of its documentation comments and in the other order.
DisconnectThenStop == <<"connect", "disconnect", "stop">>
StopThenDisconnect == <<"connect", "stop", "disconnect">>

ClientScripts == {StayConnected, DisconnectThenStop, StopThenDisconnect}
DisconnectScripts == {DisconnectThenStop}
=============================================================================
