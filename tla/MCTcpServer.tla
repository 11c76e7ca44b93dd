---------------------------- MODULE MCTcpServer ----------------------------
(* Instances of TcpServer for TLC: functions over the model values of the *)
(* .cfg files are defined here.                                            *)
EXTENDS TcpServer

CONSTANTS m1, m2, m3, u1

\* m1 is two bytes so that a partial write splits it; m2 is one byte.
MCMsgLen == m1 :> 2 @@ m2 :> 1

\* Loop-only runs: the io thread sends both messages.
LoopSender == m1 :> "loop" @@ m2 :> "loop"

\* Cross-thread runs: u1 sends m1 while the io thread sends m2.
MixedSender == m1 :> u1 @@ m2 :> "loop"

\* u1 sends m1 then m2 through the functor queue, the io thread sends m3.
MCMsgLen3 == m1 :> 2 @@ m2 :> 1 @@ m3 :> 1
UserSender == m1 :> u1 @@ m2 :> u1 @@ m3 :> "loop"


=============================================================================
