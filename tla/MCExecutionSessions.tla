------------------------ MODULE MCExecutionSessions -------------------------
(* ExecutionSessions on small instances: one terminal (commands one after  *)
(* the other) and two (commands overlap).                                  *)
EXTENDS ExecutionSessions, TLC

MCLamports == {2, 3}
OneReading == {2}
AllFaults == FaultKinds
NoFaults == {}
LostReply == {"lost-reply"}
WriteError == {"io-error"}
AnsweredFaults == FaultKinds \ {"rpc-down"}

(* Terminals are interchangeable: no definition tells one from another.    *)
Terminals == Permutations(Invokers)
=============================================================================
