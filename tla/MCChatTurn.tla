----------------------------- MODULE MCChatTurn -----------------------------
(* ChatTurn with a model that may ask for a remote and a built-in tool and *)
(* one event whose action is a second remote call.                         *)
EXTENDS ChatTurn

CONSTANTS r1, a1, b1, e1

MCCalls    == {r1, a1, b1}
MCRemote   == {r1, a1}
MCEvents   == {e1}
MCActionOf == [e \in MCEvents |-> a1]

=============================================================================
