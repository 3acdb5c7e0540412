----------------------------- MODULE MCTaskRun -----------------------------
EXTENDS TaskRun

L(op) == [op |-> op, name |-> ""]
N(op, name) == [op |-> op, name |-> name]

MCCommands ==
  [ wait  |-> << L("plain"), L("plain"), L("wait") >>,
    inner |-> << L("plain") >>,
    outer |-> << N("run", "inner"), N("run", "outer") >>,
    ask   |-> << L("keyboard_off"), N("ask_sub", "s"), L("if"), L("print"), L("maybe"), L("end"), L("endif"),
                 N("sub", "s"), L("pause"), L("endsub"), L("print") >>,
    quest |-> << L("if"), N("gosub", "room"), L("else"), L("file_in"), L("endif"),
                 N("sub", "room"), L("if"), N("gosub", "room"), L("maybe"), L("return"), L("endif"), L("endsub"),
                 L("keyboard_on") >>,
    bad   |-> << L("ask_end"), L("if"), L("sub"), L("endif") >> ]

MCDelayed == {"wait", "inner", "ask", "quest", "bad"}
MCChatReplies == { <<"none">> } \cup { <<t>> : t \in DOMAIN MCCommands \ {"inner"} }
MCTaskReplies == { <<>>, <<"remote">> }
=============================================================================
