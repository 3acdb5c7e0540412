------------------------------- MODULE MCTools -------------------------------
(* The five tool programs that keep state: clock, presence, hue and mail over  *)
(* the shared link library, and the two programs of the document database.     *)
(* A behaviour is a run of one of them, which tool names; the                  *)
(* variables of the others keep their initial values.                         *)
EXTENDS Clock, Presence, Hue, Mail, Rag, TLC

CONSTANTS ron, bt, home, work, tea, eve, day, shared, a, b, notes, logs, v1

VARIABLE tool

allVars == <<linkVars, clockVars, presenceVars, hueVars, mailVars, ragVars, tool>>

\* One person in the household at home; nobody at work until somebody is registered.
MCHousehold == home :> {ron} @@ work :> {}

\* home has a scene on disk; the shared profile has none, and no file.
MCShelf == home :> {day} @@ shared :> {}

MCFades == {-1, 10000}

\* One mail for home, none for the other user.
MCMails == home :> 2 @@ shared :> 1

\* A file in a folder of its own, and a chat log.
MCCollectionOf == a :> notes @@ b :> logs

FirstUser == user = [user EXCEPT !["olli"] = home]
\* The bridge is down at the start, and the first turn may find it back.
HueUsers  == lights_cache = <<>> /\ owner = [l \in Links |-> IF l = "olli" THEN home ELSE shared]

\* home has set a rule before.
MailUsers == /\ mail_owner = [l \in Links |-> IF l = "olli" THEN home ELSE shared]
             /\ mail_files[home].rule /\ ~mail_files[shared].rule

RagFiles == folder = [f \in Sources |-> v1]

Init ==
  /\ LinkInit /\ ClockInit /\ PresenceInit /\ FirstUser /\ HueInit /\ HueUsers
  /\ MailInit /\ MailUsers /\ RagInit /\ RagFiles
  /\ tool \in {"clock", "presence", "hue", "mail", "rag"}

AnyTool == /\ tool # "rag" /\ LinkFault
           /\ UNCHANGED <<clockVars, presenceVars, hueVars, mailVars, ragVars, tool>>

ClockSide    == tool = "clock" /\ ClockNext /\ UNCHANGED <<presenceVars, hueVars, mailVars, ragVars, tool>>
PresenceSide == tool = "presence" /\ PresenceNext /\ UNCHANGED <<clockVars, hueVars, mailVars, ragVars, tool>>
HueSide      == tool = "hue" /\ HueNext /\ UNCHANGED <<clockVars, presenceVars, mailVars, ragVars, tool>>
MailSide     == tool = "mail" /\ MailNext /\ UNCHANGED <<clockVars, presenceVars, hueVars, ragVars, tool>>
RagSide      == tool = "rag" /\ RagNext /\ UNCHANGED <<linkVars, clockVars, presenceVars, hueVars, mailVars, tool>>

Next == AnyTool \/ ClockSide \/ PresenceSide \/ HueSide \/ MailSide \/ RagSide

\* The loop turns, time passes, and a server that has stopped is started again.
Fairness ==
  /\ WF_allVars(tool = "clock" /\ ClockStep /\ UNCHANGED <<presenceVars, hueVars, mailVars, ragVars, tool>>)
  /\ SF_allVars(tool = "clock" /\ ClockTime /\ UNCHANGED <<presenceVars, hueVars, mailVars, ragVars, tool>>)
  /\ \A l \in Links :
       WF_allVars(tool = "clock" /\ Starts(l) /\ UNCHANGED <<clockVars, presenceVars, hueVars, mailVars, ragVars, tool>>)

FairSpec == Init /\ [][Next]_allVars /\ Fairness
=============================================================================
