--------------------------- MODULE ChatTurnProofs ---------------------------
(* Proofs about ChatTurn: type correctness, the quota of calls a chain of   *)
(* narrations may run, the bookkeeping of calls in flight, and the join of  *)
(* chat_thread before the program goes down, and the pairing of calls and   *)
(* tool messages in the history.                                           *)
EXTENDS ChatTurn, SeqLemmas, SequenceTheorems, TLAPS

USE CallsAssumption, EventsAssumption, BoundsAssumption
USE DEF flags, comms, place, service, toolbox, talk, count, quiet,
        MainAt, Threads

-----------------------------------------------------------------------------
(* Sequences.                                                              *)

\* What erase(it) leaves: a sequence of the same kind, one shorter, without the
\* element that was at i and with all the others.
LEMMA WithoutProperties ==
  ASSUME NEW S, NEW s \in Seq(S), NEW i \in DOMAIN s
  PROVE  /\ Without(s, i) \in Seq(S)
         /\ DOMAIN Without(s, i) = 1 .. Len(s) - 1
         /\ \A j \in 1 .. Len(s) - 1 :
              Without(s, i)[j] = IF j < i THEN s[j] ELSE s[j + 1]
<1>. DEFINE p == SubSeq(s, 1, i - 1)
            q == SubSeq(s, i + 1, Len(s))
<1>1. i \in 1 .. Len(s) /\ Len(s) \in Nat
  OBVIOUS
<1>2. /\ p \in Seq(S)
      /\ Len(p) = i - 1
      /\ \A j \in 1 .. i - 1 : p[j] = s[j]
  BY <1>1, SubSeqProperties
<1>3. /\ q \in Seq(S)
      /\ Len(q) = Len(s) - i
      /\ \A j \in 1 .. Len(s) - i : q[j] = s[i + j]
  BY <1>1, SubSeqProperties
<1>4. Without(s, i) = p \o q
  BY DEF Without
<1>. HIDE DEF p, q
<1>5. p \o q \in Seq(S) /\ Len(p \o q) = Len(s) - 1
  BY <1>1, <1>2, <1>3, ConcatProperties
<1>6. \A j \in 1 .. Len(s) - 1 :
        (p \o q)[j] = IF j <= Len(p) THEN p[j] ELSE q[j - Len(p)]
  BY <1>1, <1>2, <1>3, ConcatProperties
<1>7. ASSUME NEW j \in 1 .. Len(s) - 1
      PROVE  (p \o q)[j] = IF j < i THEN s[j] ELSE s[j + 1]
  <2>1. CASE j < i
    BY <1>1, <1>2, <1>6, <2>1
  <2>2. CASE ~(j < i)
    <3>1. j - (i - 1) \in 1 .. Len(s) - i /\ i + (j - (i - 1)) = j + 1
      BY <1>1, <2>2
    <3>2. ~(j <= Len(p)) /\ j - Len(p) = j - (i - 1)
      BY <1>1, <1>2, <2>2
    <3>3. (p \o q)[j] = q[j - (i - 1)]
      BY <1>6, <3>2
    <3>4. q[j - (i - 1)] = s[i + (j - (i - 1))]
      BY <1>3, <3>1
    <3>5. QED BY <2>2, <3>1, <3>3, <3>4
  <2>3. QED BY <2>1, <2>2
<1>8. DOMAIN (p \o q) = 1 .. Len(s) - 1
  BY <1>5, LenProperties
<1>9. QED BY <1>4, <1>5, <1>7, <1>8

\* A reply asks for calls the model may ask for.
LEMMA RequestsType ==
  ASSUME NEW s \in Requests
  PROVE  s \in Seq(Calls) /\ {s[i] : i \in DOMAIN s} \subseteq Calls
<1>1. PICK n \in 0 .. MaxPerReply : s \in [1 .. n -> ModelCalls \ issued]
  BY DEF Requests
<1>2. s \in [1 .. n -> Calls] /\ n \in Nat
  BY <1>1 DEF ModelCalls
<1>3. s \in Seq(Calls)
  BY <1>2, SeqDef
<1>4. QED BY <1>2, <1>3

-----------------------------------------------------------------------------
(* Type correctness.  A loop over todo is only entered with calls left in   *)
(* it, which its steps need for Head.                                      *)

LoopsHaveCalls == at \in {"dispatch", "claim"} => todo # <<>>

TypeInv == TypeOK /\ LoopsHaveCalls

LEMMA TypeInit == Init => TypeInv
<1>. SUFFICES ASSUME Init  PROVE TypeInv
  OBVIOUS
<1>1. /\ history \in Seq(Messages) /\ outstanding_tool_call_ids \in Seq(RemoteCalls)
      /\ pending_tool_calls \in Seq(Calls) /\ todo \in Seq(Calls)
      /\ events \in Seq(Events)
      /\ last_received \in [complete : BOOLEAN, tool_calls : Seq(Calls)]
  BY EmptySeq DEF Init
<1>2. /\ phase \in [RemoteCalls -> {"new", "waiting", "claimed", "abandoned", "dropped"}]
      /\ verdict \in [RemoteCalls -> {"verdict", None}]
      /\ given \in [RemoteCalls -> {"verdict", None}]
  BY DEF Init, Worker!Init
<1>3. stage \in [Threads -> Stages] /\ at \in Places
  BY DEF Init, Stages, Places
<1>4. /\ tool_calls_this_turn \in 0 .. Cap
      /\ submitted \in Nat /\ executed \in Nat /\ topics \in Nat
      /\ issued \subseteq Calls /\ announced \subseteq Events
  BY DEF Init
<1>5. /\ is_processing \in BOOLEAN /\ interrupt_signal \in BOOLEAN /\ running \in BOOLEAN
      /\ chat_thread \in {"none", "running", "finished"}
      /\ enter_pressed \in BOOLEAN /\ interrupted \in BOOLEAN
      /\ input_from_user \in Text /\ tmp_line \in Text
      /\ LoopsHaveCalls
  BY DEF Init, Text, LoopsHaveCalls
<1>6. QED
  BY <1>1, <1>2, <1>3, <1>4, <1>5 DEF TypeInv, TypeOK

LEMMA MessageType ==
  ASSUME NEW r \in Roles, NEW a \in Text, NEW s \in Seq(Calls), NEW k \in Marks
  PROVE  Message(r, a, s, k) \in Messages
BY DEF Message, Messages

\* A send, on either thread.
LEMMA SendType ==
  ASSUME TypeInv, NEW t \in Threads, Send(t)
  PROVE  TypeInv'
<1>. USE DEF TypeInv, TypeOK, LoopsHaveCalls
<1>1. CASE OpenSend(t)
  <2>1. Message(RoleOf(t), input_from_user, <<>>, "none") \in Messages
    BY MessageType, EmptySeq DEF RoleOf, Roles, Marks
  <2>2. history' \in Seq(Messages)
    BY <1>1, <2>1 DEF OpenSend
  <2>3. tool_calls_this_turn' \in 0 .. Cap /\ topics' \in Nat
    BY <1>1 DEF OpenSend, TurnAfter
  <2>4. last_received' \in [complete : BOOLEAN, tool_calls : Seq(Calls)]
    BY <1>1, EmptySeq DEF OpenSend
  <2>5. stage' \in [Threads -> Stages]
    BY <1>1 DEF OpenSend, Stages
  <2>6. QED BY <1>1, <2>2, <2>3, <2>4, <2>5 DEF OpenSend
<1>2. CASE StreamReply(t)
  <2>1. PICK s \in Requests :
          /\ last_received' = [last_received EXCEPT !.tool_calls = @ \o s]
          /\ issued' = issued \cup {s[i] : i \in DOMAIN s}
    BY <1>2 DEF StreamReply
  <2>2. s \in Seq(Calls) /\ {s[i] : i \in DOMAIN s} \subseteq Calls
    BY RequestsType
  <2>3. last_received.tool_calls \o s \in Seq(Calls)
    BY <2>2
  <2>4. last_received' \in [complete : BOOLEAN, tool_calls : Seq(Calls)]
    BY <2>1, <2>3
  <2>5. issued' \subseteq Calls
    BY <2>1, <2>2
  <2>6. stage' \in [Threads -> Stages]
    BY <1>2 DEF StreamReply, Stages
  <2>7. QED BY <1>2, <2>4, <2>5, <2>6 DEF StreamReply
<1>3. CASE FailReply(t)
  <2>1. stage' \in [Threads -> Stages]
    BY <1>3 DEF FailReply, Stages
  <2>2. QED BY <1>3, <2>1 DEF FailReply
<1>4. CASE EndSend(t)
  <2>1. PICK done \in BOOLEAN :
          /\ last_received' = [last_received EXCEPT !.complete = done]
          /\ history' = history \o Reply(t, done)
    BY <1>4 DEF EndSend
  <2>2. Reply(t, done) \in Seq(Messages)
    <3>1. ASSUME NEW k \in Marks
          PROVE  Message("assistant", None, last_received.tool_calls, k) \in Messages
      BY MessageType DEF Roles, Text
    <3>2. ASSUME NEW m \in Messages  PROVE <<m>> \in Seq(Messages)
      OBVIOUS
    <3>3. QED BY <3>1, <3>2, EmptySeq DEF Reply, Marks
  <2>3. history' \in Seq(Messages)
    BY <2>1, <2>2
  <2>4. last_received' \in [complete : BOOLEAN, tool_calls : Seq(Calls)]
    BY <2>1
  <2>5. stage' \in [Threads -> Stages]
    BY <1>4 DEF EndSend, Stages
  <2>6. is_processing' \in BOOLEAN /\ chat_thread' \in {"none", "running", "finished"}
    BY <1>4 DEF EndSend, ThreadDone
  <2>7. QED BY <1>4, <2>3, <2>4, <2>5, <2>6 DEF EndSend
<1>5. QED BY <1>1, <1>2, <1>3, <1>4 DEF Send

\* exchange() and input(), and the join of an exit.
LEMMA InputType ==
  ASSUME TypeInv, Exchange \/ ExitJoined \/ LeaveLoop \/ Input \/ RestoreLine
  PROVE  TypeInv'
<1>. USE DEF TypeInv, TypeOK, LoopsHaveCalls
<1>1. CASE ExchangeNothing \/ ExchangeStop \/ ExchangeExit
  BY <1>1, ZenonT(60) DEF ExchangeNothing, ExchangeStop, ExchangeExit, RequestExit, Places
<1>2. CASE ExchangeLine
  <2>1. submitted' \in Nat /\ input_from_user' \in Text
    BY <1>2 DEF ExchangeLine, Text, Lines
  <2>2. interrupted' \in BOOLEAN /\ enter_pressed' \in BOOLEAN /\ at' = "input"
    BY <1>2 DEF ExchangeLine
  <2>3. QED BY <1>2, <2>1, <2>2 DEF ExchangeLine, Places
<1>3. CASE ExitJoined \/ LeaveLoop
  BY <1>3 DEF ExitJoined, LeaveLoop, Join, Places
<1>4. CASE InputStop \/ InputStopped \/ InputDone
  BY <1>4 DEF InputStop, InputStopped, InputDone, Join, Places
<1>5. CASE AcceptLine
  <2>1. tmp_line' \in Text /\ input_from_user' \in Text
    BY <1>5 DEF AcceptLine, Text
  <2>2. QED BY <1>5, <2>1 DEF AcceptLine, Places
<1>6. CASE Spawn
  <2>1. stage' \in [Threads -> Stages]
    BY <1>6 DEF Spawn, Stages
  <2>2. QED BY <1>6, <2>1 DEF Spawn, Places
<1>7. CASE Bye \/ ByeJoined
  BY <1>7 DEF Bye, ByeJoined, RequestExit, Join, Places, Text
<1>8. CASE RestoreLine
  <2>1. stage' \in [Threads -> Stages]
    BY <1>8 DEF RestoreLine, Stages
  <2>2. QED BY <1>8, <2>1 DEF RestoreLine
<1>9. QED
  BY <1>1, <1>2, <1>3, <1>4, <1>5, <1>6, <1>7, <1>8 DEF Exchange, Input

\* The dispatch of one call.
LEMMA DispatchType ==
  ASSUME TypeOK, NEW c \in Calls, DispatchToolCall(c)
  PROVE  /\ history' \in Seq(Messages)
         /\ tool_calls_this_turn' \in 0 .. Cap
         /\ executed' \in Nat /\ topics' = topics
         /\ outstanding_tool_call_ids' \in Seq(RemoteCalls)
         /\ phase' \in [RemoteCalls -> {"new", "waiting", "claimed", "abandoned", "dropped"}]
         /\ UNCHANGED <<verdict, given>>
         /\ input_from_user' \in Text
         /\ stage' \in [Threads -> Stages]
<1>. USE DEF TypeOK
<1>1. ASSUME NEW k \in Marks, ToolMessage(c, k)  PROVE history' \in Seq(Messages)
  <2>1. Message("tool", c, <<>>, k) \in Messages
    BY MessageType, EmptySeq DEF Roles, Text
  <2>2. QED BY <1>1, <2>1 DEF ToolMessage
<1>2. CASE Refuse(c)
  <2>1. history' \in Seq(Messages)
    BY <1>1, <1>2 DEF Refuse, Marks
  <2>2. QED BY <1>2, <2>1 DEF Refuse
<1>3. CASE RunBuiltIn(c)
  <2>1. history' \in Seq(Messages)
    BY <1>1, <1>3 DEF RunBuiltIn, Marks
  <2>2. input_from_user' \in Text /\ stage' \in [Threads -> Stages]
    BY <1>3 DEF RunBuiltIn, Integrate, Stages, Text
  <2>3. tool_calls_this_turn' \in 0 .. Cap /\ executed' \in Nat
    BY <1>3 DEF RunBuiltIn, Capped
  <2>4. QED BY <1>3, <2>1, <2>2, <2>3 DEF RunBuiltIn
<1>4. CASE QueueRemote(c)
  <2>1. outstanding_tool_call_ids' \in Seq(RemoteCalls)
    BY <1>4 DEF QueueRemote
  <2>2. tool_calls_this_turn' \in 0 .. Cap /\ executed' \in Nat
    BY <1>4 DEF QueueRemote, Capped
  <2>3. phase' \in [RemoteCalls -> {"new", "waiting", "claimed", "abandoned", "dropped"}]
    BY <1>4 DEF QueueRemote, Worker!Submit
  <2>4. QED BY <1>4, <2>1, <2>2, <2>3 DEF QueueRemote, Worker!Submit
<1>5. QED BY <1>2, <1>3, <1>4 DEF DispatchToolCall

\* PART 1 of process().
LEMMA ToolsType ==
  ASSUME TypeInv, Tools
  PROVE  TypeInv'
<1>. USE DEF TypeInv, TypeOK, LoopsHaveCalls
<1>1. CASE DispatchInjected
  <2>1. Head(pending_tool_calls) \in Calls /\ Tail(pending_tool_calls) \in Seq(Calls)
    BY <1>1, HeadTailProperties DEF DispatchInjected
  <2>2. DispatchToolCall(Head(pending_tool_calls))
    BY <1>1 DEF DispatchInjected
  <2>3. UNCHANGED <<issued, events, announced, flags, enter_pressed, interrupted,
                    tmp_line, submitted>>
    BY <2>2 DEF DispatchToolCall
  <2>4. pending_tool_calls' \in Seq(Calls) /\ UNCHANGED <<last_received, place>>
    BY <1>1, <2>1 DEF DispatchInjected
  <2>5. /\ history' \in Seq(Messages) /\ tool_calls_this_turn' \in 0 .. Cap
        /\ executed' \in Nat /\ topics' = topics
        /\ outstanding_tool_call_ids' \in Seq(RemoteCalls)
        /\ phase' \in [RemoteCalls -> {"new", "waiting", "claimed", "abandoned", "dropped"}]
        /\ UNCHANGED <<verdict, given>>
        /\ input_from_user' \in Text /\ stage' \in [Threads -> Stages]
    BY <2>1, <2>2, DispatchType
  <2>6. TypeOK'
    BY <2>3, <2>4, <2>5
  <2>7. LoopsHaveCalls'
    BY <2>4
  <2>8. QED BY <2>6, <2>7
<1>2. CASE InjectedDone
  BY <1>2 DEF InjectedDone, Places
<1>3. CASE TakeCalls
  BY <1>3, EmptySeq DEF TakeCalls, ReadyForTools, Taken, Places
<1>4. CASE NothingReady
  BY <1>4 DEF NothingReady, Places
<1>5. CASE DispatchNext
  <2>1. Head(todo) \in Calls /\ Tail(todo) \in Seq(Calls)
    BY <1>5, HeadTailProperties DEF DispatchNext
  <2>2. DispatchToolCall(Head(todo))
    BY <1>5 DEF DispatchNext
  <2>3. UNCHANGED <<issued, events, announced, flags, enter_pressed, interrupted,
                    tmp_line, submitted, last_received, pending_tool_calls>>
    BY <1>5, <2>2 DEF DispatchToolCall, DispatchNext
  <2>4. /\ todo' \in Seq(Calls) /\ at' \in Places
        /\ at' \in {"dispatch", "claim"} => todo' # <<>>
    BY <1>5, <2>1 DEF DispatchNext, Loop, Places
  <2>5. QED BY <2>1, <2>2, <2>3, <2>4, DispatchType
<1>6. QED BY <1>1, <1>2, <1>3, <1>4, <1>5 DEF Tools

\* PARTs 3 and 5 of process().
LEMMA DrainType ==
  ASSUME TypeInv, Drain
  PROVE  TypeInv'
<1>. USE DEF TypeInv, TypeOK, LoopsHaveCalls
<1>1. CASE Part3
  <2>1. todo' \in Seq(Calls)
    <3>1. outstanding_tool_call_ids \in Seq(Calls)
      BY SeqMonotonic
    <3>2. QED BY <1>1, <3>1 DEF Part3, Loop
  <2>2. at' \in Places /\ (at' \in {"dispatch", "claim"} => todo' # <<>>)
    BY <1>1 DEF Part3, Loop, Places
  <2>3. chat_thread' \in {"none", "running", "finished"}
    BY <1>1 DEF Part3, Join
  <2>4. QED BY <1>1, <2>1, <2>2, <2>3 DEF Part3
<1>2. CASE ClaimResult
  <2>1. Head(todo) \in Calls /\ Tail(todo) \in Seq(Calls)
    BY <1>2, HeadTailProperties DEF ClaimResult
  <2>2. history' \in Seq(Messages)
    <3>1. Message("tool", Head(todo), <<>>, "none") \in Messages
      BY <2>1, MessageType, EmptySeq DEF Roles, Text, Marks
    <3>2. QED BY <1>2, <3>1 DEF ClaimResult, ToolMessage
  <2>3. outstanding_tool_call_ids' \in Seq(RemoteCalls)
    <3>1. PICK i \in DOMAIN outstanding_tool_call_ids :
            outstanding_tool_call_ids' = Without(outstanding_tool_call_ids, i)
      BY <1>2 DEF ClaimResult
    <3>2. QED BY <3>1, WithoutProperties
  <2>4. input_from_user' \in Text /\ stage' \in [Threads -> Stages]
    BY <1>2, <2>1 DEF ClaimResult, Integrate, Text, Stages
  <2>5. /\ todo' \in Seq(Calls) /\ at' \in Places
        /\ at' \in {"dispatch", "claim"} => todo' # <<>>
    BY <1>2, <2>1 DEF ClaimResult, Loop, Places
  <2>6. /\ phase' \in [RemoteCalls -> {"new", "waiting", "claimed", "abandoned", "dropped"}]
        /\ given' \in [RemoteCalls -> {"verdict", None}]
        /\ UNCHANGED verdict
    BY <1>2 DEF ClaimResult, Worker!Claim
  <2>7. QED BY <1>2, <2>2, <2>3, <2>4, <2>5, <2>6 DEF ClaimResult
<1>3. CASE SkipResult
  <2>1. Tail(todo) \in Seq(Calls)
    BY <1>3, HeadTailProperties DEF SkipResult
  <2>2. QED BY <1>3, <2>1 DEF SkipResult, Loop, Places
<1>4. CASE DrainEvent
  <2>1. Head(events) \in Events /\ Tail(events) \in Seq(Events)
    BY <1>4, HeadTailProperties DEF DrainEvent
  <2>2. input_from_user' \in Text /\ stage' \in [Threads -> Stages]
    BY <1>4, <2>1 DEF DrainEvent, Integrate, Text, Stages
  <2>3. pending_tool_calls' \in Seq(Calls)
    <3>1. ActionsOf(Head(events)) \in Seq(Calls)
      BY <2>1, EmptySeq DEF ActionsOf
    <3>2. QED BY <1>4, <3>1 DEF DrainEvent
  <2>4. tool_calls_this_turn' \in 0 .. Cap /\ topics' \in Nat
    BY <1>4 DEF DrainEvent
  <2>5. QED BY <1>4, <2>1, <2>2, <2>3, <2>4 DEF DrainEvent
<1>5. CASE TickDone
  BY <1>5 DEF TickDone, Places
<1>6. QED BY <1>1, <1>2, <1>3, <1>4, <1>5 DEF Drain

\* The worker, and the states in which nothing moves.
LEMMA EnvType ==
  ASSUME TypeInv, Env \/ Down \/ UNCHANGED vars
  PROVE  TypeInv'
<1>. USE DEF TypeInv, TypeOK, LoopsHaveCalls
<1>1. ASSUME NEW c \in RemoteCalls, ResultArrives(c)  PROVE TypeInv'
  BY <1>1 DEF ResultArrives, Worker!Resolve
<1>2. ASSUME NEW e \in Events, EventArrives(e)  PROVE TypeInv'
  <2>1. events' \in Seq(Events) /\ announced' \subseteq Events
    BY <1>2 DEF EventArrives
  <2>2. QED BY <1>2, <2>1 DEF EventArrives
<1>3. CASE Down \/ UNCHANGED vars
  BY <1>3 DEF Down, vars
<1>4. QED BY <1>1, <1>2, <1>3 DEF Env

LEMMA TypeStep == TypeInv /\ [Next]_vars => TypeInv'
<1>1. SUFFICES ASSUME TypeInv, Next \/ UNCHANGED vars
               PROVE  TypeInv'
  OBVIOUS
<1>2. CASE \E t \in Threads : Send(t)
  BY <1>1, <1>2, SendType
<1>3. CASE Exchange \/ ExitJoined \/ LeaveLoop \/ Input \/ RestoreLine
  BY <1>1, <1>3, InputType
<1>4. CASE Tools
  BY <1>1, <1>4, ToolsType
<1>5. CASE Drain
  BY <1>1, <1>5, DrainType
<1>6. CASE Env \/ Down \/ UNCHANGED vars
  BY <1>1, <1>6, EnvType
<1>7. QED
  BY <1>1, <1>2, <1>3, <1>4, <1>5, <1>6 DEF Next, Main, Chat

\* For any calls, events and bounds, every variable of the chat keeps its shape:
\* in particular the count of calls of a turn never passes the cap.
THEOREM TypeCorrect == Spec => []TypeOK
<1>1. Spec => []TypeInv
  BY TypeInit, TypeStep, PTL DEF Spec
<1>2. TypeInv => TypeOK
  BY DEF TypeInv
<1>3. QED BY <1>1, <1>2, PTL

-----------------------------------------------------------------------------
(* The quota.  At any moment the calls executed are those of the current    *)
(* turn and at most Cap for each topic opened so far: a turn's count is     *)
(* set to zero only where a topic is counted.                              *)

Quota == executed <= Cap * topics + tool_calls_this_turn

LEMMA QuotaInit == Init => Quota
BY DEF Init, Quota

\* Opening a topic gives up the turn's count, which is at most Cap.
LEMMA TopicOpened ==
  ASSUME TypeOK, Quota
  PROVE  executed <= Cap * (topics + 1) + 0
<1>1. /\ tool_calls_this_turn \in Nat /\ tool_calls_this_turn <= Cap
      /\ executed \in Nat /\ topics \in Nat
  BY DEF TypeOK
<1>2. Cap * (topics + 1) = Cap * topics + Cap /\ Cap * topics \in Nat
  BY <1>1
<1>3. QED BY <1>1, <1>2 DEF Quota

LEMMA QuotaDispatch ==
  ASSUME TypeOK, Quota, NEW c, DispatchToolCall(c)
  PROVE  Quota'
<1>1. executed \in Nat /\ topics \in Nat /\ tool_calls_this_turn \in Nat
  BY DEF TypeOK
<1>2. \/ executed' = executed /\ tool_calls_this_turn' = tool_calls_this_turn
      \/ executed' = executed + 1 /\ tool_calls_this_turn' = tool_calls_this_turn + 1
  BY DEF DispatchToolCall, Refuse, RunBuiltIn, QueueRemote
<1>3. topics' = topics /\ Cap * topics \in Nat
  BY <1>1 DEF DispatchToolCall, Refuse, RunBuiltIn, QueueRemote
<1>4. QED BY <1>1, <1>2, <1>3 DEF Quota

LEMMA QuotaStep == TypeInv /\ Quota /\ [Next]_vars => Quota'
<1>1. SUFFICES ASSUME TypeInv, Quota, Next \/ UNCHANGED vars
               PROVE  Quota'
  OBVIOUS
<1>. USE <1>1
<1>2. TypeOK
  BY DEF TypeInv
<1>3. ASSUME UNCHANGED count  PROVE Quota'
  BY <1>3 DEF Quota
<1>4. CASE \E t \in Threads : OpenSend(t)
  <2>1. PICK t \in Threads : OpenSend(t)
    BY <1>4
  <2>2. executed' = executed
    BY <2>1 DEF OpenSend
  <2>3. CASE RoleOf(t) = "user"
    <3>1. topics' = topics + 1 /\ tool_calls_this_turn' = 0
      BY <2>1, <2>3 DEF OpenSend, TurnAfter
    <3>2. QED BY <1>2, <2>2, <3>1, TopicOpened DEF Quota
  <2>4. CASE RoleOf(t) # "user"
    <3>1. topics' = topics /\ tool_calls_this_turn' = tool_calls_this_turn
      BY <2>1, <2>4 DEF OpenSend, TurnAfter
    <3>2. QED BY <2>2, <3>1 DEF Quota
  <2>5. QED BY <2>3, <2>4
<1>5. CASE \E t \in Threads : StreamReply(t) \/ FailReply(t) \/ EndSend(t)
  <2>1. UNCHANGED count
    BY <1>5 DEF StreamReply, FailReply, EndSend
  <2>2. QED BY <1>3, <2>1
<1>6. CASE Exchange \/ ExitJoined \/ LeaveLoop \/ Input \/ RestoreLine
  <2>1. UNCHANGED count
    BY <1>6 DEF Exchange, ExchangeNothing, ExchangeLine, ExchangeStop, ExchangeExit,
                ExitJoined, LeaveLoop, Input, InputStop, InputStopped, AcceptLine,
                Spawn, Bye, ByeJoined, InputDone, RestoreLine
  <2>2. QED BY <1>3, <2>1
<1>7. CASE Tools
  <2>1. CASE DispatchInjected \/ DispatchNext
    BY <1>2, <2>1, QuotaDispatch DEF DispatchInjected, DispatchNext
  <2>2. CASE InjectedDone \/ TakeCalls \/ NothingReady
    BY <1>3, <2>2 DEF InjectedDone, TakeCalls, NothingReady
  <2>3. QED BY <1>7, <2>1, <2>2 DEF Tools
<1>8. CASE Drain
  <2>1. CASE DrainEvent
    <3>1. executed' = executed /\ topics' = topics + 1 /\ tool_calls_this_turn' = 0
      BY <2>1 DEF DrainEvent
    <3>2. QED BY <1>2, <3>1, TopicOpened DEF Quota
  <2>2. CASE Part3 \/ ClaimResult \/ SkipResult \/ TickDone
    BY <1>3, <2>2 DEF Part3, ClaimResult, SkipResult, TickDone
  <2>3. QED BY <1>8, <2>1, <2>2 DEF Drain
<1>9. CASE Env \/ Down \/ UNCHANGED vars
  <2>1. UNCHANGED count
    BY <1>9 DEF Env, ResultArrives, EventArrives, Down, vars
  <2>2. QED BY <1>3, <2>1
<1>10. QED
  BY <1>4, <1>5, <1>6, <1>7, <1>8, <1>9 DEF Next, Main, Chat, Send

\* Whatever the cap and however replies, narrations and events interleave, the
\* calls executed in a session are bounded by the topics the outside opened: no
\* chain of narrations makes the program call tools without end.
THEOREM ChainIsBounded == Spec => []ChainBounded
<1>1. TypeInv /\ Quota => ChainBounded
  <2>1. SUFFICES ASSUME TypeOK, Quota  PROVE ChainBounded
    BY DEF TypeInv
  <2>2. executed \in Nat /\ topics \in Nat /\ Cap * (topics + 1) \in Nat
    BY <2>1 DEF TypeOK
  <2>3. QED BY <2>1, <2>2, TopicOpened DEF ChainBounded
<1>2. Spec => [](TypeInv /\ Quota)
  BY TypeInit, TypeStep, QuotaInit, QuotaStep, PTL DEF Spec
<1>3. QED BY <1>1, <1>2, PTL

-----------------------------------------------------------------------------
(* The join.  Once running is down the main thread is in one of the two     *)
(* joins of request_exit(), or the thread object is empty; and the thread   *)
(* is inside its lambda exactly as long as it counts as running.           *)

JoinInv ==
  /\ ~running => at \in {"exit", "bye"} \/ chat_thread = "none"
  /\ at \in {"input", "stopping", "line", "spawn"} => running
  /\ at = "down" => ~running
  /\ stage["chat"] # "idle" <=> chat_thread = "running"

LEMMA JoinInit == Init => JoinInv
BY DEF Init, JoinInv

LEMMA JoinDispatch ==
  ASSUME TypeOK, NEW c, DispatchToolCall(c)
  PROVE  UNCHANGED flags /\ stage'["chat"] = stage["chat"]
BY DEF DispatchToolCall, Refuse, RunBuiltIn, QueueRemote, Integrate, TypeOK

LEMMA JoinStep == TypeInv /\ JoinInv /\ [Next]_vars => JoinInv'
<1>1. SUFFICES ASSUME TypeInv, JoinInv, Next \/ UNCHANGED vars
               PROVE  JoinInv'
  OBVIOUS
<1>. USE <1>1 DEF JoinInv
<1>2. TypeOK
  BY DEF TypeInv
<1>3. stage \in [Threads -> Stages]
  BY <1>2 DEF TypeOK
<1>4. CASE \E t \in Threads : Send(t)
  <2>1. PICK t \in Threads : Send(t)
    BY <1>4
  <2>2. CASE OpenSend(t)
    BY <1>3, <2>2 DEF OpenSend
  <2>3. CASE StreamReply(t)
    BY <1>3, <2>3 DEF StreamReply
  <2>4. CASE FailReply(t)
    BY <1>3, <2>4 DEF FailReply
  <2>5. CASE EndSend(t)
    BY <1>3, <2>5 DEF EndSend, ThreadDone
  <2>6. QED BY <2>1, <2>2, <2>3, <2>4, <2>5 DEF Send
<1>5. CASE Exchange
  BY <1>5 DEF Exchange, ExchangeNothing, ExchangeLine, ExchangeStop, ExchangeExit,
              RequestExit
<1>6. CASE ExitJoined \/ LeaveLoop
  BY <1>6 DEF ExitJoined, LeaveLoop, Join
<1>7. CASE InputStop \/ InputStopped \/ AcceptLine \/ InputDone
  BY <1>7 DEF InputStop, InputStopped, AcceptLine, InputDone, Join, AtLine
<1>8. CASE Spawn \/ Bye \/ ByeJoined \/ RestoreLine
  BY <1>3, <1>8 DEF Spawn, Bye, ByeJoined, RestoreLine, RequestExit, Join
<1>9. CASE Tools
  <2>1. CASE DispatchInjected
    <3>1. UNCHANGED flags /\ stage'["chat"] = stage["chat"]
      BY <1>2, <2>1, JoinDispatch DEF DispatchInjected
    <3>2. QED BY <2>1, <3>1 DEF DispatchInjected
  <2>2. CASE DispatchNext
    <3>1. UNCHANGED flags /\ stage'["chat"] = stage["chat"]
      BY <1>2, <2>2, JoinDispatch DEF DispatchNext
    <3>2. at = "dispatch" /\ at' \in {"dispatch", "part3"}
      BY <2>2 DEF DispatchNext, Loop
    <3>3. QED BY <3>1, <3>2
  <2>3. CASE InjectedDone \/ TakeCalls \/ NothingReady
    BY <2>3 DEF InjectedDone, TakeCalls, NothingReady
  <2>4. QED BY <1>9, <2>1, <2>2, <2>3 DEF Tools
<1>10. CASE Drain
  <2>1. CASE Part3
    BY <2>1 DEF Part3, Join, Loop
  <2>2. CASE ClaimResult \/ SkipResult
    BY <1>3, <2>2 DEF ClaimResult, SkipResult, Integrate, Loop
  <2>3. CASE DrainEvent \/ TickDone
    BY <1>3, <2>3 DEF DrainEvent, TickDone, Integrate
  <2>4. QED BY <1>10, <2>1, <2>2, <2>3 DEF Drain
<1>11. CASE Env \/ Down \/ UNCHANGED vars
  BY <1>11 DEF Env, ResultArrives, EventArrives, Down, vars
<1>12. QED
  BY <1>4, <1>5, <1>6, <1>7, <1>8, <1>9, <1>10, <1>11 DEF Next, Main, Chat, Input

\* However the exit is asked for, and at whatever moment of a reply, chat_thread
\* is joined when the main loop is left: ~ai_root never destroys a joinable one.
THEOREM ThreadIsJoined == Spec => []JoinedOnExit
<1>1. JoinInv => JoinedOnExit
  BY DEF JoinInv, JoinedOnExit
<1>2. Spec => [](TypeInv /\ JoinInv)
  BY TypeInit, TypeStep, JoinInit, JoinStep, PTL DEF Spec
<1>3. QED BY <1>1, <1>2, PTL

-----------------------------------------------------------------------------
(* The outstanding ids.  With type correctness they are an inductive        *)
(* invariant as they stand: a call is appended when its phase is "new", so  *)
(* it is not in the list yet, and erased when its phase leaves "waiting".  *)

LEMMA OutstandingInit == Init => OutstandingWaited
BY DEF Init, OutstandingWaited, Worker!Init

\* A call given to the worker is the last of the list and new to it.
LEMMA OutstandingQueued ==
  ASSUME TypeOK, OutstandingWaited, NEW c \in Calls, QueueRemote(c)
  PROVE  OutstandingWaited'
<1>. DEFINE ids == outstanding_tool_call_ids
            n   == Len(ids) + 1
<1>1. /\ ids \in Seq(RemoteCalls) /\ n \in Nat \ {0} /\ DOMAIN ids = 1 .. n - 1
      /\ phase \in [RemoteCalls -> {"new", "waiting", "claimed", "abandoned", "dropped"}]
  BY LenProperties DEF TypeOK
<1>2. c \in RemoteCalls /\ phase[c] = "new" /\ ids' = Append(ids, c)
  BY DEF QueueRemote, Worker!Submit
<1>3. phase' = [phase EXCEPT ![c] = "waiting"]
  BY DEF QueueRemote, Worker!Submit
<1>4. /\ DOMAIN ids' = 1 .. n
      /\ \A i \in 1 .. n - 1 : ids'[i] = ids[i]
      /\ ids'[n] = c
  BY <1>1, <1>2, AppendProperties
<1>5. \A i \in 1 .. n - 1 : ids[i] \in RemoteCalls /\ ids[i] # c
  BY <1>1, <1>2 DEF OutstandingWaited
<1>. HIDE DEF ids
<1>6. ASSUME NEW d \in RemoteCalls
      PROVE  phase'[d] = "waiting" <=> \E i \in DOMAIN ids' : ids'[i] = d
  <2>1. CASE d = c
    BY <1>1, <1>3, <1>4, <2>1
  <2>2. CASE d # c
    <3>1. phase'[d] = phase[d]
      BY <1>1, <1>3, <2>2
    <3>2. (\E i \in DOMAIN ids' : ids'[i] = d) <=> (\E i \in DOMAIN ids : ids[i] = d)
      BY <1>1, <1>4, <2>2
    <3>3. phase[d] = "waiting" <=> \E i \in DOMAIN ids : ids[i] = d
      BY DEF OutstandingWaited, ids
    <3>4. QED BY <3>1, <3>2, <3>3
  <2>3. QED BY <2>1, <2>2
<1>7. \A i, j \in DOMAIN ids : ids[i] = ids[j] => i = j
  BY DEF OutstandingWaited, ids
<1>8. ASSUME NEW i \in DOMAIN ids', NEW j \in DOMAIN ids', ids'[i] = ids'[j]
      PROVE  i = j
  BY <1>1, <1>4, <1>5, <1>7, <1>8
<1>9. QED BY <1>6, <1>8 DEF OutstandingWaited, ids

\* A claimed call leaves the list, and no other does.
LEMMA OutstandingClaimed ==
  ASSUME TypeOK, OutstandingWaited, ClaimResult
  PROVE  OutstandingWaited'
<1>. DEFINE ids == outstanding_tool_call_ids
            c   == Head(todo)
            n   == Len(ids)
<1>1. /\ ids \in Seq(RemoteCalls) /\ n \in Nat /\ DOMAIN ids = 1 .. n
      /\ phase \in [RemoteCalls -> {"new", "waiting", "claimed", "abandoned", "dropped"}]
  BY LenProperties DEF TypeOK
<1>2. PICK k \in 1 .. n : ids[k] = c /\ ids' = Without(ids, k)
  BY <1>1 DEF ClaimResult
<1>3. phase' = [phase EXCEPT ![c] = "claimed"]
  BY DEF ClaimResult, Worker!Claim
<1>4. /\ DOMAIN ids' = 1 .. n - 1
      /\ \A j \in 1 .. n - 1 : ids'[j] = IF j < k THEN ids[j] ELSE ids[j + 1]
  BY <1>1, <1>2, WithoutProperties
<1>5. \A i, j \in 1 .. n : ids[i] = ids[j] => i = j
  BY <1>1 DEF OutstandingWaited
<1>6. \A d \in RemoteCalls : phase[d] = "waiting" <=> \E i \in 1 .. n : ids[i] = d
  BY <1>1 DEF OutstandingWaited
<1>. HIDE DEF ids, c, n
<1>7. ASSUME NEW d \in RemoteCalls
      PROVE  phase'[d] = "waiting" <=> \E i \in 1 .. n - 1 : ids'[i] = d
  <2>1. CASE d = c
    <3>1. phase'[d] # "waiting"
      BY <1>1, <1>3, <2>1
    <3>2. ASSUME NEW i \in 1 .. n - 1, ids'[i] = d  PROVE FALSE
      BY <1>1, <1>2, <1>4, <1>5, <2>1, <3>2
    <3>3. QED BY <3>1, <3>2
  <2>2. CASE d # c
    <3>1. phase'[d] = phase[d]
      BY <1>1, <1>3, <2>2
    <3>2. ASSUME NEW i \in 1 .. n - 1, ids'[i] = d
          PROVE  \E j \in 1 .. n : ids[j] = d
      BY <1>1, <1>4, <3>2
    <3>3. ASSUME NEW j \in 1 .. n, ids[j] = d
          PROVE  \E i \in 1 .. n - 1 : ids'[i] = d
      <4>1. CASE j < k
        <5>1. j \in 1 .. n - 1 /\ ids'[j] = d
          BY <1>1, <1>2, <1>4, <3>3, <4>1
        <5>2. QED BY <5>1
      <4>2. CASE j > k
        <5>1. j - 1 \in 1 .. n - 1 /\ ~(j - 1 < k) /\ (j - 1) + 1 = j
          BY <1>1, <4>2
        <5>2. ids'[j - 1] = d
          BY <1>4, <3>3, <5>1
        <5>3. QED BY <5>1, <5>2
      <4>3. j # k
        BY <1>2, <2>2, <3>3
      <4>4. QED BY <1>1, <4>1, <4>2, <4>3
    <3>4. QED BY <1>6, <3>1, <3>2, <3>3
  <2>3. QED BY <2>1, <2>2
<1>8. ASSUME NEW i \in 1 .. n - 1, NEW j \in 1 .. n - 1, ids'[i] = ids'[j]
      PROVE  i = j
  BY <1>1, <1>4, <1>5, <1>8
<1>9. QED BY <1>4, <1>7, <1>8 DEF OutstandingWaited, ids

LEMMA OutstandingKept ==
  ASSUME OutstandingWaited, UNCHANGED <<phase, outstanding_tool_call_ids>>
  PROVE  OutstandingWaited'
BY DEF OutstandingWaited

LEMMA OutstandingDispatch ==
  ASSUME TypeOK, OutstandingWaited, NEW c \in Calls, DispatchToolCall(c)
  PROVE  OutstandingWaited'
<1>1. CASE Refuse(c) \/ RunBuiltIn(c)
  BY <1>1, OutstandingKept DEF Refuse, RunBuiltIn
<1>2. CASE QueueRemote(c)
  BY <1>2, OutstandingQueued
<1>3. QED BY <1>1, <1>2 DEF DispatchToolCall

LEMMA OutstandingStep ==
  TypeInv /\ OutstandingWaited /\ [Next]_vars => OutstandingWaited'
<1>1. SUFFICES ASSUME TypeInv, OutstandingWaited, Next \/ UNCHANGED vars
               PROVE  OutstandingWaited'
  OBVIOUS
<1>. USE <1>1
<1>2. TypeOK
  BY DEF TypeInv
<1>3. ASSUME UNCHANGED <<phase, outstanding_tool_call_ids>>
      PROVE  OutstandingWaited'
  BY <1>3, OutstandingKept
<1>4. CASE \E t \in Threads : Send(t)
  BY <1>3, <1>4 DEF Send, OpenSend, StreamReply, FailReply, EndSend
<1>5. CASE Exchange \/ ExitJoined \/ LeaveLoop \/ Input \/ RestoreLine
  <2>1. UNCHANGED <<phase, outstanding_tool_call_ids>>
    BY <1>5 DEF Exchange, ExchangeNothing, ExchangeLine, ExchangeStop, ExchangeExit,
                ExitJoined, LeaveLoop, Input, InputStop, InputStopped, AcceptLine,
                Spawn, Bye, ByeJoined, InputDone, RestoreLine
  <2>2. QED BY <1>3, <2>1
<1>6. CASE Tools
  <2>1. CASE DispatchInjected
    <3>1. Head(pending_tool_calls) \in Calls
      BY <1>2, <2>1, HeadTailProperties DEF DispatchInjected, TypeOK
    <3>2. QED BY <1>2, <2>1, <3>1, OutstandingDispatch DEF DispatchInjected
  <2>2. CASE DispatchNext
    <3>1. Head(todo) \in Calls
      BY <2>2, HeadTailProperties DEF DispatchNext, TypeInv, TypeOK, LoopsHaveCalls
    <3>2. QED BY <1>2, <2>2, <3>1, OutstandingDispatch DEF DispatchNext
  <2>3. CASE InjectedDone \/ TakeCalls \/ NothingReady
    BY <1>3, <2>3 DEF InjectedDone, TakeCalls, NothingReady
  <2>4. QED BY <1>6, <2>1, <2>2, <2>3 DEF Tools
<1>7. CASE Drain
  <2>1. CASE ClaimResult
    BY <1>2, <2>1, OutstandingClaimed
  <2>2. CASE Part3 \/ SkipResult \/ DrainEvent \/ TickDone
    BY <1>3, <2>2 DEF Part3, SkipResult, DrainEvent, TickDone
  <2>3. QED BY <1>7, <2>1, <2>2 DEF Drain
<1>8. CASE Env \/ Down \/ UNCHANGED vars
  BY <1>3, <1>8 DEF Env, ResultArrives, Worker!Resolve, EventArrives, Down, vars
<1>9. QED
  BY <1>4, <1>5, <1>6, <1>7, <1>8 DEF Next, Main, Chat

\* Whatever interleaves, the ids the chat asks the worker for are exactly the calls
\* the worker still owes it: no result is left behind, none is asked for twice.
THEOREM OutstandingIsWaited == Spec => []OutstandingWaited
<1>1. Spec => [](TypeInv /\ OutstandingWaited)
  BY TypeInit, TypeStep, OutstandingInit, OutstandingStep, PTL DEF Spec
<1>2. QED BY <1>1, PTL
-----------------------------------------------------------------------------
(* Calls and tool messages.  A call waits in one of three pools (the latest *)
(* reply, the loop over a reply's calls, the injected calls) until it is    *)
(* dispatched, and is spent from then on.  A reply asks for calls no reply   *)
(* had and an event injects its call when it is drained, so no spent call   *)
(* enters a pool again: that is why no call gets two tool messages.         *)

\* c has its tool message, or was given to the worker.
Spent(c) == Answered(c) \/ (c \in RemoteCalls /\ phase[c] # "new")

\* The event whose action c is has been drained.
Injected(c) == \E e \in announced : ActionOf[e] = c /\ ~InSeq(events, e)

\* A reply in the history made c.
Asked(c) == \E j \in DOMAIN history : Asks(history[j], c)

OneToolMessage == \A i, j \in DOMAIN history :
  IsTool(history[i]) /\ IsTool(history[j]) /\ history[i].about = history[j].about => i = j

\* Three pools of calls to dispatch: disjoint, and what is in one is not spent.
PoolInv ==
  /\ Distinct(last_received.tool_calls)
  /\ Distinct(pending_tool_calls)
  /\ \A c \in Calls : InSeq(last_received.tool_calls, c) => c \in issued /\ ~Spent(c)
  /\ \A c \in Calls : InSeq(pending_tool_calls, c) => c \in ActionCalls /\ Injected(c) /\ ~Spent(c)
  /\ at = "dispatch" =>
       /\ Distinct(todo)
       /\ \A c \in Calls : InSeq(todo, c) =>
            c \in issued /\ ~Spent(c) /\ ~InSeq(last_received.tool_calls, c)

\* With where a spent call came from, and that the worker owes no answered one.
PairInv ==
  /\ PoolInv
  /\ issued \subseteq ModelCalls
  /\ Distinct(events)
  /\ \A e \in Events : InSeq(events, e) => e \in announced
  /\ \A c \in Text : Spent(c) => c \in issued \/ (c \in ActionCalls /\ Injected(c))
  /\ \A c \in RemoteCalls : phase[c] = "waiting" => ~Answered(c)
  /\ OneToolMessage

-----------------------------------------------------------------------------
\* A message pushed.
LEMMA Pushed ==
  ASSUME history \in Seq(Messages), NEW m \in Messages, history' = Append(history, m)
  PROVE  /\ \A c : Asked(c) => Asked(c)'
         /\ \A c : Asks(m, c) => Asked(c)'
         /\ ~IsTool(m) => /\ \A c : Answered(c)' <=> Answered(c)
                          /\ OneToolMessage => OneToolMessage'
         /\ IsTool(m) => /\ \A c : Answered(c)' <=> Answered(c) \/ c = m.about
                         /\ OneToolMessage /\ ~Answered(m.about) => OneToolMessage'
<1>. DEFINE n == Len(history)
<1>1. n \in Nat /\ DOMAIN history = 1 .. n
  BY LenProperties
<1>2. /\ history' \in Seq(Messages) /\ Len(history') = n + 1
      /\ \A i \in 1 .. n : history'[i] = history[i]
      /\ history'[n + 1] = m
  BY AppendProperties
<1>3. DOMAIN history' = 1 .. n + 1
  BY <1>2, LenProperties
<1>. HIDE DEF n
<1>4. /\ \A i \in 1 .. n : i \in 1 .. n + 1
      /\ n + 1 \in 1 .. n + 1
      /\ \A i \in 1 .. n + 1 : i \in 1 .. n \/ i = n + 1
  BY <1>1
<1>5. ASSUME NEW c, Asked(c)  PROVE Asked(c)'
  BY <1>1, <1>2, <1>3, <1>4, <1>5 DEF Asked, Asks
<1>6. ASSUME NEW c, Asks(m, c)  PROVE Asked(c)'
  BY <1>2, <1>3, <1>4, <1>6 DEF Asked, Asks
<1>7. ASSUME ~IsTool(m)
      PROVE  /\ \A c : Answered(c)' <=> Answered(c)
             /\ OneToolMessage => OneToolMessage'
  BY <1>1, <1>2, <1>3, <1>4, <1>7 DEF Answered, OneToolMessage, IsTool
<1>8. ASSUME IsTool(m)
      PROVE  /\ \A c : Answered(c)' <=> Answered(c) \/ c = m.about
             /\ OneToolMessage /\ ~Answered(m.about) => OneToolMessage'
  BY <1>1, <1>2, <1>3, <1>4, <1>8 DEF Answered, OneToolMessage, IsTool
<1>9. QED BY <1>5, <1>6, <1>7, <1>8

\* What leaves the pools, the history and the worker alone.
LEMMA PairKept ==
  ASSUME PairInv, UNCHANGED <<history, last_received, pending_tool_calls, issued,
                              events, announced, phase>>,
         at' # "dispatch" \/ UNCHANGED place
  PROVE  PairInv'
BY DEF PairInv, PoolInv, Spent, Injected, Answered, OneToolMessage

LEMMA PairInit == Init => PairInv
<1>1. SUFFICES ASSUME Init  PROVE PairInv
  OBVIOUS
<1>2. \A c : ~Spent(c)
  BY <1>1 DEF Init, Spent, Answered, Worker!Init
<1>3. Distinct(<<>>) /\ \A y : ~InSeq(<<>>, y)
  BY NoElement
<1>4. QED BY <1>1, <1>2, <1>3 DEF Init, PairInv, PoolInv, OneToolMessage, Worker!Init

\* A send, on either thread: it pushes no tool message, and a reply asks for calls
\* no reply had.
LEMMA PairSend ==
  ASSUME TypeInv, PairInv, NEW t \in Threads, Send(t)
  PROVE  PairInv'
<1>. USE DEF TypeInv, TypeOK
<1>1. CASE OpenSend(t)
  <2>. DEFINE m == Message(RoleOf(t), input_from_user, <<>>, "none")
  <2>1. m \in Messages /\ ~IsTool(m)
    <3>1. RoleOf(t) \in Roles /\ RoleOf(t) # "tool"
      BY DEF RoleOf, Roles
    <3>2. QED BY <3>1, MessageType, EmptySeq DEF Marks, Message, IsTool
  <2>2. history' = Append(history, m)
    BY <1>1 DEF OpenSend
  <2>. HIDE DEF m
  <2>3. (\A c : Answered(c)' <=> Answered(c)) /\ OneToolMessage'
    BY <2>1, <2>2, Pushed DEF PairInv
  <2>4. UNCHANGED <<pending_tool_calls, issued, events, announced, phase, place>>
        /\ last_received'.tool_calls = <<>>
    BY <1>1 DEF OpenSend
  <2>5. \A c : Spent(c)' <=> Spent(c)
    BY <2>3, <2>4 DEF Spent
  <2>6. Distinct(<<>>) /\ \A y : ~InSeq(<<>>, y)
    BY NoElement
  <2>7. PoolInv'
    BY <2>4, <2>5, <2>6 DEF PairInv, PoolInv, Injected
  <2>8. QED BY <2>3, <2>4, <2>5, <2>7 DEF PairInv, Injected
<1>2. CASE StreamReply(t)
  <2>. DEFINE old == last_received.tool_calls
  <2>1. PICK s \in Requests :
          /\ last_received' = [last_received EXCEPT !.tool_calls = @ \o s]
          /\ issued' = issued \cup {s[i] : i \in DOMAIN s}
    BY <1>2 DEF StreamReply
  <2>2. s \in Seq(Calls) /\ old \in Seq(Calls)
    BY RequestsType
  <2>3. /\ Distinct(s)
        /\ \A c : InSeq(s, c) => c \in ModelCalls /\ c \notin issued
    BY DEF Requests, Distinct, InSeq
  <2>4. /\ \A c : c \in issued' <=> c \in issued \/ InSeq(s, c)
        /\ last_received'.tool_calls = old \o s
    BY <2>1 DEF InSeq
  <2>5. UNCHANGED <<history, pending_tool_calls, events, announced, phase, place>>
    BY <1>2 DEF StreamReply
  <2>6. \A c : (Spent(c)' <=> Spent(c)) /\ (Injected(c)' <=> Injected(c))
    BY <2>5 DEF Spent, Answered, Injected
  <2>. HIDE DEF old
  <2>7. \A c \in Calls : InSeq(s, c) => ~InSeq(old, c) /\ ~Spent(c)
    <3>1. SUFFICES ASSUME NEW c \in Calls, InSeq(s, c)
                   PROVE  ~InSeq(old, c) /\ ~Spent(c)
      OBVIOUS
    <3>2. c \in ModelCalls /\ c \notin issued /\ c \in Text
      BY <2>3, <3>1 DEF Text
    <3>3. ~InSeq(old, c)
      BY <3>2 DEF PairInv, PoolInv, old
    <3>4. ~Spent(c)
      BY <3>2 DEF PairInv, ModelCalls
    <3>5. QED BY <3>3, <3>4
  <2>8. /\ \A c \in Calls : InSeq(old \o s, c) <=> InSeq(old, c) \/ InSeq(s, c)
        /\ Distinct(old \o s)
    <3>1. Distinct(old)
      BY DEF PairInv, PoolInv, old
    <3>2. QED BY <2>2, <2>3, <2>7, <3>1, InConcat
  <2>9. PoolInv'
    <3>1. Distinct(last_received'.tool_calls) /\ Distinct(pending_tool_calls')
      BY <2>4, <2>5, <2>8 DEF PairInv, PoolInv
    <3>2. ASSUME NEW c \in Calls, InSeq(last_received'.tool_calls, c)
          PROVE  c \in issued' /\ ~Spent(c)'
      BY <2>4, <2>6, <2>7, <2>8, <3>2 DEF PairInv, PoolInv, old
    <3>3. ASSUME NEW c \in Calls, InSeq(pending_tool_calls', c)
          PROVE  c \in ActionCalls /\ Injected(c)' /\ ~Spent(c)'
      BY <2>5, <2>6, <3>3 DEF PairInv, PoolInv
    <3>4. ASSUME at' = "dispatch"
          PROVE  /\ Distinct(todo')
                 /\ \A c \in Calls : InSeq(todo', c) =>
                      c \in issued' /\ ~Spent(c)' /\ ~InSeq(last_received'.tool_calls, c)
      BY <2>3, <2>4, <2>5, <2>6, <2>8, <3>4 DEF PairInv, PoolInv, old
    <3>5. QED BY <3>1, <3>2, <3>3, <3>4 DEF PoolInv
  <2>10. \A c \in Text : Spent(c)' => c \in issued' \/ (c \in ActionCalls /\ Injected(c)')
    BY <2>4, <2>6 DEF PairInv
  <2>11. issued' \subseteq ModelCalls
    BY <2>3, <2>4 DEF PairInv
  <2>12. QED BY <2>5, <2>9, <2>10, <2>11 DEF PairInv, Answered, OneToolMessage
<1>3. CASE FailReply(t)
  BY <1>3, PairKept DEF FailReply
<1>4. CASE EndSend(t)
  <2>1. /\ UNCHANGED <<pending_tool_calls, issued, events, announced, phase, place>>
        /\ last_received'.tool_calls = last_received.tool_calls
    BY <1>4 DEF EndSend
  <2>2. (\A c : Answered(c)' <=> Answered(c)) /\ OneToolMessage'
    <3>1. PICK done \in BOOLEAN : history' = history \o Reply(t, done)
      BY <1>4 DEF EndSend
    <3>2. CASE Reply(t, done) = <<>>
      <4>1. history' = history
        BY <3>1, <3>2, ConcatEmptySeq
      <4>2. QED BY <4>1 DEF Answered, OneToolMessage, PairInv
    <3>3. CASE Reply(t, done) # <<>>
      <4>1. PICK k \in Marks :
              Reply(t, done) = <<Message("assistant", None, last_received.tool_calls, k)>>
        BY <3>3 DEF Reply, Marks
      <4>. DEFINE m == Message("assistant", None, last_received.tool_calls, k)
      <4>2. m \in Messages /\ ~IsTool(m)
        BY MessageType DEF Roles, Text, Message, IsTool
      <4>3. history' = Append(history, m)
        BY <3>1, <4>1, <4>2, AppendIsConcat
      <4>. HIDE DEF m
      <4>4. QED BY <4>2, <4>3, Pushed DEF PairInv
    <3>4. QED BY <3>2, <3>3
  <2>3. \A c : (Spent(c)' <=> Spent(c)) /\ (Injected(c)' <=> Injected(c))
    BY <2>1, <2>2 DEF Spent, Injected
  <2>4. PoolInv'
    BY <2>1, <2>3 DEF PairInv, PoolInv
  <2>5. QED BY <2>1, <2>2, <2>3, <2>4 DEF PairInv
<1>5. QED BY <1>1, <1>2, <1>3, <1>4 DEF Send

\* exchange() and input(), and the join of an exit, leave the calls alone.
LEMMA PairInput ==
  ASSUME PairInv, Exchange \/ ExitJoined \/ LeaveLoop \/ Input \/ RestoreLine
  PROVE  PairInv'
<1>1. CASE Exchange \/ ExitJoined \/ LeaveLoop
  BY <1>1, PairKept DEF Exchange, ExchangeNothing, ExchangeLine, ExchangeStop,
     ExchangeExit, ExitJoined, LeaveLoop
<1>2. CASE Input \/ RestoreLine
  BY <1>2, PairKept DEF Input, InputStop, InputStopped, AcceptLine, Spawn, Bye,
     ByeJoined, InputDone, RestoreLine
<1>3. QED BY <1>1, <1>2

\* A call that is dispatched is spent: answered on the spot, or the worker's.
LEMMA DispatchSpends ==
  ASSUME TypeInv, PairInv, NEW c \in Calls, ~Spent(c), DispatchToolCall(c)
  PROVE  /\ \A d \in Text : Spent(d)' <=> Spent(d) \/ d = c
         /\ OneToolMessage'
         /\ \A d \in RemoteCalls : phase'[d] = "waiting" => ~Answered(d)'
         /\ UNCHANGED <<issued, events, announced>>
         /\ \A d : Asked(d) => Asked(d)'
<1>. USE DEF TypeInv, TypeOK
<1>1. UNCHANGED <<issued, events, announced>>
  BY DEF DispatchToolCall
<1>2. ASSUME NEW k \in Marks, ToolMessage(c, k), UNCHANGED phase
      PROVE  /\ \A d \in Text : Spent(d)' <=> Spent(d) \/ d = c
             /\ OneToolMessage'
             /\ \A d \in RemoteCalls : phase'[d] = "waiting" => ~Answered(d)'
             /\ \A d : Asked(d) => Asked(d)'
  <2>. DEFINE m == Message("tool", c, <<>>, k)
  <2>1. m \in Messages /\ IsTool(m) /\ m.about = c
    BY MessageType, EmptySeq DEF Roles, Text, Message, IsTool
  <2>2. history' = Append(history, m)
    BY <1>2 DEF ToolMessage
  <2>. HIDE DEF m
  <2>3. /\ \A d : Answered(d)' <=> Answered(d) \/ d = c
        /\ OneToolMessage'
        /\ \A d : Asked(d) => Asked(d)'
    BY <2>1, <2>2, Pushed DEF PairInv, Spent
  <2>4. \A d \in Text : Spent(d)' <=> Spent(d) \/ d = c
    BY <1>2, <2>3 DEF Spent
  <2>5. \A d \in RemoteCalls : phase'[d] = "waiting" => ~Answered(d)'
    BY <1>2, <2>3 DEF PairInv, Spent
  <2>6. QED BY <2>3, <2>4, <2>5
<1>3. CASE Refuse(c)
  BY <1>1, <1>2, <1>3 DEF Refuse, Marks
<1>4. CASE RunBuiltIn(c)
  BY <1>1, <1>2, <1>4 DEF RunBuiltIn, Marks
<1>5. CASE QueueRemote(c)
  <2>1. c \in RemoteCalls /\ phase' = [phase EXCEPT ![c] = "waiting"] /\ UNCHANGED history
    BY <1>5 DEF QueueRemote, Worker!Submit
  <2>2. \A d : (Answered(d)' <=> Answered(d)) /\ (Asked(d)' <=> Asked(d))
    BY <2>1 DEF Answered, Asked
  <2>3. \A d \in RemoteCalls : phase'[d] = IF d = c THEN "waiting" ELSE phase[d]
    BY <2>1
  <2>4. \A d \in Text : Spent(d)' <=> Spent(d) \/ d = c
    BY <2>1, <2>2, <2>3 DEF Spent
  <2>5. \A d \in RemoteCalls : phase'[d] = "waiting" => ~Answered(d)'
    BY <2>2, <2>3 DEF PairInv, Spent
  <2>6. OneToolMessage'
    BY <2>1 DEF PairInv, OneToolMessage
  <2>7. QED BY <1>1, <2>2, <2>4, <2>5, <2>6
<1>6. QED BY <1>3, <1>4, <1>5 DEF DispatchToolCall

\* PART 1 of process().
LEMMA PairTools ==
  ASSUME TypeInv, PairInv, Tools
  PROVE  PairInv'
<1>. USE DEF TypeInv, TypeOK
<1>1. CASE DispatchInjected
  <2>. DEFINE c == Head(pending_tool_calls)
  <2>1. /\ c \in Calls /\ InSeq(pending_tool_calls, c)
        /\ Distinct(pending_tool_calls')
        /\ \A d : InSeq(pending_tool_calls', d) => InSeq(pending_tool_calls, d) /\ d # c
    BY <1>1, HeadAndTail DEF DispatchInjected, PairInv, PoolInv
  <2>2. DispatchToolCall(c) /\ UNCHANGED <<last_received, place>>
    BY <1>1 DEF DispatchInjected
  <2>. HIDE DEF c
  <2>3. c \in ActionCalls /\ Injected(c) /\ ~Spent(c) /\ c \notin issued
    BY <2>1 DEF PairInv, PoolInv, ModelCalls
  <2>4. /\ \A d \in Text : Spent(d)' <=> Spent(d) \/ d = c
        /\ OneToolMessage'
        /\ \A d \in RemoteCalls : phase'[d] = "waiting" => ~Answered(d)'
        /\ UNCHANGED <<issued, events, announced>>
    BY <2>1, <2>2, <2>3, DispatchSpends
  <2>5. \A d : Injected(d)' <=> Injected(d)
    BY <2>4 DEF Injected
  <2>6. PoolInv'
    <3>1. \A d \in Calls : InSeq(last_received'.tool_calls, d) => d \in issued' /\ ~Spent(d)'
      BY <2>2, <2>3, <2>4 DEF PairInv, PoolInv, Text
    <3>2. \A d \in Calls : InSeq(pending_tool_calls', d) =>
            d \in ActionCalls /\ Injected(d)' /\ ~Spent(d)'
      BY <2>1, <2>4, <2>5 DEF PairInv, PoolInv, Text
    <3>3. at' = "dispatch" =>
            /\ Distinct(todo')
            /\ \A d \in Calls : InSeq(todo', d) =>
                 d \in issued' /\ ~Spent(d)' /\ ~InSeq(last_received'.tool_calls, d)
      BY <2>2, <2>3, <2>4 DEF PairInv, PoolInv, Text
    <3>4. QED BY <2>1, <2>2, <3>1, <3>2, <3>3 DEF PairInv, PoolInv
  <2>7. \A d \in Text : Spent(d)' => d \in issued' \/ (d \in ActionCalls /\ Injected(d)')
    BY <2>3, <2>4, <2>5 DEF PairInv
  <2>8. QED BY <2>4, <2>6, <2>7 DEF PairInv
<1>2. CASE InjectedDone \/ NothingReady
  BY <1>2, PairKept DEF InjectedDone, NothingReady
<1>3. CASE TakeCalls
  <2>1. /\ todo' = last_received.tool_calls /\ last_received'.tool_calls = <<>>
        /\ UNCHANGED <<history, pending_tool_calls, issued, events, announced, phase>>
    BY <1>3 DEF TakeCalls, Taken
  <2>2. Distinct(<<>>) /\ \A y : ~InSeq(<<>>, y)
    BY NoElement
  <2>3. \A c : (Spent(c)' <=> Spent(c)) /\ (Injected(c)' <=> Injected(c))
    BY <2>1 DEF Spent, Answered, Injected
  <2>4. PoolInv'
    BY <2>1, <2>2, <2>3 DEF PairInv, PoolInv
  <2>5. QED BY <2>1, <2>3, <2>4 DEF PairInv, Answered, OneToolMessage
<1>4. CASE DispatchNext
  <2>. DEFINE c == Head(todo)
  <2>1. /\ c \in Calls /\ InSeq(todo, c)
        /\ Distinct(todo')
        /\ \A d : InSeq(todo', d) => InSeq(todo, d) /\ d # c
    BY <1>4, HeadAndTail DEF DispatchNext, Loop, PairInv, PoolInv, LoopsHaveCalls
  <2>2. /\ DispatchToolCall(c) /\ UNCHANGED <<last_received, pending_tool_calls>>
        /\ at = "dispatch"
    BY <1>4 DEF DispatchNext
  <2>. HIDE DEF c
  <2>3. /\ c \in issued /\ ~Spent(c) /\ c \notin ActionCalls
        /\ ~InSeq(last_received.tool_calls, c)
    BY <2>1, <2>2 DEF PairInv, PoolInv, ModelCalls
  <2>4. /\ \A d \in Text : Spent(d)' <=> Spent(d) \/ d = c
        /\ OneToolMessage'
        /\ \A d \in RemoteCalls : phase'[d] = "waiting" => ~Answered(d)'
        /\ UNCHANGED <<issued, events, announced>>
    BY <2>1, <2>2, <2>3, DispatchSpends
  <2>5. \A d : Injected(d)' <=> Injected(d)
    BY <2>4 DEF Injected
  <2>6. PoolInv'
    <3>1. \A d \in Calls : InSeq(last_received'.tool_calls, d) => d \in issued' /\ ~Spent(d)'
      BY <2>2, <2>3, <2>4 DEF PairInv, PoolInv, Text
    <3>2. \A d \in Calls : InSeq(pending_tool_calls', d) =>
            d \in ActionCalls /\ Injected(d)' /\ ~Spent(d)'
      BY <2>2, <2>3, <2>4, <2>5 DEF PairInv, PoolInv, Text
    <3>3. /\ Distinct(todo')
          /\ \A d \in Calls : InSeq(todo', d) =>
               d \in issued' /\ ~Spent(d)' /\ ~InSeq(last_received'.tool_calls, d)
      BY <2>1, <2>2, <2>4 DEF PairInv, PoolInv, Text
    <3>4. QED BY <2>2, <3>1, <3>2, <3>3 DEF PairInv, PoolInv
  <2>7. \A d \in Text : Spent(d)' => d \in issued' \/ (d \in ActionCalls /\ Injected(d)')
    BY <2>3, <2>4, <2>5 DEF PairInv
  <2>8. QED BY <2>4, <2>6, <2>7 DEF PairInv
<1>5. QED BY <1>1, <1>2, <1>3, <1>4 DEF Tools

\* PARTs 3 and 5 of process().
LEMMA PairDrain ==
  ASSUME TypeInv, PairInv, Drain
  PROVE  PairInv'
<1>. USE DEF TypeInv, TypeOK
<1>1. CASE Part3 \/ SkipResult \/ TickDone
  BY <1>1, PairKept DEF Part3, SkipResult, TickDone, Loop
<1>2. CASE ClaimResult
  <2>. DEFINE c == Head(todo)
            m == Message("tool", c, <<>>, "none")
  <2>1. /\ phase[c] = "waiting" /\ phase' = [phase EXCEPT ![c] = "claimed"]
        /\ history' = Append(history, m)
        /\ UNCHANGED <<last_received, issued, pending_tool_calls, events, announced>>
        /\ at' # "dispatch"
    BY <1>2 DEF ClaimResult, Worker!Claim, ToolMessage, Loop
  <2>2. c \in RemoteCalls
    <3>1. PICK i \in DOMAIN outstanding_tool_call_ids : outstanding_tool_call_ids[i] = c
      BY <1>2 DEF ClaimResult
    <3>2. QED BY <3>1, ElementOfSeq, LenProperties
  <2>3. m \in Messages /\ IsTool(m) /\ m.about = c
    BY <2>2, MessageType, EmptySeq DEF Roles, Text, Message, IsTool, Marks
  <2>. HIDE DEF c, m
  <2>4. ~Answered(c) /\ Spent(c)
    BY <2>1, <2>2 DEF PairInv, Spent
  <2>5. /\ \A d : Answered(d)' <=> Answered(d) \/ d = c
        /\ OneToolMessage'
    BY <2>1, <2>3, <2>4, Pushed DEF PairInv
  <2>6. \A d \in RemoteCalls : phase'[d] = IF d = c THEN "claimed" ELSE phase[d]
    BY <2>1, <2>2
  <2>7. \A d : Spent(d)' <=> Spent(d)
    BY <2>2, <2>4, <2>5, <2>6 DEF Spent
  <2>8. \A d : Injected(d)' <=> Injected(d)
    BY <2>1 DEF Injected
  <2>9. \A d \in RemoteCalls : phase'[d] = "waiting" => ~Answered(d)'
    BY <2>5, <2>6 DEF PairInv
  <2>10. PoolInv'
    BY <2>1, <2>7, <2>8 DEF PairInv, PoolInv
  <2>11. QED BY <2>1, <2>5, <2>7, <2>8, <2>9, <2>10 DEF PairInv
<1>3. CASE DrainEvent
  <2>. DEFINE e == Head(events)
            old == pending_tool_calls
            new == ActionsOf(e)
  <2>1. /\ e \in Events /\ InSeq(events, e) /\ Distinct(events')
        /\ ~InSeq(events', e)
        /\ \A f : InSeq(events', f) => InSeq(events, f)
    BY <1>3, HeadAndTail DEF DrainEvent, PairInv
  <2>2. /\ UNCHANGED <<history, last_received, issued, announced, phase, place>>
        /\ pending_tool_calls' = old \o new
    BY <1>3 DEF DrainEvent
  <2>3. e \in announced /\ \A f \in Events : InSeq(events', f) => f \in announced
    BY <2>1 DEF PairInv
  <2>4. \A d : (Spent(d)' <=> Spent(d)) /\ (Injected(d) => Injected(d)')
    BY <2>1, <2>2 DEF Spent, Answered, Injected
  <2>5. /\ new \in Seq(Calls) /\ Distinct(new)
        /\ \A d : InSeq(new, d) => d = ActionOf[e] /\ d \in ActionCalls
    BY <2>1, NoElement, OneElement DEF ActionsOf, ActionCalls
  <2>. HIDE DEF e, old, new
  <2>6. ASSUME NEW d \in Calls, InSeq(new, d)
        PROVE  d \in ActionCalls /\ Injected(d)' /\ ~Spent(d) /\ ~InSeq(old, d)
    <3>1. d = ActionOf[e] /\ d \in ActionCalls
      BY <2>5, <2>6
    <3>2. Injected(d)'
      BY <2>1, <2>2, <2>3, <3>1 DEF Injected
    <3>3. ~Injected(d)
      <4>1. SUFFICES ASSUME NEW f \in announced, ActionOf[f] = d, ~InSeq(events, f)
                     PROVE  FALSE
        BY DEF Injected
      <4>2. f = e
        BY <2>1, <3>1, <4>1
      <4>3. QED BY <2>1, <4>1, <4>2
    <3>4. d \notin issued
      BY <3>1 DEF PairInv, ModelCalls
    <3>5. ~Spent(d) /\ ~InSeq(old, d)
      BY <3>3, <3>4 DEF PairInv, PoolInv, Text, old
    <3>6. QED BY <3>1, <3>2, <3>5
  <2>7. /\ Distinct(old \o new)
        /\ \A d \in Calls : InSeq(old \o new, d) <=> InSeq(old, d) \/ InSeq(new, d)
    <3>1. old \in Seq(Calls) /\ Distinct(old)
      BY DEF PairInv, PoolInv, old
    <3>2. QED BY <2>5, <2>6, <3>1, InConcat
  <2>8. PoolInv'
    BY <2>2, <2>4, <2>6, <2>7 DEF PairInv, PoolInv, old
  <2>9. QED BY <2>1, <2>2, <2>3, <2>4, <2>8 DEF PairInv, Answered, OneToolMessage
<1>4. QED BY <1>1, <1>2, <1>3 DEF Drain

\* The worker, and the states in which nothing moves.
LEMMA PairEnv ==
  ASSUME TypeInv, PairInv, Env \/ Down \/ UNCHANGED vars
  PROVE  PairInv'
<1>. USE DEF TypeInv, TypeOK
<1>1. ASSUME NEW c \in RemoteCalls, ResultArrives(c)  PROVE PairInv'
  BY <1>1, PairKept DEF ResultArrives, Worker!Resolve
<1>2. ASSUME NEW e \in Events, EventArrives(e)  PROVE PairInv'
  <2>1. /\ e \notin announced /\ announced' = announced \cup {e}
        /\ events' = Append(events, e)
        /\ UNCHANGED <<history, last_received, issued, pending_tool_calls, phase, place>>
    BY <1>2 DEF EventArrives
  <2>2. ~InSeq(events, e)
    BY <2>1 DEF PairInv
  <2>3. /\ Distinct(events')
        /\ \A f : InSeq(events', f) <=> InSeq(events, f) \/ f = e
    BY <2>1, <2>2, InAppend DEF PairInv
  <2>4. \A c : (Spent(c)' <=> Spent(c)) /\ (Injected(c) => Injected(c)')
    BY <2>1, <2>3 DEF Spent, Answered, Injected
  <2>5. \A f \in Events : InSeq(events', f) => f \in announced'
    BY <2>1, <2>3 DEF PairInv
  <2>6. PoolInv'
    BY <2>1, <2>4 DEF PairInv, PoolInv
  <2>7. QED BY <2>1, <2>3, <2>4, <2>5, <2>6 DEF PairInv, Answered, OneToolMessage
<1>3. CASE Down \/ UNCHANGED vars
  BY <1>3, PairKept DEF Down, vars
<1>4. QED BY <1>1, <1>2, <1>3 DEF Env

LEMMA PairStep == TypeInv /\ PairInv /\ [Next]_vars => PairInv'
<1>1. SUFFICES ASSUME TypeInv, PairInv, Next \/ UNCHANGED vars
               PROVE  PairInv'
  OBVIOUS
<1>2. QED
  BY <1>1, PairSend, PairInput, PairTools, PairDrain, PairEnv DEF Next, Main, Chat

-----------------------------------------------------------------------------
(* Lines that raise the interrupt.                                          *)

\* input() sees a line with the interrupt up, so it stops and joins a running reply
\* before it spawns the next: is_processing holds while chat_thread runs.
AloneInv ==
  /\ enter_pressed => at \in {"input", "stopping", "line", "bye"}
  /\ enter_pressed /\ at = "input" => interrupted
  /\ ~is_processing => chat_thread # "running"
  /\ at = "spawn" => is_processing /\ chat_thread # "running"
  /\ at = "line" => chat_thread # "running"

LEMMA AloneInit == Init => AloneInv
BY DEF Init, AloneInv

LEMMA AloneStep ==
  ASSUME ~BareEnter, TypeInv, JoinInv, AloneInv, Next \/ UNCHANGED vars
  PROVE  AloneInv'
<1>. USE DEF AloneInv
<1>1. ASSUME NEW t \in Threads, Send(t)  PROVE AloneInv'
  <2>1. UNCHANGED <<comms, place>>
    BY <1>1 DEF Send, OpenSend, StreamReply, FailReply, EndSend
  <2>2. CASE OpenSend(t) \/ StreamReply(t) \/ FailReply(t)
    <3>1. UNCHANGED flags
      BY <2>2 DEF OpenSend, StreamReply, FailReply
    <3>2. QED BY <2>1, <3>1
  <2>3. CASE EndSend(t)
    <3>1. CASE t = "chat"
      <4>1. stage["chat"] # "idle" /\ chat_thread' = "finished"
        BY <2>3, <3>1 DEF EndSend, ThreadDone
      <4>2. chat_thread = "running"
        BY <4>1 DEF JoinInv
      <4>3. QED BY <2>1, <4>1, <4>2
    <3>2. CASE t = "main"
      BY <2>1, <2>3, <3>2 DEF EndSend, ThreadDone
    <3>3. QED BY <3>1, <3>2
  <2>4. QED BY <1>1, <2>2, <2>3 DEF Send
<1>2. CASE Exchange \/ ExitJoined \/ LeaveLoop
  <2>1. CASE ExchangeLine
    <3>1. interrupted' = TRUE /\ at' = "input" /\ UNCHANGED <<is_processing, chat_thread>>
      BY <2>1 DEF ExchangeLine
    <3>2. QED BY <3>1
  <2>2. CASE ExchangeNothing \/ ExchangeStop \/ ExchangeExit \/ ExitJoined \/ LeaveLoop
    BY <2>2 DEF ExchangeNothing, ExchangeStop, ExchangeExit, RequestExit, ExitJoined,
       LeaveLoop, Join
  <2>3. QED BY <1>2, <2>1, <2>2 DEF Exchange
<1>3. CASE Input
  BY <1>3 DEF Input, InputStop, InputStopped, AcceptLine, Spawn, Bye, ByeJoined,
     InputDone, RequestExit, Join, AtLine
<1>4. CASE RestoreLine
  BY <1>4 DEF RestoreLine
<1>5. ASSUME NEW c, DispatchToolCall(c)  PROVE UNCHANGED <<flags, enter_pressed, interrupted>>
  BY <1>5 DEF DispatchToolCall
<1>6. CASE Tools
  <2>1. CASE DispatchInjected
    BY <1>5, <2>1 DEF DispatchInjected
  <2>2. CASE DispatchNext
    BY <1>5, <2>2 DEF DispatchNext, Loop
  <2>3. CASE InjectedDone \/ TakeCalls \/ NothingReady
    BY <2>3 DEF InjectedDone, TakeCalls, NothingReady
  <2>4. QED BY <1>6, <2>1, <2>2, <2>3 DEF Tools
<1>7. CASE Drain
  BY <1>7 DEF Drain, Part3, ClaimResult, SkipResult, DrainEvent, TickDone, Join, Loop
<1>8. CASE Env \/ Down \/ UNCHANGED vars
  BY <1>8 DEF Env, ResultArrives, EventArrives, Down, vars
<1>9. QED
  BY <1>1, <1>2, <1>3, <1>4, <1>6, <1>7, <1>8 DEF Next, Main, Chat

\* The calls of a reply reach the history no later than the stage of its send leaves
\* "streamed", so before they are taken; the others follow.
AskInv ==
  /\ (\A t \in Threads : stage[t] # "streamed") =>
       \A c \in Calls : InSeq(last_received.tool_calls, c) => Asked(c)
  /\ at = "dispatch" => \A c \in Calls : InSeq(todo, c) => Asked(c)
  /\ \A c \in Text : Spent(c) => c \in ActionCalls \/ Asked(c)

\* What ResultsMatched says of the order, whatever BareEnter.
AskedFirst ==
  \A i \in DOMAIN history : IsTool(history[i]) =>
     \/ history[i].about \in ActionCalls
     \/ \E j \in 1 .. i - 1 : Asks(history[j], history[i].about)

\* A message pushed comes after all the others.
LEMMA PushedAfter ==
  ASSUME history \in Seq(Messages), NEW m \in Messages, history' = Append(history, m),
         AskedFirst, IsTool(m) => m.about \in ActionCalls \/ Asked(m.about)
  PROVE  AskedFirst'
<1>. DEFINE n == Len(history)
<1>1. n \in Nat /\ DOMAIN history = 1 .. n
  BY LenProperties
<1>2. /\ history' \in Seq(Messages) /\ Len(history') = n + 1
      /\ \A i \in 1 .. n : history'[i] = history[i]
      /\ history'[n + 1] = m
  BY AppendProperties
<1>3. DOMAIN history' = 1 .. n + 1
  BY <1>2, LenProperties
<1>. HIDE DEF n
<1>4. ASSUME NEW i \in 1 .. n + 1, IsTool(history'[i])
      PROVE  \/ history'[i].about \in ActionCalls
             \/ \E j \in 1 .. i - 1 : Asks(history'[j], history'[i].about)
  <2>1. CASE i \in 1 .. n
    <3>1. \A j \in 1 .. i - 1 : history'[j] = history[j]
      BY <1>1, <1>2, <2>1
    <3>2. QED BY <1>1, <1>2, <1>4, <2>1, <3>1 DEF AskedFirst
  <2>2. CASE i = n + 1
    <3>1. CASE m.about \in ActionCalls
      BY <1>2, <2>2, <3>1
    <3>2. CASE Asked(m.about)
      <4>1. PICK j \in 1 .. n : Asks(history[j], m.about)
        BY <1>1, <3>2 DEF Asked
      <4>2. j \in 1 .. i - 1 /\ history'[j] = history[j] /\ history'[i] = m
        BY <1>1, <1>2, <2>2, <4>1
      <4>3. QED BY <4>1, <4>2
    <3>3. QED BY <1>2, <1>4, <2>2, <3>1, <3>2
  <2>3. QED BY <1>1, <2>1, <2>2
<1>5. QED BY <1>3, <1>4 DEF AskedFirst, ActionCalls

LEMMA AskInit == Init => AskInv /\ AskedFirst
<1>1. SUFFICES ASSUME Init  PROVE AskInv /\ AskedFirst
  OBVIOUS
<1>2. \A c : ~Spent(c)
  BY <1>1 DEF Init, Spent, Answered, Worker!Init
<1>3. \A y : ~InSeq(<<>>, y)
  BY NoElement
<1>4. QED BY <1>1, <1>2, <1>3 DEF Init, AskInv, AskedFirst

LEMMA AskKept ==
  ASSUME AskInv, AskedFirst, UNCHANGED <<history, last_received, phase>>,
         \/ UNCHANGED stage
         \/ \A t \in Threads : stage'[t] = "streamed" <=> stage[t] = "streamed",
         at' # "dispatch" \/ UNCHANGED place
  PROVE  AskInv' /\ AskedFirst'
BY DEF AskInv, AskedFirst, Spent, Answered, Asked

LEMMA AskSend ==
  ASSUME TypeInv, AskInv, AskedFirst, NEW t \in Threads, Send(t)
  PROVE  AskInv' /\ AskedFirst'
<1>. USE DEF TypeInv, TypeOK
<1>1. CASE OpenSend(t)
  <2>. DEFINE m == Message(RoleOf(t), input_from_user, <<>>, "none")
  <2>1. m \in Messages /\ ~IsTool(m)
    <3>1. RoleOf(t) \in Roles /\ RoleOf(t) # "tool"
      BY DEF RoleOf, Roles
    <3>2. QED BY <3>1, MessageType, EmptySeq DEF Marks, Message, IsTool
  <2>2. history' = Append(history, m)
    BY <1>1 DEF OpenSend
  <2>. HIDE DEF m
  <2>3. (\A c : (Answered(c)' <=> Answered(c)) /\ (Asked(c) => Asked(c)')) /\ AskedFirst'
    BY <2>1, <2>2, Pushed, PushedAfter
  <2>4. UNCHANGED <<phase, place>> /\ last_received'.tool_calls = <<>>
    BY <1>1 DEF OpenSend
  <2>5. \A c : ~InSeq(<<>>, c)
    BY NoElement
  <2>6. QED BY <2>3, <2>4, <2>5 DEF AskInv, Spent
<1>2. CASE StreamReply(t)
  <2>1. UNCHANGED <<history, phase, place>> /\ stage'[t] = "streamed"
    BY <1>2 DEF StreamReply
  <2>2. QED BY <2>1 DEF AskInv, AskedFirst, Spent, Answered, Asked
<1>3. CASE FailReply(t)
  <2>1. \A u \in Threads : stage'[u] = "streamed" <=> stage[u] = "streamed"
    BY <1>3 DEF FailReply
  <2>2. QED BY <1>3, <2>1, AskKept DEF FailReply
<1>4. CASE EndSend(t)
  <2>1. PICK done \in BOOLEAN : history' = history \o Reply(t, done)
    BY <1>4 DEF EndSend
  <2>2. /\ UNCHANGED <<phase, place>>
        /\ last_received'.tool_calls = last_received.tool_calls
    BY <1>4 DEF EndSend
  <2>3. CASE Reply(t, done) = <<>>
    <3>1. history' = history
      BY <2>1, <2>3, ConcatEmptySeq
    <3>2. last_received.tool_calls = <<>>
      BY <2>3 DEF Reply
    <3>3. \A c : ~InSeq(<<>>, c)
      BY NoElement
    <3>4. QED BY <2>2, <3>1, <3>2, <3>3 DEF AskInv, AskedFirst, Spent, Answered, Asked
  <2>4. CASE Reply(t, done) # <<>>
    <3>1. PICK k \in Marks :
            Reply(t, done) = <<Message("assistant", None, last_received.tool_calls, k)>>
      BY <2>4 DEF Reply, Marks
    <3>. DEFINE m == Message("assistant", None, last_received.tool_calls, k)
    <3>2. /\ m \in Messages /\ ~IsTool(m)
          /\ \A c : InSeq(last_received.tool_calls, c) => Asks(m, c)
      BY MessageType DEF Roles, Text, Message, IsTool, Asks, InSeq
    <3>3. history' = Append(history, m)
      BY <2>1, <3>1, <3>2, AppendIsConcat
    <3>. HIDE DEF m
    <3>4. /\ \A c : (Answered(c)' <=> Answered(c)) /\ (Asked(c) => Asked(c)')
          /\ \A c : InSeq(last_received.tool_calls, c) => Asked(c)'
          /\ AskedFirst'
      BY <3>2, <3>3, Pushed, PushedAfter
    <3>5. QED BY <2>2, <3>4 DEF AskInv, Spent
  <2>5. QED BY <2>3, <2>4
<1>5. QED BY <1>1, <1>2, <1>3, <1>4 DEF Send

LEMMA AskInput ==
  ASSUME TypeInv, JoinInv, AskInv, AskedFirst,
         Exchange \/ ExitJoined \/ LeaveLoop \/ Input \/ RestoreLine
  PROVE  AskInv' /\ AskedFirst'
<1>1. CASE Exchange \/ ExitJoined \/ LeaveLoop
  BY <1>1, AskKept DEF Exchange, ExchangeNothing, ExchangeLine, ExchangeStop,
     ExchangeExit, ExitJoined, LeaveLoop
<1>2. CASE InputStop \/ InputStopped \/ AcceptLine \/ Bye \/ ByeJoined \/ InputDone
  BY <1>2, AskKept DEF InputStop, InputStopped, AcceptLine, Bye, ByeJoined, InputDone
<1>3. CASE RestoreLine
  <2>1. \A u \in Threads : stage'[u] = "streamed" <=> stage[u] = "streamed"
    BY <1>3 DEF RestoreLine, TypeInv, TypeOK
  <2>2. QED BY <1>3, <2>1, AskKept DEF RestoreLine
<1>4. CASE Spawn
  <2>1. stage["chat"] = "idle" /\ stage' = [stage EXCEPT !["chat"] = "start"]
    BY <1>4 DEF Spawn, JoinInv
  <2>2. \A u \in Threads : stage'[u] = "streamed" <=> stage[u] = "streamed"
    BY <2>1 DEF TypeInv, TypeOK
  <2>3. QED BY <1>4, <2>2, AskKept DEF Spawn
<1>5. QED BY <1>1, <1>2, <1>3, <1>4 DEF Input

\* The dispatch of a call that was asked for, or that an event injects.
LEMMA AskDispatch ==
  ASSUME TypeInv, PairInv, AskInv, AskedFirst, NEW c \in Calls, ~Spent(c),
         c \in ActionCalls \/ Asked(c), stage["main"] = "idle", DispatchToolCall(c)
  PROVE  /\ AskedFirst'
         /\ \A d : Asked(d) => Asked(d)'
         /\ \A d \in Text : Spent(d)' => d \in ActionCalls \/ Asked(d)'
         /\ \A u \in Threads : stage'[u] = "streamed" <=> stage[u] = "streamed"
<1>. USE DEF TypeInv, TypeOK
<1>1. /\ \A d \in Text : Spent(d)' <=> Spent(d) \/ d = c
      /\ \A d : Asked(d) => Asked(d)'
  BY DispatchSpends
<1>2. \A d \in Text : Spent(d)' => d \in ActionCalls \/ Asked(d)'
  BY <1>1 DEF AskInv
<1>3. ASSUME NEW k \in Marks, ToolMessage(c, k)  PROVE AskedFirst'
  <2>. DEFINE m == Message("tool", c, <<>>, k)
  <2>1. m \in Messages /\ m.about = c
    BY MessageType, EmptySeq DEF Roles, Text, Message
  <2>2. history' = Append(history, m)
    BY <1>3 DEF ToolMessage
  <2>. HIDE DEF m
  <2>3. QED BY <2>1, <2>2, PushedAfter
<1>4. AskedFirst'
  <2>1. CASE Refuse(c)
    BY <1>3, <2>1 DEF Refuse, Marks
  <2>2. CASE RunBuiltIn(c)
    BY <1>3, <2>2 DEF RunBuiltIn, Marks
  <2>3. CASE QueueRemote(c)
    BY <2>3 DEF QueueRemote, AskedFirst
  <2>4. QED BY <2>1, <2>2, <2>3 DEF DispatchToolCall
<1>5. \A u \in Threads : stage'[u] = "streamed" <=> stage[u] = "streamed"
  BY DEF DispatchToolCall, Refuse, RunBuiltIn, QueueRemote, Integrate
<1>6. QED BY <1>1, <1>2, <1>4, <1>5

\* PART 1 of process(): with is_processing down and the main thread here, no thread
\* is inside a reply, so the calls taken are all in the history.
LEMMA AskTools ==
  ASSUME TypeInv, JoinInv, AloneInv, PairInv, AskInv, AskedFirst, Tools
  PROVE  AskInv' /\ AskedFirst'
<1>. USE DEF TypeInv, TypeOK
<1>1. CASE DispatchInjected
  <2>. DEFINE c == Head(pending_tool_calls)
  <2>1. c \in Calls /\ InSeq(pending_tool_calls, c)
    BY <1>1, HeadAndTail DEF DispatchInjected
  <2>2. /\ DispatchToolCall(c) /\ UNCHANGED <<last_received, place>>
        /\ stage["main"] = "idle"
    BY <1>1 DEF DispatchInjected
  <2>. HIDE DEF c
  <2>3. c \in ActionCalls /\ ~Spent(c)
    BY <2>1 DEF PairInv, PoolInv
  <2>4. /\ AskedFirst'
        /\ \A d : Asked(d) => Asked(d)'
        /\ \A d \in Text : Spent(d)' => d \in ActionCalls \/ Asked(d)'
        /\ \A u \in Threads : stage'[u] = "streamed" <=> stage[u] = "streamed"
    BY <2>1, <2>2, <2>3, AskDispatch
  <2>5. QED BY <2>2, <2>4 DEF AskInv
<1>2. CASE InjectedDone \/ NothingReady
  BY <1>2, AskKept DEF InjectedDone, NothingReady
<1>3. CASE TakeCalls
  <2>1. /\ todo' = last_received.tool_calls /\ last_received'.tool_calls = <<>>
        /\ UNCHANGED <<history, phase, stage>>
    BY <1>3 DEF TakeCalls, Taken
  <2>2. \A y : ~InSeq(<<>>, y)
    BY NoElement
  <2>3. \A t \in Threads : stage[t] # "streamed"
    <3>1. stage["main"] = "idle" /\ ~is_processing
      BY <1>3 DEF TakeCalls, ReadyForTools
    <3>2. stage["chat"] = "idle"
      BY <3>1 DEF AloneInv, JoinInv
    <3>3. QED BY <3>1, <3>2
  <2>4. \A c \in Calls : InSeq(last_received.tool_calls, c) => Asked(c)
    BY <2>3 DEF AskInv
  <2>5. QED BY <2>1, <2>2, <2>4 DEF AskInv, AskedFirst, Spent, Answered, Asked
<1>4. CASE DispatchNext
  <2>. DEFINE c == Head(todo)
  <2>1. /\ c \in Calls /\ InSeq(todo, c)
        /\ \A d : InSeq(todo', d) => InSeq(todo, d)
    BY <1>4, HeadAndTail DEF DispatchNext, Loop, LoopsHaveCalls
  <2>2. /\ DispatchToolCall(c) /\ UNCHANGED last_received
        /\ at = "dispatch" /\ stage["main"] = "idle"
    BY <1>4 DEF DispatchNext
  <2>. HIDE DEF c
  <2>3. ~Spent(c) /\ Asked(c)
    BY <2>1, <2>2 DEF PairInv, PoolInv, AskInv
  <2>4. /\ AskedFirst'
        /\ \A d : Asked(d) => Asked(d)'
        /\ \A d \in Text : Spent(d)' => d \in ActionCalls \/ Asked(d)'
        /\ \A u \in Threads : stage'[u] = "streamed" <=> stage[u] = "streamed"
    BY <2>1, <2>2, <2>3, AskDispatch
  <2>5. QED BY <2>1, <2>2, <2>4 DEF AskInv
<1>5. QED BY <1>1, <1>2, <1>3, <1>4 DEF Tools

LEMMA AskDrain ==
  ASSUME TypeInv, PairInv, AskInv, AskedFirst, Drain
  PROVE  AskInv' /\ AskedFirst'
<1>. USE DEF TypeInv, TypeOK
<1>1. CASE Part3 \/ SkipResult \/ TickDone
  BY <1>1, AskKept DEF Part3, SkipResult, TickDone, Loop
<1>2. CASE ClaimResult
  <2>. DEFINE c == Head(todo)
            m == Message("tool", c, <<>>, "none")
  <2>1. /\ phase[c] = "waiting" /\ phase' = [phase EXCEPT ![c] = "claimed"]
        /\ history' = Append(history, m)
        /\ UNCHANGED last_received
        /\ at' # "dispatch"
    BY <1>2 DEF ClaimResult, Worker!Claim, ToolMessage, Loop
  <2>2. c \in RemoteCalls
    <3>1. PICK i \in DOMAIN outstanding_tool_call_ids : outstanding_tool_call_ids[i] = c
      BY <1>2 DEF ClaimResult
    <3>2. QED BY <3>1, ElementOfSeq, LenProperties
  <2>3. m \in Messages /\ IsTool(m) /\ m.about = c
    BY <2>2, MessageType, EmptySeq DEF Roles, Text, Message, IsTool, Marks
  <2>4. \A u \in Threads : stage'[u] = "streamed" <=> stage[u] = "streamed"
    BY <1>2 DEF ClaimResult, Integrate
  <2>. HIDE DEF c, m
  <2>5. Spent(c) /\ (c \in ActionCalls \/ Asked(c))
    BY <2>1, <2>2 DEF AskInv, Spent, Text
  <2>6. /\ \A d : (Answered(d)' <=> Answered(d) \/ d = c) /\ (Asked(d) => Asked(d)')
        /\ AskedFirst'
    BY <2>1, <2>3, <2>5, Pushed, PushedAfter
  <2>7. \A d \in RemoteCalls : phase'[d] = IF d = c THEN "claimed" ELSE phase[d]
    BY <2>1, <2>2
  <2>8. \A d : Spent(d)' <=> Spent(d)
    BY <2>2, <2>5, <2>6, <2>7 DEF Spent
  <2>9. QED BY <2>1, <2>4, <2>6, <2>8 DEF AskInv
<1>3. CASE DrainEvent
  <2>1. \A u \in Threads : stage'[u] = "streamed" <=> stage[u] = "streamed"
    BY <1>3 DEF DrainEvent, Integrate
  <2>2. QED BY <1>3, <2>1, AskKept DEF DrainEvent
<1>4. QED BY <1>1, <1>2, <1>3 DEF Drain

LEMMA AskEnv ==
  ASSUME TypeInv, AskInv, AskedFirst, Env \/ Down \/ UNCHANGED vars
  PROVE  AskInv' /\ AskedFirst'
<1>1. ASSUME NEW c \in RemoteCalls, ResultArrives(c)  PROVE AskInv' /\ AskedFirst'
  BY <1>1, AskKept DEF ResultArrives, Worker!Resolve
<1>2. ASSUME NEW e \in Events, EventArrives(e)  PROVE AskInv' /\ AskedFirst'
  BY <1>2, AskKept DEF EventArrives
<1>3. CASE Down \/ UNCHANGED vars
  BY <1>3, AskKept DEF Down, vars
<1>4. QED BY <1>1, <1>2, <1>3 DEF Env

LEMMA AskStep ==
  ASSUME TypeInv, JoinInv, AloneInv, PairInv, AskInv, AskedFirst, Next \/ UNCHANGED vars
  PROVE  AskInv' /\ AskedFirst'
BY AskSend, AskInput, AskTools, AskDrain, AskEnv DEF Next, Main, Chat

\* For any calls, events and bounds: a call has one tool message at most, and it is
\* a call some reply contained or an event injected; where every line raises the
\* interrupt, the reply's message is before its tool messages in the history.
THEOREM ResultsAreMatched == Spec => []ResultsMatched
<1>. DEFINE Alone == AloneInv /\ AskInv /\ AskedFirst
            IInv  == /\ TypeInv /\ JoinInv /\ PairInv
                     /\ ~BareEnter => Alone
<1>1. Init => IInv
  BY TypeInit, JoinInit, PairInit, AloneInit, AskInit
<1>2. IInv /\ [Next]_vars => IInv'
  <2>1. SUFFICES ASSUME IInv, Next \/ UNCHANGED vars  PROVE IInv'
    OBVIOUS
  <2>2. TypeInv' /\ JoinInv' /\ PairInv'
    BY <2>1, TypeStep, JoinStep, PairStep
  <2>3. ~BareEnter => Alone'
    BY <2>1, AloneStep, AskStep
  <2>4. QED BY <2>2, <2>3
<1>3. IInv => ResultsMatched
  <2>1. SUFFICES ASSUME IInv  PROVE ResultsMatched
    OBVIOUS
  <2>2. ASSUME NEW i \in DOMAIN history, IsTool(history[i])
        PROVE  history[i].about \in ActionCalls \cup issued
    <3>1. history[i] \in Messages
      BY <2>1, <2>2, ElementOfSeq, LenProperties DEF TypeInv, TypeOK
    <3>2. history[i].about \in Text /\ Spent(history[i].about)
      BY <2>2, <3>1 DEF Messages, Spent, Answered
    <3>3. QED BY <2>1, <3>2 DEF PairInv
  <2>3. OneToolMessage /\ (~BareEnter => AskedFirst)
    BY <2>1 DEF PairInv
  <2>4. QED BY <2>2, <2>3 DEF ResultsMatched, OneToolMessage, AskedFirst
<1>4. QED BY <1>1, <1>2, <1>3, PTL DEF Spec

=============================================================================
