------------------------------ MODULE ChatTurn ------------------------------
(***************************************************************************)
(* One ai_root instance, the main chat (source/ai_root.{h,cpp} and the     *)
(* dispatcher in source/tools.cpp), under the main loop of                 *)
(* source/main.cpp: exchange, input, process, over and over.               *)
(*                                                                         *)
(* Two threads run send() on the instance: chat_thread, spawned by input() *)
(* for a submitted line, and the main thread, when it narrates a tool      *)
(* result or an event (integrate_tool_result).  A send is four steps here: *)
(* its text is put in comms.INPUT_FROM_USER ("noted"), it resets           *)
(* last_received and pushes the text to history ("open"), the reply        *)
(* streams ("streamed", or "failed" when nothing arrives), and it ends.    *)
(* Both threads share history (mutex), last_received (no mutex),           *)
(* INPUT_FROM_USER (mutex on some accesses only) and the flags; a data     *)
(* race is an interleaving of these steps.                                 *)
(*                                                                         *)
(* Calls to tools in other processes go through CallService, which         *)
(* ToolWorker implements.  The background instances of PART 2 of process() *)
(* do not occur: no built-in tool of this module spawns one.               *)
(***************************************************************************)
EXTENDS Naturals, Sequences, FiniteSets

CONSTANTS Calls,      \* ids of tool calls; each is issued at most once
          RemoteCalls,\* those no built-in tool claims (dispatched to tool_worker)
          Events,     \* events remote tools push
          ActionOf,   \* ActionOf[e] is the call the event's `action' makes, or None
          Cap,        \* PROPS.max_tool_calls_per_turn
          BareEnter,  \* whether a line may come without the interrupt of its typing
          None,       \* no call, no text, no verdict
          MaxLines,   \* bound: lines the user submits
          MaxPerReply \* bound: tool calls in one reply

ASSUME CallsAssumption  == RemoteCalls \subseteq Calls /\ None \notin Calls
ASSUME EventsAssumption == /\ ActionOf \in [Events -> Calls \cup {None}]
                           /\ \A e, f \in Events :
                                ActionOf[e] = ActionOf[f] => e = f \/ ActionOf[e] = None
ASSUME BareAssumption   == BareEnter \in BOOLEAN
ASSUME BoundsAssumption == Cap \in Nat /\ MaxLines \in Nat /\ MaxPerReply \in Nat

Lines       == 1 .. MaxLines
ActionCalls == {ActionOf[e] : e \in Events} \ {None}
ModelCalls  == Calls \ ActionCalls   \* the ones a reply may contain
Text        == Lines \cup Calls \cup Events \cup {None}

Threads == {"main", "chat"}

VARIABLES
  \* -- ai_root
  history,                   \* messages, oldest first (under history_mutex)
  last_received,             \* complete and tool_calls of the latest reply
  tool_calls_this_turn,
  outstanding_tool_call_ids,
  pending_tool_calls,        \* calls the system injects
  is_processing,
  interrupt_signal,          \* status.interrupt_signal
  running,
  chat_thread,               \* "none", "running" or "finished" (joinable)
  \* -- COMMS
  enter_pressed, interrupted, input_from_user,
  \* -- where each thread is
  at,                        \* the main thread's place in its tick
  todo,                      \* calls the current loop of the tick has left
  stage,                     \* per thread, the step its send() is at
  tmp_line,                  \* the line chat_thread captured
  \* -- the tools
  events,                    \* events the worker has queued
  phase, verdict, given,     \* CallService
  \* -- history variables
  submitted,                 \* lines handed to input() so far
  issued,                    \* calls replies have contained so far
  announced,                 \* events queued so far
  executed,                  \* number of calls dispatched and not refused
  topics                     \* number of fresh topics: user sends, events drained

flags   == <<is_processing, interrupt_signal, running, chat_thread>>
comms   == <<enter_pressed, interrupted, input_from_user>>
place   == <<at, todo>>
service == <<phase, verdict, given>>
toolbox == <<outstanding_tool_call_ids, pending_tool_calls, events, announced>>
talk    == <<history, last_received, stage, issued>>
count   == <<tool_calls_this_turn, executed, topics>>
vars == <<talk, count, toolbox, flags, comms, place, tmp_line, service, submitted>>

\* tool_worker, as the chat sees it: one verdict per call.
Worker == INSTANCE CallService WITH Calls <- RemoteCalls, Verdict <- {"verdict"},
                                    Timeout <- "verdict"

-----------------------------------------------------------------------------

\* A Message of the history; mark tells how a reply ended and a refused call.
Message(role, about, calls, mark) ==
  [role |-> role, about |-> about, tool_calls |-> calls, mark |-> mark]

Init == /\ history = <<>>
        /\ last_received = [complete |-> FALSE, tool_calls |-> <<>>]
        /\ tool_calls_this_turn = 0
        /\ outstanding_tool_call_ids = <<>>
        /\ pending_tool_calls = <<>>
        /\ is_processing = FALSE
        /\ interrupt_signal = FALSE
        /\ running = TRUE
        /\ chat_thread = "none"
        /\ enter_pressed = FALSE
        /\ interrupted = FALSE
        /\ input_from_user = None
        /\ at = "exchange"
        /\ todo = <<>>
        /\ stage = [t \in Threads |-> "idle"]
        /\ tmp_line = None
        /\ events = <<>>
        /\ Worker!Init
        /\ submitted = 0
        /\ issued = {}
        /\ announced = {}
        /\ executed = 0
        /\ topics = 0

-----------------------------------------------------------------------------
(* send(), on either thread.                                               *)

\* The role a send has: the main thread only sends DIRECTOR_NOTEs.
RoleOf(t) == IF t = "chat" THEN "user" ELSE "system"

\* Faulty variant: every send starts a fresh turn.
AlwaysFreshTurn(t) == 0

\* Only a user send starts a fresh turn.
TurnAfter(t) == IF RoleOf(t) = "user" THEN 0 ELSE tool_calls_this_turn

OpenSend(t) ==
  /\ stage[t] = "noted"
  /\ stage' = [stage EXCEPT ![t] = "open"]
  /\ last_received' = [complete |-> FALSE, tool_calls |-> <<>>]
  /\ tool_calls_this_turn' = TurnAfter(t)
  /\ topics' = IF RoleOf(t) = "user" THEN topics + 1 ELSE topics
  /\ history' = Append(history, Message(RoleOf(t), input_from_user, <<>>, "none"))
  /\ UNCHANGED <<issued, executed, toolbox, flags, comms, place, tmp_line,
                 service, submitted>>

\* What a reply may ask for: distinct calls not issued before.
Requests == {s \in UNION {[1 .. n -> ModelCalls \ issued] : n \in 0 .. MaxPerReply} :
               \A i, j \in DOMAIN s : s[i] = s[j] => i = j}

\* The reply arrives, chunk by chunk; a raised interrupt_signal refuses chunks.
StreamReply(t) ==
  /\ stage[t] = "open"
  /\ ~interrupt_signal
  /\ stage' = [stage EXCEPT ![t] = "streamed"]
  /\ \E s \in Requests :
       /\ last_received' = [last_received EXCEPT !.tool_calls = @ \o s]
       /\ issued' = issued \cup {s[i] : i \in DOMAIN s}
  /\ UNCHANGED <<history, count, toolbox, flags, comms, place, tmp_line,
                 service, submitted>>

\* Nothing arrives: no connection, an error status, or stopped before a chunk.
FailReply(t) ==
  /\ stage[t] = "open"
  /\ stage' = [stage EXCEPT ![t] = "failed"]
  /\ UNCHANGED <<history, last_received, issued, count, toolbox, flags, comms,
                 place, tmp_line, service, submitted>>

\* A reply with text or calls is pushed, marked when a stop is requested.  (The
\* mark of one that broke off is for the properties; the code keeps none.)
Reply(t, done) ==
  IF stage[t] = "streamed" \/ last_received.tool_calls # <<>>
  THEN <<Message("assistant", None, last_received.tool_calls,
                 CASE interrupt_signal -> "interrupted"
                   [] ~interrupt_signal /\ ~done -> "broken"
                   [] OTHER -> "none")>>
  ELSE <<>>

\* chat_thread's last act; the main thread goes on with its tick.
ThreadDone(t) == IF t = "chat"
                 THEN is_processing' = FALSE /\ chat_thread' = "finished"
                 ELSE UNCHANGED <<is_processing, chat_thread>>

\* The request returns: complete only if its end was seen and no stop is requested.
EndSend(t) ==
  /\ stage[t] \in {"streamed", "failed"}
  /\ stage' = [stage EXCEPT ![t] = "idle"]
  /\ \E done \in BOOLEAN :
       /\ done => stage[t] = "streamed" /\ ~interrupt_signal
       /\ last_received' = [last_received EXCEPT !.complete = done]
       /\ history' = history \o Reply(t, done)
  /\ ThreadDone(t)
  /\ UNCHANGED <<issued, count, toolbox, interrupt_signal, running, comms, place,
                 tmp_line, service, submitted>>

\* chat_thread's first act: restore the line input() drained.
RestoreLine ==
  /\ stage["chat"] = "start"
  /\ input_from_user' = tmp_line
  /\ stage' = [stage EXCEPT !["chat"] = "noted"]
  /\ UNCHANGED <<history, last_received, issued, count, toolbox, flags,
                 enter_pressed, interrupted, place, tmp_line, service, submitted>>

Send(t) == OpenSend(t) \/ StreamReply(t) \/ FailReply(t) \/ EndSend(t)

-----------------------------------------------------------------------------
(* The main loop: exchange and input.                                      *)

\* The main thread is at p and not inside a send.
MainAt(p) == at = p /\ stage["main"] = "idle"

quiet == <<talk, count, toolbox, service>>   \* what input and exchange leave alone

\* exchange() relays nothing.
ExchangeNothing ==
  /\ MainAt("exchange") /\ running
  /\ at' = "input"
  /\ UNCHANGED <<quiet, flags, comms, todo, tmp_line, submitted>>

\* exchange() relays a submitted line, over whatever INPUT_FROM_USER holds,
\* with the interrupt its typing raised or without: a bare Enter, in the browser
\* or at the keyboard (step 8 of the io worker's pass drops the flag step 7 set).
ExchangeLine ==
  /\ MainAt("exchange") /\ running
  /\ submitted < MaxLines
  /\ submitted' = submitted + 1
  /\ enter_pressed' = TRUE
  /\ input_from_user' = submitted + 1
  /\ interrupted' \in {TRUE} \cup (IF BareEnter THEN {interrupted} ELSE {})
  /\ at' = "input"
  /\ UNCHANGED <<quiet, flags, todo, tmp_line>>

\* exchange() relays a request to stop talking.
ExchangeStop ==
  /\ MainAt("exchange") /\ running
  /\ ~interrupted
  /\ interrupted' = TRUE
  /\ at' = "input"
  /\ UNCHANGED <<quiet, flags, enter_pressed, input_from_user, todo, tmp_line, submitted>>

\* request_exit(), up to its join.
RequestExit == /\ running' = FALSE
               /\ interrupt_signal' = (interrupt_signal \/ is_processing)

\* Ctrl+C, relayed by exchange().
ExchangeExit ==
  /\ MainAt("exchange") /\ running
  /\ RequestExit
  /\ at' = "exit"
  /\ UNCHANGED <<quiet, is_processing, chat_thread, comms, todo, tmp_line, submitted>>

\* Faulty variant: nothing waits for the thread.
NoJoin == UNCHANGED chat_thread

\* join(), once the thread has finished.
Join == chat_thread # "running" /\ chat_thread' = "none"

ExitJoined ==
  /\ at = "exit"
  /\ Join
  /\ at' = "exchange"
  /\ UNCHANGED <<quiet, is_processing, interrupt_signal, running, comms, todo,
                 tmp_line, submitted>>

\* while (chat.running) fails.
LeaveLoop ==
  /\ MainAt("exchange") /\ ~running
  /\ at' = "down"
  /\ UNCHANGED <<quiet, flags, comms, todo, tmp_line, submitted>>

Down == at = "down" /\ UNCHANGED vars

\* input(), branch 1: stop the reply that is streaming, and wait for it.
InputStop ==
  /\ MainAt("input")
  /\ is_processing /\ interrupted
  /\ interrupted' = FALSE
  /\ interrupt_signal' = TRUE
  /\ at' = "stopping"
  /\ UNCHANGED <<quiet, is_processing, running, chat_thread, enter_pressed,
                 input_from_user, todo, tmp_line, submitted>>

InputStopped ==
  /\ at = "stopping"
  /\ Join
  /\ is_processing' = FALSE
  /\ at' = "line"
  /\ UNCHANGED <<quiet, interrupt_signal, running, comms, todo, tmp_line, submitted>>

\* Past branch 1.
AtLine == at = "line" \/ (MainAt("input") /\ ~(is_processing /\ interrupted))

\* input(), branch 2: a line that is not an exit phrase.
AcceptLine ==
  /\ AtLine /\ enter_pressed
  /\ interrupted' = FALSE
  /\ interrupt_signal' = FALSE
  /\ is_processing' = TRUE
  /\ tmp_line' = input_from_user
  /\ input_from_user' = None
  /\ enter_pressed' = FALSE
  /\ at' = "spawn"
  /\ UNCHANGED <<quiet, running, chat_thread, todo, submitted>>

\* A thread left joinable is joined before the next one starts.
Spawn ==
  /\ at = "spawn"
  /\ chat_thread # "running"
  /\ chat_thread' = "running"
  /\ stage' = [stage EXCEPT !["chat"] = "start"]
  /\ at' = "pending"
  /\ UNCHANGED <<history, last_received, issued, count, toolbox, service,
                 is_processing, interrupt_signal, running, comms, todo, tmp_line, submitted>>

\* input(), branch 2: jump_input() finds an exit phrase.
Bye ==
  /\ AtLine /\ enter_pressed
  /\ interrupted' = FALSE
  /\ RequestExit
  /\ at' = "bye"
  /\ UNCHANGED <<quiet, is_processing, chat_thread, enter_pressed,
                 input_from_user, todo, tmp_line, submitted>>

ByeJoined ==
  /\ at = "bye"
  /\ Join
  /\ enter_pressed' = FALSE
  /\ input_from_user' = None
  /\ at' = "pending"
  /\ UNCHANGED <<quiet, is_processing, interrupt_signal, running, interrupted,
                 todo, tmp_line, submitted>>

\* input(), branch 3: no line; a finished thread is joined.
InputDone ==
  /\ AtLine /\ ~enter_pressed
  /\ chat_thread' = IF ~is_processing /\ chat_thread = "finished" THEN "none"
                    ELSE chat_thread
  /\ at' = "pending"
  /\ UNCHANGED <<quiet, is_processing, interrupt_signal, running, comms, todo,
                 tmp_line, submitted>>

-----------------------------------------------------------------------------
(* The main loop: process().                                               *)

\* integrate_tool_result(), up to its call of send().
Integrate(about) == /\ input_from_user' = about
                    /\ stage' = [stage EXCEPT !["main"] = "noted"]

ToolMessage(c, mark) == history' = Append(history, Message("tool", c, <<>>, mark))

Capped == tool_calls_this_turn >= Cap

\* dispatch_tool_call(c): the cap refuses it ...
Refuse(c) ==
  /\ Capped
  /\ ToolMessage(c, "refused")
  /\ UNCHANGED <<count, outstanding_tool_call_ids, service, input_from_user, stage>>

\* ... or a built-in tool runs it on the spot and narrates the result, or not ...
RunBuiltIn(c) ==
  /\ ~Capped /\ c \notin RemoteCalls
  /\ tool_calls_this_turn' = tool_calls_this_turn + 1
  /\ executed' = executed + 1
  /\ ToolMessage(c, "none")
  /\ Integrate(c) \/ UNCHANGED <<input_from_user, stage>>
  /\ UNCHANGED <<topics, outstanding_tool_call_ids, service>>

\* ... or tool_worker gets it.
QueueRemote(c) ==
  /\ ~Capped /\ c \in RemoteCalls
  /\ tool_calls_this_turn' = tool_calls_this_turn + 1
  /\ executed' = executed + 1
  /\ outstanding_tool_call_ids' = Append(outstanding_tool_call_ids, c)
  /\ Worker!Submit(c)
  /\ UNCHANGED <<topics, history, input_from_user, stage>>

DispatchToolCall(c) ==
  /\ Refuse(c) \/ RunBuiltIn(c) \/ QueueRemote(c)
  /\ UNCHANGED <<issued, events, announced, flags, enter_pressed, interrupted,
                 tmp_line, submitted>>

\* PART 1, handle_instance_tools(): the calls the system injected ...
DispatchInjected ==
  /\ MainAt("pending")
  /\ ~is_processing
  /\ pending_tool_calls # <<>>
  /\ DispatchToolCall(Head(pending_tool_calls))
  /\ pending_tool_calls' = Tail(pending_tool_calls)
  /\ UNCHANGED <<last_received, place>>

InjectedDone ==
  /\ MainAt("pending")
  /\ is_processing \/ pending_tool_calls = <<>>
  /\ at' = "ready"
  /\ UNCHANGED <<quiet, flags, comms, todo, tmp_line, submitted>>

\* ... then those of a complete reply, taken as one.
ReadyForTools == /\ ~is_processing
                 /\ last_received.complete
                 /\ last_received.tool_calls # <<>>

\* Faulty variant of Taken: the reply keeps its calls.
NotTaken == last_received

Taken == [last_received EXCEPT !.tool_calls = <<>>]

TakeCalls ==
  /\ MainAt("ready")
  /\ ReadyForTools
  /\ todo' = last_received.tool_calls
  /\ last_received' = Taken
  /\ at' = "dispatch"
  /\ UNCHANGED <<history, stage, issued, count, toolbox, service, flags, comms,
                 tmp_line, submitted>>

NothingReady ==
  /\ MainAt("ready")
  /\ ~ReadyForTools
  /\ at' = "part3"
  /\ UNCHANGED <<quiet, flags, comms, todo, tmp_line, submitted>>

\* Faulty variant of Loop: left before its first round.
LoopLeft(p, next, left) == todo' = left /\ at' = next

\* A loop over todo goes on at p until todo is empty, then the tick is at next.
Loop(p, next, left) == /\ todo' = left
                       /\ at' = IF left = <<>> THEN next ELSE p

DispatchNext ==
  /\ MainAt("dispatch")
  /\ DispatchToolCall(Head(todo))
  /\ Loop("dispatch", "part3", Tail(todo))
  /\ UNCHANGED <<last_received, pending_tool_calls>>

\* PART 3: join a thread that is no longer processing, and wait for it if it is.
Part3 ==
  /\ MainAt("part3")
  /\ IF is_processing \/ chat_thread = "none" THEN UNCHANGED chat_thread ELSE Join
  /\ Loop("claim", "events", outstanding_tool_call_ids)
  /\ UNCHANGED <<quiet, is_processing, interrupt_signal, running, comms, tmp_line, submitted>>

\* Faulty variant of Without: the id stays in the list.
KeepAll(s, i) == s

\* erase(it): s without its i-th element.
Without(s, i) == SubSeq(s, 1, i - 1) \o SubSeq(s, i + 1, Len(s))

\* PART 5: the next outstanding call has its result.  (The code erases the id when
\* the narration has returned; only this thread looks at the list.)
ClaimResult ==
  /\ MainAt("claim")
  /\ Worker!Claim(Head(todo))
  /\ ToolMessage(Head(todo), "none")
  /\ Integrate(Head(todo))
  /\ \E i \in DOMAIN outstanding_tool_call_ids :
       /\ outstanding_tool_call_ids[i] = Head(todo)
       /\ outstanding_tool_call_ids' = Without(outstanding_tool_call_ids, i)
  /\ Loop("claim", "events", Tail(todo))
  /\ UNCHANGED <<last_received, issued, count, pending_tool_calls, events, announced,
                 flags, enter_pressed, interrupted, tmp_line, submitted>>

\* It has none yet.
SkipResult ==
  /\ MainAt("claim")
  /\ verdict[Head(todo)] = None
  /\ Loop("claim", "events", Tail(todo))
  /\ UNCHANGED <<quiet, flags, comms, tmp_line, submitted>>

\* The calls an event injects.
ActionsOf(e) == IF ActionOf[e] = None THEN <<>> ELSE <<ActionOf[e]>>

\* PART 5: an event is a fresh topic; its message, if it has one, is narrated and
\* its action injected.
DrainEvent ==
  /\ MainAt("events")
  /\ events # <<>>
  /\ events' = Tail(events)
  /\ tool_calls_this_turn' = 0
  /\ topics' = topics + 1
  /\ Integrate(Head(events)) \/ UNCHANGED <<input_from_user, stage>>
  /\ pending_tool_calls' = pending_tool_calls \o ActionsOf(Head(events))
  /\ UNCHANGED <<history, last_received, issued, executed, outstanding_tool_call_ids,
                 announced, service, flags, enter_pressed, interrupted, place,
                 tmp_line, submitted>>

TickDone ==
  /\ MainAt("events")
  /\ events = <<>>
  /\ at' = "exchange"
  /\ UNCHANGED <<quiet, flags, comms, todo, tmp_line, submitted>>

-----------------------------------------------------------------------------
(* The worker, on its own thread.                                          *)

ResultArrives(c) ==
  /\ Worker!Resolve(c)
  /\ UNCHANGED <<talk, count, toolbox, flags, comms, place, tmp_line, submitted>>

EventArrives(e) ==
  /\ e \notin announced
  /\ announced' = announced \cup {e}
  /\ events' = Append(events, e)
  /\ UNCHANGED <<talk, count, outstanding_tool_call_ids, pending_tool_calls, flags,
                 comms, place, tmp_line, service, submitted>>

-----------------------------------------------------------------------------

Exchange == ExchangeNothing \/ ExchangeLine \/ ExchangeStop \/ ExchangeExit
Input    == \/ InputStop \/ InputStopped \/ AcceptLine \/ Spawn
            \/ Bye \/ ByeJoined \/ InputDone
Tools    == \/ DispatchInjected \/ InjectedDone
            \/ TakeCalls \/ NothingReady \/ DispatchNext
Drain    == \/ Part3 \/ ClaimResult \/ SkipResult
            \/ DrainEvent \/ TickDone

Main == Exchange \/ ExitJoined \/ LeaveLoop \/ Input \/ Tools \/ Drain \/ Send("main")
Chat == RestoreLine \/ Send("chat")
Env  == (\E c \in RemoteCalls : ResultArrives(c)) \/ (\E e \in Events : EventArrives(e))

Next == Main \/ Chat \/ Env \/ Down

Spec == Init /\ [][Next]_vars

(***************************************************************************)
(* Both threads are scheduled; a request to the model returns (the clients *)
(* set a read timeout); a call gets its verdict (ToolWorker's MainServed). *)
(***************************************************************************)
Fairness == /\ WF_vars(Main)
            /\ WF_vars(Chat)
            /\ \A c \in RemoteCalls : WF_vars(ResultArrives(c))

FairSpec == Spec /\ Fairness

-----------------------------------------------------------------------------
(* Properties.                                                             *)

Places == {"exchange", "exit", "down", "input", "stopping", "line", "spawn", "bye",
           "pending", "ready", "dispatch", "part3", "claim", "events"}
Stages == {"idle", "start", "noted", "open", "streamed", "failed"}
Roles  == {"user", "system", "assistant", "tool"}
Marks  == {"none", "interrupted", "broken", "refused"}
Messages == [role : Roles, about : Text, tool_calls : Seq(Calls), mark : Marks]

\* The shape of every variable: messages, flags and queues of known calls.
TypeOK ==
  /\ history \in Seq(Messages)
  /\ last_received \in [complete : BOOLEAN, tool_calls : Seq(Calls)]
  /\ tool_calls_this_turn \in 0 .. Cap
  /\ outstanding_tool_call_ids \in Seq(RemoteCalls)
  /\ pending_tool_calls \in Seq(Calls)
  /\ is_processing \in BOOLEAN /\ interrupt_signal \in BOOLEAN /\ running \in BOOLEAN
  /\ chat_thread \in {"none", "running", "finished"}
  /\ enter_pressed \in BOOLEAN /\ interrupted \in BOOLEAN
  /\ input_from_user \in Text /\ tmp_line \in Text
  /\ at \in Places /\ todo \in Seq(Calls)
  /\ stage \in [Threads -> Stages]
  /\ events \in Seq(Events) /\ announced \subseteq Events
  /\ phase \in [RemoteCalls -> {"new", "waiting", "claimed", "abandoned", "dropped"}]
  /\ verdict \in [RemoteCalls -> {"verdict", None}]
  /\ given \in [RemoteCalls -> {"verdict", None}]
  /\ submitted \in Nat /\ issued \subseteq Calls
  /\ executed \in Nat /\ topics \in Nat

\* Over a whole session, however replies, narrations and events interleave, the
\* calls executed are at most Cap for each topic the outside opened (a user
\* message, an event) and Cap more: the model cannot keep a chain of calls going on the
\* narrations of its own results (tool_calls_this_turn, ai_root.h:295).
ChainBounded == executed <= Cap * (topics + 1)

IsTool(m)  == m.role = "tool"
Asks(m, c) == m.role = "assistant" /\ \E k \in DOMAIN m.tool_calls : m.tool_calls[k] = c

\* Every tool message of the history answers a call a reply contained or an event
\* injected, and a call has one tool message at most: it is refused, or run, or
\* claimed, once, with both threads pushing and resetting last_received.  When every
\* line raises the interrupt, the assistant message that made the call comes
\* first: the pairing backends rebuild their request from (AI_BACKENDS.md:92).  A
\* bare Enter breaks that one: input() raises is_processing before it joins the old
\* thread (ai_root.cpp:701, 712), whose end clears it again, and the calls of the
\* new reply are then dispatched while it is still streaming.
ResultsMatched ==
  \A i \in DOMAIN history : IsTool(history[i]) =>
     /\ history[i].about \in ActionCalls \cup issued
     /\ \/ BareEnter
        \/ history[i].about \in ActionCalls
        \/ \E j \in 1 .. i - 1 : Asks(history[j], history[i].about)
     /\ \A j \in DOMAIN history :
          IsTool(history[j]) /\ history[i].about = history[j].about => i = j

\* The outstanding ids are the calls the worker still owes a verdict for: none is
\* forgotten (its result would stay in the worker), none is claimed twice.
OutstandingWaited ==
  /\ \A c \in RemoteCalls : phase[c] = "waiting" <=>
        \E i \in DOMAIN outstanding_tool_call_ids : outstanding_tool_call_ids[i] = c
  /\ \A i, j \in DOMAIN outstanding_tool_call_ids :
        outstanding_tool_call_ids[i] = outstanding_tool_call_ids[j] => i = j

\* chat_thread is joined before the main loop is left, whichever way the exit was
\* asked for: destroying a joinable thread aborts the program (main.cpp:520).
JoinedOnExit == at = "down" => chat_thread = "none"

\* A call the chat dispatched to a tool gets its result into the history, unless
\* the program exits first, whatever the user types or stops meanwhile.
RemoteAnswered ==
  \A c \in RemoteCalls : phase[c] = "waiting" ~>
     \/ at = "down"
     \/ \E i \in DOMAIN history : IsTool(history[i]) /\ history[i].about = c

-----------------------------------------------------------------------------
(* What the code's documents say and the code keeps in part or not at all. *)

Answered(c) == \E i \in DOMAIN history : IsTool(history[i]) /\ history[i].about = c

\* AI_BACKENDS.md:92: a call without a result is one whose result has not come
\* back yet.  So with both threads at rest a call of an uninterrupted reply that
\* completed is answered, owed by the worker, or still to be dispatched.
NoCallLost ==
  at = "exchange" /\ stage["main"] = "idle" /\ chat_thread # "running" =>
     \A i \in DOMAIN history : \A c \in ModelCalls :
        Asks(history[i], c) /\ history[i].mark = "none" =>
           \/ Answered(c)
           \/ c \in RemoteCalls /\ phase[c] # "new"
           \/ \E k \in DOMAIN last_received.tool_calls : last_received.tool_calls[k] = c

=============================================================================
