------------------------------ MODULE TaskRun ------------------------------
(***************************************************************************)
(* TOOL_TASK_RUNNER (src/source/tools.cpp): a .task script driven from     *)
(* inside a tool call.  handle_tool() loops on the main thread until the   *)
(* script is done: it takes the results its instance is waiting for out of *)
(* the tool worker, lets the instance process its own tool calls, advances *)
(* the script by one state and exchanges with the terminal.  A [RUN] line  *)
(* calls handle_tool() again, so the runs form a stack: frames[1] is the   *)
(* chat, the last frame is the one whose loop is turning.                  *)
(*                                                                         *)
(* The chat thread of an instance, the tool worker's thread and the person *)
(* at the keyboard act between any two steps of the loop.  Built-in tools  *)
(* other than this one answer within the dispatch and are left out.        *)
(***************************************************************************)
EXTENDS TaskScript, SequencesExt

CONSTANTS
  Commands,         \* task -> its script
  Delayed,          \* tasks whose DELAY_TOOL_RETURNS is true (the default)
  MAX_GOSUB_DEPTH,
  MAX_RUN_DEPTH,
  ChatReplies,      \* the calls a reply of the chat may carry
  TaskReplies,      \* the calls a reply of a script's instance may carry
  MaxCalls,         \* bound: remote calls; further ones are refused by the cap per turn
  MaxEvents,        \* bound: events of remote tools
  MaxStops          \* bound: presses of Ctrl+C

Task == DOMAIN Commands
Calls == 1 .. MaxCalls

ASSUME TaskRunAssumption ==
  /\ Task \subseteq STRING
  /\ \A t \in Task : Commands[t] \in Seq([op : Op, name : STRING])
  /\ ChatReplies \cup TaskReplies \subseteq Seq(STRING)
  /\ {MAX_GOSUB_DEPTH, MAX_RUN_DEPTH, MaxCalls, MaxEvents, MaxStops} \subseteq Nat

VARIABLES
  frames,       \* the chat, and the runs open inside one another
  next_id,      \* the next call put to the worker
  ready,        \* calls whose result waits in the worker
  abandoned,    \* calls the worker was told to drop
  narrated,     \* call -> how often its result was told to an instance
  landed,       \* events waiting in the worker
  events,       \* events the tools still send
  stops         \* presses of Ctrl+C left

vars == <<frames, next_id, ready, abandoned, narrated, landed, events, stops>>
workerVars == <<next_id, ready, abandoned, narrated, landed, events>>

\* A fresh instance with the locals of its handle_tool().  scripted is what the
\* script last set the keyboard to, late that the time of its wait is over,
\* waiting is wait_baseline_set, todo the calls being dispatched; outstanding are
\* the calls it waits for, whose numbers say in which order it made them; leaving are
\* the calls its finished children still waited for, orphans the calls of
\* children of those, which nobody will ever give up.
NewFrame(task, by) ==
  [ task |-> task, by |-> by, pc |-> "drain",
    state |-> "GET_COMMAND", i |-> 1, call_stack |-> <<>>,
    keyboard |-> TRUE, keyboard_was |-> TRUE, scripted |-> TRUE,
    ask_limit |-> FALSE, late |-> FALSE, enter |-> FALSE,
    is_processing |-> FALSE, complete |-> FALSE, tool_calls |-> <<>>, todo |-> <<>>,
    pending_tool_calls |-> 0, outstanding |-> {}, held |-> <<>>, held_events |-> 0,
    baseline |-> 0, waiting |-> FALSE, leaving |-> {}, orphans |-> {} ]

Chat == [NewFrame("", "user") EXCEPT !.pc = "idle"]

Init ==
  /\ frames = <<Chat>>
  /\ next_id = 1 /\ ready = {} /\ abandoned = {} /\ landed = 0
  /\ narrated = [c \in Calls |-> 0]
  /\ events = MaxEvents /\ stops = MaxStops

Top == frames[Len(frames)]
Script == Commands[Top.task]
Line == Script[Top.i]
Running == Len(frames) > 1

\* The frame on top becomes f.
SetTop(f) == frames' = [frames EXCEPT ![Len(frames)] = f]

\* How many [RUN] lines are being carried out.
RunDepth == Cardinality({n \in DOMAIN frames : frames[n].by = "run"})

\* The results of ids are told to an instance; send() returns with the reply.
Told(ids) == narrated' = [c \in Calls |-> IF c \in ids THEN narrated[c] + 1 ELSE narrated[c]]

\* f after its instance narrated something: the reply came to its end, perhaps
\* with calls, or it failed.
Narrating(f) ==
  {[f EXCEPT !.complete = TRUE, !.tool_calls = r] :
      r \in IF f.task = "" THEN ChatReplies ELSE TaskReplies}
    \cup {[f EXCEPT !.complete = FALSE, !.tool_calls = <<>>]}

NarratingIf(happens, f) == IF happens THEN Narrating(f) ELSE {f}

\* Calls in the order they were made.
InOrder(ids) == {q \in SetToSeqs(ids) : \A j, k \in DOMAIN q : j < k => q[j] < q[k]}

-----------------------------------------------------------------------------
(* The instance's process().                                               *)

\* The held results, in the order of the calls, and the held events.  The
\* worker's lock may be busy for any of them.
Drain ==
  /\ Running /\ Top.pc = "drain"
  /\ \E got \in SUBSET (Top.outstanding \cap ready), happened \in 0 .. landed :
       LET f == [Top EXCEPT !.pc = "process",
                   !.baseline = IF Top.state = "EXECUTE_COMMAND" THEN Len(Top.held) ELSE @]
       IN IF Top.task \in Delayed
          THEN /\ \E results \in InOrder(got) :
                    SetTop([f EXCEPT !.held = @ \o results,
                                     !.outstanding = @ \ got,
                                     !.held_events = @ + happened])
               /\ ready' = ready \ got
               /\ landed' = landed - happened
          ELSE got = {} /\ happened = 0 /\ SetTop(f) /\ UNCHANGED <<ready, landed>>
  /\ UNCHANGED <<next_id, abandoned, narrated, events, stops>>

\* PART 1 begins: the calls of events, then the calls of the last reply, unless
\* a reply is being generated.
TakeCalls ==
  /\ Top.pc = IF Running THEN "process" ELSE "idle"
  /\ LET actions == IF Top.is_processing THEN 0 ELSE Top.pending_tool_calls
         ours    == IF Top.is_processing \/ ~Top.complete THEN <<>> ELSE Top.tool_calls
     IN SetTop([Top EXCEPT !.pc = "dispatch",
                  !.todo = [n \in 1 .. actions |-> "remote"] \o ours,
                  !.pending_tool_calls = @ - actions,
                  !.tool_calls = IF ours = <<>> THEN @ ELSE <<>>])
  /\ UNCHANGED <<workerVars, stops>>

\* dispatch_tool_call() of a remote tool: into the worker, or refused by the
\* cap on calls per turn, which MaxCalls stands for.
DispatchRemote ==
  /\ Top.pc = "dispatch" /\ Top.todo # <<>> /\ Head(Top.todo) = "remote"
  /\ IF next_id <= MaxCalls
     THEN /\ SetTop([Top EXCEPT !.todo = Tail(@), !.outstanding = @ \cup {next_id}])
          /\ next_id' = next_id + 1
     ELSE SetTop([Top EXCEPT !.todo = Tail(@)]) /\ UNCHANGED next_id
  /\ UNCHANGED <<ready, abandoned, narrated, landed, events, stops>>

\* dispatch_tool_call() of run_automation_task: the caller is inside
\* handle_tool() until the script is done.
DispatchTask ==
  /\ Top.pc = "dispatch" /\ Top.todo # <<>> /\ Head(Top.todo) \in Task
  /\ frames' = Append([frames EXCEPT ![Len(frames)].todo = Tail(@)],
                      NewFrame(Head(Top.todo), "call"))
  /\ UNCHANGED <<workerVars, stops>>

\* The same for a name no .task file has: the instance is told the names there are.
DispatchUnknown ==
  /\ Top.pc = "dispatch" /\ Top.todo # <<>> /\ Head(Top.todo) \notin Task \cup {"remote"}
  /\ \E f \in Narrating([Top EXCEPT !.todo = Tail(@)]) : SetTop(f)
  /\ UNCHANGED <<workerVars, stops>>

\* PART 2, PART 3 and PART 5: finished children are destroyed, the worker is
\* told to drop what they waited for, and what has landed is narrated at once.
Claim ==
  /\ Top.pc = "dispatch" /\ Top.todo = <<>>
  /\ \E got \in SUBSET (Top.outstanding \cap ready), happened \in 0 .. landed :
       /\ \E f \in NarratingIf(got # {} \/ happened > 0, Top) :
            SetTop([f EXCEPT !.pc = IF Running THEN "advance" ELSE "idle",
                      !.outstanding = @ \ got,
                      !.pending_tool_calls = @ + happened,
                      !.leaving = {}])
       /\ Told(got)
       /\ ready' = ready \ (got \cup Top.leaving)
       /\ landed' = landed - happened
  /\ abandoned' = abandoned \cup Top.leaving
  /\ UNCHANGED <<next_id, events, stops>>

-----------------------------------------------------------------------------
(* One state of the script.                                                *)

Advancing(state) == Running /\ Top.pc = "advance" /\ Top.state = state

\* The script's state becomes f and the tick goes on to exchange().
Step(f) ==
  /\ SetTop([f EXCEPT !.pc = "exchange"])
  /\ UNCHANGED <<workerVars, stops>>

Stopped == [Top EXCEPT !.state = "DONE"]

Continue(i) == [Top EXCEPT !.i = i, !.state = "GET_COMMAND"]

\* Continue at line i, or stop the script when the block there is broken.
ContinueOrStop(i) == IF i \in 1 .. Past(Script) THEN Continue(i) ELSE Stopped

\* [PAUSE], [ASK] and a [FILE_IN] that asks: the keyboard is on while it waits.
Await(state, limited) ==
  [Top EXCEPT !.state = state, !.keyboard_was = Top.keyboard, !.keyboard = TRUE,
              !.ask_limit = limited, !.late = FALSE]

\* The sub is entered; what is open may not become deeper than the limit.
Call(name, resume) ==
  LET sub == FindSub(Script, name)
  IN  IF \/ sub > Len(Script)
         \/ resume = 0
         \/ Len(Top.call_stack) >= MAX_GOSUB_DEPTH
      THEN Stopped
      ELSE [Top EXCEPT !.call_stack = Append(@, resume), !.i = sub + 1, !.state = "GET_COMMAND"]

\* A mutant: a definition is entered when the main flow runs into it.
FallInto == IF Top.call_stack # <<>> THEN Stopped ELSE Continue(Top.i + 1)

SkipDefinition ==
  IF Top.call_stack # <<>> THEN Stopped ELSE ContinueOrStop(AfterDefinition(Script, Top.i))

Return ==
  IF Top.call_stack = <<>> THEN Stopped
  ELSE [Top EXCEPT !.i = Top.call_stack[Len(Top.call_stack)],
                   !.call_stack = Front(@)]

AskIf == IF FindEndif(Script, Top.i + 1) > Len(Script) THEN Stopped
         ELSE [Top EXCEPT !.state = "EXECUTE_IF"]

\* The states a line read in GET_COMMAND leads to.
Read(line) ==
  CASE line.op = "plain"        -> {[Top EXCEPT !.state = "EXECUTE_COMMAND"]}
    [] line.op = "pause"        -> {Await("WAIT_ENTER", FALSE)}
    [] line.op = "ask_bad"      -> {Stopped}
    [] line.op = "ask"          -> {Await("WAIT_ASK", Top.ask_limit)}
    [] line.op \in {"ask_end", "ask_sub"} -> {Await("WAIT_ASK", TRUE)}
    [] line.op = "file_in"      -> {[Top EXCEPT !.state = "EXECUTE_COMMAND"],
                                    Await("WAIT_ASK", Top.ask_limit)}
    [] line.op = "wait"         -> {[Top EXCEPT !.state = "WAIT_TOOL_RESULT"]}
    [] line.op = "run"          -> {[Top EXCEPT !.state = "RUN_TASK"]}
    [] line.op = "end"          -> {Stopped}
    [] line.op = "keyboard_on"  -> {[Continue(Top.i + 1) EXCEPT !.keyboard = TRUE, !.scripted = TRUE]}
    [] line.op = "keyboard_off" -> {[Continue(Top.i + 1) EXCEPT !.keyboard = FALSE, !.scripted = FALSE]}
    [] line.op = "if"           -> {AskIf}
    [] line.op \in {"else", "maybe"} -> {ContinueOrStop(IF FindEndif(Script, Top.i + 1) > Len(Script)
                                                        THEN 0 ELSE FindEndif(Script, Top.i + 1))}
    [] line.op = "sub"          -> {SkipDefinition}
    [] line.op = "gosub"        -> {Call(line.name, Top.i + 1)}
    [] line.op \in {"return", "endsub"} -> {Return}
    [] line.op \in Instant \cup {"endif"} -> {Continue(Top.i + 1)}

GetCommand ==
  /\ Advancing("GET_COMMAND")
  /\ IF Top.i > Len(Script) THEN Step(Stopped)
     ELSE \E f \in Read(Line) : Step(f)

\* The line, or the question of an [IF], goes to the model on a thread.
Execute ==
  /\ \E s \in {"EXECUTE_COMMAND", "EXECUTE_IF"} :
       /\ Advancing(s)
       /\ Step([Top EXCEPT !.state = IF s = "EXECUTE_IF" THEN "WAIT_IF_RESPONSE" ELSE "WAIT_RESPONSE",
                           !.is_processing = TRUE, !.complete = FALSE, !.tool_calls = <<>>])

WaitResponse ==
  /\ Advancing("WAIT_RESPONSE")
  /\ IF ~Top.is_processing /\ Top.complete /\ Top.tool_calls = <<>>
     THEN Step([Continue(Top.i + 1) EXCEPT !.complete = FALSE])
     ELSE Step(Top)

\* The calls of the answer itself are not waited for.
WaitIfResponse ==
  /\ Advancing("WAIT_IF_RESPONSE")
  /\ IF ~Top.is_processing /\ Top.complete
     THEN \E answer \in {"yes", "no", "maybe"} :
            Step([Continue(Branch(Script, Top.i, answer)) EXCEPT !.complete = FALSE])
     ELSE Step(Top)

Entered == [Top EXCEPT !.enter = FALSE, !.keyboard = Top.keyboard_was]

WaitEnter ==
  /\ Advancing("WAIT_ENTER")
  /\ Step(IF Top.enter THEN [Entered EXCEPT !.i = @ + 1, !.state = "GET_COMMAND"] ELSE Top)

\* A mutant: the keyboard stays forced on when nobody answered in time.
AskTimedOutKeyboardOn ==
  LET line == Line
      called == IF line.op = "ask_sub"
                THEN Call(line.name, ResumeAfterAsk(Script, Top.i)) ELSE Stopped
  IN  [called EXCEPT !.ask_limit = FALSE]

AskTimedOut ==
  LET line == Line
      called == IF line.op = "ask_sub"
                THEN Call(line.name, ResumeAfterAsk(Script, Top.i)) ELSE Stopped
  IN  [called EXCEPT !.ask_limit = FALSE, !.keyboard = Top.keyboard_was]

\* The typed line is the next input, or what the [IF] behind the [ASK] judges.
Answered ==
  LET judged == Top.i + 1 <= Len(Script) /\ Script[Top.i + 1].op = "if"
  IN  [Entered EXCEPT !.ask_limit = FALSE,
         !.i = IF judged THEN @ + 1 ELSE @,
         !.state = IF ~judged THEN "EXECUTE_COMMAND"
                   ELSE IF FindEndif(Script, Top.i + 2) > Len(Script) THEN "DONE"
                   ELSE "EXECUTE_IF"]

WaitAsk ==
  /\ Advancing("WAIT_ASK")
  /\ Step(IF Top.enter THEN Answered
          ELSE IF Top.ask_limit /\ Top.late THEN AskTimedOut ELSE Top)

-----------------------------------------------------------------------------
(* [WAIT_FOR_RESULT] and [RUN], which the loop itself carries out.         *)

\* A mutant: the result taken stays among the held ones.
TakeHeldCopy(f, n) == f

\* The held result at position n is told here instead of at the end.
TakeHeld(f, n) == [f EXCEPT !.held = SubSeq(@, 1, n - 1) \o SubSeq(@, n + 1, Len(@))]

\* A mutant: the wait has no bound of its own.
NeverGivesUp == FALSE

GaveUp == Top.waiting /\ Top.late

\* The first result held since the last plain line was read is taken for the
\* answer; with none in time, the script is told so and goes on.
WaitToolResult ==
  /\ Advancing("WAIT_TOOL_RESULT")
  /\ LET n    == Top.baseline + 1
         done == [Continue(Top.i + 1) EXCEPT !.pc = "exchange", !.waiting = FALSE]
     IN \/ /\ Len(Top.held) >= n
           /\ \E f \in Narrating(TakeHeld(done, n)) : SetTop(f)
           /\ Told({Top.held[n]})
        \/ /\ Len(Top.held) < n /\ GaveUp
           /\ \E f \in Narrating(done) : SetTop(f)
           /\ UNCHANGED narrated
        \/ /\ Len(Top.held) < n /\ ~GaveUp
           /\ SetTop([Top EXCEPT !.pc = "exchange", !.waiting = TRUE,
                                 !.late = IF Top.waiting THEN @ ELSE FALSE])
           /\ UNCHANGED narrated
  /\ UNCHANGED <<next_id, ready, abandoned, landed, events, stops>>

RunTask ==
  /\ Advancing("RUN_TASK")
  /\ IF Line.name \notin Task \/ RunDepth + 1 >= MAX_RUN_DEPTH
     THEN Step(Stopped)
     ELSE /\ frames' = Append(frames, NewFrame(Line.name, "run"))
          /\ UNCHANGED <<workerVars, stops>>

-----------------------------------------------------------------------------
(* The end of the tick and of the run.                                     *)

\* exchange(): the terminal's lines and Ctrl+C reach the run on top only.
Exchange ==
  /\ Running /\ Top.pc = "exchange"
  /\ \E typed \in BOOLEAN, stop \in BOOLEAN :
       /\ typed => Top.keyboard /\ ~Top.enter
       /\ stop => stops > 0
       /\ stops' = IF stop THEN stops - 1 ELSE stops
       /\ LET done == stop \/ Top.state = "DONE"
          IN SetTop([Top EXCEPT !.enter = @ \/ typed,
                       !.state = IF stop THEN "DONE" ELSE @,
                       !.pc = IF done THEN "close" ELSE "drain"])
  /\ UNCHANGED workerVars

\* The chat thread is joined, what is held is told whatever made the script
\* end, the actions of held events go to the caller, and the caller's own line
\* or call goes on.
Close ==
  /\ Running /\ Top.pc = "close" /\ ~Top.is_processing
  /\ LET caller == frames[Len(frames) - 1]
         back   == [caller EXCEPT
                      !.pending_tool_calls = @ + Top.held_events,
                      !.leaving = @ \cup Top.outstanding,
                      !.orphans = @ \cup Top.leaving \cup Top.orphans,
                      !.i     = IF Top.by = "run" THEN @ + 1 ELSE @,
                      !.state = IF Top.by = "run" THEN "GET_COMMAND" ELSE @,
                      !.pc    = IF Top.by = "run" THEN "exchange" ELSE @]
     IN \E f \in Narrating(back) : frames' = Append(SubSeq(frames, 1, Len(frames) - 2), f)
  /\ Told(Range(Top.held))
  /\ UNCHANGED <<next_id, ready, abandoned, landed, events, stops>>

-----------------------------------------------------------------------------
(* The threads beside the loop.                                            *)

\* The chat thread of the run on top: send() returns.
ReplyEnds ==
  /\ Top.is_processing
  /\ \E r \in TaskReplies, complete \in BOOLEAN :
       SetTop([Top EXCEPT !.is_processing = FALSE, !.complete = complete,
                          !.tool_calls = IF complete THEN r ELSE <<>>])
  /\ UNCHANGED <<workerVars, stops>>

\* The chat has a reply with calls to run, once it has run those it had.
ChatReply ==
  /\ ~Running /\ Top.pc = "idle" /\ Top.tool_calls = <<>> /\ Top.todo = <<>>
  /\ \E r \in ChatReplies : SetTop([Top EXCEPT !.complete = TRUE, !.tool_calls = r])
  /\ UNCHANGED <<workerVars, stops>>

\* The calls some frame, or a finished run not yet destroyed, waits for.
Awaited(f) == f.outstanding \cup f.leaving \cup f.orphans

\* The worker's thread: the result of a call lands, answer or timeout error.
ResultLands ==
  /\ \E n \in DOMAIN frames : \E c \in Awaited(frames[n]) \ (ready \cup abandoned) :
       ready' = ready \cup {c}
  /\ UNCHANGED <<frames, next_id, abandoned, narrated, landed, events, stops>>

EventLands ==
  /\ events > 0
  /\ events' = events - 1
  /\ landed' = landed + 1
  /\ UNCHANGED <<frames, next_id, ready, abandoned, narrated, stops>>

\* 30 s of [WAIT_FOR_RESULT], or the seconds of an [ASK], are over.
TimeIsUp ==
  /\ Running /\ ~Top.late
  /\ \/ Top.state = "WAIT_TOOL_RESULT" /\ Top.waiting
     \/ Top.state = "WAIT_ASK" /\ Top.ask_limit
  /\ SetTop([Top EXCEPT !.late = TRUE])
  /\ UNCHANGED <<workerVars, stops>>

Loop ==
  \/ Drain \/ TakeCalls \/ DispatchRemote \/ DispatchTask \/ DispatchUnknown \/ Claim
  \/ GetCommand \/ Execute \/ WaitResponse \/ WaitIfResponse \/ WaitEnter \/ WaitAsk
  \/ WaitToolResult \/ RunTask \/ Exchange \/ Close

Next == Loop \/ ReplyEnds \/ ChatReply \/ ResultLands \/ EventLands \/ TimeIsUp

Spec == Init /\ [][Next]_vars

\* The main thread turns, the backend's request ends and the clock runs.
FairSpec == Spec /\ WF_vars(Loop) /\ WF_vars(ReplyEnds) /\ WF_vars(TimeIsUp)

-----------------------------------------------------------------------------
(* Properties.                                                             *)

\* No result of a remote call is told twice or lost with the run that asked for
\* it: a call is waited for by one instance, held by one script, told once,
\* left behind by a script that is over, or given up, and only one of these
\* (held_results and outstanding_tool_call_ids; the results of a script stopped
\* by Ctrl+C or [END] are told like those of one that ran out of lines,
\* tools_task_script.h:124).
CallsAccounted ==
  \A c \in 1 .. next_id - 1 :
    narrated[c]
      + Cardinality({n \in DOMAIN frames : c \in frames[n].outstanding})
      + Cardinality({at \in (DOMAIN frames) \X Calls :
                       at[2] \in DOMAIN frames[at[1]].held /\ frames[at[1]].held[at[2]] = c})
      + Cardinality({n \in DOMAIN frames : c \in frames[n].leaving})
      + Cardinality({n \in DOMAIN frames : c \in frames[n].orphans})
      + Cardinality(abandoned \cap {c})
    = 1

\* A script is inside the lines of a definition exactly while a call is open
\* ("A sub is a block of lines that only runs when something calls it",
\* tools_task_script.h:127), whatever the branches, calls, returns and timed-out
\* questions before: no scan of the lines lands in a body, or out of one, by
\* mistake.
BodyOnlyWhenCalled ==
  \A n \in 2 .. Len(frames) :
    LET f == frames[n]
        s == Commands[f.task]
    IN  f.state # "DONE" /\ f.i <= Len(s) => (f.call_stack # <<>> <=> InDefinition(s, f.i))

\* The keyboard is on while a script waits for a line, and otherwise as the
\* script set it, however the wait ended (AUTOMATIONS.md:40).
KeyboardAsScripted ==
  \A n \in 2 .. Len(frames) :
    LET f == frames[n]
    IN  f.state # "DONE" =>
          f.keyboard = (f.state \in {"WAIT_ENTER", "WAIT_ASK"} \/ f.scripted)

\* The loop of a task keeps the main thread, so it must end: a run ends unless
\* it waits for ever for a line nobody types, or for a reply that failed.
WaitsForTheUser ==
  /\ Running /\ ~Top.enter
  /\ \/ Top.state = "WAIT_ENTER"
     \/ Top.state = "WAIT_ASK" /\ ~Top.ask_limit

WaitsForAFailedReply ==
  /\ Running /\ ~Top.is_processing /\ ~Top.complete
  /\ Top.state \in {"WAIT_RESPONSE", "WAIT_IF_RESPONSE"}

RunEnds == (Running ~> ~Running) \/ <>[]WaitsForTheUser \/ <>[]WaitsForAFailedReply
=============================================================================
