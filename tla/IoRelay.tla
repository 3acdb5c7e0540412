------------------------------- MODULE IoRelay -------------------------------
(***************************************************************************)
(* IO_WORKER_CLASS (source/io_worker.{h,cpp}): keyboard, voice and browser *)
(* on one side, the main loop on the other.  The worker's thread runs one  *)
(* pass every 20 ms over its own COMMS, comms_buffer; exchange() relays    *)
(* between comms_buffer and the COMMS of whoever drives the main thread.   *)
(* The two exclude each other with two flags, INTERUPTED and PROCESSING.   *)
(*                                                                         *)
(* A pass is four steps: it looks at INTERUPTED, reads the keyboard and    *)
(* snapshots comms_buffer (steps 1 to 5), merges the input of its sources  *)
(* (5.5 to 8), and shares and shows what came from the chat (9 to 13).     *)
(* A line is the sequence of the pieces it is made of: keystrokes, spoken  *)
(* texts, submissions of the page.  INPUT_FROM_LLM stands for the streams  *)
(* of thinking, system text and attachments too, which are relayed alike;  *)
(* INPUT_FROM_SYSTEM is kept for the messages the worker itself adds.      *)
(*                                                                         *)
(* The chat's COMMS is written by others than exchange(): chat_thread puts *)
(* the line it was given back into INPUT_FROM_USER before it sends it, and *)
(* the main loop puts the program's own prompts there.  Such a prompt holds*)
(* no piece of the user's: it is the empty line.                           *)
(*                                                                         *)
(* The worker's look at INTERUPTED and its store to PROCESSING are two     *)
(* steps, so a pass may begin inside an exchange.  Both threads are then   *)
(* in comms_buffer, whose contents are undefined: overlapped remembers it, *)
(* and nothing is claimed of the data from then on.                        *)
(*                                                                         *)
(* BLOCKING keeps its default, TRUE.  The main thread may spend time in    *)
(* TOOL_DELEGATOR, which relays to the COMMS of its own instance.          *)
(***************************************************************************)
EXTENDS Naturals, Sequences, FiniteSets

CONSTANTS ExitPhrases, \* the spoken texts that are an exit phrase
          MaxInputs    \* bound on what comes from outside, see Inputs

ASSUME BoundsAssumption == MaxInputs \in Nat

Sources == {"key", "voice", "web"}
Kinds   == {"char", "enter"}
Hosts   == {"chat", "expert"}  \* whose COMMS the main thread relays to

VARIABLES
  \* -- the worker's thread
  io,             \* its place in a pass
  RUN, INTERUPTED,
  key,            \* KEYBOARD_INPUT: line, enter, interrupted
  buffer,         \* comms_buffer
  snapshot,       \* what step 5 copied to every channel
  held,           \* held_voice_line; empty when no line is held
  screen, spoken, tts_pending, page, \* what each channel was given, in order
  \* -- what feeds it
  tty, ctrl_c,    \* keystrokes not yet read; Ctrl+C among them
  voca_events, transcripts,          \* Voca's two queues
  posts, web_interrupt,              \* WEB_SERVER_CLASS's
  \* -- the main thread
  main,
  host, tool,     \* whose COMMS is relayed to; how far a consultation is
  comms,          \* per host
  running,        \* the main loop's condition
  tmp_line,       \* what input() has drained and not yet given to chat_thread
  thread, thread_line, \* chat_thread, and the line it is to put back
  \* -- history variables
  arrived,        \* per source, how many inputs there were
  captured,       \* per source, the pieces the worker took, in order
  handed,         \* pieces exchange() has handed over, in order
  given,          \* the last line it gave the chat with an Enter
  warned,         \* spoken pieces whose interrupt exchange() has handed over
  overtaken,      \* spoken pieces taken in a pass that also took an Enter
  strayed,        \* Ctrl+C was handed to a specialist
  overlapped,     \* a pass has begun inside an exchange
  signals, noticed, shown, \* voice signals; status messages taken and shown
  produced,       \* chunks the model's reply has streamed
  exit_asked,     \* Ctrl+C was pressed
  consulted       \* how often a specialist was

flags   == <<RUN, INTERUPTED>>
channels == <<screen, spoken, tts_pending, page, shown>>
feeds   == <<tty, ctrl_c, voca_events, transcripts, posts, web_interrupt, arrived, signals>>
mine    == <<key, buffer, snapshot, held>>
loop    == <<host, tool, running, tmp_line>>
chat    == <<thread, thread_line>>
ghosts  == <<captured, handed, given, warned, overtaken, noticed, strayed, overlapped>>
count   == <<produced, exit_asked, consulted>>
vars == <<io, flags, mine, channels, feeds, main, loop, chat, comms, ghosts, count>>

PROCESSING == io \in {"pass", "read", "merged"}

Comms == [enter : BOOLEAN, user : Seq(Sources \X Nat), interrupted : BOOLEAN,
          exit : BOOLEAN, enabled : BOOLEAN, llm : Seq(Nat), system : Nat]

Fresh == [enter |-> FALSE, user |-> <<>>, interrupted |-> FALSE,
          exit |-> FALSE, enabled |-> TRUE, llm |-> <<>>, system |-> 0]

Init ==
  /\ io = "idle"
  /\ RUN = TRUE /\ INTERUPTED = FALSE
  /\ key = [line |-> <<>>, enter |-> FALSE, interrupted |-> FALSE]
  /\ buffer = Fresh /\ snapshot = Fresh
  /\ held = <<>>
  /\ screen = <<>> /\ spoken = <<>> /\ tts_pending = <<>> /\ page = <<>> /\ shown = 0
  /\ tty = <<>> /\ ctrl_c = FALSE /\ voca_events = <<>> /\ transcripts = <<>>
  /\ posts = <<>> /\ web_interrupt = FALSE
  /\ arrived = [s \in Sources |-> 0] /\ signals = 0
  /\ main = "tick" /\ host = "chat" /\ tool = "none" /\ running = TRUE
  /\ comms = [h \in Hosts |-> Fresh]
  /\ tmp_line = <<>> /\ thread = "none" /\ thread_line = <<>>
  /\ captured = [s \in Sources |-> <<>>] /\ handed = <<>> /\ given = <<>>
  /\ warned = {} /\ overtaken = {} /\ noticed = 0
  /\ strayed = FALSE /\ overlapped = FALSE
  /\ produced = 0 /\ exit_asked = FALSE /\ consulted = 0

-----------------------------------------------------------------------------
(* What arrives, on threads of its own.                                    *)

\* What came from the user, the voice service, the page and the model.
Inputs == arrived["key"] + arrived["voice"] + arrived["web"] + signals + produced
            + consulted + (IF exit_asked THEN 1 ELSE 0)

Arrive(s) == /\ Inputs < MaxInputs
             /\ arrived' = [arrived EXCEPT ![s] = @ + 1]

Press(kind) ==
  /\ Arrive("key")
  /\ tty' = Append(tty, [n |-> arrived["key"] + 1, kind |-> kind])
  /\ UNCHANGED <<io, flags, mine, channels, ctrl_c, voca_events, transcripts, posts,
                 web_interrupt, signals, main, loop, chat, comms, ghosts, count>>

PressCtrlC ==
  /\ Inputs < MaxInputs /\ ~exit_asked
  /\ exit_asked' = TRUE
  /\ ctrl_c' = TRUE
  /\ UNCHANGED <<io, flags, mine, channels, tty, voca_events, transcripts, posts, arrived,
                 web_interrupt, signals, main, loop, chat, comms, ghosts, produced,
                 consulted>>

Say ==
  /\ Arrive("voice")
  /\ transcripts' = Append(transcripts, arrived["voice"] + 1)
  /\ UNCHANGED <<io, flags, mine, channels, tty, ctrl_c, voca_events, posts, web_interrupt,
                 signals, main, loop, chat, comms, ghosts, count>>

\* onInterrupt, onWake, onSleep.
Signal(kind) ==
  /\ Inputs < MaxInputs
  /\ signals' = signals + 1
  /\ voca_events' = Append(voca_events, kind)
  /\ UNCHANGED <<io, flags, mine, channels, tty, ctrl_c, transcripts, posts, web_interrupt,
                 arrived, main, loop, chat, comms, ghosts, count>>

\* The page sends the interrupt of a line before the line, or none.
Post ==
  /\ Arrive("web")
  /\ posts' = Append(posts, arrived["web"] + 1)
  /\ web_interrupt' \in {web_interrupt, TRUE}
  /\ UNCHANGED <<io, flags, mine, channels, tty, ctrl_c, voca_events, transcripts, signals,
                 main, loop, chat, comms, ghosts, count>>

\* The reply of the instance in charge streams, under output_buffer_mutex.  A tool
\* runs when the reply that asked for it is over.
Stream ==
  /\ Inputs < MaxInputs
  /\ tool # "none" => host = "expert"
  /\ produced' = produced + 1
  /\ comms' = [comms EXCEPT ![host].llm = Append(@, produced + 1)]
  /\ UNCHANGED <<io, flags, mine, channels, feeds, main, loop, chat, ghosts, exit_asked,
                 consulted>>

-----------------------------------------------------------------------------
(* The worker's pass.                                                      *)

\* Faulty variant: the worker does not look.
LookAnyway ==
  /\ io = "idle" /\ RUN
  /\ io' = "loaded"
  /\ UNCHANGED <<flags, mine, channels, feeds, main, loop, chat, comms, ghosts, count>>

\* The worker looks at INTERUPTED ...
LookAtFlag ==
  /\ io = "idle" /\ RUN /\ ~INTERUPTED
  /\ io' = "loaded"
  /\ UNCHANGED <<flags, mine, channels, feeds, main, loop, chat, comms, ghosts, count>>

\* ... and then announces its pass.
BeginPass ==
  /\ io = "loaded"
  /\ io' = "pass"
  /\ overlapped' = (overlapped \/ main = "holding")
  /\ UNCHANGED <<flags, mine, channels, feeds, main, loop, chat, comms, captured, handed,
                 given, warned, overtaken, noticed, strayed, count>>

Pieces(strokes) == [k \in DOMAIN strokes |-> <<"key", strokes[k].n>>]
Submitted(strokes) == \E k \in DOMAIN strokes : strokes[k].kind = "enter"

\* Steps 1 to 5: keyboard_input() reads everything there is; what is typed while
\* the chat's keyboard is disabled is dropped, Ctrl+C never is.
ReadKeyboard ==
  /\ io = "pass"
  /\ LET typed  == IF buffer.enabled THEN tty ELSE <<>>
         synced == [buffer EXCEPT !.exit = @ \/ ctrl_c]
     IN  /\ key' = [line |-> key.line \o Pieces(typed),
                    enter |-> Submitted(typed),
                    interrupted |-> typed # <<>>]
         /\ captured' = [captured EXCEPT !["key"] = @ \o Pieces(typed)]
         /\ buffer' = synced
         /\ snapshot' = synced
  /\ tty' = <<>>
  /\ ctrl_c' = FALSE
  /\ io' = "read"
  /\ UNCHANGED <<flags, held, channels, voca_events, transcripts, posts, web_interrupt,
                 arrived, signals, main, loop, chat, comms, handed, given, warned,
                 overtaken, noticed, strayed, overlapped, count>>

\* Faulty variant: a second line replaces the first.
SubmitOver(b, line) == [snapshot EXCEPT !.user = line, !.enter = TRUE]

\* A line joins the one already pending, or is put in a channel's copy, and that
\* copy becomes comms_buffer.
Submit(b, line) == IF b.enter THEN [b EXCEPT !.user = @ \o line]
                   ELSE [snapshot EXCEPT !.user = line, !.enter = TRUE]

\* Faulty variant: the line does not wait for its interrupt.
NeverHeldBack(b) == held # <<>>

\* A held line goes out once its interrupt has been handed over.
Released(b) == held # <<>> /\ ~b.interrupted

\* popVocaEvent(): at most one event per pass, signals before text.
VocaEvent == IF voca_events # <<>> THEN Head(voca_events)
             ELSE IF transcripts # <<>> THEN "text" ELSE "none"

\* A spoken line joins the one already held.
Hold(line, n) == Append(line, <<"voice", n>>)

\* Steps 5.5 to 8.
MergeInput ==
  /\ io = "read"
  /\ LET posted  == posts # <<>> /\ buffer.enabled
         web     == IF posted THEN Submit(buffer, <<<<"web", Head(posts)>>>>) ELSE buffer
         release == Released(web)
         voiced  == IF release THEN Submit(web, held) ELSE web
         event   == VocaEvent
         said    == event = "text" /\ Head(transcripts) \notin ExitPhrases
         status  == IF event = "status" THEN [voiced EXCEPT !.system = @ + 1] ELSE voiced
         stop    == key.interrupted \/ event = "interrupt" \/ said \/ web_interrupt
         stopped == IF stop THEN [status EXCEPT !.interrupted = TRUE] ELSE status
         kept    == IF release THEN <<>> ELSE held
     IN  /\ buffer' = IF key.enter THEN Submit(stopped, key.line) ELSE stopped
         /\ held' = IF said THEN Hold(kept, Head(transcripts)) ELSE kept
         /\ voca_events' = IF event \in {"interrupt", "status"} THEN Tail(voca_events)
                           ELSE voca_events
         /\ transcripts' = IF event = "text" THEN Tail(transcripts) ELSE transcripts
         /\ noticed' = IF event = "status" THEN noticed + 1 ELSE noticed
         /\ overtaken' = IF said /\ key.enter
                         THEN overtaken \cup {<<"voice", Head(transcripts)>>} ELSE overtaken
         /\ captured' = [captured EXCEPT
                           !["web"] = IF posted THEN Append(@, <<"web", Head(posts)>>) ELSE @,
                           !["voice"] = IF said THEN Append(@, <<"voice", Head(transcripts)>>)
                                        ELSE @]
  /\ posts' = IF posts # <<>> THEN Tail(posts) ELSE posts
  /\ web_interrupt' = FALSE
  /\ key' = [line |-> IF key.enter THEN <<>> ELSE key.line,
             enter |-> FALSE, interrupted |-> FALSE]
  /\ io' = "merged"
  /\ UNCHANGED <<flags, snapshot, channels, tty, ctrl_c, arrived, signals, main, loop, chat,
                 comms, handed, given, warned, strayed, overlapped, count>>

\* Faulty variant: comms_buffer keeps what the channels were given.
NotCleared(b) == b

\* Step 9 clears, in comms_buffer, what the channels now hold.
Cleared(b) == [b EXCEPT !.llm = <<>>, !.system = 0]

\* Steps 9 to 13: every channel drains its own copy.  The screen shows it all;
\* the voice takes a prefix of what waits, when it is idle; the page takes it
\* if a browser is connected.
ShareOutput ==
  /\ io = "merged"
  /\ screen' = screen \o buffer.llm
  /\ shown' = shown + buffer.system
  /\ LET waiting == tts_pending \o buffer.llm
     IN  \E k \in 0 .. Len(waiting) :
            /\ spoken' = spoken \o SubSeq(waiting, 1, k)
            /\ tts_pending' = SubSeq(waiting, k + 1, Len(waiting))
  /\ page' \in {page, page \o buffer.llm}
  /\ buffer' = Cleared(buffer)
  /\ io' = "idle"
  /\ UNCHANGED <<flags, key, snapshot, held, feeds, main, loop, chat, comms, ghosts, count>>

EndWorker ==
  /\ io = "idle" /\ ~RUN
  /\ io' = "ended"
  /\ UNCHANGED <<flags, mine, channels, feeds, main, loop, chat, comms, ghosts, count>>

-----------------------------------------------------------------------------
(* The main thread: exchange(), called by the main loop or by a tool.      *)

Raise ==
  /\ main = "tick"
  /\ running \/ tool # "none"
  /\ INTERUPTED' = TRUE
  /\ main' = "raised"
  /\ UNCHANGED <<io, RUN, mine, channels, feeds, loop, chat, comms, ghosts, count>>

\* The wait ends when PROCESSING is seen down.
WaitOut ==
  /\ main = "raised" /\ ~PROCESSING
  /\ main' = "holding"
  /\ UNCHANGED <<io, flags, mine, channels, feeds, loop, chat, comms, ghosts, count>>

\* Faulty variant: INTERRUPTED stays up in comms_buffer.
InterruptStays(b) == [b EXCEPT !.enter = FALSE, !.user = <<>>, !.exit = FALSE]

\* comms_buffer after its input fields were moved out of it.
TakenInput(b) == [b EXCEPT !.enter = FALSE, !.user = <<>>, !.interrupted = FALSE,
                           !.exit = FALSE]

\* Faulty variant: Ctrl+C is not relayed.
HandWithoutExit(c, b) == [c EXCEPT !.enter = @ \/ b.enter,
                                   !.user = IF b.user # <<>> THEN b.user ELSE @,
                                   !.interrupted = @ \/ b.interrupted, !.llm = <<>>]

\* A COMMS c after comms_buffer b's input was moved into it and c's output taken.
Handed(c, b) == [c EXCEPT !.enter = @ \/ b.enter,
                          !.user = IF b.user # <<>> THEN b.user ELSE @,
                          !.interrupted = @ \/ b.interrupted,
                          !.exit = @ \/ b.exit,
                          !.llm = <<>>]

Relay ==
  /\ main = "holding"
  /\ comms' = [comms EXCEPT ![host] = Handed(@, buffer)]
  /\ buffer' = [TakenInput(buffer) EXCEPT !.llm = @ \o comms[host].llm,
                                          !.enabled = comms[host].enabled]
  /\ handed' = handed \o buffer.user
  /\ given' = IF host = "chat" /\ buffer.enter THEN buffer.user ELSE given
  /\ warned' = IF buffer.interrupted THEN warned \cup {held[k] : k \in DOMAIN held}
               ELSE warned
  /\ strayed' = (strayed \/ (host = "expert" /\ buffer.exit))
  /\ INTERUPTED' = FALSE
  /\ main' = "relayed"
  /\ UNCHANGED <<io, RUN, key, snapshot, held, channels, feeds, loop, chat, captured,
                 overtaken, noticed, overlapped, count>>

-----------------------------------------------------------------------------
(* The main loop after its own exchange: Ctrl+C, then ai_root::input().    *)

\* request_exit() joins chat_thread.
HonourExit ==
  /\ main = "relayed" /\ tool = "none" /\ comms["chat"].exit
  /\ thread = "none"
  /\ comms' = [comms EXCEPT !["chat"].exit = FALSE]
  /\ running' = FALSE
  /\ main' = "tick"
  /\ UNCHANGED <<io, flags, mine, channels, feeds, host, tool, tmp_line, chat, ghosts, count>>

\* input() is reached; an interrupt has it stop the reply and join its thread first.
AtInput == /\ main = "relayed" /\ tool = "none" /\ ~comms["chat"].exit
           /\ comms["chat"].interrupted => thread = "none"

\* Without an Enter: the interrupt is consumed by whoever has something to stop.
NoLine ==
  /\ AtInput /\ ~comms["chat"].enter
  /\ \E stopped \in {comms["chat"].interrupted, FALSE} :
       comms' = [comms EXCEPT !["chat"].interrupted = stopped]
  /\ main' = "processing"
  /\ UNCHANGED <<io, flags, mine, channels, feeds, loop, chat, ghosts, count>>

\* jump_input(): a typed or posted line may be an exit phrase; no spoken one is.
JumpInput ==
  /\ AtInput /\ comms["chat"].enter
  /\ thread = "none"
  /\ comms["chat"].user # <<>>
  /\ \A k \in DOMAIN comms["chat"].user : comms["chat"].user[k][1] # "voice"
  /\ comms' = [comms EXCEPT !["chat"].enter = FALSE, !["chat"].user = <<>>,
                            !["chat"].interrupted = FALSE]
  /\ running' = FALSE
  /\ main' = "processing"
  /\ UNCHANGED <<io, flags, mine, channels, feeds, host, tool, tmp_line, chat, ghosts, count>>

\* The line is drained ...
TakeLine ==
  /\ AtInput /\ comms["chat"].enter
  /\ tmp_line' = comms["chat"].user
  /\ comms' = [comms EXCEPT !["chat"].enter = FALSE, !["chat"].user = <<>>,
                            !["chat"].interrupted = FALSE]
  /\ main' = "joining"
  /\ UNCHANGED <<io, flags, mine, channels, feeds, host, tool, running, chat, ghosts, count>>

\* ... and given to a thread, once the thread before it has ended.
LaunchThread ==
  /\ main = "joining" /\ thread = "none"
  /\ thread' = "launched" /\ thread_line' = tmp_line
  /\ tmp_line' = <<>>
  /\ main' = "processing"
  /\ UNCHANGED <<io, flags, mine, channels, feeds, host, tool, running, comms, ghosts, count>>

\* chat_thread puts its line back for send() to peek at.  What it does after that is
\* Stream, and no longer about INPUT_FROM_USER: it counts as ended here.
RestoreLine ==
  /\ thread = "launched"
  /\ comms' = [comms EXCEPT !["chat"].user = thread_line]
  /\ thread' = "none" /\ thread_line' = <<>>
  /\ UNCHANGED <<io, flags, mine, channels, feeds, main, loop, ghosts, count>>

-----------------------------------------------------------------------------
(* The rest of the tick: process() and sidetrack.                          *)

\* A tool's result, a task's report or a question of sidetrack's is to be sent.
Narrate ==
  /\ main = "processing"
  /\ comms' = [comms EXCEPT !["chat"].user = <<>>]
  /\ UNCHANGED <<io, flags, mine, channels, feeds, main, loop, chat, ghosts, count>>

EndTick ==
  /\ main = "processing"
  /\ main' = "tick"
  /\ UNCHANGED <<io, flags, mine, channels, feeds, loop, chat, comms, ghosts, count>>

\* TOOL_DELEGATOR::handle_tool exchanges once with the chat's COMMS ...
CallTool ==
  /\ main = "processing" /\ Inputs < MaxInputs
  /\ consulted' = consulted + 1
  /\ tool' = "asked"
  /\ main' = "tick"
  /\ UNCHANGED <<io, flags, mine, channels, feeds, host, running, tmp_line, chat, comms,
                 ghosts, produced, exit_asked>>

\* ... then waits for its specialist: nothing of the specialist's COMMS is read before
\* it is done.
Consult ==
  /\ main = "relayed" /\ tool = "asked" /\ host = "chat"
  /\ host' = "expert"
  /\ main' = "tick"
  /\ comms' = [comms EXCEPT !["expert"] = Fresh]
  /\ UNCHANGED <<io, flags, mine, channels, feeds, tool, running, tmp_line, chat, ghosts, count>>

KeepWaiting ==
  /\ main = "relayed" /\ host = "expert"
  /\ main' = "tick"
  /\ UNCHANGED <<io, flags, mine, channels, feeds, loop, chat, comms, ghosts, count>>

\* The specialist is done when its thread is; the exchange that follows takes the end
\* of its reply.  A reply that is all thinking is noted, with one more exchange.
SpecialistDone ==
  /\ main = "relayed" /\ host = "expert" /\ comms["expert"].llm = <<>>
  /\ host' = "chat"
  /\ \/ main' = "processing" /\ tool' = "none"
     \/ main' = "tick" /\ tool' = "answered"
  /\ UNCHANGED <<io, flags, mine, channels, feeds, running, tmp_line, chat, comms, ghosts, count>>

ToolReturns ==
  /\ main = "relayed" /\ tool = "answered"
  /\ tool' = "none"
  /\ main' = "processing"
  /\ UNCHANGED <<io, flags, mine, channels, feeds, host, running, tmp_line, chat, comms,
                 ghosts, count>>

\* A script or a pause turns the keyboard off and on; of interest while more may come.
SetKeyboard ==
  /\ main = "relayed" /\ Inputs < MaxInputs
  /\ comms' = [comms EXCEPT ![host].enabled = ~@]
  /\ UNCHANGED <<io, flags, mine, channels, feeds, main, loop, chat, ghosts, count>>

\* Behind the main loop: thread_stop() ends the worker and returns when it has ended.
StopWorker ==
  /\ main = "tick" /\ ~running /\ tool = "none"
  /\ RUN' = FALSE
  /\ main' = "stopping"
  /\ UNCHANGED <<io, INTERUPTED, mine, channels, feeds, loop, chat, comms, ghosts, count>>

JoinWorker ==
  /\ main = "stopping" /\ io = "ended"
  /\ main' = "ended"
  /\ UNCHANGED <<io, flags, mine, channels, feeds, loop, chat, comms, ghosts, count>>

Ended == main = "ended" /\ UNCHANGED vars

-----------------------------------------------------------------------------

Arrival == \/ \E kind \in Kinds : Press(kind)
           \/ PressCtrlC
           \/ Say
           \/ \E kind \in {"interrupt", "status"} : Signal(kind)
           \/ Post
           \/ Stream
Pass == LookAtFlag \/ BeginPass \/ ReadKeyboard \/ MergeInput \/ ShareOutput \/ EndWorker
Exchange == Raise \/ WaitOut \/ Relay
Input == HonourExit \/ NoLine \/ JumpInput \/ TakeLine \/ LaunchThread
Consultation == Consult \/ KeepWaiting \/ SpecialistDone \/ ToolReturns
Tick == Exchange \/ Input \/ EndTick \/ Consultation \/ StopWorker \/ JoinWorker
Next == \/ Arrival \/ Pass \/ Tick \/ RestoreLine
        \/ Narrate \/ CallTool \/ SetKeyboard \/ Ended

Spec == Init /\ [][Next]_vars

\* The threads run.  The main thread sleeps 20 ms per tick with the flag down, and
\* the worker looks at it every 20 ms: it is not always raised when looked at.
FairSpec == /\ Spec
            /\ SF_vars(LookAtFlag)
            /\ WF_vars(Pass)
            /\ WF_vars(Tick)
            /\ WF_vars(RestoreLine)

-----------------------------------------------------------------------------

\* A line is pending exactly when its Enter is.
Paired(c) == c.enter <=> c.user # <<>>

\* The types of the variables; and comms_buffer and its copies hold a line exactly when
\* they hold an Enter, which is not so of the chat's COMMS: see LineValid.
WorkerOK ==
  /\ io \in {"idle", "loaded", "pass", "read", "merged", "ended"}
  /\ RUN \in BOOLEAN /\ INTERUPTED \in BOOLEAN
  /\ key \in [line : Seq(Sources \X Nat), enter : BOOLEAN, interrupted : BOOLEAN]
  /\ buffer \in Comms /\ snapshot \in Comms
  /\ overlapped \/ (Paired(buffer) /\ Paired(snapshot))
  /\ held \in Seq(Sources \X Nat)
ChannelsOK ==
  /\ screen \in Seq(Nat) /\ spoken \in Seq(Nat) /\ tts_pending \in Seq(Nat)
  /\ page \in Seq(Nat) /\ shown \in Nat
FeedsOK ==
  /\ tty \in Seq([n : Nat, kind : Kinds])
  /\ ctrl_c \in BOOLEAN
  /\ voca_events \in Seq({"interrupt", "status"}) /\ transcripts \in Seq(Nat)
  /\ posts \in Seq(Nat) /\ web_interrupt \in BOOLEAN
  /\ arrived \in [Sources -> Nat] /\ signals \in Nat
MainOK ==
  /\ main \in {"tick", "raised", "holding", "relayed", "joining", "processing",
               "stopping", "ended"}
  /\ host \in Hosts /\ tool \in {"none", "asked", "answered"} /\ running \in BOOLEAN
  /\ comms \in [Hosts -> Comms]
  /\ thread \in {"none", "launched"}
  /\ tmp_line \in Seq(Sources \X Nat) /\ thread_line \in Seq(Sources \X Nat)
GhostsOK ==
  /\ captured \in [Sources -> Seq(Sources \X Nat)]
  /\ handed \in Seq(Sources \X Nat) /\ given \in Seq(Sources \X Nat)
  /\ warned \subseteq Sources \X Nat /\ overtaken \subseteq Sources \X Nat
  /\ noticed \in Nat /\ strayed \in BOOLEAN /\ overlapped \in BOOLEAN
  /\ produced \in Nat /\ exit_asked \in BOOLEAN /\ consulted \in Nat
TypeOK == WorkerOK /\ ChannelsOK /\ FeedsOK /\ MainOK /\ GhostsOK

-----------------------------------------------------------------------------
(* What holds, whatever the interleaving of passes, exchanges and ticks,   *)
(* for as long as no pass has begun inside an exchange.                    *)

\* The pieces still on their way to exchange(), nearest first.
OnTheWay(s) == buffer.user
                 \o (CASE s = "key" -> key.line [] s = "voice" -> held [] OTHER -> <<>>)

\* The numbers of source s's pieces in a line, and whether they are in order there.
Numbers(s, pieces) == {pieces[k][2] : k \in {j \in DOMAIN pieces : pieces[j][1] = s}}
InOrder(s, pieces) == \A i, j \in DOMAIN pieces :
  i < j /\ pieces[i][1] = s /\ pieces[j][1] = s => pieces[i][2] < pieces[j][2]

\* Each piece of each source is handed over once, in the order it was entered: what
\* exchange() has handed to a COMMS and what is on its way add up to what the worker
\* captured, though steps 5.5, 6 and 8 write whole copies of comms_buffer back.
HandedOnce ==
  overlapped \/
  \A s \in Sources :
     LET pieces == handed \o OnTheWay(s)
     IN  Numbers(s, pieces) = Numbers(s, captured[s]) /\ InOrder(s, pieces)

\* The first n chunks, and those relayed or waiting to be.
Chunks(n) == [i \in 1 .. n |-> i]
Coming    == buffer.llm \o comms[host].llm

\* Every chunk of the reply is shown once, in order, and handed to the voice once,
\* in order: the channels' copies are neither drained twice nor wiped by step 5, and
\* a specialist's reply comes between what the chat says before and after it.
OutputKept ==
  overlapped \/ /\ screen \o Coming = Chunks(produced)
                /\ (spoken \o tts_pending) \o Coming = Chunks(produced)

\* Ctrl+C survives the copies of a pass and, once handed to the chat, is honoured; the
\* one way to lose it is to hand it to a specialist, who reads nothing (tools.cpp:756).
ExitNotDropped ==
  overlapped \/
  (exit_asked => ctrl_c \/ buffer.exit \/ comms["chat"].exit \/ strayed \/ ~running)

\* A spoken line is handed over only after its interrupt was (io_worker.cpp:1160), but
\* for the one case in which the code breaks this: an Enter taken in the same pass.
SpokenAnnounced ==
  overlapped \/
  LET sent == handed \o buffer.user
  IN  \A k \in DOMAIN sent : sent[k][1] = "voice" => sent[k] \in warned \cup overtaken

\* exchange() returns: the worker's pass it waits for ends.
ExchangeReturns == main = "raised" ~> main = "holding"

\* What is said is handed over in the end, though its interrupt must go first.
SpokenHanded ==
  \A n \in 1 .. MaxInputs :
     (\E k \in DOMAIN captured["voice"] : captured["voice"][k] = <<"voice", n>>)
       ~> (\E k \in DOMAIN handed : handed[k] = <<"voice", n>>) \/ ~RUN \/ overlapped

\* The strengthening they rest on: the flag is up exactly inside an exchange, a pass is
\* under way in its body only after an overlap, and step 5's copy is the buffer itself.
FlagsInv == /\ main \in {"raised", "holding"} <=> INTERUPTED
            /\ ~overlapped => ~(PROCESSING /\ main = "holding")
            /\ ~overlapped /\ io = "read" => snapshot = buffer

-----------------------------------------------------------------------------
(* What the repository says and the code does not do.                      *)

\* "once exchange() sees PROCESSING == false with INTERUPTED already set,
\* thread_main() cannot enter that block again" (worker_thread.h:66).
MutualExclusion == ~(PROCESSING /\ main = "holding")

\* INPUT_FROM_USER is "valid when ENTER_PRESSED == true" (comms.h:270): it is the line
\* that came with that Enter.
LineValid == overlapped \/ (comms["chat"].enter => comms["chat"].user = given)

\* "the interrupt goes out first, and the line is held until exchange() has handed
\* it over" (io_worker.cpp:1160), whatever else is typed.
AnnouncedFirst ==
  overlapped \/
  LET sent == handed \o buffer.user
  IN  \A k \in DOMAIN sent : sent[k][1] = "voice" => sent[k] \in warned

\* "A real Enter keypress sets INTERRUPTED alongside ENTER_PRESSED - staged and relayed
\* together" (ai_root.cpp:677).
EnterInterrupts ==
  [][main = "holding" /\ main' = "relayed" /\ ~overlapped
     /\ (\E k \in DOMAIN buffer.user : buffer.user[k][1] = "key")
       => buffer.interrupted]_vars

\* A wake or sleep message is displayed: "the tick loop below is the one place that
\* actually turns this into a displayed system message" (io_worker.cpp:1007).
StatusKept == overlapped \/ noticed = shown + buffer.system

\* "Ctrl+C - shut olli down" (comms.h:273), whoever is in charge when it is pressed.
ExitKept ==
  overlapped \/ (exit_asked => ctrl_c \/ buffer.exit \/ comms["chat"].exit \/ ~running)

=============================================================================
