# A TLA+ verification of olli

olli is a voice assistant: a chat engine that talks to a language model, threads
for the keyboard, the screen, the voice and a browser page, a broker for tools that
run in other processes, a routine that reviews and summarises the conversation
while it is idle, a second server that thinks on its own while nobody talks to it,
and the tools themselves. What is hard about it is the order in which threads, peers,
timers and people act, and what is left when one of them stops half-way. This
directory models those parts, checks them with TLC on small instances and proves the
main results with TLAPS for every size. Sequential computation (string handling, formatting, drawing, request
bodies, similarity search) is left out.

To check: `tlc -config <cfg> <module>` with the pairs listed under *Runs*, and
`tlapm <module>` on the `*Proofs` modules and `SeqLemmas`. `PROJECT.json` maps every definition
to the lines it translates.

## 1. Inventory

### 1.1 The components of the main process

| Component | State it keeps | Operations | Acts with |
|---|---|---|---|
| Main loop (`main.cpp`) | the loop condition `running` | per tick: `exchange`, `input`, `process`, sidetrack's `check`; Ctrl+C; shutdown | everything on the main thread |
| `ai_root` (`ai_root.cpp`, `tools.cpp`) | history, `last_received`, outstanding call ids, pending calls, counters, `chat_thread` and its flags | `send`, `input`, `process` (PART 0-5), `dispatch_tool_call`, `handle_instance_tools`, `integrate_tool_result`, `stop`, `request_exit` | its own `chat_thread`; the tool worker; COMMS |
| AI backends (`ollama_system.cpp`, `gemini_system.cpp`) | none between calls | `generate`: streams a reply, until its end, a failure or an interrupt | `last_received`, COMMS |
| `TOOL_WORKER_CLASS` (`tool_worker.cpp`) | queued calls, results, deadlines, abandoned ids, events, connections | `put_pending_call`, `get_pending_result`, `abandon_call`, `get_pending_event`, its tick | its own thread; callers under `state_mutex` |
| `TOOL_REMOTE`, listener (`remote_tools.cpp`) | one socket, the call in flight, heartbeat times; one half-registered client | `poll_communications`, `send_identity`, `mark_dead`; accept and register | tool processes over TCP |
| `IO_WORKER_CLASS`, `COMMS` (`io_worker.cpp`, `comms.h`) | `comms_buffer`, three channel copies, a held spoken line, two handshake flags | a pass of `thread_main`, `exchange`, `thread_stop` | keyboard, voice, page on one side, the main thread on the other |
| Keyboard and screen (`user_io.cpp`) | the line being typed, panels, chat log | `keyboard_input`, `get_response` | called by the pass |
| Speech in and out (`io_worker.cpp`, Voca) | two queues of speech events, the text waiting to be spoken, the player process | `display_with_tts`, `stop`, callbacks | called by the pass; threads of Voca |
| `WEB_SERVER_CLASS` (`web_server.cpp`) | posted lines, an interrupt flag, output for the event streams | HTTP handlers; `take_input`, `push_*` | server threads; the pass |
| `SIDETRACK_CLASS` (`sidetrack.cpp`) | stages of the second-guess review and of consolidation, a scratch chat instance | `check`, `run_second_guess`, `run_consolidation`, `force_consolidation` | rewrites the main chat's history from the main thread |
| Built-in tools (`tools.cpp`) | delegation depth, background instances, a script's position | `TOOL_DELEGATOR`, `TOOL_TASK_RUNNER`, memory and settings tools | block the main thread in exchanges of their own |
| Task scripts (`tools_task_script.cpp`) | variables, labels, wait state | one command at a time | the task runner |
| Supervisor (`main()`) | crash count and time of the last crash | fork, wait, restart or give up | the process above |
| Threads (`threading.cpp`) | a run flag | start, stop | |

### 1.2 The other processes

| Component | State it keeps | Operations |
|---|---|---|
| `JOB_WORKER` (`tools/subcon`) | one job: pending, running or finished; abort and stop flags | `submit`, `take_result`, `abort_current`, `stop`, its thread |
| `SUBCON_TOOL_SERVER` | connections with a call queue and a call in flight, completions | `call`, `abandon`, `service` (read, time out, heartbeat, retire, run callbacks) |
| `REASONER`, store | stage of the think cycle, cycle token, task table, note queue, files | cycle steps, callbacks, atomic saves |
| `OLLI_LINK` | a socket, an inbox, heartbeat times | connect and register, read, ping, time out, `send_result`, `send_event` |
| clock, presence, hue, mail, rag | timers by label; persons near or away; device and mailbox state; a document index | calls from olli, events to it |

### 1.3 What is hard, and what makes each part correct

* **Two threads run `send()` on one chat instance**: `chat_thread` for a line of the
  user, the main thread for the narration of a result or an event. They share
  `history` (mutex), `last_received` (no mutex) and `INPUT_FROM_USER` (mutex on some
  accesses). Correct when every tool message belongs to a call, no call has two, no
  call is forgotten, chains of calls are bounded, and threads are joined.
* **The tool worker** holds its mutex for a whole tick, but a call lives through many
  ticks: queued, sent, timed out, answered late, twice or on a dead connection,
  abandoned by an instance that was erased. Correct when a call is executed at most
  once, gets one verdict, and nobody waits for ever.
* **The io worker and the main thread hand one buffer back and forth** with two plain
  flags, while three sources write to it and three channels read from it. Correct
  when a text is submitted once and in order, an interrupt precedes the line it
  belongs to, output appears once, and Ctrl+C always wins.
* **Sidetrack** takes copies of the history, waits for the model, and writes back.
  Correct when no message is lost and each reply is reviewed at most once.
* **The subconscious server** keeps callbacks for calls it may have given up. Correct
  when a stale callback changes nothing and an abort hits the job it was meant for.
* **A script runs inside a tool call**, blocks the main thread and still takes results,
  lines and Ctrl+C. Correct when every result has one owner, the keyboard is put back,
  and the run ends.
* **Links** lose lines, reconnect and identify themselves again. Correct when a timer
  is announced once and a server that reconnects learns the current state.
* **Tools write files and databases** in several steps, for several users, and may be
  killed between any two. Correct when nothing promised is forgotten and the next run
  repairs what the last one left.

`PROJECT.json` lists the hazards at their lines, each with the properties that cover
it or the reason why none does. Section 11 lists what is known without a property.

## 2. Plan

| Order | Module | Component | Composes / refines | State |
|---|---|---|---|---|
| 1 | `CallService` | what the tool worker promises its callers | abstract | done |
| 2 | `ToolWorker`, `ToolWorkerProofs` | tool worker and its connections | implements `CallService` | done |
| 3 | `ChatTurn`, `ChatTurnProofs` | main chat under the main loop | uses `CallService` for the worker | done |
| 4 | `IoRelay`, `IoRelayProofs` | io worker, COMMS, keyboard, voice, page | | done |
| 5 | `Sidetrack`, `SidetrackProofs` | review, consolidation and wipe over one history | | done |
| 6 | `CallbackService`, `JobWorker`, `SubconServer`, `SubconTasks`, `Subcon`, `SubconProofs` | the subconscious server | `Subcon` composes the three after `CallbackService` with the store, and implements `CallbackService` | done |
| 7 | `TaskScript`, `TaskRun`, `TaskRunProofs` | scripts and the task runner | `TaskRun` executes `TaskScript` | done |
| 8 | `OlliLink`, `Clock`, `Presence`, `Hue`, `Mail`, `Rag`, `ToolProofs` | the tools | `MCTools` runs one of them at a time, all but `Rag` over `OlliLink` | done |

`Filter` is the one operator that says what is left of a sequence, `SeqLemmas` the facts about
sequences and sets which the proofs share. "Done" means checked and proved: every invariant
of a passing run is a theorem. A theorem worth proving next is that the main chat with the
worker in place of `CallService` is the chat that was checked.

## 3. ToolWorker and CallService

`ToolWorker.tla` models the worker's thread, its connections and the instances that
use it.

| Model | Code |
|---|---|
| `PutPendingCall`, `GetPendingResult`, `GetPendingEvent`, `AbandonCall` | the methods of the same names, run by callers while the tick does not hold `state_mutex` (`LockFree`) |
| `FinishInstance` | PART 2 of `process()` erases a finished background instance; its outstanding ids are abandoned one by one |
| `BeginTick`, `Poll(k)`, `EndTick` | `thread_main`: drop answered deadlines, poll each connection in turn, sweep the deadlines, filter abandoned results, rebuild the advertised tools |
| `Register` | the listener hands over a registered client, one per tick at most |
| `PeerResult`, `PeerEvent` | the tool process, at any time: a result once or twice, for this call or an older one |
| `TimePasses` | 300 s pass for the oldest calls: `overdue` moves over `stamp` |

A peer may answer late, twice, or never, die with a call in flight, or reconnect as
another connection. Order among queued calls is kept in `stamp`; ids and verdicts
carry no other data.

`CallService.tla` is the promise: a call has one verdict, the first to arrive; it is
handed over at most once; an abandoned call is forgotten when its verdict is there.
`Implements` checks and `Refinement` proves that `ToolWorker` does that, with the
phase of a call read off the worker's lists and its verdict the first that landed.

* `Accounted`: whoever waits has a running deadline or an unclaimed result. The two
  lists are edited by five steps of a tick and by callers between ticks.
* `NeverRedispatched`: no call reaches a second peer, or any peer after its verdict.
* `MainServed`, `AbandonedForgotten` (liveness): every call of the main chat gets a
  verdict, every abandoned call leaves the list.

What the comment at `tool_worker.h:189` says of abandoned calls is weaker in the code:
the synthesized timeout is filtered out and the id forgotten, and an answer that comes
later stays in `pending_results` for the session.

**Fairness.** The worker's loop runs (`WF` of its three steps), time passes (`WF`), and
an instance that keeps ticking polls its outstanding calls (`SF`, because the mutex is
held by the tick whenever the instance looks at the wrong moment; a mutex that is
free again and again is eventually obtained). Nothing is assumed of peers.

**Bounds.** Two calls to one function, so that they compete for a connection; two
connections, so that a call may meet a second peer; one unread line per socket; one
event. The liveness run has one connection, which may die, so that a call without a
tool is still among its behaviours.

**Proof.** `IInv` is the conjunction of the type invariant and seven parts: an id never
dispatched is nowhere; a queued call is on no wire and has no verdict; a call in
flight is in flight once and unanswered; a tracked deadline has no verdict except
inside a tick; unclaimed results are among those that landed; a call has one
dispatcher; and a call that is waited for has all its verdicts unclaimed. `Accounted`
is not inductive without the last two: dropping a deadline needs to know that the
result that justifies it has not been claimed. `OneAnswer` (an answered call never
times out as well) follows from the same parts. The refinement reuses `IInv`: each
step is a step of the service or leaves it alone.

## 4. ChatTurn

`ChatTurn.tla` models one `ai_root` instance, the main chat, under the main loop. Its
`send()` has four steps on either thread: the text is in `INPUT_FROM_USER` (`noted`),
`last_received` is reset and the message pushed (`open`), the reply streams
(`streamed`, or `failed` if nothing arrives), and it ends. The main thread's place in
its tick is `at`:

| `at` | Model | Code |
|---|---|---|
| `exchange` | `ExchangeNothing`, `ExchangeLine`, `ExchangeStop`, `ExchangeExit` | what `exchange()` may relay (`IoRelay` says how) |
| `exit`, `down` | `ExitJoined`, `LeaveLoop` | Ctrl+C path, loop condition |
| `input` ... `bye` | `InputStop`, `InputStopped`, `AcceptLine`, `Spawn`, `Bye`, `ByeJoined`, `InputDone` | the branches of `input()`, with the joins as steps of their own |
| `pending`, `ready`, `dispatch` | `DispatchInjected`, `TakeCalls`, `DispatchNext`, ... | PART 1 and `handle_instance_tools`, `dispatch_tool_call` with its cap |
| `part3` | `Part3` | PART 3's join |
| `claim` | `ClaimResult`, `SkipResult` | PART 5's loop over outstanding ids, with the narration it makes |
| `events` | `DrainEvent`, `TickDone` | PART 5's loop over events, the injected calls |

Between two of these steps `chat_thread` may take any of its own (`RestoreLine` and
the steps of `Send("chat")`). A narration is `Send("main")`; the main thread goes on
when it is over. The data race on `last_received` is the interleaving of these steps.

* `ResultsMatched`: every tool message in the history belongs to a call of its own, the
  pairing which the backends rebuild their requests from.
* `OutstandingWaited`: the outstanding ids are the calls the worker owes.
* `ChainBounded`: over a whole session calls are bounded by the cap per topic opened
  from outside, although a narration may ask for another call, and so on.
* `JoinedOnExit`: no exit, by phrase or by Ctrl+C, in any order with lines and
  replies, leaves `chat_thread` joinable.
* `RemoteAnswered` (liveness): every remote call is answered in the history.
* `NoCallLost` is what `AI_BACKENDS.md:92` implies of a call without a result. It fails:
  a narration resets `last_received` between the end of a reply and the tick that
  takes its calls.

More behaviours can be seen in the model: a line relayed between `RestoreLine` and
`OpenSend` replaces the line of the thread; a stop without a new line leaves
`interrupt_signal` up for the next narration; and with a bare Enter `is_processing` is
raised before the join of the old thread, whose last act lowers it, so that PART 3 may
join a thread in the middle of its reply. A call is then taken from a reply that is not
in the history yet, and its tool message precedes the assistant message that asks for
it; so the last part of `ResultsMatched` is stated for lines that interrupt.

**Fairness.** Both threads are scheduled; a request to the model returns, since the HTTP
clients set a read timeout; the worker gives a verdict (`MainServed`). Nothing forces
a user, an event or an exit.

**Bounds.** One remote and one built-in call in replies and one remote call injected by
an event; at most two calls in a reply; a cap of one, so that it is reached; one line.
One event and one reply with two calls are what it takes for a
narration to meet unprocessed calls; an event under way while the line is answered is
what it takes for both threads to be in `send()`.

**Proof.** `TypeCorrect` needs that a loop with calls left has a head
(`LoopsHaveCalls`). `ChainIsBounded` rests on `Quota`: what was executed before the
current topic is within `Cap` per topic, and the current one within its counter; the
counter is reset only where a topic opens. `ThreadIsJoined` rests on `JoinInv`: every
place from which the loop can be left is behind a join. `OutstandingIsWaited` is
inductive with the types: a dispatch adds an id that was new, a claim removes the only
occurrence.
`ResultsAreMatched` follows a call through the places it can be in: the
reply in `last_received`, `todo`, the injected calls, and, once it is spent, the worker and
the history (`PoolInv`, `PairInv`). A call sits in one of them only, so no second tool message
can be written for it; and when every line interrupts, the reply that named the call is in the history
before the call is taken (`AskInv`).

## 5. IoRelay

`IoRelay.tla` models the io worker's passes, the exchanges of the main thread, and what
arrives from outside.

| Model | Code |
|---|---|
| `LookAtFlag`, `BeginPass` | the load of `INTERUPTED` and the store of `PROCESSING` |
| `ReadKeyboard` | steps 1-5: Ctrl+C, keystrokes, the copy of the buffer to the channels |
| `MergeInput` | steps 5.5-8: the page, the voice with its held line, interrupts, submission |
| `ShareOutput` | steps 9-13: the three channels drained, what is spoken now |
| `EndWorker`, `StopWorker`, `JoinWorker` | the end of the thread, the way out of the main loop, `thread_stop` |
| `Raise`, `WaitOut`, `Relay` | `exchange()`: raise the flag, wait for `PROCESSING` to fall, move input and output |
| `HonourExit`, `NoLine`, `JumpInput`, `TakeLine`, `LaunchThread` | Ctrl+C in the main loop; `input()` by its ways: no line, an exit phrase, a line drained and then given to a thread |
| `RestoreLine` | `chat_thread` puts its line back into `INPUT_FROM_USER` before `send()` peeks at it |
| `Narrate` | a prompt of the program's own is put there (`integrate_tool_result`, the review) |
| `CallTool`, `Consult`, `KeepWaiting`, `SpecialistDone`, `ToolReturns` | `TOOL_DELEGATOR` exchanging with the chat's COMMS and with its specialist's |
| `SetKeyboard` | scripts and pauses turning the keyboard off and on |
| `Press`, `PressCtrlC`, `Say`, `Signal`, `Post`, `Stream` | the outside |

`buffer.user` and its like are sequences of pieces, each a source and a number, so that
loss, repetition and reordering are visible; a prompt of the program's holds none of them and
is the empty line. `ExitPhrases` are the spoken texts that put Voca to sleep.

The worker's look at `INTERUPTED` and its store to `PROCESSING` are two steps, and nothing
keeps the two steps of `exchange()` from falling between them. When they do, the pass begins
inside the exchange, both threads write the fields of `comms_buffer`, strings among them, and
what it then holds is undefined. `overlapped` remembers that it happened. Safety properties
about the data claim nothing from then on, since the code promises nothing; they are claims
about every run in which the window of two instructions was not hit. The model itself
forbids no interleaving.

What holds:

* `HandedOnce`: per source, what `exchange()` has handed over and what is on its way to it
  add up to what the worker captured, each piece once and in order. What becomes of a line in
  the chat's COMMS is another matter: see `LineValid`.
* `SpokenAnnounced`: a spoken line is handed over only after its interrupt was, or an
  Enter was read in the pass that took the line. It shows that the exception is the only one.
* `OutputKept`: the screen and the voice are given everything once and in order, also
  while a specialist speaks.
* `ExitNotDropped`: Ctrl+C is on its way, honoured, or was handed to a specialist.
* `ExchangeReturns`, `SpokenHanded` (liveness).

What the repository says and the code does not do. The first is a run of `PROJECT.json`
and a finding; the others each have a cfg that refutes them in the same way:

* `MutualExclusion` (`MCIoRelayOverlap.cfg`): a pass never runs inside an exchange
  (`templates/worker_thread.h:66`, `io_worker.cpp:1376`). The steps above break it.
* `LineValid` (`MCIoRelayLine.cfg`): `INPUT_FROM_USER` is valid when `ENTER_PRESSED` is up (`comms.h:270`).
  `chat_thread` puts its own line back (`ai_root.cpp:729`), over a line relayed meanwhile:
  the older line is submitted twice and the newer is lost. The prompt of a narration
  (`ai_root.cpp:213`) does the same, and is in the shortest counterexample: a line handed over in
  the delegator's own exchange is overwritten when it narrates the specialist's report.
* `AnnouncedFirst` (`MCIoRelayVoice.cfg`): the interrupt of a spoken line goes out first (`io_worker.cpp:1160`). Step 8
  writes back the copy of the buffer taken at step 5, so an Enter read in the pass that
  takes a transcript wipes the interrupt of step 6.
* `EnterInterrupts` (`MCIoRelayEnter.cfg`): a typed line is relayed with its interrupt (`ai_root.cpp:677`). The
  same write wipes the interrupt step 7 raised for the Enter itself.
* `StatusKept` (`MCIoRelayStatus.cfg`): a wake or sleep message is displayed (`io_worker.cpp:1008`). The same write
  wipes it.
* `ExitKept` (`MCIoRelayExit.cfg`): Ctrl+C shuts olli down (`comms.h:273`). During a consultation the flag moves into
  the specialist's COMMS, which nobody reads (`tools.cpp:756`). The task runner has the same
  loop and looks at the flag itself (`tools.cpp:1216-1228`).

**Fairness.** The threads run, `chat_thread` as far as putting its line back. `LookAtFlag`
is strongly fair: the main thread sleeps 20 ms per tick with the flag down and the worker
looks every 20 ms, so it is not always raised when looked at.

**Bounds.** `MaxInputs` bounds what comes from outside, all kinds together (`Inputs`):
keystrokes, spoken texts, posts, voice signals, chunks of the reply, Ctrl+C and consultations.
With two, `io_relay` has every pair in every order: two lines of any sources joined or one
held, an Enter and a transcript or a status message in one pass, two chunks, a chunk, a line
or Ctrl+C before, during and after a consultation. What three may do is left to the theorems,
which have no bound. The keyboard setting changes only while more may come.

**Proof.** Every theorem is about `Spec` for all values of the constants, with no further
assumption: typing, speech, signals and consultations are all allowed, in any number. The worker's half rests on
`FlagsInv`: the flag is up exactly while the main thread is raising or holding, and as long as
`overlapped` is down a pass is not in its body while the main thread holds, so that
step 5's copy is still the buffer itself when step 8 writes it back. `TypeCorrect` includes that
`comms_buffer` and its copies hold a line exactly when they hold an Enter, on which the
joining of lines rests; nothing of the kind is claimed for the COMMS of the chat, where it is
false. `ReplyShownOnce` needs that only the instance in charge has a reply under way
(`OneVoice`), and the associativity of concatenation at each drain. `InputHandedOnce` follows
the numbers of a source through what was handed over, the buffer, and the line being typed or
held: read one after the other they are what was captured, in order, and each step moves a piece
from one place to the one before it (`LinesInv`). `VoiceAnnounced` adds that while a held
piece is neither announced nor overtaken, its interrupt is up in the buffer (`VoiceInv`).
`ExitSurvives` follows the flag through Ctrl+C's four places.

Left out: `IS_TYPING` and `close_chat_log_requested` (relayed and read by nobody), the
speech toggle, backspace and scrolling keys, SSML, busy counters, drawing.

## 6. Sidetrack

`Sidetrack.tla` models `check()`, which the main loop calls once per tick, with the chat
whose history it rewrites and the second instance (`scratch`) it thinks with.

| Model | Code |
|---|---|
| `SubmitLine`, `ChatReplies`, `Narrate`, `Interrupt`, `Shutdown`, `Joined` | the chat, its thread and the exits of the loop |
| `CheckActivity`, `PersistentTimeChecks` | the idle timers, the size limit |
| `ConsolidationWaits`, `BeginPass`, `EndPass` | `run_consolidation`: the copy, the requests for summaries, `replace_history` |
| `ClearContext` | the wipe of an abandoned conversation |
| `NoticeReply` ... `CommitAnswer` | the stages 1-6 of `run_second_guess`, `PollCall` being `poll_second_guess_call` |
| `ScratchReplies`, `ScratchEnds` | the thread of the second instance |

A message is its number, a summary the numbers it covers; so a message that is lost,
repeated or put in the wrong place is seen in the history.

* `Remembered`: every message is in the history, by itself or in one summary, in order,
  unless it was wiped or arrived while a pass was at work. (The second exception is the
  code's: `replace_history` writes back a copy that a long request has made old.)
  That is, the numbers covered rise from each to the next, and they are those that are
  not excused.
* `ScratchKept`: a pass and a review never meet on the instance, and a review does not
  commit before its calls are settled.
* `ReviewEnds` (liveness): a review ends, unless its reply was cut after it named a tool.
* `ReviewNeverStalls` is what the comment at `sidetrack.cpp:153` promises without that
  exception; `sidetrack_stuck` shows it fail.

**Fairness.** The loop ticks (`Check`, `Joined`), the instance's request returns
(`ScratchReplies`, `ScratchEnds`: the HTTP clients have a read timeout), and the worker
answers every call (`PollCall` with no call left outstanding is strongly fair, since it
is enabled only at its place in a tick).

**Bounds.** One message kept raw, summaries after one more, two levels, a size limit of
four: the smallest sizes at which a pass squashes raw messages, promotes a summary to the
second level and meets the limit. Two messages from outside and a chain of one review
are what it takes to have a reply arrive in a pass and a review follow a review. The
stuck run needs one review only. Deadlock is not checked: once the messages are used
up nothing needs to happen any more.

**Proof** (`SidetrackProofs`, for any sizes, number of levels and answers of the model).
For `ScratchKept`, `ScratchIInv` adds why the two never meet: a thread of the instance
belongs to stage 3 or 5 of a review, and a pass is due from the tick that saw the review
at rest, within which the review can notice a reply and wait for its timer, but no more.
`Remembered` is not inductive: a pass may put any history back in another order. Two facts
make it so. A history has a shape (`Shaped`): the protected messages, which cover nothing,
then its levels from the oldest to the newest; pushes, passes and wipes keep it. And the
copy a pass works on tells what the chat had when it was taken, of which nothing can be
wiped before it is put back (`HistoryInv`). That a pass keeps what a shaped history tells
(`ConsolidatedKeeps`) is a telescoping sum: at each level, the summary promoted followed
by what stays covers what the level had, followed by what was promoted to it
(`SquashKeeps`), so putting one level after the other moves nothing (`FlattenTelescopes`).

## 7. The subconscious server

`JobWorker.tla` is the worker thread and the calls the main loop makes on it;
`SubconServer.tla` the tool server, a second implementation of the broker's job, single
threaded and with callbacks; `SubconTasks.tla` the rules of the task table (allowances,
gaps, arrivals, notes), all pure operators; `Subcon.tla` EXTENDS the three and adds the
reasoner, the store and the main loop of `subcon.cpp`, one action per phase of a turn
(`pc`): what olli sent, the tools' lines, the sweep, the callbacks, the notices, the
job's result, the tick. The process may be killed between any two steps; `disk` is what
comes back.

* `CallbackFits`: a callback of a cycle's call never finds another cycle or a filled slot.
* `CallsOnce`: every call that is made is completed or abandoned, once.
* `AnswerUnderWay`: a cycle that waits is waited for, by a job or by calls.
* `AllowanceKept`: a task keeps to its runs per window and its gap, whatever fails or is
  killed in between.
* `NotesKept`: a note is handed over at most once and only under the profile it was
  found for.
* `AbortedIsCut`: an abort that reached a job makes its result a failure.
* `CycleEnds`, `QuitEnds` (liveness).

**Fairness.** The main loop turns, the worker works, the time of a call in flight runs
out. Tools may be silent for ever.

**Bounds.** One tool that leaves and comes back, two profiles, one task, two calls to a
reply of which one is refused; two cycles, one event from outside (a switch, a signal, a
kill or presence), two units of time for `subcon`; one cycle and one unit for
`subcon_live`. Two cycles are what a stale callback needs, one switch what a note in
the wrong queue needs. Deadlock is not checked: the process ends.

**How sequences are filtered.** The code filters lists in place (completions, calls, notes,
runs). `Only(s, S)` in `Filter` is what is left of `s`; with a set for the test its facts are
proved once. For the same reason `DispatchedAll` and `AbandonedAll` walk a reply's calls and an
abandoned cycle's ids as recursive functions, and `Blocking` names the run that has to leave the
window as the oldest with fewer than the allowed number of later ones, where the code
indexes the sorted list.

**Proof** (`SubconProofs`). First the worker alone, under a main loop that makes its calls in
any order (`JobInv`): one job is in the pipeline, pending, running or finished; the flag of
an abort stays up from the abort to the end of the job it reached (`FlagStaysUp`), because it
is cleared only where no such job is in the pipeline: `submit` clears it, and accepts
nothing while a job is there. `AbortedIsCut` is that seen at the end of the pipeline.

Then the whole server, `SubconInv`, in three layers of which each uses the ones before.

* `CoreInv`, about calls and jobs. `LoopInv` says which job the cycle waits for at each stage
  and at each phase of a turn, and that it is in the pipeline. `ServerInv` says what is empty
  when: completions outside the reading of lines, callbacks outside their phase, the calls of a
  connection that is gone. `CallsOK` says that a call is open exactly as long as it is on a
  connection or among the completed, in one place only. `SlotsInv` ties the cycle to the calls:
  a slot without an answer is in the batch or has an open call that carries the cycle's token
  and the slot's index, *and every open call of a cycle has such a slot*. The last half is what
  makes a stale callback impossible. It survives `abandon_cycle` only because a cycle is
  abandoned where no callback of a pass is waiting (`ServerInv`): `abandon` does not reach one
  that is, as its own comment says. `CallsOnce`, `CallbackFits` and `AnswerUnderWay` follow.
* `NotesInv`, about notes. What is in memory is what is on the disk (`StoreOK`), a queue holds
  one note at most for an act and only for acts of its own profile (`QueuesOK`); a note that is
  still owed has not been handed over and is not in the digest on its way, and the two are
  disjoint (`HandingOK`); and the act under way has left no note anywhere yet (`ActUntold`),
  without which a second finding of one act could follow the first. `NotesKept` follows.
* `RunsInv`, about allowances. Acts are history, runs are what the file says, and runs older than two
  windows are forgotten. The invariant counts: from any time within two windows back, a
  profile's acts of a task are at most the saved runs since then, and no act is later than the
  latest run saved. It holds because the run is saved in the step that begins the act, and it
  is kept by a kill because it speaks of the disk. `Eligible` then gives `AllowanceKept` for the
  new act, whose earlier acts never change; so `AllowanceKept` is inductive beside it.

For the last two layers the many steps fall into a few kinds by what they do to the store
(`Kind`: it rests, tidies, pulls, sends, switches, restarts, begins an act, finds): that is
shown once, and each layer is shown kind by kind.

`CallbackService` says the same of calls as a specification of steps: what the header promises
(`tool_server.hpp:26`), that a call completes at most once unless it is abandoned first, and what
the cycles promise in turn, that a callback runs in the cycle that asked and that a cycle
ends with none of its calls open. `CallbacksServed` shows that `Subcon` implements it, with
`owner` for the calls and `cycle_token` for the cycle: a reply, a notice, a result hand calls in
(`HandInStep`, from `DispatchTurn`), a callback completes one (`CompleteStep`), a switch of profile
abandons exactly those of the cycle (`AbandonStep`), a kill restarts. It says of steps what
`CallsOnce` and `CallbackFits` say of states, and is proved only; no run states it.

The assumptions are those of the modules, and
all come from the code: what is internal is read-only, and read-only tools are tools;
"none" is no profile; the limits are natural numbers. Nothing bounds the tools, the calls, the
reconnections, the cycles or the kills. TLC's bounds (`MaxCalls` and the like) are constants of the
guards and take any natural number.

## 8. Scripts

`TaskScript.tla` holds the lines of a `.task` script and the scans over them, pure
functions: where a block ends, where a definition lies, which `[ELSE]` belongs to an
`[IF]`. `TaskRun.tla` runs them. The runs form a stack, `frames`: the chat, then one frame
per task whose `handle_tool()` is on the C++ stack; only the last one's loop turns, one
action per state of the script (`GetCommand` ... `RunTask`) and per part of the loop around
it (`Claim`, `TakeCalls`, `Exchange`, `Close`). Replies end, results and
events land, lines are typed, Ctrl+C is pressed and times run out between any two steps.

* `CallsAccounted`: of every remote call exactly one of these holds: told; outstanding in
  one run; held by one script; left behind by a script that is over; a grandchild's;
  abandoned.
* `BodyOnlyWhenCalled`: a script is inside the lines of a definition exactly while a call
  of it is open.
* `KeyboardAsScripted`: the keyboard is on while a script waits for a line, otherwise as
  the script set it.
* `RunEnds` (liveness): a run ends, unless it waits for the user or for a reply that
  failed.

**Fairness.** The loop turns, a reply ends, a time limit runs out; nobody has to type and
no tool has to answer.

**Bounds.** Six scripts with every kind of line between them: a wait for a result, a task
that runs another and then itself, a question that times out into a sub, branches with
a recursive sub, a broken block. Subs nest to two and runs to two, so that both limits
are hit; two remote calls, one event, one Ctrl+C.

**Proof** (`TaskRunProofs`, for every script). The scans look for the first line of a kind;
`FirstOf` is proved to give the least such line. The library's induction takes an operator
and is of no use here: the least element comes from `SetInduction`, which is derived from the fact that
no function maps `1 .. m + 1` one to one into `1 .. m`. From it follow the lemmas about
the scans: none of them leaves the definition it starts in, or enters one. `FramesOK`
adds to `BodyOnlyWhenCalled` what it needs to be inductive: of the lines to return to,
the first is outside every definition, all others are inside one; a frame that waits has
saved the keyboard setting of its script; the caller of a run rests at its `[RUN]` line.
For `CallsAccounted` the six places are one finite set, which every step is shown to
leave alone or to move by one element: a call made appears, one claimed goes from
outstanding to told or held, and at the end of a run what is outstanding is left behind.
`CallsOK` is the statement in sets; the sum of cardinalities follows.

## 9. The tools

`OlliLink.tla` is the client side of the protocol which the tool programs share: one
link to olli and one to the subconscious server. `link` is the tool's object, `far` the
rest of the world. A connection may close, vanish silently, be refused or be replaced;
time runs in heartbeats. What the world does to a tool other than through its links is
seen at the top of a turn of its loop, so the models let it happen there; only lamps
change at any time. `Clock`, `Presence`, `Hue` and `Mail` are the programs over the two
links, one action per phase of a turn; `Rag` is the document database and the two
programs that write it. `MCTools` checks the five in one run: a behaviour is a run of one tool, and
the variables of the others keep their initial values.

* `ReportsHonest`: a timer is reported once, to the server that set it, and never after
  its caller was told it is cancelled or another took its label.
* `ExpiryReported` (liveness): a timer that has run out is reported.
* `BeliefCurrent`: a server that has identified itself, and for which the people are
  still those it was told of, has their presence, whatever a sync held back.
* `AnnouncedOnce`: what was last announced of a person is what they are, so that a
  reconnect announces no second arrival.
* `ProfileKept`: no other profile's scenes change, and none goes but by a remove; the fade
  and the scene in use are those of the current profile.
* `PowerKeepsLevels`: switching lights off and on changes no level, though any of the
  requests may fail or be applied twice.
* `MailKept`: mail a check saw is pending on disk until the event is written, the rule
  is gone or the numbering starts over, also through a kill.
* `SyncMatches`: a sync that nothing disturbed leaves one complete document for each
  file worth one and none for the others, whatever the syncs before it ran into.

**Fairness** is assumed for `ExpiryReported` alone: the clock's loop turns, time passes
(`SF`, because a turn may be under way whenever a heartbeat is due), a server that has
stopped is started again.

**Bounds.** A ping every heartbeat, dead after two; two faults of a link (or of whatever
else upsets a tool); two calls; one timer label, one person under two profiles, two lamps
with two levels, two scenes and two profiles of which one has no file, one new mail, two files in
two collections with two contents, and two troubles in a run of the database. In the tools that
keep no time of their own a heartbeat passes only while a link is down or dead
(`LinksWanting`): on links that stand it changes nothing else.
Deadlock is not checked: a tool may be killed, and inputs run out.

**Proof** (`ToolProofs`, each about the specification of its own tool, with any constants).
All of them rest on the links: at most one message is under way on a link, and none is
queued at the top of a turn (`EndOK`; `ServedOK` says what a service leaves).
*Mail*: what the tool holds of the loaded profile is what is on disk, and a profile whose
event was sent is owed nothing. *Clock*: a call's id is fresh and names a timer for good; a
timer in the table is not void unless it says it is cancelled; a timer that was reported
says so. *Presence*: who calls has identified itself, so the people tracked are those of
the settings in use; what was announced agrees with `near` except for those about to be
told (`Announced`); `belief` agrees on the links told, except where a sync is due
(`Believed`). *Hue*: the files of the current profile are loaded (`Loaded`), a profile
without a scenes file has no scenes (`Shelved`); a body that switches power has no level.
*Rag*: `SyncMatches` speaks of the end of a sync; the invariant follows a sync that nothing
has disturbed through its steps (`OnCourse`). A source is as the sync found it while its
collection is ahead (`Ahead`, `AsFound`), as the folder is once it is behind (`Right`), and
in between where the import of its file has come to (`Midway`): listed and not read,
deleted, added with some of its chunks, or complete. That deleting by id takes only
documents of the file at hand needs that ids are not used again (`IdsKept`, from
`FreshDocument`). It is assumed that there are finitely many files.

Of the tools, what is found by scanning text, what is drawn and what is looked up is left
out: colours, alerts, the face of the clock, searches and embeddings.

## 10. Runs

| Run | Instance | Shows |
|---|---|---|
| `tool_worker` | `MCToolWorker.cfg` | safety and refinement of the worker |
| `tool_worker_live` | `MCToolWorkerLive.cfg` | verdicts and forgetting under fairness |
| `chat_turn` | `MCChatTurn.cfg` | one line, an event with an action: pairing, ids, cap, exits, and that every result is told |
| `chat_turn_lost` | `MCChatTurnLost.cfg` | violation: a narration wipes calls |
| `io_relay` | `MCIoRelay.cfg` | output, lines, speech and Ctrl+C through passes, exchanges and consultations; `exchange()` returns |
| `io_relay_overlap` | `MCIoRelayOverlap.cfg` | violation: a pass inside an exchange |
| `sidetrack` | `MCSidetrack.cfg` | history and scratch instance; reviews end |
| `sidetrack_stuck` | `MCSidetrackStuck.cfg` | violation: a review that stays in its stage for ever |
| `subcon` | `MCSubcon.cfg` | callbacks, calls, allowances, notes, aborts through switches and kills |
| `subcon_live` | `MCSubconLive.cfg` | cycles and the process end |
| `task_run` | `MCTaskRun.cfg` | calls, subs and keyboard through nested scripts; runs end |
| `tools` | `MCTools.cfg` | the five tools, each over its faults |

Each is `tlc -config <cfg> <module>`, with the module `PROJECT.json` names beside it. Deadlock is
checked unless a section above says why not; in the chat and the relay the end of the
main loop is an explicit stuttering step (`Down`, `Ended`).

Every property of a passing run has a mutant of the code model, next to the definition
it replaces and marked as a faulty variant, that breaks it: a dropped guard, a missing
reset, an overwritten field.

## 11. Proved, checked, and neither

Proved for all values of the constants, from the assumptions the modules state:

| Module | Theorems |
|---|---|
| `ToolWorkerProofs` | `TypeCorrect`, `Invariance`, `AccountedHolds`, `OneAnswer`, `AtMostOneExecution`, `Refinement` of `CallService` |
| `ChatTurnProofs` | `TypeCorrect`, `ChainIsBounded`, `ThreadIsJoined`, `OutstandingIsWaited`, `ResultsAreMatched` |
| `IoRelayProofs` | `TypeCorrect`, `ExitSurvives`, `ReplyShownOnce`, `InputHandedOnce`, `VoiceAnnounced` |
| `SidetrackProofs` | `ScratchKeeps`, `HistoryTold` |
| `SubconProofs` | `JobInvariant`, `AbortHonoured`, `OneJobAtATime` (the worker); `SubconInvariant`, `CallsAnsweredOnce`, `CallbacksFit`, `AnswersUnderWay`, `NotesSafe`, `AllowancesKept`, `AbortsCut`; `CallbacksServed`, refinement of `CallbackService` |
| `TaskRunProofs` | `ScriptsStayInTheirLines`, `KeyboardGivenBack`, `EveryCallAccounted` |
| `ToolProofs` | `TimersHonest`, `AnnouncedAsTheyAre`, `ServersBelieve`, `ProfilesKept`, `LevelsKept`, `MailNeverLost`, `SyncsMatch` |

`SeqLemmas` holds what these need about sequences and sets: what remains of a sequence that is
filtered, joined, cut or extended; induction and recursion up to a number, the least of a set
of numbers, a number not in a finite set, the image of one.

Model-checked only: liveness (`MainServed`, `AbandonedForgotten`, `RemoteAnswered`,
`ExchangeReturns`, `SpokenHanded`, `ReviewEnds`, `CycleEnds`, `QuitEnds`, `RunEnds`,
`ExpiryReported`), because liveness under fairness and `ENABLED` are out of the prover's reach. Every other property of the
passing runs is a theorem. Induction over data with the library's theorems is out of
reach too; where a proof needs it, it goes through a set of numbers (`SetInduction`,
`SetInductionTo`), as for the scans of a script, and what a recursive function computes up to
a number through `RecursionTo`, as for `Only`, `FlattenSeq` and the walk of a pass. No module
that is proved about declares a recursive operator.

What the code does that no property forbids, found on the way:

* Chat: with a bare Enter `is_processing` is raised before the old thread is joined,
  which lowers it (`ai_root.cpp:701`, `712`, `735`). A late answer to an abandoned call is
  kept for the session (`tool_worker.h:189`).
* Relay: besides what section 5 lists, a line that is entered during a
  consultation is handed to the specialist's COMMS, where nobody reads it.
* Scripts: the first result after the line `[WAIT]` counts from is taken, whichever call
  it answers; results held for a script that was stopped are told like any others
  (compare `AUTOMATIONS.md:55`); the ids a grandchild was waiting for are not abandoned;
  `MAX_RUN_DEPTH` does not count a task that the model starts; a reply that failed is
  waited for for ever.
* Subconscious server: `tool_server.cpp:352` says that a tool which hangs is dropped at the
  call timeout, but the next queued call makes its silence excused again; a digest sent
  on a dead link is lost.
* Links: an event written to a link that is dead but not yet noticed is lost (clock,
  mail), and mail is told again after a kill between the event and the save.
* Presence: that "the other server already knows" fails after a person is removed and
  added, or one server switches profile; a hand edit of the settings is overwritten by the
  next save; the listener no longer throws away what `presence.cpp:252` says it does
  (`remote_tools.cpp:111`).
* Lights: the scenes of the profile before stay in memory for one without a file
  (`hue.cpp:849`); a relative step that timed out may be applied twice (`hue.cpp:361`);
  loading a scene goes on after a light has failed.
* Mail: a check in flight during a switch of profile is taken for the new profile's
  (`mail.cpp:461`); a renumbered mailbox drops what was pending.
* Documents: one cut short keeps the hash of its whole content, a refused delete leaves
  two, a removed folder keeps its documents; a long sync keeps the tool from answering
  pings.

Not modelled: the components marked so in `PROJECT.json`. Inside the modelled ones: PART 0
and PART 2 of `process()` (loading history, background instances), the listener's
handshake, several browsers on one page, the order of start-up and shutdown of threads,
request bodies of the backends, failing saves of the tools, the single-instance lock,
the IMAP exchange, the bridge's discovery, SQLite and the vector search. The supervisor is one
sequential loop over one child. Drawing, the chat log, string and date helpers and
settings files are sequential or pure I/O, better tested than model-checked.
