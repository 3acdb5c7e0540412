------------------------------ MODULE Sidetrack ------------------------------
(***************************************************************************)
(* SIDETRACK_CLASS (source/sidetrack.{h,cpp}): the work the main loop does *)
(* on the side of the chat, once per tick, in check().  Four routines      *)
(* share the chat's history: a size limit (persistent_time_checks), the    *)
(* consolidation of old messages into summaries, the wipe of an abandoned  *)
(* conversation (run_clear_context), and the review of the latest reply by *)
(* a second instance (run_second_guess).  Consolidation and review share   *)
(* that instance, here `scratch', which has a thread of its own.           *)
(*                                                                         *)
(* chat_thread, which pushes to the same history, runs between any two     *)
(* steps of check(): the sizes check() compares are read without the       *)
(* mutex, and a consolidation waits for its summaries while the chat may   *)
(* still be answering.  The main thread's other work in a tick (a line     *)
(* accepted, a tool result narrated) happens at "loop".                    *)
(*                                                                         *)
(* Every message has a number, in order of arrival; a summary stands for   *)
(* the numbers it covers.  A timer is ready or not, as it pleases.         *)
(***************************************************************************)
EXTENDS Integers, Sequences, FiniteSets, SequencesExt

CONSTANTS Keep,        \* PROPS.consolitation_starts_starts_at
          Trigger,     \* PROPS.consolitation_sizes
          MaxContext,  \* MAX_CONTEXT_SIZE
          MaxChain,    \* SECOND_GUESS_MAX_CHAIN
          Tools,       \* the tools a review may call
          RemoteTools, \* those tool_worker answers
          MaxMessages, \* bound: messages after which no line or result comes in
          MaxLevels    \* bound: levels of summaries; the last is never summarised

ASSUME SizesAssumption == /\ Keep \in Nat /\ Trigger \in Nat \ {0}
                          /\ MaxContext \in Nat /\ MaxChain \in Nat
                          /\ MaxMessages \in Nat /\ MaxLevels \in Nat
ASSUME ToolsAssumption == RemoteTools \subseteq Tools

VARIABLES
  \* -- the main chat
  history,                           \* under history_mutex
  chat_thread,                       \* "idle" or "streaming"
  INTERRUPTED,                       \* comms.INTERRUPTED
  \* -- SIDETRACK_CLASS
  at,                                \* the main thread's place in its tick
  consolidation_stage, context_clear_stage, second_guess_stage,
  second_guess_chain_count,
  second_guess_actions_taken,
  PREVIOUS_HISTORY_SIZE, SECOND_GUESS_PREVIOUS_HISTORY_SIZE,
  working_history,                   \* a consolidation's copy of history
  \* -- SIDETRACK_CHAT_INSTANCE
  scratch,                           \* its thread, and its last_received
  outstanding,                       \* its outstanding_tool_call_ids
  \* -- history variables
  pushed,                            \* messages that have arrived
  excused                            \* those wiped, or overwritten by a pass

talk   == <<history, chat_thread, pushed>>
stages == <<consolidation_stage, context_clear_stage>>
guess  == <<second_guess_stage, second_guess_chain_count, second_guess_actions_taken,
            SECOND_GUESS_PREVIOUS_HISTORY_SIZE>>
second == <<scratch, outstanding>>
vars == <<talk, INTERRUPTED, at, stages, guess, PREVIOUS_HISTORY_SIZE,
          working_history, second, excused>>

Message(role, level, covers) == [role |-> role, level |-> level, covers |-> covers]
Opening == Message("system", -1, <<>>)

\* An instance's thread: is_processing is up while it sends and until it ends.
IsProcessing == scratch.thread \in {"sending", "returned"}
NoReply == [thread |-> "none", complete |-> FALSE, calls |-> {}, text |-> FALSE]

Init == /\ history = <<Opening>>
        /\ chat_thread = "idle"
        /\ INTERRUPTED = FALSE
        /\ at = "loop"
        /\ consolidation_stage = 0 /\ context_clear_stage = 0 /\ second_guess_stage = 0
        /\ second_guess_chain_count = 0
        /\ second_guess_actions_taken = {}
        /\ PREVIOUS_HISTORY_SIZE = 0 /\ SECOND_GUESS_PREVIOUS_HISTORY_SIZE = 0
        /\ working_history = <<>>
        /\ scratch = NoReply
        /\ outstanding = {}
        /\ pushed = 0 /\ excused = {}

-----------------------------------------------------------------------------
(* The chat.                                                               *)

\* The next messages arrive, one for each role of roles.
Push(roles) ==
  /\ history' = history \o [i \in DOMAIN roles |-> Message(roles[i], 0, <<pushed + i>>)]
  /\ pushed' = pushed + Len(roles)

\* input() accepts a line: chat_thread pushes it and starts on its reply.
SubmitLine ==
  /\ at = "loop" /\ chat_thread = "idle" /\ pushed < MaxMessages
  /\ Push(<<"user">>)
  /\ chat_thread' = "streaming"
  /\ INTERRUPTED' = FALSE
  /\ UNCHANGED <<at, stages, second_guess_stage, second_guess_chain_count,
                 second_guess_actions_taken, SECOND_GUESS_PREVIOUS_HISTORY_SIZE,
                 PREVIOUS_HISTORY_SIZE, working_history, second, excused>>

\* A reply with neither text nor calls is not pushed.
ChatReplies ==
  /\ chat_thread = "streaming"
  /\ chat_thread' = "idle"
  /\ Push(<<"assistant">>) \/ UNCHANGED <<history, pushed>>
  /\ UNCHANGED <<INTERRUPTED, at, stages, guess, PREVIOUS_HISTORY_SIZE,
                 working_history, second, excused>>

\* process() narrates a tool's result: the result, the note, the reply.
Narrate ==
  /\ at = "loop" /\ pushed < MaxMessages
  /\ Push(<<"tool", "system", "assistant">>)
  /\ UNCHANGED <<chat_thread, INTERRUPTED, at, stages, guess, PREVIOUS_HISTORY_SIZE,
                 working_history, second, excused>>

\* exchange() relays a key; input() clears it only while the chat streams.
Interrupt ==
  /\ at = "loop" /\ chat_thread = "idle" /\ ~INTERRUPTED
  /\ INTERRUPTED' = TRUE
  /\ UNCHANGED <<talk, at, stages, guess, PREVIOUS_HISTORY_SIZE, working_history,
                 second, excused>>

\* The loop ends: shutdown() asks the instance to exit and joins its thread.
Shutdown ==
  /\ at = "loop"
  /\ at' = "joining"
  /\ UNCHANGED <<talk, INTERRUPTED, stages, guess, PREVIOUS_HISTORY_SIZE,
                 working_history, second, excused>>

Joined ==
  /\ at = "joining" /\ ~IsProcessing
  /\ at' = "ended"
  /\ scratch' = [scratch EXCEPT !.thread = "none"]
  /\ UNCHANGED <<talk, INTERRUPTED, stages, guess, PREVIOUS_HISTORY_SIZE,
                 working_history, outstanding, excused>>

-----------------------------------------------------------------------------
(* check(): activity, the size limit, consolidation, the wipe.             *)

CheckActivity ==
  /\ at = "loop"
  /\ at' = "persistent"
  /\ IF Len(history) # PREVIOUS_HISTORY_SIZE
     THEN consolidation_stage' = 0 /\ context_clear_stage' = 0
     ELSE UNCHANGED stages
  /\ UNCHANGED <<talk, INTERRUPTED, guess, PREVIOUS_HISTORY_SIZE, working_history,
                 second, excused>>

\* The messages of h at one level, in their order.
AtLevel(h, k) == FlattenSeq([i \in DOMAIN h |-> IF h[i].level = k THEN <<h[i]>> ELSE <<>>])

\* -1 is the one negative level the code gives: no wipe or pass takes these.
Protected(h) == AtLevel(h, -1)

\* clear_history_keep_protected().
Wipe == /\ history' = Protected(history)
        /\ excused' = 1 .. pushed

PersistentTimeChecks ==
  /\ at = "persistent"
  /\ at' = "consolidation"
  /\ \/ UNCHANGED <<history, excused>>
     \/ Len(history) > MaxContext /\ Wipe
  /\ UNCHANGED <<chat_thread, pushed, INTERRUPTED, stages, guess,
                 PREVIOUS_HISTORY_SIZE, working_history, second>>

\* The review must be in its resting state before a pass may start.
MayStart == second_guess_stage = 100

ConsolidationWaits ==
  /\ at = "consolidation"
  /\ consolidation_stage # 2
  /\ at' = "clear"
  /\ \/ consolidation_stage = 0 /\ consolidation_stage' = 1
     \/ consolidation_stage = 1 /\ MayStart /\ consolidation_stage' = 2
     \/ consolidation_stage \in {1, 100} /\ UNCHANGED consolidation_stage
  /\ UNCHANGED <<talk, INTERRUPTED, context_clear_stage, guess,
                 PREVIOUS_HISTORY_SIZE, working_history, second, excused>>

\* A pass copies the history and takes the instance for its summaries.
BeginPass ==
  /\ at = "consolidation"
  /\ consolidation_stage = 2
  /\ at' = "pass"
  /\ working_history' = history
  /\ scratch' = NoReply
  /\ UNCHANGED <<talk, INTERRUPTED, stages, guess, PREVIOUS_HISTORY_SIZE,
                 outstanding, excused>>

\* The slice of raw messages shrinks until it ends on a reply.
Shrunk(level, n) ==
  LET ends == {i \in 1 .. n : level[i].role = "assistant"}
  IN  IF ends = {} THEN 0 ELSE CHOOSE i \in ends : \A j \in ends : j <= i

\* How many of a level's oldest messages are squashed, if any.
Overflow(level, k) ==
  LET n == IF Len(level) <= Keep THEN 0 ELSE Len(level) - Keep
      m == IF n < Trigger THEN 0 ELSE IF k = 0 THEN Shrunk(level, n) ELSE n
  IN  IF m < Trigger THEN 0 ELSE m

Covered(h) == FlattenSeq([i \in DOMAIN h |-> h[i].covers])

\* The walk at level k, to which the level below has promoted its summary: what
\* stays there and what it promotes.  summarised[k] tells whether the model gave
\* a summary when it was asked for; no level above h's highest is squashed.
Squash(h, summarised, k, promoted) ==
  LET level == AtLevel(h, k) \o promoted
      asked == k < MaxLevels /\ \E i \in DOMAIN h : h[i].level >= k
      n == IF asked /\ summarised[k] THEN Overflow(level, k) ELSE 0
  IN  [rest    |-> SubSeq(level, n + 1, Len(level)),
       summary |-> IF n = 0 THEN <<>>
                   ELSE <<Message("system", k + 1, Covered(SubSeq(level, 1, n)))>>]

\* The levels of h after the walk, lowest first.
Walked(h, summarised) ==
  LET walk[k \in 0 .. MaxLevels] ==
        Squash(h, summarised, k, IF k = 0 THEN <<>> ELSE walk[k - 1].summary)
  IN  walk

\* Faulty variant: the levels are put back newest first.
NewestFirst(h, walk) ==
  FlattenSeq([i \in 1 .. MaxLevels + 1 |-> walk[i - 1].rest])

\* The protected messages, then the levels from the oldest to the newest.
Flattened(h, walk) ==
  FlattenSeq([i \in 1 .. MaxLevels + 1 |-> walk[MaxLevels + 1 - i].rest])

Consolidated(h, summarised) ==
  Protected(h) \o Flattened(h, Walked(h, summarised))

\* replace_history(): what arrived during the pass is overwritten.
EndPass ==
  /\ at = "pass"
  /\ \E summarised \in [0 .. MaxLevels - 1 -> BOOLEAN] :
       history' = Consolidated(working_history, summarised)
  /\ excused' = excused \cup ((1 .. pushed) \ ToSet(Covered(working_history)))
  /\ working_history' = <<>>
  /\ consolidation_stage' = 100
  /\ at' = "clear"
  /\ UNCHANGED <<chat_thread, pushed, INTERRUPTED, context_clear_stage, guess,
                 PREVIOUS_HISTORY_SIZE, second>>

ClearContext ==
  /\ at = "clear"
  /\ at' = "review"
  /\ \/ context_clear_stage = 0 /\ context_clear_stage' = 1 /\ UNCHANGED <<history, excused>>
     \/ context_clear_stage = 1 /\ context_clear_stage' = 2 /\ UNCHANGED <<history, excused>>
     \/ context_clear_stage \in {1, 100} /\ UNCHANGED <<context_clear_stage, history, excused>>
     \/ context_clear_stage = 2 /\ context_clear_stage' = 100 /\ Wipe
  /\ UNCHANGED <<chat_thread, pushed, INTERRUPTED, consolidation_stage, guess,
                 PREVIOUS_HISTORY_SIZE, working_history, second>>

-----------------------------------------------------------------------------
(* run_second_guess(): the review of the latest reply.                     *)

NewestRole == IF history = <<>> THEN "" ELSE Last(history).role

ChainAllows(chained) == chained < MaxChain

\* A history of another size: a line ends the chain, a reply extends it.
NoticeReply ==
  /\ at = "review"
  /\ at' = "sized"
  /\ LET news == Len(history) # SECOND_GUESS_PREVIOUS_HISTORY_SIZE
         next == news /\ NewestRole = "assistant" /\ second_guess_stage = 100 /\ ChainAllows(second_guess_chain_count)
     IN  /\ second_guess_chain_count' = IF news /\ NewestRole = "user" THEN 0
                                        ELSE IF next THEN second_guess_chain_count + 1
                                        ELSE second_guess_chain_count
         /\ second_guess_stage' = IF next THEN 0 ELSE second_guess_stage
  /\ UNCHANGED <<talk, INTERRUPTED, stages, second_guess_actions_taken,
                 SECOND_GUESS_PREVIOUS_HISTORY_SIZE,
                 PREVIOUS_HISTORY_SIZE, working_history, second, excused>>

\* The size is read again, after the comparison.
NoteSize ==
  /\ at = "sized"
  /\ at' = "guess"
  /\ SECOND_GUESS_PREVIOUS_HISTORY_SIZE' = Len(history)
  /\ UNCHANGED <<talk, INTERRUPTED, stages, second_guess_stage, second_guess_chain_count,
                 second_guess_actions_taken, PREVIOUS_HISTORY_SIZE,
                 working_history, second, excused>>

\* What every step of the review's own stages leaves alone.
Apart == UNCHANGED <<chat_thread, stages, second_guess_chain_count,
                     SECOND_GUESS_PREVIOUS_HISTORY_SIZE, PREVIOUS_HISTORY_SIZE,
                     working_history, excused>>

AbortReview ==
  /\ at = "guess" /\ second_guess_stage < 2 /\ INTERRUPTED
  /\ second_guess_stage' = 0
  /\ INTERRUPTED' = FALSE
  /\ at' = "end"
  /\ Apart /\ UNCHANGED <<history, pushed, second_guess_actions_taken, second>>

ReviewWaits ==
  /\ at = "guess" /\ (second_guess_stage < 2 => ~INTERRUPTED)
  /\ \/ second_guess_stage = 0 /\ second_guess_stage' = 1
     \/ second_guess_stage = 1 /\ second_guess_stage' = 2
     \/ second_guess_stage \in {1, 100} /\ UNCHANGED second_guess_stage
  /\ at' = "end"
  /\ Apart /\ UNCHANGED <<history, pushed, INTERRUPTED, second_guess_actions_taken,
                          second>>

\* start_second_guess_call(): the instance's thread starts on a prompt.
StartCall == scratch' = [NoReply EXCEPT !.thread = "sending"]

BeginReview ==
  /\ at = "guess" /\ second_guess_stage = 2
  /\ StartCall
  /\ second_guess_stage' = 3
  /\ at' = "end"
  /\ Apart /\ UNCHANGED <<history, pushed, INTERRUPTED, second_guess_actions_taken, outstanding>>

\* The tools a completed reply calls are noted just before they are dispatched.
CaptureActions ==
  /\ at = "guess" /\ second_guess_stage \in {3, 5}
  /\ at' = "poll"
  /\ second_guess_actions_taken' =
       IF ~IsProcessing /\ scratch.complete
       THEN second_guess_actions_taken \cup scratch.calls ELSE second_guess_actions_taken
  /\ Apart /\ UNCHANGED <<history, pushed, INTERRUPTED, second_guess_stage, second>>

\* handle_instance_tools(): the calls of a completed reply that has ended.
Dispatched == IF ~IsProcessing /\ scratch.complete THEN scratch.calls ELSE {}

\* Faulty variants: a call is over once its thread has returned; a call that
\* was cut is not over.
ThreadOver(left, waiting) == ~IsProcessing
OverWhenComplete(left, waiting) ==
  ~IsProcessing /\ scratch.complete /\ left = {} /\ waiting = {}

\* A call is over when no tool is left to dispatch and none awaits its result.
CallOver(left, waiting) == ~IsProcessing /\ left = {} /\ waiting = {}

\* poll_second_guess_call(): stop on an interrupt, dispatch, collect, join.
PollCall ==
  /\ at = "poll"
  /\ at' = "end"
  /\ INTERRUPTED' = FALSE
  /\ \E results \in SUBSET (outstanding \cup (Dispatched \cap RemoteTools)) :
       outstanding' = (outstanding \cup (Dispatched \cap RemoteTools)) \ results
  /\ scratch' = [scratch EXCEPT !.calls = @ \ Dispatched,
                                !.thread = IF IsProcessing THEN @ ELSE "none"]
  /\ second_guess_stage' = IF CallOver(scratch'.calls, outstanding')
                           THEN second_guess_stage + 1 ELSE second_guess_stage
  /\ Apart /\ UNCHANGED <<history, pushed, second_guess_actions_taken>>

\* A review ends: its answer is committed, if there is one to commit.
Commit(spoken) ==
  /\ IF spoken THEN Push(<<"assistant">>) ELSE UNCHANGED <<history, pushed>>
  /\ second_guess_actions_taken' = {}
  /\ second_guess_stage' = 100
  /\ UNCHANGED second

\* commit_action_only_note(): a real action is never silent.
ActionNote == second_guess_actions_taken # {}

\* Stage 4: a reply that was cut, or finds nothing wrong, ends the review;
\* otherwise the instance is asked to put it right.
Decide ==
  /\ at = "guess" /\ second_guess_stage = 4
  /\ at' = "end"
  /\ \/ Commit(ActionNote)
     \/ /\ scratch.complete
        /\ StartCall
        /\ second_guess_stage' = 5
        /\ UNCHANGED <<history, pushed, second_guess_actions_taken, outstanding>>
  /\ Apart /\ UNCHANGED INTERRUPTED

\* Stage 6: the answer, or "..." when it was cut, or the action alone.
CommitAnswer ==
  /\ at = "guess" /\ second_guess_stage = 6
  /\ at' = "end"
  /\ Commit(scratch.text \/ ~scratch.complete \/ ActionNote)
  /\ Apart /\ UNCHANGED INTERRUPTED

EndCheck ==
  /\ at = "end"
  /\ at' = "loop"
  /\ PREVIOUS_HISTORY_SIZE' = Len(history)
  /\ UNCHANGED <<talk, INTERRUPTED, stages, guess, working_history, second, excused>>

-----------------------------------------------------------------------------
(* The instance's thread: send(), then is_processing falls.                *)

\* A reply may be cut, by stop() or a lost connection, after it named a tool.
ScratchReplies ==
  /\ scratch.thread = "sending"
  /\ \E complete, text \in BOOLEAN, calls \in SUBSET Tools :
       scratch' = [thread |-> "returned", complete |-> complete, calls |-> calls, text |-> text]
  /\ UNCHANGED <<talk, INTERRUPTED, at, stages, guess, PREVIOUS_HISTORY_SIZE,
                 working_history, outstanding, excused>>

ScratchEnds ==
  /\ scratch.thread = "returned"
  /\ scratch' = [scratch EXCEPT !.thread = "finished"]
  /\ UNCHANGED <<talk, INTERRUPTED, at, stages, guess, PREVIOUS_HISTORY_SIZE,
                 working_history, outstanding, excused>>

Check == \/ CheckActivity \/ PersistentTimeChecks \/ ConsolidationWaits \/ BeginPass
         \/ EndPass \/ ClearContext \/ NoticeReply \/ NoteSize \/ AbortReview
         \/ ReviewWaits \/ BeginReview \/ CaptureActions \/ PollCall \/ Decide
         \/ CommitAnswer \/ EndCheck

Next == \/ SubmitLine \/ ChatReplies \/ Narrate \/ Interrupt \/ Shutdown \/ Joined
        \/ Check \/ ScratchReplies \/ ScratchEnds

Spec == Init /\ [][Next]_vars

\* The loop ticks, the backend returns (its read times out), and tool_worker
\* answers every call, late or with a timeout error.
Fairness == /\ WF_vars(Check)
            /\ WF_vars(Joined)
            /\ WF_vars(ScratchReplies)
            /\ WF_vars(ScratchEnds)
            /\ SF_vars(PollCall /\ outstanding' = {})

FairSpec == Spec /\ Fairness

-----------------------------------------------------------------------------
(* Properties.                                                             *)

Rising(s) == \A i, j \in DOMAIN s : i < j => s[i] < s[j]

\* Every message the chat ever had is in the history, by itself or in exactly
\* one summary, and in the order of arrival, unless it was wiped or arrived
\* while a pass was at work (run_consolidation, sidetrack.cpp:540-768).
Remembered == /\ Rising(Covered(history))
              /\ ToSet(Covered(history)) = (1 .. pushed) \ excused

\* A pass has the instance for itself: no review is between its calls and no
\* thread of the instance runs (sidetrack.cpp:549-565).
ScratchExclusive == at = "pass" => second_guess_stage \notin 3 .. 6 /\ ~IsProcessing

\* The outcome of a review is final before the next begins: when it commits,
\* no tool it called is still to be dispatched or still to answer
\* (poll_second_guess_call, sidetrack.cpp:153-167).
ActionsSettled == second_guess_stage \in {4, 6} => scratch.calls = {} /\ outstanding = {}

\* Passes and reviews share the scratch instance: neither finds the other's work on
\* it, nor its own unfinished (sidetrack.cpp:153-167 and 549-565).
ScratchKept == ScratchExclusive /\ ActionsSettled

\* A review that has started ends, even one that was stopped, unless its reply
\* was cut after it had named a tool (sidetrack.cpp:153-167).
Stuck == ~scratch.complete /\ scratch.calls # {}
ReviewEnds == second_guess_stage \in 2 .. 6 ~>
                second_guess_stage = 100 \/ Stuck \/ at \in {"joining", "ended"}

\* What the comment in poll_second_guess_call() says of an interrupted call:
\* it is still over, so that no interrupt stalls stage 3 or 5.
ReviewNeverStalls == second_guess_stage \in 2 .. 6 ~>
                       second_guess_stage = 100 \/ at \in {"joining", "ended"}

=============================================================================
