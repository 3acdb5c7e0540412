----------------------------- MODULE ToolWorker -----------------------------
(***************************************************************************)
(* TOOL_WORKER_CLASS (source/tool_worker.{h,cpp}) and the connections it   *)
(* serves, TOOL_REMOTE (source/remote_tools.{h,cpp}): the background       *)
(* thread through which every ai_root instance (the main chat, a task      *)
(* runner's instance, a delegate's instance) sends calls to tools in other *)
(* processes and claims their results.                                     *)
(*                                                                         *)
(* The worker's tick holds state_mutex from its first step to its last, so *)
(* the callers' methods (put_pending_call, get_pending_result,             *)
(* abandon_call, get_pending_event) run only while pc = "sleep"; the peers *)
(* write to their sockets at any time.                                     *)
(*                                                                         *)
(* Vectors ordered by time of put_pending_call (pending_calls,             *)
(* call_deadlines) are sets of ids here, their order is kept in `stamp'.   *)
(***************************************************************************)
EXTENDS Naturals, Sequences

CONSTANTS Instances,   \* ai_root objects sharing the worker
          Calls,       \* call ids; each is dispatched at most once
          Names,       \* tool function names
          NameOf,      \* NameOf[c] is the function call c asks for
          None,        \* no value (an empty std::optional)
          Event,       \* an event line, as opposed to the result of a call
          Background,  \* the instances PART 2 of process() erases when done
          MaxConns,    \* bound: connections accepted over a behaviour
          MaxWire,     \* bound: unread lines on one socket
          MaxEvents    \* bound: undrained events

ASSUME NameOfAssumption  == NameOf \in [Calls -> Names]
ASSUME NoneAssumption    == /\ None \notin Calls
                            /\ Event \notin Calls \cup {None}
                            /\ None \notin {"answer", "timeout"}
ASSUME BackgroundAssumption == Background \subseteq Instances
ASSUME BoundsAssumption  == /\ MaxConns \in Nat
                            /\ MaxWire \in Nat
                            /\ MaxEvents \in Nat

\* TOOL_REMOTE objects, numbered in the order in which they register
\* (the order of the vector tools_list).
Conns == 1 .. MaxConns

VARIABLES
  \* -- TOOL_WORKER_CLASS, guarded by state_mutex
  pending_calls,        \* ids queued, on no wire yet
  pending_results,      \* per id, the unclaimed verdicts, oldest first
  pending_events,       \* number of events queued
  abandoned_call_ids,   \* ids whose dispatcher no longer exists
  call_deadlines,       \* ids whose deadline is still tracked
  registered_tool_defs, \* names advertised to the model
  stamp,                \* when put_pending_call queued the id; 0 = never
  clock,                \* the latest stamp given out
  overdue,              \* stamps <= overdue are CALL_TIMEOUT_SECONDS old
  \* -- thread_main
  pc,                   \* "sleep", "poll" or "sweep"
  cursor,               \* the connection poll_communications is called on next
  \* -- TOOL_REMOTE, one per connection
  conn,                 \* "unborn", "open", "closed" (fd < 0), "erased"
  tool_defs,            \* the names the peer registered
  awaiting_call_id,     \* the call in flight, or None
  wire,                 \* lines the peer has sent and the worker not read
  delivered,            \* ids the peers have received (on any connection)
  \* -- ai_root instances
  instance,             \* "live" or "finished" (PART 2 erases it)
  outstanding,          \* outstanding_tool_call_ids
  claimed,              \* what get_pending_result handed over for an id
  landed                \* history: every verdict ever queued for an id

workerVars == <<pending_calls, pending_results, pending_events,
                abandoned_call_ids, call_deadlines, registered_tool_defs,
                stamp, clock>>
remoteVars == <<conn, tool_defs, awaiting_call_id, wire, delivered>>
callerVars == <<instance, outstanding, claimed>>
vars == <<workerVars, overdue, pc, cursor, remoteVars, callerVars, landed>>

Answer  == "answer"   \* a result line of the peer (error replies included)
Timeout == "timeout"  \* the error TOOL_RESULT the sweep synthesizes
Verdict == {Answer, Timeout}

Line == Calls \cup {Event}  \* the call id of a result line, or an event line

-----------------------------------------------------------------------------

Init == /\ pending_calls = {}
        /\ pending_results = [c \in Calls |-> <<>>]
        /\ pending_events = 0
        /\ abandoned_call_ids = {}
        /\ call_deadlines = {}
        /\ registered_tool_defs = {}
        /\ stamp = [c \in Calls |-> 0]
        /\ clock = 0
        /\ overdue = 0
        /\ pc = "sleep"
        /\ cursor = 0
        /\ conn = [k \in Conns |-> "unborn"]
        /\ tool_defs = [k \in Conns |-> {}]
        /\ awaiting_call_id = [k \in Conns |-> None]
        /\ wire = [k \in Conns |-> <<>>]
        /\ delivered = {}
        /\ instance = [i \in Instances |-> "live"]
        /\ outstanding = [i \in Instances |-> {}]
        /\ claimed = [c \in Calls |-> None]
        /\ landed = [c \in Calls |-> <<>>]

-----------------------------------------------------------------------------
(* The callers: ai_root instances, each on the thread that ticks it.       *)

LockFree == pc = "sleep"

\* dispatch_tool_call hands a call no built-in tool claims to the worker.
PutPendingCall(i, c) ==
  /\ LockFree
  /\ instance[i] = "live"
  /\ stamp[c] = 0
  /\ outstanding' = [outstanding EXCEPT ![i] = @ \cup {c}]
  /\ pending_calls' = pending_calls \cup {c}
  /\ call_deadlines' = call_deadlines \cup {c}
  /\ clock' = clock + 1
  /\ stamp' = [stamp EXCEPT ![c] = clock + 1]
  /\ UNCHANGED <<pending_results, pending_events, abandoned_call_ids,
                 registered_tool_defs, overdue, pc, cursor, remoteVars,
                 instance, claimed, landed>>

\* get_pending_result takes the oldest entry of that id. Faulty variant: the
\* newest.
NewestResult(c) == pending_results[c][Len(pending_results[c])]
TakenResult(c)  == Head(pending_results[c])

\* process() PART 5 claims the result of one of its own outstanding calls.
\* A failed try_lock, or no result yet, leaves everything as it was.
GetPendingResult(i, c) ==
  /\ LockFree
  /\ instance[i] = "live"
  /\ c \in outstanding[i]
  /\ pending_results[c] # <<>>
  /\ claimed' = [claimed EXCEPT ![c] = TakenResult(c)]
  /\ pending_results' = [pending_results EXCEPT ![c] = Tail(@)]
  /\ outstanding' = [outstanding EXCEPT ![i] = @ \ {c}]
  /\ UNCHANGED <<pending_calls, pending_events, abandoned_call_ids,
                 call_deadlines, registered_tool_defs, stamp, clock, overdue,
                 pc, cursor, remoteVars, instance, landed>>

EventQueued  == pending_events > 0

\* process() PART 5 drains one event (any instance with drains_events).
GetPendingEvent ==
  /\ LockFree
  /\ EventQueued
  /\ \E i \in Instances : instance[i] = "live"
  /\ pending_events' = pending_events - 1
  /\ UNCHANGED <<pending_calls, pending_results, abandoned_call_ids,
                 call_deadlines, registered_tool_defs, stamp, clock, overdue,
                 pc, cursor, remoteVars, callerVars, landed>>

\* process() PART 2 finds a background task's turn complete, whatever calls
\* it still has outstanding ...
FinishInstance(i) ==
  /\ i \in Background
  /\ instance[i] = "live"
  /\ instance' = [instance EXCEPT ![i] = "finished"]
  /\ UNCHANGED <<workerVars, overdue, pc, cursor, remoteVars, outstanding,
                 claimed, landed>>

\* ... and abandons each of them, one lock of state_mutex per call.
AbandonCall(i, c) ==
  /\ LockFree
  /\ instance[i] = "finished"
  /\ c \in outstanding[i]
  /\ abandoned_call_ids' = abandoned_call_ids \cup {c}
  /\ outstanding' = [outstanding EXCEPT ![i] = @ \ {c}]
  /\ UNCHANGED <<pending_calls, pending_results, pending_events,
                 call_deadlines, registered_tool_defs, stamp, clock, overdue,
                 pc, cursor, remoteVars, instance, claimed, landed>>

-----------------------------------------------------------------------------
(* thread_main: one tick, under state_mutex.                               *)

\* REMOTE_TOOL_LISTENER::poll: at most one handshake completes per tick.
\* send_identity marks the new connection dead if its write fails.
Register ==
  \E k \in Conns, defs \in SUBSET Names :
    /\ conn[k] = "unborn"
    /\ \A j \in 1 .. k - 1 : conn[j] # "unborn"
    /\ \E fd \in {"open", "closed"} : conn' = [conn EXCEPT ![k] = fd]
    /\ tool_defs' = [tool_defs EXCEPT ![k] = defs]

BeginTick ==
  /\ pc = "sleep"
  /\ pc' = IF Conns = {} THEN "sweep" ELSE "poll"
  /\ cursor' = 1
  /\ Register \/ UNCHANGED <<conn, tool_defs>>
  /\ UNCHANGED <<workerVars, overdue, awaiting_call_id, wire, delivered,
                 callerVars, landed>>

\* poll_communications, step 1: m is the line read, None if there was none.
\* Only the result of the call in flight counts; any other result is ignored.
Hear(k, m, lands) ==
  /\ wire' = IF m = None THEN wire ELSE [wire EXCEPT ![k] = Tail(@)]
  /\ pending_results' = IF lands
        THEN [pending_results EXCEPT ![m] = Append(@, Answer)]
        ELSE pending_results
  /\ landed' = IF lands THEN [landed EXCEPT ![m] = Append(@, Answer)]
                        ELSE landed
  /\ pending_events' = pending_events + (IF m = Event THEN 1 ELSE 0)

\* Step 2 and every failed write: mark_dead. An end of file, 15 s without a
\* line, or a write the socket refuses, whatever lines are still unread.
MarkDead(k) ==
  /\ conn' = [conn EXCEPT ![k] = "closed"]
  /\ UNCHANGED <<pending_calls, delivered>>

\* Step 3: send the oldest queued call this peer has a tool for, if no call
\* is in flight on this connection.
Mine(k) == {c \in pending_calls : NameOf[c] \in tool_defs[k]}

Send(k, c) ==
  /\ c \in Mine(k)
  /\ \A d \in Mine(k) : stamp[c] <= stamp[d]
  /\ pending_calls' = pending_calls \ {c}
  /\ delivered' = delivered \cup {c}
  /\ UNCHANGED conn

\* The whole of poll_communications, for the line m it reads.
PollLine(k, m) ==
  LET lands == m \in Calls /\ m = awaiting_call_id[k]
      busy  == IF lands THEN None ELSE awaiting_call_id[k]
  IN /\ Hear(k, m, lands)
     /\ \/ /\ busy = None
           /\ \E c \in Mine(k) :
                /\ Send(k, c)
                /\ awaiting_call_id' = [awaiting_call_id EXCEPT ![k] = c]
        \/ /\ \/ MarkDead(k)
              \/ /\ busy # None \/ Mine(k) = {}
                 /\ UNCHANGED <<pending_calls, delivered, conn>>
           /\ awaiting_call_id' = [awaiting_call_id EXCEPT ![k] = busy]

NextLine(k) == {None} \cup (IF wire[k] = <<>> THEN {} ELSE {Head(wire[k])})

PollCommunications(k) == \E m \in NextLine(k) : PollLine(k, m)

\* The loop over tools_list, one connection per step, in order.
Poll(k) ==
  /\ pc = "poll"
  /\ cursor = k
  /\ cursor' = k + 1
  /\ pc' = IF k = MaxConns THEN "sweep" ELSE "poll"
  /\ \/ conn[k] = "open" /\ PollCommunications(k)
     \/ /\ conn[k] # "open"
        /\ UNCHANGED <<pending_calls, pending_results, pending_events, conn,
                       awaiting_call_id, wire, delivered, landed>>
  /\ UNCHANGED <<abandoned_call_ids, call_deadlines, registered_tool_defs,
                 stamp, clock, overdue, tool_defs, callerVars>>

\* Deadlines of calls that have a result are dropped.
Unanswered == {c \in call_deadlines : pending_results[c] = <<>>}

\* Faulty variant: a deadline is dropped once the call is on a wire.
UnsentOnly == {c \in Unanswered : c \in pending_calls}

DeadlinesLeft == Unanswered

Expired == {c \in DeadlinesLeft : stamp[c] <= overdue}

\* An expired call leaves the queue. Faulty variant: it stays.
ExpiredStaysQueued == pending_calls
StillQueued        == pending_calls \ Expired

WithTimeouts(f) == [c \in Calls |-> IF c \in Expired THEN Append(f[c], Timeout)
                                                     ELSE f[c]]

\* The rest of the tick: the overdue calls are answered with an error, results
\* of abandoned calls are dropped (the first match only: its id then leaves
\* abandoned_call_ids), dead connections are erased and the advertised
\* definitions rebuilt.
EndTick ==
  LET results == WithTimeouts(pending_results)
      dropped == {c \in abandoned_call_ids : results[c] # <<>>}
      dead    == {k \in Conns : conn[k] = "closed"}
  IN /\ pc = "sweep"
     /\ pc' = "sleep"
     /\ cursor' = 0
     /\ call_deadlines' = DeadlinesLeft \ Expired
     /\ pending_calls' = StillQueued
     /\ landed' = WithTimeouts(landed)
     /\ pending_results' = [c \in Calls |-> IF c \in dropped
                                            THEN Tail(results[c]) ELSE results[c]]
     /\ abandoned_call_ids' = abandoned_call_ids \ dropped
     /\ conn' = [k \in Conns |-> IF k \in dead THEN "erased" ELSE conn[k]]
     /\ tool_defs' = [k \in Conns |-> IF k \in dead THEN {} ELSE tool_defs[k]]
     /\ awaiting_call_id' = [k \in Conns |-> IF k \in dead THEN None
                                              ELSE awaiting_call_id[k]]
     /\ wire' = [k \in Conns |-> IF k \in dead THEN <<>> ELSE wire[k]]
     /\ registered_tool_defs' = UNION {tool_defs[k] : k \in
                                        {j \in Conns : conn[j] = "open"}}
     /\ UNCHANGED <<pending_events, stamp, clock, overdue, delivered,
                    callerVars>>

-----------------------------------------------------------------------------
(* The environment: the tools' processes, and the clock.                   *)

\* A peer sends a result line for a call it was given, now or ever: tools
\* answer late, twice, or on a new connection after a reconnect.
PeerResult(k, c) ==
  /\ conn[k] = "open"
  /\ c \in delivered
  /\ Len(wire[k]) < MaxWire
  /\ wire' = [wire EXCEPT ![k] = Append(@, c)]
  /\ UNCHANGED <<workerVars, overdue, pc, cursor, conn, tool_defs,
                 awaiting_call_id, delivered, callerVars, landed>>

\* A peer sends an event line (bounded by MaxEvents undrained ones).
PeerEvent(k) ==
  /\ conn[k] = "open"
  /\ Len(wire[k]) < MaxWire
  /\ pending_events < MaxEvents
  /\ \A j \in Conns : \A n \in DOMAIN wire[j] : wire[j][n] # Event
  /\ wire' = [wire EXCEPT ![k] = Append(@, Event)]
  /\ UNCHANGED <<workerVars, overdue, pc, cursor, conn, tool_defs,
                 awaiting_call_id, delivered, callerVars, landed>>

\* CALL_TIMEOUT_SECONDS have passed since the next-oldest put_pending_call.
TimePasses ==
  /\ overdue < clock
  /\ overdue' = overdue + 1
  /\ UNCHANGED <<workerVars, pc, cursor, remoteVars, callerVars, landed>>

-----------------------------------------------------------------------------

Next == \/ \E i \in Instances, c \in Calls : \/ PutPendingCall(i, c)
                                            \/ GetPendingResult(i, c)
                                            \/ AbandonCall(i, c)
        \/ \E i \in Instances : FinishInstance(i)
        \/ GetPendingEvent
        \/ BeginTick
        \/ \E k \in Conns : Poll(k)
        \/ EndTick
        \/ \E k \in Conns, c \in Calls : PeerResult(k, c)
        \/ \E k \in Conns : PeerEvent(k)
        \/ TimePasses

Spec == Init /\ [][Next]_vars

\* The worker's loop and the clock never stop. process() runs on every tick
\* of its instance and the worker sleeps 20 ms between ticks with the mutex
\* free, so a caller that keeps asking finds it free again and again.
Fairness ==
  /\ WF_vars(BeginTick)
  /\ WF_vars(\E k \in Conns : Poll(k))
  /\ WF_vars(EndTick)
  /\ WF_vars(TimePasses)
  /\ \A i \in Instances, c \in Calls : /\ SF_vars(GetPendingResult(i, c))
                                      /\ SF_vars(AbandonCall(i, c))

FairSpec == Spec /\ Fairness

-----------------------------------------------------------------------------
(* Properties.                                                             *)

TypeOK == /\ pending_calls \subseteq Calls
          /\ pending_results \in [Calls -> Seq(Verdict)]
          /\ pending_events \in Nat
          /\ abandoned_call_ids \subseteq Calls
          /\ call_deadlines \subseteq Calls
          /\ registered_tool_defs \subseteq Names
          /\ stamp \in [Calls -> Nat]
          /\ clock \in Nat
          /\ overdue \in Nat
          /\ pc \in {"sleep", "poll", "sweep"}
          /\ cursor \in Nat
          /\ conn \in [Conns -> {"unborn", "open", "closed", "erased"}]
          /\ tool_defs \in [Conns -> SUBSET Names]
          /\ awaiting_call_id \in [Conns -> Calls \cup {None}]
          /\ wire \in [Conns -> Seq(Line)]
          /\ delivered \subseteq Calls
          /\ instance \in [Instances -> {"live", "finished"}]
          /\ outstanding \in [Instances -> SUBSET Calls]
          /\ claimed \in [Calls -> Verdict \cup {None}]
          /\ landed \in [Calls -> Seq(Verdict)]

Resolved(c)    == landed[c] # <<>>
Outstanding(c) == \E i \in Instances : c \in outstanding[i]

\* Nobody waits for nothing: a call an instance still waits for, or that
\* waits to be dropped, has a running deadline or an unclaimed result. The
\* deadline list and the result queue are edited by five steps of the tick
\* and by callers in between.
Accounted ==
  \A c \in Calls :
    c \in abandoned_call_ids \/ Outstanding(c)
      => c \in call_deadlines \/ pending_results[c] # <<>>

\* A call is executed at most once: when a connection takes a call, no peer
\* was ever given it (not even one that died with it in flight), and its
\* dispatcher was not already given an answer or a timeout for it.
TakenOnce ==
  \A k \in Conns :
    LET c == awaiting_call_id'[k]
    IN c \notin {None, awaiting_call_id[k]} => c \notin delivered /\ ~Resolved(c)
NeverRedispatched == [][TakenOnce]_vars

\* A call is answered by its tool at most once, and never times out after it
\* was answered: the sweep runs after the connections were polled, and peers
\* may answer late, twice, or on another connection.
NoTimeoutAfterAnswer ==
  \A c \in Calls : landed[c] \in {<<>>, <<Answer>>, <<Timeout>>, <<Timeout, Answer>>}

\* A dispatcher that keeps ticking (the main chat) gets a verdict for every
\* call, connected tool or not, through any loss of connections.
MainServed ==
  \A i \in Instances \ Background, c \in Calls :
    c \in outstanding[i] ~> claimed[c] # None

\* Every abandoned call leaves abandoned_call_ids: the list does not grow
\* over a session.
AbandonedForgotten ==
  \A c \in Calls : c \in abandoned_call_ids ~> c \notin abandoned_call_ids

\* abandon_call's comment (tool_worker.h): an abandoned call's result is
\* dropped "instead of kept in pending_results forever". A call that was
\* dispatched, is not outstanding, was not claimed and has left
\* abandoned_call_ids was abandoned and dropped.
Dropped(c) == /\ stamp[c] > 0
              /\ claimed[c] = None
              /\ c \notin abandoned_call_ids
              /\ ~Outstanding(c)
AbandonedNeverKept == \A c \in Calls : Dropped(c) => pending_results[c] = <<>>

-----------------------------------------------------------------------------
(* The inductive invariant behind Accounted, NeverRedispatched and          *)
(* NoTimeoutAfterAnswer.                                                   *)

\* An id that was never dispatched is nowhere.
FreshInv ==
  \A c \in Calls : stamp[c] = 0 =>
    /\ c \notin pending_calls \cup call_deadlines \cup delivered \cup abandoned_call_ids
    /\ pending_results[c] = <<>> /\ landed[c] = <<>>
    /\ claimed[c] = None /\ ~Outstanding(c)

\* A queued call was given to no peer and has no verdict.
QueuedInv ==
  \A c \in pending_calls :
    c \in call_deadlines /\ c \notin delivered /\ landed[c] = <<>>

\* A call in flight is in flight on one connection and was not answered.
FlightInv ==
  \A k \in Conns : awaiting_call_id[k] # None =>
    /\ awaiting_call_id[k] \in delivered
    /\ landed[awaiting_call_id[k]] \in {<<>>, <<Timeout>>}
    /\ \A j \in Conns \ {k} : awaiting_call_id[j] # awaiting_call_id[k]

\* A tracked deadline belongs to a call without a verdict, except between
\* the poll of a connection and the end of the same tick.
DeadlineInv ==
  \A c \in call_deadlines :
    \/ landed[c] = <<>> /\ pending_results[c] = <<>>
    \/ pc # "sleep" /\ pending_results[c] # <<>>

\* Unclaimed results are among the verdicts that landed.
LandedInv == \A c \in Calls : pending_results[c] # <<>> => landed[c] # <<>>

\* A call has one dispatcher, or none.
OwnerInv ==
  /\ \A i, j \in Instances : i # j => outstanding[i] \cap outstanding[j] = {}
  /\ \A i \in Instances : outstanding[i] \cap abandoned_call_ids = {}

\* A call that is waited for has all its verdicts unclaimed; a dispatched
\* call without a verdict is waited for, or abandoned.
PromiseInv ==
  \A c \in Calls :
    /\ Outstanding(c) \/ c \in abandoned_call_ids
         => claimed[c] = None /\ pending_results[c] = landed[c]
    /\ stamp[c] # 0 /\ landed[c] = <<>>
         => claimed[c] = None /\ (Outstanding(c) \/ c \in abandoned_call_ids)

IInv == /\ TypeOK /\ FreshInv /\ QueuedInv /\ FlightInv /\ DeadlineInv
        /\ LandedInv /\ OwnerInv /\ PromiseInv
        /\ NoTimeoutAfterAnswer /\ Accounted

-----------------------------------------------------------------------------
(* The service ToolWorker implements.                                      *)

Phase(c) == IF stamp[c] = 0 THEN "new"
            ELSE IF claimed[c] # None THEN "claimed"
            ELSE IF c \in abandoned_call_ids THEN "abandoned"
            ELSE IF Outstanding(c) THEN "waiting"
            ELSE "dropped"

FirstVerdict(c) == IF Resolved(c) THEN Head(landed[c]) ELSE None

Service == INSTANCE CallService WITH
  phase <- [c \in Calls |-> Phase(c)],
  verdict <- [c \in Calls |-> FirstVerdict(c)],
  given <- claimed

\* The worker keeps its promise through every interleaving of callers, ticks
\* and peers: one verdict per call, the first to arrive, handed over once.
Implements == Service!Spec

=============================================================================
