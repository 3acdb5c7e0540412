------------------------------- MODULE Subcon -------------------------------
(***************************************************************************)
(* The subconscious server: SUBCON_REASONER (src/tools/subcon/reasoner.cpp)*)
(* and the main loop of src/tools/subcon/subcon.cpp that drives it, over   *)
(* the worker thread of JobWorker, the tool server of SubconServer and the *)
(* rules of SubconTasks.                                                   *)
(*                                                                         *)
(* Everything but the worker runs on one thread, phase by phase: what olli *)
(* sent, the tools' lines, the sweep, the callbacks, the notices, the job  *)
(* result, the tick.  The process may be killed between any two steps;     *)
(* what it saved is in disk.  What a model answers is chosen when its      *)
(* answer is handled.                                                      *)
(***************************************************************************)
EXTENDS JobWorker, SubconServer, SubconTasks, FiniteSets

CONSTANTS
  Profile,              \* profiles olli may be run by
  Internal,             \* tools the worker runs itself
  ReadOnly,             \* is_read_only_tool()
  Replies,              \* the calls an act reply may carry: a set of sequences of names
  MAX_CALLS_PER_REPLY,
  max_tool_rounds,
  MaxCycles,            \* think cycles started (a bound)
  MaxOutside,           \* what comes from outside: profile switches, signals, kills
                        \* and presence events (a bound)
  MaxClock,             \* the clock's last value (a bound)
  MaxCalls              \* calls handed to tools (a bound)

ASSUME SubconAssumption ==
  /\ Internal \subseteq ReadOnly /\ ReadOnly \subseteq Name
  /\ Replies \subseteq Seq(Name)
  /\ MAX_CALLS_PER_REPLY \in Nat /\ max_tool_rounds \in Nat
  /\ "none" \notin Profile

VARIABLES
  pc,                \* phase of the main loop
  profile,           \* the loaded profile, or "none"
  cyc,               \* the cycle: stage and what goes with it
  cycle_token,
  expected_job_id,
  answer,            \* the job result being handled
  owner,             \* owner[id]: whose callback call id carries
  notices,           \* what service() noticed
  presence, tracker, \* presence_value, presence_tracker
  probing,           \* presence_probe_inflight
  runs,              \* run_times of each task
  queue,             \* the notes
  handing,           \* the digest on its way to olli
  quit,              \* quit_requested
  disk,              \* what is saved, per profile
  now,
  handed,            \* notes olli was given, in order (history)
  acts,              \* acts begun: profile, task, time, arrival known then (history)
  tally              \* cycles started and what came from outside so far (bounds)

reasonerVars == <<cyc, cycle_token, expected_job_id>>
storeVars    == <<runs, queue, disk>>
presenceVars == <<presence, tracker, probing>>
loopVars     == <<profile, owner, notices, handing, quit>>
worldVars    == <<now, handed, acts, tally>>
vars == <<jobVars, serverVars, reasonerVars, storeVars, presenceVars, loopVars, worldVars, answer, pc>>

NoCycle == [stage |-> "IDLE", slots |-> <<>>, batch |-> {}, rounds |-> 0, asked |-> FALSE,
            answered |-> FALSE, unsafe |-> FALSE, nudged |-> FALSE, offered |-> {}, act |-> 0]

loaded   == profile # "none"
EmptyRun == [t \in Task |-> <<>>]

Init ==
  /\ JobInit /\ ServerInit
  /\ pc = "link" /\ profile = "none"
  /\ cyc = NoCycle /\ cycle_token = 0 /\ expected_job_id = 0
  /\ owner = <<>> /\ notices = <<>> /\ answer = NoResult
  /\ presence = "unknown" /\ tracker = NewTracker /\ probing = FALSE
  /\ runs = EmptyRun /\ queue = <<>> /\ handing = <<>> /\ quit = FALSE
  /\ disk = [p \in Profile |-> [runs |-> EmptyRun, queue |-> <<>>]]
  /\ now = 1 /\ handed = <<>> /\ acts = {}
  /\ tally = [cycles |-> 0, outside |-> 0]

-----------------------------------------------------------------------------
(* The store.                                                              *)

save_items(items) == disk' = [disk EXCEPT ![profile].runs = items]
save_queue(notes) == disk' = [disk EXCEPT ![profile].queue = notes]

-----------------------------------------------------------------------------
(* Asking.                                                                 *)

available_tool_names == ReadOnly \cap (Internal \cup tool_names)

eligible_indices ==
  {t \in Task : /\ Eligible(t, runs[t], now, tracker.last_arrival)
                /\ Missing(t, available_tool_names) = {}}

\* end_cycle_without_finding(), and the end of handle_finding().
EndCycle ==
  /\ cyc' = NoCycle
  /\ cycle_token' = cycle_token + 1
  /\ expected_job_id' = 0
  /\ UNCHANGED jobVars

\* The cycle goes back to idle before any task was chosen.
StayIdle ==
  /\ cyc' = NoCycle
  /\ expected_job_id' = 0
  /\ UNCHANGED <<cycle_token, jobVars>>

\* submit_chat(), and the stage that waits for its answer.
AskModel(c, stage) ==
  /\ Accepts
  /\ Submit
  /\ expected_job_id' = next_job_id
  /\ cyc' = [c EXCEPT !.stage = stage, !.slots = <<>>, !.batch = {}]
  /\ UNCHANGED cycle_token

AskOrEnd(c, stage) ==
  \/ AskModel(c, stage)
  \/ ~Accepts /\ EndCycle

\* A finding is asked for only when a tool was used and one of them answered.
finish_act(c) ==
  IF c.asked /\ c.answered THEN AskOrEnd(c, "FINDING") ELSE EndCycle

AllDone(c) == \A i \in DOMAIN c.slots : c.slots[i].done

\* maybe_finish_tool_round(): waits for the batch and for every slot; then
\* the answers are appended and the model is asked again, or for its
\* finding once the results have used up the cycle's size budget.
maybe_finish_tool_round(c) ==
  IF c.stage # "ACTING_TOOLS" \/ c.batch # {} \/ ~AllDone(c)
  THEN /\ cyc' = c
       /\ expected_job_id' = IF c.batch = {} THEN 0 ELSE expected_job_id
       /\ UNCHANGED <<cycle_token, jobVars>>
  ELSE LET used == {i \in DOMAIN c.slots : c.slots[i].dispatched}
           next == [c EXCEPT !.rounds = @ + 1, !.offered = available_tool_names,
                             !.asked = @ \/ used # {},
                             !.answered = @ \/ \E i \in used : c.slots[i].ok]
       IN  \/ next.asked /\ finish_act(next)
           \/ AskOrEnd(next, "ACTING_MODEL")

-----------------------------------------------------------------------------
(* The act turn.                                                           *)

Slot(done, ok, dispatched, id) == [done |-> done, ok |-> ok, dispatched |-> dispatched, id |-> id]

\* One call of a reply: refused when it was not offered (and held against
\* the cycle when it is not read-only), answered with an error beyond the
\* limit, put in the worker's batch when it is internal, else handed to the
\* first tool that provides it.
Dispatched(acc, name) ==
  LET index    == Len(acc.slots) + 1
      id       == Len(acc.owner) + 1
      executed == Cardinality({i \in DOMAIN acc.slots : acc.slots[i].dispatched})
      filled(slot) == [acc EXCEPT !.slots = Append(@, slot)]
  IN  CASE name \notin acc.offered ->
             [filled(Slot(TRUE, FALSE, FALSE, 0)) EXCEPT !.unsafe = @ \/ name \notin ReadOnly]
        [] name \in acc.offered /\ executed >= MAX_CALLS_PER_REPLY ->
             filled(Slot(TRUE, FALSE, FALSE, 0))
        [] name \in acc.offered /\ executed < MAX_CALLS_PER_REPLY /\ name \in Internal ->
             [filled(Slot(FALSE, FALSE, TRUE, 0)) EXCEPT !.batch = @ \cup {index}]
        [] OTHER ->
             IF has_tool(name)
             THEN [filled(Slot(FALSE, FALSE, TRUE, id)) EXCEPT
                     !.conn  = Placed(@, name, id),
                     !.owner = Append(@, [kind |-> "slot", token |-> cycle_token, index |-> index, state |-> "open"])]
             ELSE filled(Slot(TRUE, FALSE, TRUE, 0))

DispatchedAll(start, calls) ==
  LET after[i \in 0 .. Len(calls)] == IF i = 0 THEN start ELSE Dispatched(after[i - 1], calls[i])
  IN  after[Len(calls)]

\* dispatch_calls(); the batch is submitted after every call was looked at.
dispatch_calls(c, calls) ==
  LET start == [slots |-> <<>>, batch |-> {}, unsafe |-> c.unsafe, offered |-> c.offered,
                conn |-> conn, owner |-> owner]
      end   == DispatchedAll(start, calls)
      asking == [c EXCEPT !.stage = "ACTING_TOOLS", !.slots = end.slots, !.batch = end.batch, !.unsafe = end.unsafe]
      refused == [asking EXCEPT !.batch = {},
                    !.slots = [i \in DOMAIN @ |-> IF i \in end.batch THEN [@[i] EXCEPT !.done = TRUE] ELSE @[i]]]
  IN  /\ conn' = end.conn
      /\ owner' = end.owner
      /\ next_call_number' = Len(end.owner) + 1
      /\ IF end.batch # {} /\ Accepts
         THEN /\ Submit
              /\ expected_job_id' = next_job_id
              /\ cyc' = asking
              /\ UNCHANGED cycle_token
         ELSE maybe_finish_tool_round(refused)

NoDispatch == UNCHANGED <<conn, owner, next_call_number>>

\* handle_act_reply().  A model that writes a tool's output itself is told
\* once; the second time, or at the round limit, the cycle ends.  At the
\* limit further calls are not run.
handle_act_reply(outcome) ==
  \/ /\ EndCycle /\ NoDispatch
  \/ /\ outcome = "done" /\ NoDispatch
     /\ IF cyc.nudged \/ cyc.rounds >= max_tool_rounds
        THEN EndCycle
        ELSE AskOrEnd([cyc EXCEPT !.nudged = TRUE, !.rounds = @ + 1, !.offered = available_tool_names],
                      "ACTING_MODEL")
  \/ /\ outcome = "done" /\ NoDispatch
     /\ finish_act(cyc)
  \/ /\ outcome = "done" /\ cyc.rounds < max_tool_rounds
     /\ \E calls \in Replies \ {<<>>} :
          /\ Len(owner) + Cardinality({i \in DOMAIN calls : has_tool(calls[i])}) <= MaxCalls
          /\ dispatch_calls(cyc, calls)

-----------------------------------------------------------------------------
(* Choosing, and the finding.                                              *)

\* A mutant: the run is recorded but only saved with the attempt's result.
run_not_saved(outcome) ==
  \/ /\ StayIdle
     /\ UNCHANGED <<storeVars, acts>>
  \/ /\ outcome = "done"
     /\ \E t \in eligible_indices :
          LET recorded == [runs EXCEPT ![t] = RunRecorded(@, now)]
          IN  /\ runs' = recorded
              /\ UNCHANGED <<queue, disk>>
              /\ acts' = acts \cup {[profile |-> profile, task |-> t, at |-> now,
                                     arrival |-> tracker.last_arrival, n |-> Cardinality(acts) + 1]}
              /\ AskOrEnd([NoCycle EXCEPT !.act = Cardinality(acts) + 1, !.offered = available_tool_names], "ACTING_MODEL")

\* handle_prioritized(): a failed answer, a wait and a task that is not
\* allowed now all end in idle; a task that is has its run recorded and
\* saved before the act begins.
handle_prioritized(outcome) ==
  \/ /\ StayIdle
     /\ UNCHANGED <<storeVars, acts>>
  \/ /\ outcome = "done"
     /\ \E t \in eligible_indices :
          LET recorded == [runs EXCEPT ![t] = RunRecorded(@, now)]
          IN  /\ runs' = recorded
              /\ save_items(recorded)
              /\ UNCHANGED queue
              /\ acts' = acts \cup {[profile |-> profile, task |-> t, at |-> now,
                                     arrival |-> tracker.last_arrival, n |-> Cardinality(acts) + 1]}
              /\ AskOrEnd([NoCycle EXCEPT !.act = Cardinality(acts) + 1, !.offered = available_tool_names], "ACTING_MODEL")

\* handle_finding(): queued when it is worth telling and the cycle was safe.
handle_finding(outcome) ==
  /\ EndCycle
  /\ UNCHANGED runs
  /\ \/ UNCHANGED <<queue, disk>>
     \/ /\ outcome = "done" /\ ~cyc.unsafe
        /\ \E urgent \in BOOLEAN :
             LET note  == [n |-> cyc.act, urgent |-> urgent, at |-> now,
                           delivered |-> FALSE, expired |-> FALSE]
                 notes == Append(queue, note)
             IN  queue' = notes /\ save_queue(notes)

-----------------------------------------------------------------------------
(* What olli sends: its identity, and its calls.                           *)

FromOutside ==
  /\ tally.outside < MaxOutside
  /\ tally' = [tally EXCEPT !.outside = @ + 1]

\* abandon_cycle(): the waiting calls are abandoned in the order of their
\* slots and the job, if one is out, is aborted; both may still complete.
Underway ==
  LET ids == [i \in DOMAIN cyc.slots |-> IF cyc.slots[i].done THEN 0 ELSE cyc.slots[i].id]
  IN  Only(ids, ToSet(ids) \ {0})

\* A mutant: the cycle in progress survives the reload.
cycle_kept == UNCHANGED <<reasonerVars, jobVars>>

abandon_cycle ==
  /\ cyc' = NoCycle
  /\ cycle_token' = IF cyc.stage = "IDLE" THEN cycle_token ELSE cycle_token + 1
  /\ expected_job_id' = 0
  /\ IF expected_job_id # 0 THEN AbortCurrent ELSE UNCHANGED jobVars

Forgotten(owners, ids) ==
  [id \in DOMAIN owners |-> IF id \in ToSet(ids) THEN [owners[id] EXCEPT !.state = "abandoned"] ELSE owners[id]]

\* probe_presence_if_unknown(), on the connections and owners given to it.
Probes(value, asking) == value = "unknown" /\ ~asking /\ has_tool("check_presence") /\ Len(owner) < MaxCalls

Probe(cs, owners) ==
  /\ conn' = Placed(cs, "check_presence", Len(owners) + 1)
  /\ owner' = Append(owners, [kind |-> "probe", token |-> 0, index |-> 0, state |-> "open"])
  /\ next_call_number' = Len(owners) + 2
  /\ probing' = TRUE

\* A mutant: the notes of the profile before are not replaced.
LearnProfileKeepQueue(p) ==
  /\ pc = "link" /\ profile # p
  /\ IF loaded THEN FromOutside ELSE UNCHANGED tally
  /\ abandon_cycle
  /\ profile' = p
  /\ runs' = disk[p].runs /\ UNCHANGED queue
  /\ tracker' = IF loaded THEN NewTracker ELSE tracker
  /\ presence' = IF loaded THEN "unknown" ELSE presence
  /\ LET cs     == Abandoned(conn, Underway)
         owners == Forgotten(owner, Underway)
     IN  IF Probes(presence', probing)
         THEN Probe(cs, owners)
         ELSE conn' = cs /\ owner' = owners /\ UNCHANGED <<next_call_number, probing>>
  /\ UNCHANGED <<connections, completions, to_run, disk, notices, handing, quit, now, handed, acts, answer, pc>>

\* activate_profile() with the lock of the profile's folder: the cycle in
\* progress is abandoned, the state loaded, and a reload also starts the
\* arrival tracking afresh; presence is then asked for when it is unknown.
LearnProfile(p) ==
  /\ pc = "link" /\ profile # p
  /\ IF loaded THEN FromOutside ELSE UNCHANGED tally
  /\ abandon_cycle
  /\ profile' = p
  /\ runs' = disk[p].runs /\ queue' = disk[p].queue
  /\ tracker' = IF loaded THEN NewTracker ELSE tracker
  /\ presence' = IF loaded THEN "unknown" ELSE presence
  /\ LET cs     == Abandoned(conn, Underway)
         owners == Forgotten(owner, Underway)
     IN  IF Probes(presence', probing)
         THEN Probe(cs, owners)
         ELSE conn' = cs /\ owner' = owners /\ UNCHANGED <<next_call_number, probing>>
  /\ UNCHANGED <<connections, completions, to_run, disk, notices, handing, quit, now, handed, acts, answer, pc>>

\* Another subcon holds the lock: nothing is loaded and the loop ends.
RefuseProfile(p) ==
  /\ pc = "link" /\ profile # p
  /\ FromOutside
  /\ quit' = TRUE
  /\ UNCHANGED <<jobVars, serverVars, reasonerVars, storeVars, presenceVars,
                 profile, owner, notices, handing, now, handed, acts, answer, pc>>

\* get_subcon_notes: the stale notes are dropped, the others go into the
\* digest and are marked delivered, and that is saved before it is sent.  A
\* pull with nothing waiting changes nothing and is left out.
pull_notes ==
  /\ pc = "link" /\ loaded /\ Waiting(queue) # <<>>
  /\ LET kept  == ExpireOld(queue, now)
         after == PruneOld(Delivered(kept), now)
     IN  /\ handing' = Digest(kept)
         /\ queue' = after
         /\ save_queue(after)
  /\ pc' = "send"
  /\ UNCHANGED <<jobVars, serverVars, reasonerVars, runs, presenceVars,
                 profile, owner, notices, quit, worldVars, answer>>

\* send_result(): lost when the link to olli is down.
SendDigest ==
  /\ pc = "send"
  /\ \/ handed' = handed \o [i \in DOMAIN handing |-> [n |-> handing[i].n, profile |-> profile]]
     \/ UNCHANGED handed
  /\ handing' = <<>>
  /\ pc' = "link"
  /\ UNCHANGED <<jobVars, serverVars, reasonerVars, storeVars, presenceVars,
                 profile, owner, notices, quit, now, acts, tally, answer>>

\* count_subcon_notes: expires, saves when something expired, and counts.
count_notes ==
  /\ pc = "link" /\ loaded
  /\ queue' = ExpireOld(queue, now)
  /\ save_queue(queue')
  /\ UNCHANGED <<jobVars, serverVars, reasonerVars, runs, presenceVars,
                 loopVars, worldVars, answer, pc>>

LinkDone ==
  /\ pc = "link"
  /\ pc' = "service"
  /\ UNCHANGED <<jobVars, serverVars, reasonerVars, storeVars, presenceVars, loopVars, worldVars, answer>>

-----------------------------------------------------------------------------
(* The tools.                                                              *)

Reading ==
  /\ pc = "service"
  /\ UNCHANGED <<jobVars, reasonerVars, storeVars, presenceVars, profile, owner, handing, quit, now, handed, acts, answer>>

\* A line or a connection that leaves no notice for the reasoner.
ReadQuiet(p) ==
  /\ Reading
  /\ \/ Accept(p)
     \/ ReadNonsense(p)
     \/ ReadClosed(p)
     \/ \E ok \in BOOLEAN : ReadResult(p, ok)
  /\ UNCHANGED <<notices, tally, pc>>

\* A registration: later registrations of a connection change nothing more.
ReadRegistration(p) ==
  /\ Reading
  /\ ~conn[p].registered
  /\ ReadRegister(p)
  /\ notices' = Append(notices, "registered")
  /\ UNCHANGED <<tally, pc>>

\* An event with the user's presence.
ReadPresence(p) ==
  /\ Reading /\ FromOutside
  /\ Live(p) /\ conn[p].registered
  /\ UNCHANGED serverVars
  /\ \E value \in {"near", "away"} : notices' = Append(notices, value)
  /\ UNCHANGED pc

ServiceSweep ==
  /\ Reading
  /\ \E silent \in SUBSET ToSet(connections) : Sweep(silent)
  /\ pc' = "callbacks"
  /\ UNCHANGED <<notices, tally>>

-----------------------------------------------------------------------------
(* Callbacks, notices, the job's result, the tick.                         *)

\* on_presence(): a real arrival opens a new window and pulls the next
\* cycle in.
on_presence(value) ==
  /\ presence' = value
  /\ tracker' = TrackerAfter(tracker, value, now)

Ran(id) == [owner EXCEPT ![id].state = IF @ = "open" THEN "ran" ELSE "again"]

\* The round a callback belongs to is still the one in progress.
Fits(o) == o.token = cycle_token /\ cyc.stage = "ACTING_TOOLS" /\ o.index <= Len(cyc.slots)

RunCallback ==
  /\ pc = "callbacks" /\ to_run # <<>>
  /\ LET done == Head(to_run)
         o    == owner[done.id]
     IN  /\ owner' = Ran(done.id)
         /\ IF o.kind = "probe"
            THEN /\ probing' = FALSE
                 /\ \/ UNCHANGED <<presence, tracker>>
                    \/ \E value \in {"near", "away"} : done.ok /\ on_presence(value)
                 /\ UNCHANGED <<reasonerVars, jobVars>>
            ELSE /\ UNCHANGED presenceVars
                 /\ IF Fits(o)
                    THEN maybe_finish_tool_round(
                           [cyc EXCEPT !.slots[o.index] = [@ EXCEPT !.done = TRUE, !.ok = done.ok]])
                    ELSE UNCHANGED <<reasonerVars, jobVars>>
  /\ to_run' = Tail(to_run)
  /\ UNCHANGED <<connections, conn, completions, next_call_number, storeVars,
                 profile, notices, handing, quit, worldVars, answer, pc>>

TakeNotice ==
  /\ pc = "callbacks" /\ to_run = <<>> /\ notices # <<>>
  /\ notices' = Tail(notices)
  /\ IF Head(notices) = "registered"
     THEN /\ UNCHANGED <<presence, tracker>>
          /\ IF Probes(presence, probing)
             THEN Probe(conn, owner)
             ELSE UNCHANGED <<conn, owner, next_call_number, probing>>
     ELSE /\ on_presence(Head(notices))
          /\ UNCHANGED <<conn, owner, next_call_number, probing>>
  /\ UNCHANGED <<jobVars, connections, completions, to_run, reasonerVars, storeVars,
                 profile, handing, quit, worldVars, answer, pc>>

ServiceDone ==
  /\ pc = "callbacks" /\ to_run = <<>> /\ notices = <<>>
  /\ pc' = "jobs"
  /\ UNCHANGED <<jobVars, serverVars, reasonerVars, storeVars, presenceVars, loopVars, worldVars, answer>>

\* The batch of internal calls came back: each of its slots has an answer.
handle_batch(outcome) ==
  /\ NoDispatch
  /\ \E ok \in [cyc.batch -> IF outcome = "done" THEN BOOLEAN ELSE {FALSE}] :
       maybe_finish_tool_round(
         [cyc EXCEPT !.batch = {},
            !.slots = [i \in DOMAIN @ |-> IF i \in cyc.batch THEN [@[i] EXCEPT !.done = TRUE, !.ok = ok[i]] ELSE @[i]]])

\* take_result(): the loop handles every result there is, one at a time.
TakeJobResult ==
  /\ pc = "jobs" /\ finished # NoResult
  /\ TakeResult
  /\ answer' = finished
  /\ pc' = "result"
  /\ UNCHANGED <<serverVars, reasonerVars, storeVars, presenceVars, loopVars, worldVars>>

\* on_job_result(): a result nobody waits for any more is dropped.
on_job_result ==
  /\ pc = "result"
  /\ IF answer.id # expected_job_id \/ expected_job_id = 0
     THEN UNCHANGED <<reasonerVars, jobVars, storeVars, acts>> /\ NoDispatch
     ELSE CASE cyc.stage = "PRIORITIZING" -> handle_prioritized(answer.outcome) /\ NoDispatch
            [] cyc.stage = "ACTING_MODEL" -> handle_act_reply(answer.outcome) /\ UNCHANGED <<storeVars, acts>>
            [] cyc.stage = "ACTING_TOOLS" -> handle_batch(answer.outcome) /\ UNCHANGED <<storeVars, acts>>
            [] cyc.stage = "FINDING"      -> handle_finding(answer.outcome) /\ NoDispatch /\ UNCHANGED acts
  /\ answer' = NoResult
  /\ pc' = "jobs"
  /\ UNCHANGED <<connections, completions, to_run, presenceVars, profile, notices, handing, quit,
                 now, handed, tally>>

\* The end of a pass: the loop goes on unless it was asked to stop.
NextPass == pc' = IF quit THEN "stop" ELSE "link"

\* tick(), before the cycle is looked at: once a minute the stale notes go.
Housekeeping ==
  LET after == PruneOld(ExpireOld(queue, now), now)
  IN  queue' = after /\ save_queue(after) /\ UNCHANGED runs

TickIdle ==
  /\ pc = "jobs" /\ finished = NoResult
  /\ NextPass
  /\ \/ UNCHANGED storeVars
     \/ loaded /\ Housekeeping
  /\ UNCHANGED <<jobVars, serverVars, reasonerVars, presenceVars, loopVars, worldVars, answer>>

\* start_cycle(), when next_cycle_at has come: with nothing eligible the next
\* look is scheduled without asking the model.  Whether the wait is over at
\* this tick is left open, so no cycle has to start.
start_cycle ==
  /\ pc = "jobs" /\ loaded
  /\ cyc.stage = "IDLE" /\ ~Busy /\ tally.cycles < MaxCycles
  /\ NextPass
  /\ tally' = [tally EXCEPT !.cycles = @ + 1]
  /\ IF Probes(presence, probing)
     THEN Probe(conn, owner)
     ELSE UNCHANGED <<conn, owner, next_call_number, probing>>
  /\ IF eligible_indices = {}
     THEN StayIdle
     ELSE \/ AskModel(NoCycle, "PRIORITIZING")
          \/ ~Accepts /\ StayIdle
  /\ UNCHANGED storeVars \/ Housekeeping
  /\ UNCHANGED <<connections, completions, to_run, presence, tracker,
                 profile, notices, handing, quit, now, handed, acts, answer>>

-----------------------------------------------------------------------------
(* The end of the process, and the world around it.                        *)

Shutdown ==
  /\ pc = "stop"
  /\ RequestStop
  /\ pc' = "join"
  /\ UNCHANGED <<serverVars, reasonerVars, storeVars, presenceVars, loopVars, worldVars, answer>>

Joined ==
  /\ pc = "join" /\ thread = "gone"
  /\ pc' = "ended"
  /\ UNCHANGED <<jobVars, serverVars, reasonerVars, storeVars, presenceVars, loopVars, worldVars, answer>>

Worker ==
  /\ WorkerThread
  /\ UNCHANGED <<serverVars, reasonerVars, storeVars, presenceVars, loopVars, worldVars, answer, pc>>

Signal ==
  /\ ~quit /\ FromOutside
  /\ quit' = TRUE
  /\ UNCHANGED <<jobVars, serverVars, reasonerVars, storeVars, presenceVars,
                 profile, owner, notices, handing, now, handed, acts, answer, pc>>

\* The process is killed and started again: only disk is left.
Crash ==
  /\ FromOutside
  /\ JobRestart /\ ServerRestart
  /\ pc' = "link" /\ profile' = "none"
  /\ cyc' = NoCycle /\ cycle_token' = 0 /\ expected_job_id' = 0
  /\ owner' = <<>> /\ notices' = <<>> /\ answer' = NoResult
  /\ presence' = "unknown" /\ tracker' = NewTracker /\ probing' = FALSE
  /\ runs' = EmptyRun /\ queue' = <<>> /\ handing' = <<>> /\ quit' = FALSE
  /\ UNCHANGED <<disk, now, handed, acts>>

TimeGoesBy ==
  /\ now < MaxClock
  /\ now' = now + 1
  /\ UNCHANGED <<jobVars, serverVars, reasonerVars, storeVars, presenceVars, loopVars,
                 handed, acts, tally, answer, pc>>

CallOverdue(p) ==
  /\ CallGoesLate(p)
  /\ UNCHANGED <<jobVars, reasonerVars, storeVars, presenceVars, loopVars, worldVars, answer, pc>>

-----------------------------------------------------------------------------
MainLoop ==
  \/ SendDigest \/ LinkDone \/ ServiceSweep \/ RunCallback \/ TakeNotice
  \/ ServiceDone \/ TakeJobResult \/ on_job_result
  \/ start_cycle \/ TickIdle \/ Shutdown \/ Joined

Olli  == pull_notes \/ count_notes \/ \E p \in Profile : LearnProfile(p) \/ RefuseProfile(p)
Tools == \E p \in Peer : ReadQuiet(p) \/ ReadRegistration(p) \/ ReadPresence(p) \/ CallOverdue(p)

Next == MainLoop \/ Worker \/ Olli \/ Tools \/ Signal \/ Crash \/ TimeGoesBy

\* The loop runs on, the thread does its work, and a call that is not
\* answered reaches its timeout.
Fairness ==
  /\ WF_vars(MainLoop)
  /\ WF_vars(Worker)
  /\ \A p \in Peer : WF_vars(CallOverdue(p))

SubconSpec == Init /\ [][Next]_vars /\ Fairness
-----------------------------------------------------------------------------
\* "A call is correlated by id and ALWAYS completes its callback exactly
\* once unless abandon()ed first" (tool_server.hpp:26): a call that was
\* handed to the server and whose callback has not run is in one place, on
\* one connection or among the completed; one that ran or was abandoned is
\* nowhere.
Ids(done) == [i \in DOMAIN done |-> done[i].id]
Spots(place, ids, id) == {<<place, i>> : i \in {i \in DOMAIN ids : ids[i] = id}}
Places(id) ==
  Spots("completions", Ids(completions), id) \cup Spots("to_run", Ids(to_run), id)
    \cup UNION {Spots(p, LostWith(conn[p]), id) : p \in Peer}
CallsOnce ==
  \A id \in DOMAIN owner :
    /\ owner[id].state # "again"
    /\ Cardinality(Places(id)) = IF owner[id].state = "open" THEN 1 ELSE 0

\* The callback of a cycle's call never finds another cycle, another stage
\* or a slot that has its answer: what dispatch_calls() guards against with
\* its token cannot come up, because a cycle only moves on when its calls
\* have completed or were abandoned before they had.
CallbackFits ==
  \A i \in DOMAIN to_run :
    LET o == owner[to_run[i].id]
    IN  o.kind = "slot" => Fits(o) /\ ~cyc.slots[o.index].done

\* A cycle that waits is waited for: its job is in the worker's pipeline, or
\* its calls are on their way, and when the reasoner turns to the worker
\* from the tool stage the worker is free.  (reasoner.cpp:987, "so this
\* can't wait forever")
AnswerUnderWay ==
  /\ cyc.stage \in {"PRIORITIZING", "ACTING_MODEL", "FINDING"} => expected_job_id # 0
  /\ expected_job_id # 0 => expected_job_id \in {pending, running, finished.id, answer.id}
  /\ cyc.stage = "ACTING_TOOLS" =>
       /\ cyc.batch # {} <=> expected_job_id # 0
       /\ cyc.batch = {} => ~Busy
       /\ \A i \in DOMAIN cyc.slots \ cyc.batch :
            cyc.slots[i].done \/ owner[cyc.slots[i].id] =
              [kind |-> "slot", token |-> cycle_token, index |-> i, state |-> "open"]

\* A task is acted on at most Cap times in a window of 24 hours or since the
\* last arrival home, and never sooner than its gap, whatever fails, is
\* abandoned or is killed in between ("a cycle that fails halfway must not
\* be free to retry in a loop", reasoner.cpp:765).
AllowanceKept ==
  \A a \in acts :
    LET earlier == {b \in acts : b.profile = a.profile /\ b.task = a.task /\ b.n < a.n}
    IN  /\ Cap[a.task] > 0 =>
             Cardinality({b \in earlier : b.at >= Max({a.at - WINDOW, a.arrival})}) < Cap[a.task]
        /\ \A b \in earlier : a.at - b.at >= Gap[a.task]

\* A note is handed to olli at most once, also when the process is killed
\* between marking it delivered and sending it.
NoteHandedOnce ==
  \A i, j \in DOMAIN handed : i # j => handed[i].n # handed[j].n

\* A note is only ever kept and handed over under the profile whose task
\* found it: a cycle that was under way at a switch adds nothing to the
\* other profile's queue.
FoundFor(n) == (CHOOSE a \in acts : a.n = n).profile
NotesAtHome ==
  /\ \A p \in Profile : \A i \in DOMAIN disk[p].queue : FoundFor(disk[p].queue[i].n) = p
  /\ \A i \in DOMAIN handed : FoundFor(handed[i].n) = handed[i].profile

\* What becomes of a note, through switches and kills.
NotesKept == NoteHandedOnce /\ NotesAtHome

\* "a stuck tool can never hang a think cycle" (tool_server.cpp:335): every
\* cycle comes back to idle, unless the process ends first.
CycleEnds == cyc.stage # "IDLE" ~> cyc.stage = "IDLE" \/ pc = "ended"

\* A stop that was asked for ends with the worker joined.
QuitEnds == quit ~> pc = "ended" \/ ~quit
=============================================================================
