---------------------------- MODULE SubconTasks ----------------------------
(***************************************************************************)
(* The rules of src/tools/subcon/subcon_tasks.h that decide when a task    *)
(* may run, what a real arrival home is, and what becomes of a note.       *)
(* Times are whole numbers; 0 is "never".                                  *)
(***************************************************************************)
EXTENDS Integers, Sequences, SequencesExt, FiniteSetsExt, Filter

CONSTANTS
  Task,            \* keys of the task list
  Cap,             \* max_runs_per_window, 0 for none
  Gap,             \* min_gap_minutes
  Needs,           \* required_tools
  WINDOW,          \* SUBCON_WINDOW_SECONDS
  MIN_AWAY,        \* SUBCON_MIN_AWAY_SECONDS
  NOTE_MAX_AGE,    \* SUBCON_NOTE_MAX_AGE_SECONDS
  NOTE_KEEP        \* SUBCON_NOTE_KEEP_SECONDS

ASSUME TasksAssumption ==
  /\ Cap \in [Task -> Nat] /\ Gap \in [Task -> Nat]
  /\ {WINDOW, MIN_AWAY, NOTE_MAX_AGE, NOTE_KEEP} \subseteq Nat

-----------------------------------------------------------------------------
(* Allowances.  run_times is the sequence of a task's recorded runs.       *)

InWindow(run_times, now, arrival) ==
  LET start == Max({now - WINDOW, arrival})
  IN  Only(run_times, {t \in ToSet(run_times) : t >= start})

\* The run that has to leave the window before another is allowed: the oldest
\* that has fewer than cap later ones.
Blocking(inside, cap) ==
  Min({t \in ToSet(inside) : Cardinality({i \in DOMAIN inside : inside[i] > t}) < cap})

\* next_eligible_unix: now, the end of the gap, and the moment after the run
\* that blocks the cap has left the window, whichever is last.
NextEligible(task, run_times, now, arrival) ==
  LET inside  == InWindow(run_times, now, arrival)
      rested  == IF Gap[task] > 0 /\ run_times # <<>>
                 THEN Max(ToSet(run_times)) + Gap[task] ELSE now
      allowed == IF Cap[task] > 0 /\ Len(inside) >= Cap[task]
                 THEN Blocking(inside, Cap[task]) + WINDOW + 1 ELSE now
  IN  Max({now, rested, allowed})

Eligible(task, run_times, now, arrival) == NextEligible(task, run_times, now, arrival) <= now

Missing(task, available) == Needs[task] \ available

\* A run is recorded when it starts; those two windows old are dropped.
RunRecorded(run_times, now) ==
  LET all == Append(run_times, now)
  IN  Only(all, {t \in ToSet(all) : t >= now - 2 * WINDOW})

-----------------------------------------------------------------------------
(* Presence.                                                               *)

NewTracker == [previous |-> "unknown", away_since |-> 0, last_arrival |-> 0]

RealArrival(tracker, presence, now) ==
  /\ presence = "near" /\ tracker.previous = "away"
  /\ tracker.away_since # 0 /\ now - tracker.away_since >= MIN_AWAY

TrackerAfter(tracker, presence, now) ==
  IF presence \notin {"near", "away"} \/ presence = tracker.previous THEN tracker
  ELSE [previous     |-> presence,
        away_since   |-> IF presence = "away" THEN now ELSE tracker.away_since,
        last_arrival |-> IF RealArrival(tracker, presence, now) THEN now ELSE tracker.last_arrival]

-----------------------------------------------------------------------------
(* Notes: [n, urgent, at, delivered, expired], oldest first.               *)

Stale(note, now) == ~note.delivered /\ (note.at = 0 \/ now - note.at > NOTE_MAX_AGE)

ExpireOld(queue, now) ==
  [i \in DOMAIN queue |->
     IF Stale(queue[i], now) THEN [queue[i] EXCEPT !.delivered = TRUE, !.expired = TRUE] ELSE queue[i]]

PruneOld(queue, now) ==
  Only(queue, {note \in ToSet(queue) : ~(note.delivered /\ note.at # 0 /\ now - note.at > NOTE_KEEP)})

Waiting(queue) == Only(queue, {note \in ToSet(queue) : ~note.delivered})

\* subcon_build_digest(): urgent first, then oldest first ...
Digest(queue) ==
  LET notes  == Waiting(queue)
      urgent == {note \in ToSet(notes) : note.urgent}
  IN  Only(notes, urgent) \o Only(notes, ToSet(notes) \ urgent)

\* ... and every note in it is marked delivered.
Delivered(queue) == [i \in DOMAIN queue |-> [queue[i] EXCEPT !.delivered = TRUE]]
=============================================================================
