---------------------------- MODULE SubconProofs ----------------------------
(***************************************************************************)
(* What holds of the subconscious server: of its worker under a main loop  *)
(* that makes its calls in any order, and of the whole of it.  From below: *)
(* the worker; the job the cycle waits for; one connection, the calls on   *)
(* all of them, the sweep and the lines; a round of calls and its slots;   *)
(* the steps of the main loop (CoreInv); the notes (NotesInv); the runs    *)
(* and allowances (RunsInv); the refinement of CallbackService.  The       *)
(* theorems are at the end.                                                *)
(***************************************************************************)
EXTENDS Subcon, SeqLemmas, TLAPS

-----------------------------------------------------------------------------
(* The worker on its own.                                                    *)

\* The values the worker's variables take.
Typed ==
  /\ next_job_id \in Nat \ {0}
  /\ pending \in Nat /\ pending < next_job_id
  /\ running \in Nat /\ running < next_job_id
  /\ finished \in [id : Nat, outcome : Outcome]
  /\ computed \in [id : Nat, outcome : Outcome]
  /\ thread \in {"waiting", "running", "storing", "gone"}
  /\ abort_any \in BOOLEAN /\ stopping \in BOOLEAN
  /\ \A c \in cut : c \in Nat \ {0} /\ c < next_job_id

\* A job waits for the thread only in an otherwise empty pipeline.
PendingAlone ==
  pending # 0 => /\ running = 0 /\ finished = NoResult
                 /\ thread \in {"waiting", "gone"}

\* While the thread works, the job is the only one and has no result yet.
RunningAlone ==
  thread = "running" => /\ running # 0 /\ computed = NoResult
                        /\ finished = NoResult /\ pending = 0

\* While the thread stores, its own result is the only one.
StoringAlone ==
  thread = "storing" => /\ running # 0 /\ computed.id = running
                        /\ finished = NoResult /\ pending = 0

\* A thread that waits, or left, holds nothing.
IdleHoldsNothing ==
  thread \in {"waiting", "gone"} => running = 0 /\ computed = NoResult

\* The flag of an abort that reached a job stays up until the job has ended.
FlagStaysUp ==
  /\ pending # 0 /\ pending \in cut => abort_any
  /\ thread = "running" /\ running \in cut => abort_any

\* At most one job is in the pipeline: accepted, being worked on, or ended
\* and not taken.  This is what the header calls one job at a time.
OneInPipeline ==
  /\ ~(pending # 0 /\ running # 0)
  /\ ~(pending # 0 /\ finished # NoResult)
  /\ ~(running # 0 /\ finished # NoResult)

JobInv ==
  /\ Typed /\ PendingAlone /\ RunningAlone /\ StoringAlone
  /\ IdleHoldsNothing /\ FlagStaysUp /\ AbortedIsCut

-----------------------------------------------------------------------------
\* "No result" has the shape of a result.
LEMMA NoResultTyped == NoResult \in [id : Nat, outcome : Outcome]
  BY DEF NoResult, Outcome

\* A worker that was just constructed satisfies the invariant.
LEMMA JobInitInv == JobInit => JobInv
<1> SUFFICES ASSUME JobInit PROVE JobInv
  OBVIOUS
<1>1. Typed
  <2>1. abort_any \in BOOLEAN /\ stopping \in BOOLEAN
    BY Zenon DEF JobInit
  <2> QED BY <2>1, NoResultTyped DEF JobInit, Typed
<1>2. PendingAlone /\ RunningAlone /\ StoringAlone /\ IdleHoldsNothing /\ FlagStaysUp
  BY DEF JobInit, PendingAlone, RunningAlone, StoringAlone, IdleHoldsNothing, FlagStaysUp
<1>3. AbortedIsCut
  BY DEF JobInit, AbortedIsCut
<1> QED BY <1>1, <1>2, <1>3 DEF JobInv

\* An accepted job has an id nobody aborted, and the flag is down.
LEMMA SubmitInv == ASSUME JobInv, Submit PROVE JobInv'
<1> USE DEF JobInv, Submit, Accepts, Busy
<1>1. Typed'
  <2>1. abort_any' \in BOOLEAN /\ stopping' \in BOOLEAN
    BY Zenon DEF Typed
  <2> QED BY <2>1 DEF Typed
<1>2. PendingAlone' /\ RunningAlone' /\ StoringAlone'
  BY DEF Typed, PendingAlone, RunningAlone, StoringAlone, IdleHoldsNothing
<1>3. IdleHoldsNothing'
  BY DEF IdleHoldsNothing
<1>4. FlagStaysUp'
  BY DEF Typed, FlagStaysUp, RunningAlone
<1>5. AbortedIsCut'
  BY DEF AbortedIsCut
<1> QED BY <1>1, <1>2, <1>3, <1>4, <1>5

\* A result leaves the pipeline and nothing else changes.
LEMMA TakeResultInv == ASSUME JobInv, TakeResult PROVE JobInv'
<1> USE DEF JobInv, TakeResult
<1>1. Typed'
  BY NoResultTyped DEF Typed
<1>2. PendingAlone' /\ RunningAlone' /\ StoringAlone' /\ IdleHoldsNothing'
  BY DEF PendingAlone, RunningAlone, StoringAlone, IdleHoldsNothing
<1>3. FlagStaysUp'
  BY DEF FlagStaysUp
<1>4. AbortedIsCut'
  BY DEF AbortedIsCut, NoResult
<1> QED BY <1>1, <1>2, <1>3, <1>4

\* An abort marks a job that has no result yet, and puts the flag up.
LEMMA AbortInv ==
  ASSUME JobInv, cut' = cut \cup Unfinished, abort_any' = TRUE,
         stopping' \in BOOLEAN,
         UNCHANGED <<pending, running, finished, thread, computed, next_job_id>>
  PROVE  JobInv'
<1> USE DEF JobInv
<1>1. Typed'
  BY DEF Typed, Unfinished, RunningAlone
<1>2. PendingAlone' /\ RunningAlone' /\ StoringAlone' /\ IdleHoldsNothing'
  BY DEF PendingAlone, RunningAlone, StoringAlone, IdleHoldsNothing
<1>3. FlagStaysUp'
  BY DEF FlagStaysUp
<1>4. AbortedIsCut'
  <2>1. SUFFICES ASSUME NEW r \in {finished, computed}, r.id \in cut \cup Unfinished
                 PROVE  r.outcome = "failed"
    BY DEF AbortedIsCut
  <2>2. CASE r.id \in cut
    BY <2>2 DEF AbortedIsCut
  <2>3. CASE thread = "running"
    BY <2>3 DEF RunningAlone, NoResult
  <2>4. CASE thread # "running" /\ r.id \in Unfinished
    <3>1. pending # 0
      BY <2>4 DEF Unfinished
    <3>2. finished = NoResult /\ computed = NoResult
      BY <3>1 DEF PendingAlone, IdleHoldsNothing
    <3> QED BY <3>2 DEF NoResult
  <2> QED BY <2>1, <2>2, <2>3, <2>4
<1> QED BY <1>1, <1>2, <1>3, <1>4

\* Picking a job up moves it and leaves the flag as it is.
LEMMA PickUpInv == ASSUME JobInv, PickUp PROVE JobInv'
<1> USE DEF JobInv, PickUp
<1>1. Typed'
  BY DEF Typed
<1>2. PendingAlone' /\ RunningAlone' /\ StoringAlone' /\ IdleHoldsNothing'
  BY DEF PendingAlone, RunningAlone, StoringAlone, IdleHoldsNothing
<1>3. FlagStaysUp'
  BY DEF FlagStaysUp
<1>4. AbortedIsCut'
  BY DEF AbortedIsCut
<1> QED BY <1>1, <1>2, <1>3, <1>4

\* A thread that leaves holds nothing.
LEMMA LeaveInv == ASSUME JobInv, Leave PROVE JobInv'
  BY DEF JobInv, Leave, Typed, PendingAlone, RunningAlone, StoringAlone,
         IdleHoldsNothing, FlagStaysUp, AbortedIsCut

\* The work ends as the flag says: up, it was cut.
LEMMA PerformInv == ASSUME JobInv, Perform PROVE JobInv'
<1> USE DEF JobInv, Perform
<1>1. PICK o \in IF abort_any THEN {"failed"} ELSE Outcome :
        computed' = [id |-> running, outcome |-> o]
  OBVIOUS
<1>2. o \in Outcome /\ (abort_any => o = "failed")
  BY DEF Outcome
<1>3. Typed'
  BY <1>1, <1>2 DEF Typed
<1>4. PendingAlone' /\ RunningAlone' /\ StoringAlone' /\ IdleHoldsNothing'
  BY <1>1 DEF PendingAlone, RunningAlone, StoringAlone, IdleHoldsNothing
<1>5. FlagStaysUp'
  BY DEF FlagStaysUp, RunningAlone
<1>6. AbortedIsCut'
  BY <1>1, <1>2 DEF AbortedIsCut, FlagStaysUp
<1> QED BY <1>3, <1>4, <1>5, <1>6

\* Storing hands the thread's own result over, unchanged.
LEMMA StoreInv == ASSUME JobInv, Store PROVE JobInv'
<1> USE DEF JobInv, Store
<1>1. Typed'
  BY NoResultTyped DEF Typed
<1>2. PendingAlone' /\ RunningAlone' /\ StoringAlone' /\ IdleHoldsNothing'
  BY DEF PendingAlone, RunningAlone, StoringAlone, IdleHoldsNothing
<1>3. FlagStaysUp'
  BY DEF FlagStaysUp, StoringAlone
<1>4. AbortedIsCut'
  BY DEF AbortedIsCut, NoResult
<1> QED BY <1>1, <1>2, <1>3, <1>4

\* Every step of the worker, and every stutter, keeps the invariant.
LEMMA JobNextInv == ASSUME JobInv, [JobNext]_jobVars PROVE JobInv'
<1>1. CASE Submit
  BY <1>1, SubmitInv
<1>2. CASE TakeResult
  BY <1>2, TakeResultInv
<1>3. CASE AbortCurrent
  BY <1>3, AbortInv DEF AbortCurrent, JobInv, Typed
<1>4. CASE RequestStop
  BY <1>4, AbortInv DEF RequestStop
<1>5. CASE PickUp
  BY <1>5, PickUpInv
<1>6. CASE Leave
  BY <1>6, LeaveInv
<1>7. CASE Perform
  BY <1>7, PerformInv
<1>8. CASE Store
  BY <1>8, StoreInv
<1>9. CASE UNCHANGED jobVars
  BY <1>9 DEF jobVars, JobInv, Typed, PendingAlone, RunningAlone, StoringAlone,
              IdleHoldsNothing, FlagStaysUp, AbortedIsCut
<1> QED
  BY <1>1, <1>2, <1>3, <1>4, <1>5, <1>6, <1>7, <1>8, <1>9 DEF JobNext, WorkerThread

-----------------------------------------------------------------------------
\* The worker keeps its invariant, whatever the order of the main loop's
\* calls and however many jobs there are.
THEOREM JobInvariant == Spec => []JobInv
<1>1. JobInit => JobInv
  BY JobInitInv
<1>2. JobInv /\ [JobNext]_jobVars => JobInv'
  BY JobNextInv
<1> QED BY <1>1, <1>2, PTL DEF Spec

\* An abort that reaches a job before its end is honoured: the job's result,
\* whether the thread still holds it or has stored it, is a failure.
THEOREM AbortHonoured == Spec => []AbortedIsCut
<1>1. JobInv => AbortedIsCut
  BY DEF JobInv
<1> QED BY <1>1, JobInvariant, PTL

\* No second job enters the pipeline before the first one's result is taken.
THEOREM OneJobAtATime == Spec => []OneInPipeline
<1>1. JobInv => OneInPipeline
  BY DEF JobInv, Typed, PendingAlone, RunningAlone, StoringAlone,
         IdleHoldsNothing, OneInPipeline
<1> QED BY <1>1, JobInvariant, PTL

-----------------------------------------------------------------------------
(* The cycle and its job.                                                  *)

Asking == {"PRIORITIZING", "ACTING_MODEL", "FINDING"}
Slots  == [done : BOOLEAN, ok : BOOLEAN, dispatched : BOOLEAN, id : Nat]
Cycle  == [stage : Asking \cup {"IDLE", "ACTING_TOOLS"}, slots : Seq(Slots), batch : SUBSET Nat,
           rounds : Nat, asked : BOOLEAN, answered : BOOLEAN, unsafe : BOOLEAN,
           nudged : BOOLEAN, offered : SUBSET Name, act : Nat]

\* The model is asked: a job of its own is under way, and no calls are.
Asked(c) ==
  /\ Submit
  /\ expected_job_id' = next_job_id
  /\ cycle_token' = cycle_token
  /\ cyc' \in Cycle /\ cyc'.stage \in Asking
  /\ cyc'.slots = <<>> /\ cyc'.batch = {} /\ cyc'.act = c.act

\* No cycle is idle and waits for nothing.
LEMMA NoCycleIdle ==
  /\ NoCycle \in Cycle
  /\ NoCycle.stage = "IDLE" /\ NoCycle.slots = <<>> /\ NoCycle.batch = {} /\ NoCycle.act = 0
<1>1. <<>> \in Seq(Slots)
  BY EmptySeq
<1>2. QED BY <1>1 DEF NoCycle, Cycle

\* What submit_chat() does.
LEMMA AsksModel ==
  ASSUME NEW c \in Cycle, NEW stage \in Asking, AskModel(c, stage)
  PROVE  Asked(c)
<1>1. <<>> \in Seq(Slots)
  BY EmptySeq
<1>. DEFINE d == [c EXCEPT !.stage = stage, !.slots = <<>>, !.batch = {}]
<1>2. d \in Cycle /\ d.stage \in Asking /\ d.slots = <<>> /\ d.batch = {} /\ d.act = c.act
  BY <1>1 DEF Cycle
<1>3. Submit /\ expected_job_id' = next_job_id /\ cycle_token' = cycle_token /\ cyc' = d
  BY DEF AskModel
<1>. HIDE DEF d
<1>4. QED BY <1>2, <1>3 DEF Asked

\* The model is asked, or the cycle ends.
LEMMA AsksOrEnds ==
  ASSUME NEW c \in Cycle, NEW stage \in Asking, AskOrEnd(c, stage)
  PROVE  Asked(c) \/ EndCycle
BY AsksModel DEF AskOrEnd

\* A finding is asked for, or the cycle ends.
LEMMA FinishesAct ==
  ASSUME NEW c \in Cycle, finish_act(c)
  PROVE  Asked(c) \/ EndCycle
<1>1. "FINDING" \in Asking
  BY DEF Asking
<1>2. AskOrEnd(c, "FINDING") \/ EndCycle
  BY DEF finish_act
<1>3. QED BY <1>1, <1>2, AsksOrEnds

\* A round whose calls have all been answered is over; another is waited for.
Answered(c) == c.batch = {} /\ AllDone(c)
Stays(c) ==
  /\ cyc' = c /\ cycle_token' = cycle_token /\ UNCHANGED jobVars
  /\ expected_job_id' = IF c.batch = {} THEN 0 ELSE expected_job_id

Round(c, r, e, a, b) == [c EXCEPT !.rounds = r, !.offered = e, !.asked = a, !.answered = b]

\* The cycle in its next round.
LEMMA NextRound ==
  ASSUME NEW c \in Cycle, NEW r \in Nat, NEW e \in SUBSET Name, NEW a \in BOOLEAN, NEW b \in BOOLEAN
  PROVE  Round(c, r, e, a, b) \in Cycle /\ Round(c, r, e, a, b).act = c.act
BY DEF Cycle, Round

\* The round is over and the model is asked or the cycle ends, or it is waited for.
LEMMA FinishesRound ==
  ASSUME NEW c \in Cycle, c.stage = "ACTING_TOOLS", maybe_finish_tool_round(c)
  PROVE  IF Answered(c) THEN Asked(c) \/ EndCycle ELSE Stays(c)
<1>1. CASE ~Answered(c)
  BY <1>1 DEF maybe_finish_tool_round, Answered, Stays
<1>2. CASE Answered(c)
  <2>. DEFINE used == {i \in DOMAIN c.slots : c.slots[i].dispatched}
              next == [c EXCEPT !.rounds = @ + 1, !.offered = available_tool_names,
                                !.asked = @ \/ used # {},
                                !.answered = @ \/ \E i \in used : c.slots[i].ok]
  <2>1. (next.asked /\ finish_act(next)) \/ AskOrEnd(next, "ACTING_MODEL")
    BY <1>2 DEF maybe_finish_tool_round, Answered
  <2>2. available_tool_names \in SUBSET Name
    BY SubconAssumption DEF available_tool_names
  <2>3. next \in Cycle /\ next.act = c.act
    <3>. DEFINE a == c.asked \/ used # {}
                b == c.answered \/ \E i \in used : c.slots[i].ok
                r == c.rounds + 1
                e == available_tool_names
    <3>1. a \in BOOLEAN /\ b \in BOOLEAN /\ r \in Nat
      BY DEF Cycle
    <3>2. next = Round(c, r, e, a, b)
      BY Zenon DEF Cycle, Round
    <3>. HIDE DEF a, b, r, e, next
    <3>3. e \in SUBSET Name
      BY <2>2 DEF e
    <3>4. QED BY <3>1, <3>2, <3>3, NextRound
  <2>. HIDE DEF next
  <2>4. Asked(next) \/ EndCycle
    <3>1. "ACTING_MODEL" \in Asking
      BY DEF Asking
    <3>2. QED BY <2>1, <2>3, <3>1, FinishesAct, AsksOrEnds
  <2>5. Asked(next) => Asked(c)
    BY <2>3 DEF Asked
  <2>6. QED BY <1>2, <2>4, <2>5
<1>3. QED BY <1>1, <1>2

-----------------------------------------------------------------------------
(* The loop and the worker: which job the cycle waits for, and where it is. *)

InPipeline == {pending, running, finished.id, answer.id}

LoopInv ==
  /\ cyc \in Cycle /\ cycle_token \in Nat /\ expected_job_id \in Nat
  /\ answer \in [id : Nat, outcome : Outcome]
  /\ finished # NoResult => finished.id # 0
  /\ pc # "result" => answer = NoResult
  /\ pc = "result" => answer.id # 0 /\ ~Busy
  /\ cyc.stage = "IDLE" => cyc = NoCycle /\ expected_job_id = 0
  /\ cyc.stage # "IDLE" => loaded /\ InPipeline \subseteq {0, expected_job_id}
  /\ cyc.stage \in Asking => expected_job_id # 0 /\ cyc.slots = <<>> /\ cyc.batch = {}
  /\ cyc.stage = "ACTING_TOOLS" => (cyc.batch # {} <=> expected_job_id # 0)
  /\ expected_job_id # 0 => expected_job_id \in InPipeline

\* A cycle ended or was abandoned: nobody waits for a job.
Ended ==
  /\ cyc' = NoCycle /\ expected_job_id' = 0
  /\ cycle_token' \in {cycle_token, cycle_token + 1}
  /\ UNCHANGED <<pending, running, finished, thread>>

\* A cycle that ends waits for nothing.
LEMMA EndedKeeps ==
  ASSUME LoopInv, Ended, pc' # "result", answer' = NoResult
  PROVE  LoopInv'
BY NoCycleIdle, NoResultTyped DEF LoopInv, Ended, Asking, InPipeline, NoResult

\* A worker that is not busy has no job anywhere.
LEMMA EmptyPipeline ==
  ASSUME JobInv, LoopInv, ~Busy
  PROVE  pending = 0 /\ running = 0 /\ finished = NoResult /\ finished.id = 0 /\ thread \in {"waiting", "gone"}
BY DEF Busy, JobInv, Typed, RunningAlone, StoringAlone, LoopInv, NoResult

\* A job was submitted for the cycle that is now under way.
Waits ==
  /\ Submit /\ expected_job_id' = next_job_id /\ cycle_token' = cycle_token
  /\ cyc' \in Cycle
  /\ \/ cyc'.stage \in Asking /\ cyc'.slots = <<>> /\ cyc'.batch = {}
     \/ cyc'.stage = "ACTING_TOOLS" /\ cyc'.batch # {}

\* A job that was submitted is in the pipeline, alone.
LEMMA WaitsKeeps ==
  ASSUME JobInv, LoopInv, Waits, pc' # "result", answer' = NoResult, loaded'
  PROVE  LoopInv'
<1>1. running = 0 /\ finished = NoResult /\ finished.id = 0
  BY EmptyPipeline DEF Waits, Submit, Accepts
<1>2. next_job_id \in Nat \ {0}
  BY DEF JobInv, Typed
<1>3. /\ pending' = next_job_id /\ running' = 0 /\ finished' = NoResult /\ answer' = NoResult
      /\ expected_job_id' = next_job_id /\ finished'.id = 0 /\ answer'.id = 0
  BY <1>1 DEF Waits, Submit, NoResult
<1>4. InPipeline' = {0, next_job_id}
  BY <1>3 DEF InPipeline
<1>5. cyc'.stage # "IDLE"
  BY DEF Waits, Asking
<1>6. QED BY <1>2, <1>3, <1>4, <1>5, NoResultTyped DEF LoopInv, Waits, Asking

\* A round goes on: it waits for its calls, and for its batch if it has one.
LEMMA StaysKeeps ==
  ASSUME LoopInv, NEW c \in Cycle, c.stage = "ACTING_TOOLS", Stays(c),
         c.batch = {} => ~Busy,
         c.batch # {} => cyc.stage = "ACTING_TOOLS" /\ cyc.batch # {} /\ answer = NoResult,
         pc' # "result", answer' = NoResult, loaded'
  PROVE  LoopInv'
<1>1. UNCHANGED <<pending, running, finished>> /\ cyc' = c /\ cycle_token' = cycle_token
  BY DEF Stays, jobVars
<1>2. CASE c.batch = {}
  <2>1. expected_job_id' = 0
    BY <1>2 DEF Stays
  <2>2. pending' = 0 /\ running' = 0 /\ finished' = NoResult /\ finished'.id = 0 /\ answer'.id = 0
    BY <1>1, <1>2 DEF Busy, NoResult
  <2>3. InPipeline' = {0}
    BY <2>2 DEF InPipeline
  <2>4. QED BY <1>1, <1>2, <2>1, <2>2, <2>3, NoResultTyped DEF LoopInv, Asking
<1>3. CASE c.batch # {}
  <2>1. expected_job_id' = expected_job_id
    BY <1>3 DEF Stays
  <2>2. InPipeline' = InPipeline
    BY <1>1, <1>3 DEF InPipeline
  <2>3. QED BY <1>1, <1>3, <2>1, <2>2, NoResultTyped DEF LoopInv, Asking
<1>4. QED BY <1>2, <1>3

\* A round that waits for no batch leaves the worker free.
LEMMA FreeWorker ==
  ASSUME LoopInv, JobInv, cyc.stage = "ACTING_TOOLS", cyc.batch = {}, answer = NoResult
  PROVE  ~Busy
BY DEF LoopInv, Busy, InPipeline, JobInv, Typed

\* What the worker's thread does leaves the job where the cycle looks for it.
LEMMA WorkerKeeps ==
  ASSUME JobInv, LoopInv, WorkerThread, UNCHANGED <<reasonerVars, profile, answer, pc>>
  PROVE  LoopInv'
<1>1. UNCHANGED <<cyc, cycle_token, expected_job_id, profile, answer, pc>>
  BY DEF reasonerVars
<1>2. CASE Leave
  BY <1>1, <1>2 DEF Leave, LoopInv, InPipeline, Busy, loaded
<1>3. CASE PickUp
  <2>1. pending # 0 /\ running = 0 /\ running' = pending /\ pending' = 0 /\ finished' = finished
    BY <1>3 DEF PickUp, JobInv, PendingAlone
  <2>2. InPipeline' = InPipeline
    BY <1>1, <2>1 DEF InPipeline
  <2>3. Busy
    BY <2>1 DEF Busy
  <2>4. QED BY <1>1, <2>1, <2>2, <2>3 DEF LoopInv, loaded
<1>4. CASE Perform
  <2>1. UNCHANGED <<pending, running, finished>>
    BY <1>4 DEF Perform
  <2>2. QED BY <1>1, <2>1 DEF LoopInv, InPipeline, Busy, loaded
<1>5. CASE Store
  <2>1. /\ running # 0 /\ computed.id = running /\ finished = NoResult /\ pending = 0
        /\ finished' = computed /\ running' = 0 /\ pending' = pending
    BY <1>5 DEF Store, JobInv, StoringAlone
  <2>2. InPipeline' \cup {0} = InPipeline \cup {0}
    BY <1>1, <2>1 DEF InPipeline, NoResult
  <2>3. Busy
    BY <2>1 DEF Busy
  <2>4. expected_job_id # 0 => expected_job_id \in InPipeline'
    BY <2>2 DEF LoopInv
  <2>5. cyc.stage # "IDLE" => InPipeline' \subseteq {0, expected_job_id}
    BY <2>2 DEF LoopInv
  <2>6. finished'.id # 0
    BY <2>1
  <2>7. QED BY <1>1, <2>3, <2>4, <2>5, <2>6 DEF LoopInv, loaded
<1>6. QED BY <1>2, <1>3, <1>4, <1>5 DEF WorkerThread

\* A result is taken to be handled.
LEMMA TakenKeeps ==
  ASSUME JobInv, LoopInv, TakeJobResult
  PROVE  LoopInv'
<1>1. /\ finished # NoResult /\ finished' = NoResult /\ answer' = finished /\ pc' = "result" /\ answer = NoResult
      /\ UNCHANGED <<pending, running, cyc, cycle_token, expected_job_id, profile>>
  BY DEF TakeJobResult, TakeResult, LoopInv, reasonerVars, loopVars
<1>2. pending = 0 /\ running = 0
  BY <1>1, NoResultTyped DEF JobInv, Typed, PendingAlone, RunningAlone, StoringAlone, IdleHoldsNothing
<1>3. InPipeline' = InPipeline
  BY <1>1 DEF InPipeline, NoResult
<1>4. ~Busy' /\ answer'.id # 0
  BY <1>1, <1>2 DEF Busy, LoopInv
<1>5. finished \in [id : Nat, outcome : Outcome]
  BY DEF JobInv, Typed
<1>6. QED BY <1>1, <1>3, <1>4, <1>5 DEF LoopInv, loaded

\* Steps that touch neither the cycle nor the worker.
LEMMA LoopFrame ==
  ASSUME LoopInv, UNCHANGED <<pending, running, finished, cyc, cycle_token, expected_job_id, answer>>,
         pc' = pc \/ (pc # "result" /\ pc' # "result"), loaded => loaded'
  PROVE  LoopInv'
BY DEF LoopInv, InPipeline, Busy

-----------------------------------------------------------------------------
(* One connection: which calls it holds, and what each operation does to them. *)

CallId == Nat \ {0}
Conn == [registered : BOOLEAN, dead : BOOLEAN, inflight : Nat, late : BOOLEAN,
         queued : Seq(CallId), told : Seq(CallId)]

\* Call x is in flight or waits on the connection.
Holds(c, x) == x # 0 /\ (x = c.inflight \/ InSeq(c.queued, x))

\* It holds no call twice, and none before its tool has registered.
Orderly(c) ==
  /\ c \in Conn
  /\ Distinct(c.queued) /\ ~InSeq(c.queued, c.inflight)
  /\ ~c.registered => c.inflight = 0 /\ c.queued = <<>>

\* d is c after an operation that left whether it is registered and dead alone.
Same(d, c) == Orderly(d) /\ d.registered = c.registered /\ d.dead = c.dead

\* A new connection holds nothing.
LEMMA NewConn == Orderly(NoConn) /\ \A x : ~Holds(NoConn, x)
<1>1. <<>> \in Seq(CallId) /\ Distinct(<<>>) /\ \A y : ~InSeq(<<>>, y)
  BY NoElement
<1>2. NoConn \in Conn
  BY <1>1 DEF NoConn, Conn
<1>3. QED BY <1>1, <1>2 DEF NoConn, Orderly, Holds

\* Sending the next call moves it, and keeps it.
LEMMA PumpKeeps ==
  ASSUME NEW c, Orderly(c)
  PROVE  Same(Pumped(c), c) /\ \A x : Holds(Pumped(c), x) <=> Holds(c, x)
<1>1. CASE Pumped(c) = c
  BY <1>1 DEF Same
<1>2. CASE Pumped(c) # c
  <2>. DEFINE h == Head(c.queued)
              t == Tail(c.queued)
              told == Append(c.told, h)
  <2>1. /\ c \in Conn /\ c.registered /\ c.inflight = 0 /\ c.queued # <<>> /\ c.queued \in Seq(CallId)
        /\ Distinct(c.queued)
    BY <1>2 DEF Pumped, Orderly, Conn
  <2>2. /\ h \in CallId /\ InSeq(c.queued, h)
        /\ t \in Seq(CallId) /\ \A x : InSeq(t, x) => InSeq(c.queued, x)
        /\ Distinct(t) /\ ~InSeq(t, h)
        /\ \A x : InSeq(c.queued, x) => x = h \/ InSeq(t, x)
    BY <2>1, HeadAndTail
  <2>3. told \in Seq(CallId)
    BY <2>1, <2>2, AppendProperties DEF Conn
  <2>4. Pumped(c) = [c EXCEPT !.inflight = h, !.queued = t, !.late = FALSE, !.told = told]
    BY <1>2, <2>1 DEF Pumped, Conn
  <2>. HIDE DEF h, t, told
  <2>5. /\ Pumped(c) \in Conn /\ Pumped(c).registered = c.registered /\ Pumped(c).dead = c.dead
        /\ Pumped(c).inflight = h /\ Pumped(c).queued = t
    BY <2>1, <2>2, <2>3, <2>4 DEF Conn, CallId
  <2>6. Same(Pumped(c), c)
    BY <2>1, <2>2, <2>5 DEF Same, Orderly
  <2>7. \A x : Holds(Pumped(c), x) <=> Holds(c, x)
    BY <2>1, <2>2, <2>5 DEF Holds
  <2>8. QED BY <2>6, <2>7
<1>3. QED BY <1>1, <1>2

\* The call in flight is given up or answered, and the next one goes out.
Freed(c) == [c EXCEPT !.inflight = 0, !.late = FALSE]

\* The call in flight is taken off the connection.
LEMMA FreedKeeps ==
  ASSUME NEW c, Orderly(c)
  PROVE  Same(Freed(c), c) /\ \A x : Holds(Freed(c), x) <=> Holds(c, x) /\ x # c.inflight
<1>1. /\ Freed(c) \in Conn /\ Freed(c).registered = c.registered /\ Freed(c).dead = c.dead
      /\ Freed(c).inflight = 0 /\ Freed(c).queued = c.queued
  BY DEF Freed, Orderly, Conn
<1>2. ~InSeq(c.queued, 0)
  <2>1. c.queued \in Seq(CallId) /\ 0 \notin CallId
    BY DEF Orderly, Conn, CallId
  <2>2. QED BY <2>1, InSeqType
<1>3. QED BY <1>1, <1>2 DEF Same, Orderly, Holds

\* A fresh call is queued.
LEMMA QueuedKeeps ==
  ASSUME NEW c, Orderly(c), c.registered, NEW id \in CallId, ~Holds(c, id)
  PROVE  LET d == [c EXCEPT !.queued = Append(@, id)]
         IN  Same(d, c) /\ \A x : Holds(d, x) <=> Holds(c, x) \/ x = id
<1>. DEFINE q == Append(c.queued, id)
            d == [c EXCEPT !.queued = q]
<1>1. c \in Conn /\ c.queued \in Seq(CallId) /\ id # 0 /\ ~InSeq(c.queued, id)
  BY DEF Orderly, Conn, Holds, CallId
<1>2. q \in Seq(CallId) /\ Distinct(q) /\ \A x : InSeq(q, x) <=> InSeq(c.queued, x) \/ x = id
  BY <1>1, InAppend DEF Orderly
<1>3. [c EXCEPT !.queued = Append(@, id)] = d
  BY <1>1 DEF Conn
<1>. HIDE DEF q
<1>4. d \in Conn /\ d.registered = c.registered /\ d.dead = c.dead /\ d.inflight = c.inflight /\ d.queued = q
  BY <1>1, <1>2 DEF Conn
<1>. HIDE DEF d
<1>5. c.inflight # id
  BY <1>1 DEF Holds
<1>6. Same(d, c)
  BY <1>2, <1>4, <1>5 DEF Same, Orderly
<1>7. \A x : Holds(d, x) <=> Holds(c, x) \/ x = id
  BY <1>1, <1>2, <1>4 DEF Holds
<1>8. QED BY <1>3, <1>6, <1>7

\* Abandoning a call: the connection does not hold it any more, and the others as before.
LEMMA AbandonKeeps ==
  ASSUME NEW c, Orderly(c), NEW id \in CallId
  PROVE  /\ Same(AbandonedAt(c, id), c)
         /\ \A x : Holds(AbandonedAt(c, id), x) <=> Holds(c, x) /\ x # id
<1>1. CASE c.inflight = id
  <2>1. AbandonedAt(c, id) = Pumped(Freed(c))
    BY <1>1 DEF AbandonedAt, Freed
  <2>2. Same(Freed(c), c) /\ \A x : Holds(Freed(c), x) <=> Holds(c, x) /\ x # id
    BY <1>1, FreedKeeps
  <2>3. Same(Pumped(Freed(c)), Freed(c)) /\ \A x : Holds(Pumped(Freed(c)), x) <=> Holds(Freed(c), x)
    BY <2>2, PumpKeeps DEF Same
  <2>4. QED BY <2>1, <2>2, <2>3 DEF Same
<1>2. CASE c.inflight # id
  <2>. DEFINE S == ToSet(c.queued) \ {id}
              q == Only(c.queued, S)
              d == [c EXCEPT !.queued = q]
  <2>1. c \in Conn /\ c.queued \in Seq(CallId)
    BY DEF Orderly, Conn
  <2>2. AbandonedAt(c, id) = d
    BY <1>2, <2>1 DEF AbandonedAt, Conn
  <2>3. \A x : InSeq(c.queued, x) => (x \in S <=> x # id)
    BY DEF InSeq, ToSet
  <2>. HIDE DEF S
  <2>4. /\ q \in Seq(CallId) /\ \A x : InSeq(q, x) <=> InSeq(c.queued, x) /\ x \in S
        /\ Distinct(c.queued) => Distinct(q)
    BY <2>1, InOnly
  <2>5. c.queued = <<>> => q = <<>>
    BY OnlyNothing
  <2>. HIDE DEF q
  <2>6. d \in Conn /\ d.registered = c.registered /\ d.dead = c.dead /\ d.inflight = c.inflight /\ d.queued = q
    BY <2>1, <2>4 DEF Conn
  <2>. HIDE DEF d
  <2>7. Same(d, c)
    BY <2>4, <2>5, <2>6 DEF Same, Orderly
  <2>8. \A x : Holds(d, x) <=> Holds(c, x) /\ x # id
    BY <1>2, <2>3, <2>4, <2>6 DEF Holds
  <2>9. QED BY <2>2, <2>7, <2>8
<1>3. QED BY <1>1, <1>2

\* Several calls are abandoned, one after the other.
LEMMA AbandonAllKeeps ==
  ASSUME NEW c, Orderly(c), NEW ids \in Seq(CallId)
  PROVE  /\ Same(AbandonedAll(c, ids), c)
         /\ \A x : Holds(AbandonedAll(c, ids), x) <=> Holds(c, x) /\ ~InSeq(ids, x)
<1>. DEFINE n == Len(ids)
            V == {d \in Conn : Orderly(d)}
            G == [i \in 0 .. n |-> [d \in V |-> IF i = 0 THEN d ELSE AbandonedAt(d, ids[i])]]
            Whole(f) == f = [i \in 0 .. n |-> IF i = 0 THEN c ELSE AbandonedAt(f[i - 1], ids[i])]
            after == CHOOSE f : Whole(f)
<1>1. n \in Nat /\ DOMAIN ids = 1 .. n /\ \A i \in 1 .. n : ids[i] \in CallId
  BY LenProperties, ElementOfSeq
<1>2. c \in V
  BY DEF Orderly
<1>3. \A i \in 1 .. n : \A d \in V : AbandonedAt(d, ids[i]) \in V
  BY <1>1, AbandonKeeps DEF Same, Orderly
<1>4. G \in [0 .. n -> [V -> V]]
  <2>. SUFFICES ASSUME NEW i \in 0 .. n, NEW d \in V
                PROVE  (IF i = 0 THEN d ELSE AbandonedAt(d, ids[i])) \in V
    OBVIOUS
  <2>1. i = 0 \/ i \in 1 .. n
    BY <1>1
  <2>. HIDE DEF V, n
  <2>2. QED BY <1>3, <2>1
<1>5. PICK w : Follows(w, n, V, c, G)
  <2>. HIDE DEF n, V, G
  <2>1. QED BY <1>1, <1>2, <1>4, RecursionTo
<1>6. /\ w \in [0 .. n -> V] /\ w[0] = c
      /\ \A i \in 1 .. n : w[i] = AbandonedAt(w[i - 1], ids[i])
  <2>1. w \in [0 .. n -> V] /\ w[0] = G[0][c] /\ \A i \in 1 .. n : w[i] = G[i][w[i - 1]]
    BY <1>5 DEF Follows
  <2>2. G[0][c] = c /\ \A i \in 1 .. n : \A d \in V : G[i][d] = AbandonedAt(d, ids[i])
    <3>. HIDE DEF V
    <3>1. QED BY <1>1, <1>2
  <2>. HIDE DEF G, V, n
  <2>3. \A i \in 1 .. n : w[i - 1] \in V
    BY <1>1, <2>1
  <2>4. QED BY <2>1, <2>2, <2>3
<1>7. Whole(w)
  <2>1. ASSUME NEW i \in 0 .. n
        PROVE  w[i] = IF i = 0 THEN c ELSE AbandonedAt(w[i - 1], ids[i])
    <3>1. i # 0 => i \in 1 .. n
      BY <1>1
    <3>. HIDE DEF n
    <3>2. QED BY <1>6, <3>1
  <2>2. QED BY <1>6, <2>1
<1>8. Whole(after)
  BY <1>7
<1>9. AbandonedAll(c, ids) = after[n]
  BY DEF AbandonedAll
<1>. HIDE DEF after
<1>10. after[0] = c /\ \A i \in 1 .. n : after[i] = AbandonedAt(after[i - 1], ids[i])
  <2>1. \A i \in 0 .. n : after[i] = IF i = 0 THEN c ELSE AbandonedAt(after[i - 1], ids[i])
    BY <1>8
  <2>2. \A i \in 1 .. n : i \in 0 .. n /\ i # 0
    BY <1>1
  <2>3. 0 \in 0 .. n
    BY <1>1
  <2>4. QED BY <2>1, <2>2, <2>3
<1>. HIDE DEF n
<1>. DEFINE Good == {i \in 0 .. n :
                      /\ Same(after[i], c)
                      /\ \A x : Holds(after[i], x) <=> Holds(c, x) /\ ~\E j \in 1 .. i : ids[j] = x}
<1>11. 0 \in Good
  <2>1. \A j \in 1 .. 0 : FALSE
    OBVIOUS
  <2>2. Same(c, c)
    BY DEF Same
  <2>3. QED BY <1>1, <1>10, <2>1, <2>2
<1>12. ASSUME NEW k \in 0 .. n - 1, k \in Good  PROVE k + 1 \in Good
  <2>1. k + 1 \in 1 .. n /\ k + 1 \in 0 .. n /\ (k + 1) - 1 = k /\ k + 1 \in 1 .. k + 1
        /\ (\A j \in 1 .. k + 1 : j \in 1 .. k \/ j = k + 1)
        /\ \A j \in 1 .. k : j \in 1 .. k + 1
    BY <1>1
  <2>. DEFINE d == after[k]
              id == ids[k + 1]
  <2>2. id \in CallId /\ after[k + 1] = AbandonedAt(d, id)
    BY <1>1, <1>10, <2>1
  <2>3. Same(d, c) /\ \A x : Holds(d, x) <=> Holds(c, x) /\ ~\E j \in 1 .. k : ids[j] = x
    BY <1>12
  <2>. HIDE DEF d
  <2>4. /\ Same(AbandonedAt(d, id), d)
        /\ \A x : Holds(AbandonedAt(d, id), x) <=> Holds(d, x) /\ x # id
    <3>. HIDE DEF id
    <3>1. QED BY <2>2, <2>3, AbandonKeeps DEF Same
  <2>5. Same(after[k + 1], c)
    BY <2>2, <2>3, <2>4 DEF Same
  <2>6. \A x : Holds(after[k + 1], x) <=> Holds(c, x) /\ ~\E j \in 1 .. k + 1 : ids[j] = x
    BY <2>1, <2>2, <2>3, <2>4
  <2>7. QED BY <2>1, <2>5, <2>6
<1>. HIDE DEF Good
<1>13. 0 .. n \subseteq Good
  BY <1>1, <1>11, <1>12, SetInductionTo
<1>14. n \in Good
  BY <1>1, <1>13
<1>15. QED BY <1>1, <1>9, <1>14 DEF Good, InSeq

-----------------------------------------------------------------------------
(* All the places a call can be in.                                        *)

Owner == [kind : {"slot", "probe"}, token : Nat, index : Nat, state : {"open", "ran", "abandoned"}]

OpenIn(os, x) == x \in DOMAIN os /\ os[x].state = "open"

\* A call is open as long as it is on a connection or among the completed ones ds,
\* and it is in one of those places only.
CallsInv(cs, ds, os) ==
  /\ cs = [p \in Peer |-> cs[p]] /\ \A p \in Peer : Orderly(cs[p])
  /\ ds \in Seq(CallId) /\ Distinct(ds)
  /\ os \in Seq(Owner)
  /\ \A x : OpenIn(os, x) <=> InSeq(ds, x) \/ \E p \in Peer : Holds(cs[p], x)
  /\ \A p \in Peer : \A x : Holds(cs[p], x) => ~InSeq(ds, x)
  /\ \A p, q \in Peer : \A x : Holds(cs[p], x) /\ Holds(cs[q], x) => p = q

Laid(cs) == cs = [p \in Peer |-> cs[p]] /\ \A p \in Peer : Orderly(cs[p])
Listed(ds) == ds \in Seq(CallId) /\ Distinct(ds)

\* Calls complete: what leaves the connections joins the completed ones.
LEMMA CallsComplete ==
  ASSUME NEW cs, NEW ds, NEW os, CallsInv(cs, ds, os), NEW ct, NEW dt, Laid(ct), Listed(dt),
         \A p \in Peer : \A x : Holds(ct[p], x) => Holds(cs[p], x),
         \A x : InSeq(dt, x) <=> InSeq(ds, x) \/ \E p \in Peer : Holds(cs[p], x) /\ ~Holds(ct[p], x)
  PROVE  CallsInv(ct, dt, os)
<1>1. \A x : OpenIn(os, x) <=> InSeq(dt, x) \/ \E p \in Peer : Holds(ct[p], x)
  BY DEF CallsInv
<1>2. \A p \in Peer : \A x : Holds(ct[p], x) => ~InSeq(dt, x)
  BY DEF CallsInv
<1>3. QED BY <1>1, <1>2 DEF CallsInv, Laid, Listed

\* Calls end: they leave where they are and are not open any more.
LEMMA CallsEnd ==
  ASSUME NEW cs, NEW ds, NEW os, CallsInv(cs, ds, os), NEW ct, NEW dt, Laid(ct), Listed(dt),
         NEW ot \in Seq(Owner), NEW E,
         \A p \in Peer : \A x : Holds(ct[p], x) <=> Holds(cs[p], x) /\ x \notin E,
         \A x : InSeq(dt, x) <=> InSeq(ds, x) /\ x \notin E,
         \A x : OpenIn(ot, x) <=> OpenIn(os, x) /\ x \notin E
  PROVE  CallsInv(ct, dt, ot)
<1>1. \A x : OpenIn(ot, x) <=> InSeq(dt, x) \/ \E p \in Peer : Holds(ct[p], x)
  BY DEF CallsInv
<1>2. \A p \in Peer : \A x : Holds(ct[p], x) => ~InSeq(dt, x)
  BY DEF CallsInv
<1>3. \A p, q \in Peer : \A x : Holds(ct[p], x) /\ Holds(ct[q], x) => p = q
  BY DEF CallsInv
<1>4. QED BY <1>1, <1>2, <1>3 DEF CallsInv, Laid, Listed

\* The number a new call gets is nowhere.
LEMMA FreshCall ==
  ASSUME NEW cs, NEW ds, NEW os, CallsInv(cs, ds, os)
  PROVE  /\ Len(os) + 1 \in CallId /\ ~InSeq(ds, Len(os) + 1)
         /\ \A p \in Peer : ~Holds(cs[p], Len(os) + 1)
<1>1. Len(os) \in Nat /\ DOMAIN os = 1 .. Len(os)
  BY LenProperties DEF CallsInv
<1>2. ~OpenIn(os, Len(os) + 1)
  BY <1>1 DEF OpenIn
<1>3. QED BY <1>1, <1>2 DEF CallsInv, CallId

\* A new call goes to a registered connection.
LEMMA CallEnters ==
  ASSUME NEW cs, NEW ds, NEW os, CallsInv(cs, ds, os), NEW p \in Peer, cs[p].registered,
         NEW o \in Owner, o.state = "open"
  PROVE  LET d  == Pumped([cs[p] EXCEPT !.queued = Append(@, Len(os) + 1)])
         IN  CallsInv([cs EXCEPT ![p] = d], ds, Append(os, o)) /\ Same(d, cs[p])
<1>. DEFINE id == Len(os) + 1
            e  == [cs[p] EXCEPT !.queued = Append(@, id)]
            d  == Pumped(e)
            ct == [cs EXCEPT ![p] = d]
            ot == Append(os, o)
<1>1. id \in CallId /\ ~InSeq(ds, id) /\ \A q \in Peer : ~Holds(cs[q], id)
  BY FreshCall
<1>2. Orderly(cs[p])
  BY DEF CallsInv
<1>3. Same(e, cs[p]) /\ \A x : Holds(e, x) <=> Holds(cs[p], x) \/ x = id
  <2>. HIDE DEF id
  <2>1. QED BY <1>1, <1>2, QueuedKeeps
<1>. HIDE DEF e
<1>4. Same(d, cs[p]) /\ \A x : Holds(d, x) <=> Holds(cs[p], x) \/ x = id
  BY <1>3, PumpKeeps DEF Same
<1>. HIDE DEF d
<1>5. /\ ct = [q \in Peer |-> ct[q]] /\ ct[p] = d /\ \A q \in Peer : q # p => ct[q] = cs[q]
  BY DEF CallsInv
<1>. HIDE DEF ct
<1>6. \A q \in Peer : Orderly(ct[q])
  BY <1>4, <1>5 DEF CallsInv, Same
<1>7. \A q \in Peer : \A x : Holds(ct[q], x) <=> Holds(cs[q], x) \/ (q = p /\ x = id)
  BY <1>4, <1>5
<1>8. ot \in Seq(Owner) /\ \A x : OpenIn(ot, x) <=> OpenIn(os, x) \/ x = id
  <2>1. os \in Seq(Owner) /\ Len(os) \in Nat /\ DOMAIN os = 1 .. Len(os)
    BY LenProperties DEF CallsInv
  <2>2. /\ ot \in Seq(Owner) /\ DOMAIN ot = 1 .. id /\ ot[id] = o
        /\ \A x \in 1 .. Len(os) : ot[x] = os[x]
    BY <2>1, AppendProperties, LenProperties
  <2>3. \A x \in 1 .. id : x \in 1 .. Len(os) \/ x = id
    BY <2>1
  <2>4. \A x \in 1 .. Len(os) : x \in 1 .. id /\ x # id
    BY <2>1
  <2>5. id \in 1 .. id
    BY <2>1
  <2>. HIDE DEF ot, id
  <2>6. QED BY <2>1, <2>2, <2>3, <2>4, <2>5 DEF OpenIn
<1>. HIDE DEF ot, id
<1>9. \A x : OpenIn(ot, x) <=> InSeq(ds, x) \/ \E q \in Peer : Holds(ct[q], x)
  BY <1>7, <1>8 DEF CallsInv
<1>10. \A q \in Peer : \A x : Holds(ct[q], x) => ~InSeq(ds, x)
  BY <1>1, <1>7 DEF CallsInv
<1>11. ASSUME NEW q \in Peer, NEW r \in Peer, NEW x, Holds(ct[q], x), Holds(ct[r], x)  PROVE q = r
  <2>1. CASE x = id
    BY <1>1, <1>7, <1>11, <2>1
  <2>2. CASE x # id
    BY <1>7, <1>11, <2>2 DEF CallsInv
  <2>3. QED BY <2>1, <2>2
<1>12. CallsInv(ct, ds, ot)
  BY <1>5, <1>6, <1>8, <1>9, <1>10, <1>11 DEF CallsInv
<1>13. QED BY <1>4, <1>12 DEF ct, d, e, id, ot

-----------------------------------------------------------------------------
(* The server: what its steps do to the calls.                              *)

Completed == [id : CallId, ok : BOOLEAN]

\* Callbacks wait only while they run, completions only while lines are read, and
\* what is not connected holds no call.
ServerInv ==
  /\ connections \in Seq(Peer) /\ Distinct(connections)
  /\ \A p \in Peer : ~Connected(p) => \A x : ~Holds(conn[p], x)
  /\ completions \in Seq(Completed) /\ to_run \in Seq(Completed)
  /\ pc # "service" => completions = <<>>
  /\ pc # "callbacks" => to_run = <<>>

\* The calls that are completed.
Done == IF pc = "callbacks" THEN Ids(to_run) ELSE Ids(completions)

\* s mapped by f.
Mapped(s, f) == [i \in DOMAIN s |-> f[s[i]]]

\* A sequence mapped by a function has the mapped elements.
LEMMA MappedElements ==
  ASSUME NEW S, NEW T, NEW s \in Seq(S), NEW f, \A x : InSeq(s, x) => f[x] \in T
  PROVE  /\ Mapped(s, f) \in Seq(T) /\ DOMAIN Mapped(s, f) = DOMAIN s
         /\ \A y : InSeq(Mapped(s, f), y) <=> \E x : InSeq(s, x) /\ y = f[x]
         /\ Distinct(s) /\ (\A x, y : InSeq(s, x) /\ InSeq(s, y) /\ f[x] = f[y] => x = y)
              => Distinct(Mapped(s, f))
<1>. DEFINE t == Mapped(s, f)
            n == Len(s)
<1>1. n \in Nat /\ DOMAIN s = 1 .. n
  BY LenProperties
<1>2. \A i \in 1 .. n : f[s[i]] \in T
  BY <1>1 DEF InSeq
<1>. HIDE DEF n
<1>3. t = [i \in 1 .. n |-> t[i]] /\ \A i \in 1 .. n : t[i] = f[s[i]]
  BY <1>1 DEF Mapped
<1>4. DOMAIN t = 1 .. n
  BY <1>3
<1>. HIDE DEF t
<1>5. t \in Seq(T)
  BY <1>1, <1>2, <1>3, ListSeq
<1>6. \A y : InSeq(t, y) <=> \E x : InSeq(s, x) /\ y = f[x]
  BY <1>1, <1>3, <1>4 DEF InSeq
<1>7. Distinct(s) /\ (\A x, y : InSeq(s, x) /\ InSeq(s, y) /\ f[x] = f[y] => x = y) => Distinct(t)
  <2>. SUFFICES ASSUME Distinct(s), \A x, y : InSeq(s, x) /\ InSeq(s, y) /\ f[x] = f[y] => x = y,
                       NEW i \in 1 .. n, NEW j \in 1 .. n, t[i] = t[j]
                PROVE  i = j
    BY <1>4 DEF Distinct
  <2>1. InSeq(s, s[i]) /\ InSeq(s, s[j])
    BY <1>1 DEF InSeq
  <2>2. f[s[i]] = f[s[j]]
    BY <1>3
  <2>3. s[i] = s[j]
    BY <2>1, <2>2
  <2>4. QED BY <1>1, <2>3 DEF Distinct
<1>8. QED BY <1>1, <1>4, <1>5, <1>6, <1>7 DEF t

\* The numbers of the completed calls.
LEMMA IdsKeep ==
  ASSUME NEW s \in Seq(Completed)
  PROVE  /\ Ids(s) \in Seq(CallId) /\ DOMAIN Ids(s) = DOMAIN s /\ Len(Ids(s)) = Len(s)
         /\ \A i \in DOMAIN s : Ids(s)[i] = s[i].id
<1>1. Len(s) \in Nat /\ DOMAIN s = 1 .. Len(s) /\ \A i \in 1 .. Len(s) : s[i] \in Completed
  BY LenProperties, ElementOfSeq
<1>2. /\ Ids(s) = [i \in 1 .. Len(s) |-> Ids(s)[i]] /\ \A i \in 1 .. Len(s) : Ids(s)[i] = s[i].id
  BY <1>1 DEF Ids
<1>3. \A i \in 1 .. Len(s) : Ids(s)[i] \in CallId
  BY <1>1, <1>2 DEF Completed
<1>4. Ids(s) \in Seq(CallId) /\ Len(Ids(s)) = Len(s) /\ DOMAIN Ids(s) = 1 .. Len(s)
  BY <1>1, <1>2, <1>3, ListSeq
<1>5. QED BY <1>1, <1>2, <1>4

\* The numbers of two lists, one after the other.
LEMMA IdsConcat ==
  ASSUME NEW s \in Seq(Completed), NEW t \in Seq(Completed)
  PROVE  Ids(s \o t) = Ids(s) \o Ids(t)
<1>1. /\ s \o t \in Seq(Completed) /\ Len(s \o t) = Len(s) + Len(t)
      /\ \A i \in 1 .. Len(s) + Len(t) : (s \o t)[i] = IF i <= Len(s) THEN s[i] ELSE t[i - Len(s)]
  BY ConcatProperties
<1>2. /\ Len(s) \in Nat /\ Len(t) \in Nat /\ DOMAIN s = 1 .. Len(s) /\ DOMAIN t = 1 .. Len(t)
  BY LenProperties
<1>. DEFINE u == s \o t
            a == Ids(s)
            b == Ids(t)
<1>3. /\ a \in Seq(CallId) /\ Len(a) = Len(s) /\ \A i \in 1 .. Len(s) : a[i] = s[i].id
      /\ b \in Seq(CallId) /\ Len(b) = Len(t) /\ \A i \in 1 .. Len(t) : b[i] = t[i].id
  BY <1>2, IdsKeep
<1>4. Ids(u) \in Seq(CallId) /\ Len(Ids(u)) = Len(u) /\ DOMAIN u = 1 .. Len(u)
      /\ \A i \in DOMAIN u : Ids(u)[i] = u[i].id
  BY <1>1, IdsKeep, LenProperties
<1>. HIDE DEF u, a, b
<1>5. /\ a \o b \in Seq(CallId) /\ Len(a \o b) = Len(a) + Len(b)
      /\ \A i \in 1 .. Len(a) + Len(b) : (a \o b)[i] = IF i <= Len(a) THEN a[i] ELSE b[i - Len(a)]
  <2>1. a \in Seq(CallId) /\ b \in Seq(CallId)
    BY <1>3
  <2>2. QED BY <2>1, ConcatProperties
<1>6. \A i \in 1 .. Len(Ids(u)) : Ids(u)[i] = (a \o b)[i]
  <2>. SUFFICES ASSUME NEW i \in 1 .. Len(Ids(u))  PROVE Ids(u)[i] = (a \o b)[i]
    OBVIOUS
  <2>1. i \in 1 .. Len(s) + Len(t) /\ Ids(u)[i] = u[i].id
    BY <1>1, <1>4 DEF u
  <2>2. CASE i <= Len(s)
    <3>1. i \in 1 .. Len(s)
      BY <1>2, <2>1, <2>2
    <3>2. u[i] = s[i]
      BY <1>1, <2>1, <2>2 DEF u
    <3>3. (a \o b)[i] = a[i]
      BY <1>3, <1>5, <2>1, <2>2
    <3>4. QED BY <1>3, <2>1, <3>1, <3>2, <3>3
  <2>3. CASE ~(i <= Len(s))
    <3>1. i - Len(s) \in 1 .. Len(t)
      BY <1>2, <2>1, <2>3
    <3>2. u[i] = t[i - Len(s)]
      BY <1>1, <2>1, <2>3 DEF u
    <3>3. (a \o b)[i] = b[i - Len(s)]
      BY <1>3, <1>5, <2>1, <2>3
    <3>4. QED BY <1>3, <2>1, <3>1, <3>2, <3>3
  <2>4. QED BY <2>2, <2>3
<1>7. Len(Ids(u)) = Len(a \o b)
  BY <1>1, <1>3, <1>4, <1>5 DEF u
<1>8. Ids(u) = a \o b
  BY <1>4, <1>5, <1>6, <1>7, SeqEqual
<1>9. QED BY <1>8 DEF u, a, b

\* A call more is completed.
LEMMA IdsAppend ==
  ASSUME NEW s \in Seq(Completed), NEW c \in Completed
  PROVE  Append(s, c) \in Seq(Completed) /\ Ids(Append(s, c)) = Append(Ids(s), c.id)
<1>1. <<c>> \in Seq(Completed) /\ Ids(<<c>>) = <<c.id>> /\ c.id \in CallId
  BY DEF Ids, Completed
<1>2. Ids(s) \in Seq(CallId)
  BY IdsKeep
<1>3. Append(s, c) = s \o <<c>> /\ Append(Ids(s), c.id) = Ids(s) \o <<c.id>>
  <2>1. \A S : \A v \in Seq(S) : \A e \in S : Append(v, e) = v \o <<e>>
    OBVIOUS
  <2>2. QED BY <1>1, <1>2, <2>1
<1>4. Append(s, c) \in Seq(Completed)
  BY AppendProperties
<1>5. QED BY <1>1, <1>3, <1>4, IdsConcat

\* The first callback ran.
LEMMA IdsTail ==
  ASSUME NEW s \in Seq(Completed), s # <<>>
  PROVE  /\ Tail(s) \in Seq(Completed) /\ Head(s) \in Completed
         /\ Ids(s) # <<>> /\ Head(Ids(s)) = Head(s).id /\ Ids(Tail(s)) = Tail(Ids(s))
<1>1. /\ Len(s) \in Nat /\ Len(s) # 0 /\ DOMAIN s = 1 .. Len(s)
      /\ Head(s) = s[1] /\ Head(s) \in Completed /\ Tail(s) \in Seq(Completed) /\ Len(Tail(s)) = Len(s) - 1
      /\ \A i \in 1 .. Len(s) - 1 : Tail(s)[i] = s[i + 1]
  <2>1. Len(s) \in Nat /\ Len(s) # 0 /\ DOMAIN s = 1 .. Len(s)
    BY LenProperties, EmptySeq
  <2>2. Head(s) \in Completed /\ Tail(s) \in Seq(Completed)
    BY HeadAndTail
  <2>3. Head(s) = s[1] /\ Len(Tail(s)) = Len(s) - 1 /\ \A i \in 1 .. Len(s) - 1 : Tail(s)[i] = s[i + 1]
    BY <2>1, HeadTailProperties
  <2>4. QED BY <2>1, <2>2, <2>3
<1>. DEFINE u == Ids(s)
            t == Tail(s)
<1>2. u \in Seq(CallId) /\ Len(u) = Len(s) /\ \A i \in 1 .. Len(s) : u[i] = s[i].id
  BY <1>1, IdsKeep
<1>. HIDE DEF u
<1>3. u # <<>>
  BY <1>1, <1>2, EmptySeq
<1>4. /\ Head(u) = u[1] /\ Tail(u) \in Seq(CallId) /\ Len(Tail(u)) = Len(u) - 1
      /\ \A i \in 1 .. Len(u) - 1 : Tail(u)[i] = u[i + 1]
  <2>1. Tail(u) \in Seq(CallId)
    BY <1>2, <1>3, HeadAndTail
  <2>2. Head(u) = u[1] /\ Len(Tail(u)) = Len(u) - 1 /\ \A i \in 1 .. Len(u) - 1 : Tail(u)[i] = u[i + 1]
    BY <1>2, <1>3, HeadTailProperties
  <2>3. QED BY <2>1, <2>2
<1>5. t \in Seq(Completed) /\ DOMAIN t = 1 .. Len(s) - 1 /\ Len(t) = Len(s) - 1
  BY <1>1, LenProperties
<1>6. Ids(t) \in Seq(CallId) /\ Len(Ids(t)) = Len(s) - 1 /\ \A i \in 1 .. Len(s) - 1 : Ids(t)[i] = t[i].id
  <2>. HIDE DEF t
  <2>1. QED BY <1>5, IdsKeep
<1>7. \A i \in 1 .. Len(s) - 1 : Ids(t)[i] = Tail(u)[i]
  <2>1. \A i \in 1 .. Len(s) - 1 : i + 1 \in 1 .. Len(s)
    BY <1>1
  <2>2. QED BY <1>1, <1>2, <1>4, <1>6, <2>1
<1>8. Ids(t) = Tail(u)
  <2>. HIDE DEF t
  <2>1. QED BY <1>2, <1>4, <1>6, <1>7, SeqEqual
<1>9. 1 \in 1 .. Len(s)
  BY <1>1
<1>10. QED BY <1>1, <1>2, <1>3, <1>4, <1>8, <1>9 DEF u

-----------------------------------------------------------------------------
(* The sweep.                                                              *)

\* A call in flight that outlived its time leaves its connection.
Expires(c) == ~c.dead /\ TimedOut(c)

\* What the sweep does to one connection: only a call that timed out leaves it.
LEMMA SweptKeeps ==
  ASSUME NEW c, Orderly(c), NEW silent \in BOOLEAN
  PROVE  /\ Orderly(SweptConn(c, silent))
         /\ \A x : Holds(SweptConn(c, silent), x) <=> Holds(c, x) /\ ~(Expires(c) /\ x = c.inflight)
<1>. DEFINE d == SweptConn(c, silent)
<1>0. ASSUME NEW e, Orderly(e), NEW b \in BOOLEAN
      PROVE  Orderly([e EXCEPT !.dead = b]) /\ \A x : Holds([e EXCEPT !.dead = b], x) <=> Holds(e, x)
  BY <1>0 DEF Orderly, Conn, Holds
<1>1. CASE c.dead
  BY <1>1 DEF SweptConn, Expires
<1>2. CASE ~c.dead /\ ~c.registered
  <2>1. d = [c EXCEPT !.dead = silent] /\ ~Expires(c)
    BY <1>2 DEF SweptConn, Expires, TimedOut, Orderly
  <2>2. QED BY <1>0, <2>1
<1>3. CASE ~c.dead /\ c.registered
  <2>. DEFINE e == IF TimedOut(c) THEN Freed(c) ELSE c
              f == Pumped(e)
              b == ~(f.inflight # 0 /\ ~f.late) /\ silent
  <2>1. d = [f EXCEPT !.dead = b]
    BY <1>3 DEF SweptConn, Freed
  <2>2. Orderly(e) /\ \A x : Holds(e, x) <=> Holds(c, x) /\ ~(Expires(c) /\ x = c.inflight)
    BY <1>3, FreedKeeps DEF Same, Expires
  <2>. HIDE DEF e
  <2>3. Orderly(f) /\ \A x : Holds(f, x) <=> Holds(e, x)
    BY <2>2, PumpKeeps DEF Same
  <2>4. b \in BOOLEAN
    OBVIOUS
  <2>. HIDE DEF f, b
  <2>5. QED BY <1>0, <2>1, <2>2, <2>3, <2>4
<1>4. QED BY <1>1, <1>2, <1>3

\* What a connection loses when it is retired.
LEMMA LostKeeps ==
  ASSUME NEW c, Orderly(c)
  PROVE  /\ LostWith(c) \in Seq(CallId) /\ Distinct(LostWith(c))
         /\ \A x : InSeq(LostWith(c), x) <=> Holds(c, x)
<1>. DEFINE a == IF c.inflight # 0 THEN <<c.inflight>> ELSE <<>>
            q == c.queued
<1>1. q \in Seq(CallId) /\ Distinct(q) /\ ~InSeq(q, c.inflight) /\ c.inflight \in Nat
  BY DEF Orderly, Conn
<1>2. a \in Seq(CallId) /\ Distinct(a) /\ \A x : InSeq(a, x) <=> x # 0 /\ x = c.inflight
  <2>1. CASE c.inflight = 0
    BY <2>1, NoElement
  <2>2. CASE c.inflight # 0
    <3>1. c.inflight \in CallId
      BY <1>1, <2>2 DEF CallId
    <3>2. QED BY <2>2, <3>1, OneElement
  <2>3. QED BY <2>1, <2>2
<1>3. LostWith(c) = a \o q
  BY DEF LostWith
<1>4. \A x : InSeq(q, x) => x # 0
  BY <1>1, InSeqType DEF CallId
<1>5. \A x : ~(InSeq(a, x) /\ InSeq(q, x))
  BY <1>1, <1>2
<1>. HIDE DEF a, q
<1>6. /\ a \o q \in Seq(CallId) /\ Distinct(a \o q)
      /\ \A x : InSeq(a \o q, x) <=> InSeq(a, x) \/ InSeq(q, x)
  BY <1>1, <1>2, <1>5, InConcat
<1>7. \A x : Holds(c, x) <=> InSeq(a, x) \/ InSeq(q, x)
  BY <1>2, <1>4 DEF Holds, q
<1>8. QED BY <1>3, <1>6, <1>7

\* Failed completions for the calls in failed.
LEMMA FailedIds ==
  ASSUME NEW failed \in Seq(CallId)
  PROVE  LET t == [i \in DOMAIN failed |-> Completion(failed[i], FALSE)]
         IN  t \in Seq(Completed) /\ Ids(t) = failed
<1>. DEFINE t == [i \in DOMAIN failed |-> Completion(failed[i], FALSE)]
            n == Len(failed)
<1>1. n \in Nat /\ DOMAIN failed = 1 .. n /\ \A i \in 1 .. n : failed[i] \in CallId
  BY LenProperties, ElementOfSeq
<1>2. DOMAIN t = 1 .. n /\ t = [i \in 1 .. n |-> t[i]] /\ \A i \in 1 .. n : t[i] = Completion(failed[i], FALSE)
  <2>. HIDE DEF n
  <2>1. QED BY <1>1
<1>. HIDE DEF t, n
<1>3. \A i \in 1 .. n : t[i] \in Completed /\ t[i].id = failed[i]
  <2>1. \A x \in CallId : Completion(x, FALSE) \in Completed /\ Completion(x, FALSE).id = x
    BY DEF Completion, Completed
  <2>2. QED BY <1>1, <1>2, <2>1
<1>4. t \in Seq(Completed)
  BY <1>1, <1>2, <1>3, ListSeq
<1>5. Ids(t) \in Seq(CallId) /\ Len(Ids(t)) = Len(t) /\ \A i \in DOMAIN t : Ids(t)[i] = t[i].id
  BY <1>4, IdsKeep
<1>6. Len(t) = n
  BY <1>1, <1>2, <1>3, ListSeq
<1>7. Ids(t) = failed
  BY <1>1, <1>2, <1>3, <1>5, <1>6, SeqEqual DEF n
<1>8. QED BY <1>4, <1>7 DEF t

\* The sweep: every call that leaves its connection is completed, and once.
LEMMA SweepCalls ==
  ASSUME CallsInv(conn, Ids(completions), owner), ServerInv, to_run = <<>>,
         NEW silent, Sweep(silent)
  PROVE  /\ CallsInv(conn', Ids(to_run'), owner)
         /\ connections' \in Seq(Peer) /\ Distinct(connections')
         /\ \A p \in Peer : ~Connected(p)' => \A x : ~Holds(conn'[p], x)
         /\ completions' = <<>> /\ to_run' \in Seq(Completed)
<1>. DEFINE swept == [p \in Peer |-> IF Connected(p) THEN SweptConn(conn[p], p \in silent) ELSE conn[p]]
            Late == {p \in Peer : ~conn[p].dead /\ TimedOut(conn[p])}
            Gone == {p \in Peer : swept[p].dead}
            late == Only(connections, Late)
            gone == Only(connections, Gone)
            expired == [i \in DOMAIN late |-> conn[late[i]].inflight]
            rows == [i \in DOMAIN gone |-> LostWith(swept[gone[i]])]
            lost == FlattenSeq(rows)
            failed == expired \o lost
            fails == [i \in DOMAIN failed |-> Completion(failed[i], FALSE)]
<1>1. /\ to_run' = completions \o fails
      /\ completions' = <<>>
      /\ connections' = Only(connections, {p \in Peer : ~swept[p].dead})
      /\ conn' = [p \in Peer |-> IF swept[p].dead THEN NoConn ELSE swept[p]]
  BY DEF Sweep
<1>2. /\ \A p \in Peer : Orderly(conn[p])
      /\ \A p \in Peer : Connected(p) <=> InSeq(connections, p)
      /\ connections \in Seq(Peer) /\ Distinct(connections)
      /\ \A p \in Peer : ~Connected(p) => \A x : ~Holds(conn[p], x)
      /\ \A p, q \in Peer : \A x : Holds(conn[p], x) /\ Holds(conn[q], x) => p = q
  BY DEF CallsInv, ServerInv, Connected, InSeq
<1>3. \A p \in Peer : /\ Orderly(swept[p])
                      /\ \A x : Holds(swept[p], x) <=> Holds(conn[p], x) /\ ~(p \in Late /\ x = conn[p].inflight)
  <2>. SUFFICES ASSUME NEW p \in Peer
                PROVE  /\ Orderly(swept[p])
                       /\ \A x : Holds(swept[p], x) <=> Holds(conn[p], x) /\ ~(p \in Late /\ x = conn[p].inflight)
    OBVIOUS
  <2>1. CASE Connected(p)
    <3>1. (p \in silent) \in BOOLEAN
      OBVIOUS
    <3>2. swept[p] = SweptConn(conn[p], p \in silent)
      BY <2>1
    <3>3. p \in Late <=> Expires(conn[p])
      BY DEF Expires
    <3>4. QED BY <1>2, <3>1, <3>2, <3>3, SweptKeeps
  <2>2. CASE ~Connected(p)
    <3>1. swept[p] = conn[p]
      BY <2>2
    <3>2. QED BY <1>2, <2>2, <3>1
  <2>3. QED BY <2>1, <2>2
<1>4. \A p \in Peer : p \in Late => Holds(conn[p], conn[p].inflight) /\ conn[p].inflight \in CallId
  BY <1>2 DEF Holds, TimedOut, Orderly, Conn, CallId
<1>. DEFINE flight == [p \in Peer |-> conn[p].inflight]
            losing == [p \in Peer |-> LostWith(swept[p])]
<1>. HIDE DEF swept, Late, Gone
<1>5. /\ late \in Seq(Peer) /\ Distinct(late) /\ \A p : InSeq(late, p) <=> InSeq(connections, p) /\ p \in Late
      /\ gone \in Seq(Peer) /\ Distinct(gone) /\ \A p : InSeq(gone, p) <=> InSeq(connections, p) /\ p \in Gone
      /\ connections' \in Seq(Peer) /\ Distinct(connections')
      /\ \A p : InSeq(connections', p) <=> InSeq(connections, p) /\ p \in {q \in Peer : ~swept[q].dead}
  <2>1. connections \in Seq(Peer) /\ Distinct(connections)
    BY <1>2
  <2>2. late \in Seq(Peer) /\ Distinct(late) /\ \A p : InSeq(late, p) <=> InSeq(connections, p) /\ p \in Late
    BY <2>1, InOnly
  <2>3. gone \in Seq(Peer) /\ Distinct(gone) /\ \A p : InSeq(gone, p) <=> InSeq(connections, p) /\ p \in Gone
    BY <2>1, InOnly
  <2>. DEFINE Kept == {q \in Peer : ~swept[q].dead}
  <2>. HIDE DEF Kept
  <2>4. LET k == Only(connections, Kept)
        IN  k \in Seq(Peer) /\ Distinct(k) /\ \A p : InSeq(k, p) <=> InSeq(connections, p) /\ p \in Kept
    BY <2>1, InOnly
  <2>5. QED BY <1>1, <2>2, <2>3, <2>4 DEF Kept
<1>. HIDE DEF late, gone
<1>6. /\ expired \in Seq(CallId) /\ Distinct(expired)
      /\ \A y : InSeq(expired, y) <=> \E p \in Peer : Connected(p) /\ p \in Late /\ y = conn[p].inflight
  <2>1. \A p : InSeq(late, p) => p \in Peer /\ p \in Late
    BY <1>5, InSeqType
  <2>2. \A p : InSeq(late, p) => flight[p] \in CallId
    BY <1>4, <2>1
  <2>3. \A p, q : InSeq(late, p) /\ InSeq(late, q) /\ flight[p] = flight[q] => p = q
    <3>1. SUFFICES ASSUME NEW p, NEW q, InSeq(late, p), InSeq(late, q), flight[p] = flight[q]  PROVE p = q
      BY Zenon
    <3>2. p \in Peer /\ q \in Peer /\ Holds(conn[p], conn[p].inflight) /\ Holds(conn[q], conn[q].inflight)
      BY <1>4, <2>1, <3>1
    <3>3. conn[p].inflight = conn[q].inflight
      BY <3>1, <3>2
    <3>4. QED BY <1>2, <3>2, <3>3
  <2>4. expired = [i \in DOMAIN late |-> flight[late[i]]]
    <3>1. \A i \in DOMAIN late : late[i] \in Peer
      BY <2>1 DEF InSeq
    <3>2. \A i \in DOMAIN late : flight[late[i]] = conn[late[i]].inflight
      BY <3>1
    <3>. HIDE DEF flight
    <3>3. QED BY <3>2
  <2>. DEFINE t == Mapped(late, flight)
  <2>. HIDE DEF flight, expired
  <2>5. t \in Seq(CallId) /\ Distinct(t) /\ \A y : InSeq(t, y) <=> \E x : InSeq(late, x) /\ y = flight[x]
    <3>1. late \in Seq(Peer) /\ Distinct(late)
      BY <1>5
    <3>2. /\ t \in Seq(CallId)
          /\ \A y : InSeq(t, y) <=> \E x : InSeq(late, x) /\ y = flight[x]
          /\ Distinct(late) /\ (\A x, y : InSeq(late, x) /\ InSeq(late, y) /\ flight[x] = flight[y] => x = y)
               => Distinct(t)
      BY <2>2, <3>1, MappedElements
    <3>. HIDE DEF t
    <3>3. QED BY <2>3, <3>1, <3>2
  <2>6. \A p \in Peer : flight[p] = conn[p].inflight
    BY DEF flight
  <2>7. \A p : InSeq(late, p) <=> p \in Peer /\ Connected(p) /\ p \in Late
    BY <1>2, <1>5, <2>1
  <2>. HIDE DEF t
  <2>8. \A y : InSeq(t, y) <=> \E p \in Peer : Connected(p) /\ p \in Late /\ y = conn[p].inflight
    BY <2>5, <2>6, <2>7
  <2>9. QED BY <2>4, <2>5, <2>8 DEF t, Mapped
<1>7. /\ rows \in Seq(Seq(CallId)) /\ \A i \in DOMAIN rows : Distinct(rows[i])
      /\ \A i, j \in DOMAIN rows : i # j => \A x : ~(InSeq(rows[i], x) /\ InSeq(rows[j], x))
      /\ \A x : (\E i \in DOMAIN rows : InSeq(rows[i], x))
                  <=> \E p \in Peer : Connected(p) /\ p \in Gone /\ Holds(swept[p], x)
  <2>1. \A p \in Peer : /\ LostWith(swept[p]) \in Seq(CallId) /\ Distinct(LostWith(swept[p]))
                        /\ \A x : InSeq(LostWith(swept[p]), x) <=> Holds(swept[p], x)
    BY <1>3, LostKeeps
  <2>2. DOMAIN rows = DOMAIN gone /\ \A i \in DOMAIN gone : gone[i] \in Peer /\ rows[i] = LostWith(swept[gone[i]])
    <3>1. \A i \in DOMAIN gone : gone[i] \in Peer
      BY <1>5, InSeqType DEF InSeq
    <3>2. QED BY <3>1
  <2>3. rows \in Seq(Seq(CallId))
    <3>. DEFINE n == Len(gone)
    <3>1. n \in Nat /\ DOMAIN gone = 1 .. n
      BY <1>5, LenProperties
    <3>2. rows = [i \in 1 .. n |-> rows[i]]
      BY <3>1
    <3>. HIDE DEF n, rows
    <3>3. QED BY <2>1, <2>2, <3>1, <3>2, ListSeq
  <2>. HIDE DEF rows
  <2>4. \A i \in DOMAIN rows : Distinct(rows[i]) /\ \A x : InSeq(rows[i], x) <=> Holds(swept[gone[i]], x)
    BY <2>1, <2>2
  <2>5. ASSUME NEW i \in DOMAIN rows, NEW j \in DOMAIN rows, i # j, NEW x, InSeq(rows[i], x), InSeq(rows[j], x)
        PROVE  FALSE
    <3>1. gone[i] # gone[j] /\ gone[i] \in Peer /\ gone[j] \in Peer
      BY <1>5, <2>2, <2>5 DEF Distinct
    <3>2. Holds(conn[gone[i]], x) /\ Holds(conn[gone[j]], x)
      BY <1>3, <2>4, <2>5, <3>1
    <3>3. QED BY <1>2, <3>1, <3>2
  <2>6. \A p : InSeq(gone, p) <=> p \in Peer /\ Connected(p) /\ p \in Gone
    <3>1. \A p : InSeq(gone, p) => p \in Peer
      BY <1>5, InSeqType
    <3>2. QED BY <1>2, <1>5, <3>1
  <2>7. \A x : (\E i \in DOMAIN rows : InSeq(rows[i], x))
                  <=> \E p \in Peer : Connected(p) /\ p \in Gone /\ Holds(swept[p], x)
    <3>. SUFFICES ASSUME NEW x
                  PROVE  (\E i \in DOMAIN rows : InSeq(rows[i], x))
                           <=> \E p \in Peer : Connected(p) /\ p \in Gone /\ Holds(swept[p], x)
      OBVIOUS
    <3>1. ASSUME NEW i \in DOMAIN rows, InSeq(rows[i], x)
          PROVE  \E p \in Peer : Connected(p) /\ p \in Gone /\ Holds(swept[p], x)
      <4>1. InSeq(gone, gone[i])
        BY <2>2 DEF InSeq
      <4>2. QED BY <2>4, <2>6, <3>1, <4>1
    <3>2. ASSUME NEW p \in Peer, Connected(p), p \in Gone, Holds(swept[p], x)
          PROVE  \E i \in DOMAIN rows : InSeq(rows[i], x)
      <4>1. PICK i \in DOMAIN gone : gone[i] = p
        BY <2>6, <3>2 DEF InSeq
      <4>2. QED BY <2>2, <2>4, <3>2, <4>1
    <3>3. QED BY <3>1, <3>2
  <2>8. QED BY <2>3, <2>4, <2>5, <2>7
<1>. HIDE DEF rows, expired
<1>8. /\ lost \in Seq(CallId) /\ Distinct(lost)
      /\ \A x : InSeq(lost, x) <=> \E p \in Peer : Connected(p) /\ p \in Gone /\ Holds(swept[p], x)
  <2>1. lost \in Seq(CallId) /\ Distinct(lost) /\ \A x : InSeq(lost, x) <=> \E i \in DOMAIN rows : InSeq(rows[i], x)
    BY <1>7, FlattenDisjoint
  <2>. HIDE DEF lost
  <2>2. QED BY <1>7, <2>1
<1>. HIDE DEF lost
<1>9. \A x : ~(InSeq(expired, x) /\ InSeq(lost, x))
  <2>. SUFFICES ASSUME NEW x, InSeq(expired, x), InSeq(lost, x)  PROVE FALSE
    OBVIOUS
  <2>1. PICK p \in Peer : p \in Late /\ x = conn[p].inflight
    BY <1>6
  <2>2. PICK q \in Peer : Holds(swept[q], x)
    BY <1>8
  <2>3. Holds(conn[p], x) /\ Holds(conn[q], x)
    BY <1>3, <1>4, <2>1, <2>2
  <2>4. p = q
    BY <1>2, <2>3
  <2>5. QED BY <1>3, <2>1, <2>2, <2>4
<1>10. /\ failed \in Seq(CallId) /\ Distinct(failed)
       /\ \A x : InSeq(failed, x) <=> InSeq(expired, x) \/ InSeq(lost, x)
  BY <1>6, <1>8, <1>9, InConcat
<1>. HIDE DEF failed
<1>. DEFINE ct == [p \in Peer |-> IF swept[p].dead THEN NoConn ELSE swept[p]]
            dt == Ids(completions) \o failed
<1>11. to_run' \in Seq(Completed) /\ Ids(to_run') = dt
  <2>1. fails \in Seq(Completed) /\ Ids(fails) = failed
    BY <1>10, FailedIds
  <2>2. completions \in Seq(Completed)
    BY DEF ServerInv
  <2>. HIDE DEF fails
  <2>3. completions \o fails \in Seq(Completed)
    BY <2>1, <2>2, ConcatProperties
  <2>4. Ids(completions \o fails) = dt
    BY <2>1, <2>2, IdsConcat
  <2>5. QED BY <1>1, <2>3, <2>4
<1>12. \A p \in Peer : /\ Orderly(ct[p])
                       /\ \A x : Holds(ct[p], x) <=> Holds(swept[p], x) /\ p \notin Gone
  <2>1. \A p \in Peer : ct[p] = IF p \in Gone THEN NoConn ELSE swept[p]
    BY DEF Gone
  <2>. HIDE DEF ct
  <2>2. QED BY <1>3, <2>1, NewConn
<1>13. Laid(ct)
  <2>1. ct = [p \in Peer |-> ct[p]]
    OBVIOUS
  <2>. HIDE DEF ct
  <2>2. QED BY <1>12, <2>1 DEF Laid
<1>. HIDE DEF ct
<1>14. \A x : InSeq(failed, x) <=> \E p \in Peer : Holds(conn[p], x) /\ ~Holds(ct[p], x)
  <2>. SUFFICES ASSUME NEW x
                PROVE  InSeq(failed, x) <=> \E p \in Peer : Holds(conn[p], x) /\ ~Holds(ct[p], x)
    OBVIOUS
  <2>1. ASSUME InSeq(expired, x)  PROVE \E p \in Peer : Holds(conn[p], x) /\ ~Holds(ct[p], x)
    <3>1. PICK p \in Peer : p \in Late /\ x = conn[p].inflight
      BY <1>6, <2>1
    <3>2. Holds(conn[p], x) /\ ~Holds(swept[p], x)
      BY <1>3, <1>4, <3>1
    <3>3. QED BY <1>12, <3>2
  <2>2. ASSUME InSeq(lost, x)  PROVE \E p \in Peer : Holds(conn[p], x) /\ ~Holds(ct[p], x)
    <3>1. PICK p \in Peer : p \in Gone /\ Holds(swept[p], x)
      BY <1>8, <2>2
    <3>2. QED BY <1>3, <1>12, <3>1
  <2>3. ASSUME NEW p \in Peer, Holds(conn[p], x), ~Holds(ct[p], x)
        PROVE  InSeq(expired, x) \/ InSeq(lost, x)
    <3>1. Connected(p)
      BY <1>2, <2>3
    <3>2. CASE Holds(swept[p], x)
      BY <1>8, <1>12, <2>3, <3>1, <3>2
    <3>3. CASE ~Holds(swept[p], x)
      BY <1>3, <1>6, <2>3, <3>1, <3>3
    <3>4. QED BY <3>2, <3>3
  <2>4. QED BY <1>10, <2>1, <2>2, <2>3
<1>15. Listed(dt) /\ \A x : InSeq(dt, x) <=> InSeq(Ids(completions), x) \/ InSeq(failed, x)
  <2>1. Ids(completions) \in Seq(CallId) /\ Distinct(Ids(completions))
    BY DEF CallsInv
  <2>2. \A x : ~(InSeq(Ids(completions), x) /\ InSeq(failed, x))
    BY <1>14 DEF CallsInv
  <2>3. QED BY <1>10, <2>1, <2>2, InConcat DEF Listed
<1>. HIDE DEF dt
<1>16. CallsInv(ct, dt, owner)
  <2>1. \A p \in Peer : \A x : Holds(ct[p], x) => Holds(conn[p], x)
    BY <1>3, <1>12
  <2>2. \A x : InSeq(dt, x) <=> InSeq(Ids(completions), x) \/ \E p \in Peer : Holds(conn[p], x) /\ ~Holds(ct[p], x)
    BY <1>14, <1>15
  <2>3. QED BY <1>13, <1>15, <2>1, <2>2, CallsComplete
<1>17. \A p \in Peer : ~Connected(p)' => \A x : ~Holds(conn'[p], x)
  <2>1. conn' = ct
    BY <1>1 DEF ct
  <2>2. \A p \in Peer : Connected(p)' <=> InSeq(connections', p)
    BY DEF Connected, InSeq
  <2>3. SUFFICES ASSUME NEW p \in Peer, ~InSeq(connections', p), NEW x, Holds(ct[p], x)  PROVE FALSE
    BY <2>1, <2>2
  <2>4. Holds(swept[p], x) /\ p \notin Gone /\ Holds(conn[p], x)
    BY <1>3, <1>12, <2>3
  <2>5. Connected(p)
    BY <1>2, <2>4
  <2>6. p \in {q \in Peer : ~swept[q].dead}
    BY <2>4 DEF Gone
  <2>7. QED BY <1>2, <1>5, <2>3, <2>5, <2>6
<1>18. QED BY <1>1, <1>5, <1>11, <1>16, <1>17 DEF ct

-----------------------------------------------------------------------------
(* Lines that are read, and calls that are placed.                          *)

CallsOK == CallsInv(conn, Done, owner)

\* One connection changes.
With(cs, p, d) == [cs EXCEPT ![p] = d]

\* One connection is exchanged for another.
LEMMA Exchanged ==
  ASSUME NEW cs, Laid(cs), NEW p \in Peer, NEW d, Orderly(d)
  PROVE  /\ Laid(With(cs, p, d)) /\ With(cs, p, d)[p] = d
         /\ \A q \in Peer : q # p => With(cs, p, d)[q] = cs[q]
<1>. DEFINE ct == With(cs, p, d)
<1>1. cs = [q \in Peer |-> cs[q]] /\ \A q \in Peer : Orderly(cs[q])
  BY DEF Laid
<1>2. ct = [q \in Peer |-> ct[q]] /\ ct[p] = d /\ \A q \in Peer : q # p => ct[q] = cs[q]
  BY <1>1 DEF With
<1>. HIDE DEF ct
<1>3. \A q \in Peer : Orderly(ct[q])
  BY <1>1, <1>2
<1>4. QED BY <1>2, <1>3 DEF Laid, ct

\* One that holds the same calls changes nothing about the calls.
LEMMA ConnExchanged ==
  ASSUME Laid(conn), NEW p \in Peer, NEW d, Orderly(d), conn' = [conn EXCEPT ![p] = d]
  PROVE  Laid(conn') /\ conn'[p] = d /\ \A q \in Peer : q # p => conn'[q] = conn[q]
<1>. DEFINE ct == With(conn, p, d)
<1>1. conn' = ct
  BY DEF With
<1>2. Laid(ct) /\ ct[p] = d /\ \A q \in Peer : q # p => ct[q] = conn[q]
  BY Exchanged
<1>. HIDE DEF ct
<1>3. QED BY <1>1, <1>2

\* A connection whose calls stay.
LEMMA ConnSettles ==
  ASSUME CallsOK, ServerInv, NEW p \in Peer, NEW d, Orderly(d),
         \A x : Holds(d, x) <=> Holds(conn[p], x),
         conn' = [conn EXCEPT ![p] = d],
         UNCHANGED <<connections, completions, to_run, owner, pc>>
  PROVE  CallsOK' /\ ServerInv'
<1>1. Laid(conn)
  BY DEF CallsOK, CallsInv, Laid
<1>2. Laid(conn') /\ conn'[p] = d /\ \A q \in Peer : q # p => conn'[q] = conn[q]
  BY <1>1, ConnExchanged
<1>3. \A q \in Peer : \A x : Holds(conn'[q], x) <=> Holds(conn[q], x)
  BY <1>2
<1>4. Done' = Done /\ Listed(Done)
  BY DEF Done, CallsOK, CallsInv, Listed
<1>5. CallsInv(conn', Done, owner)
  <2>1. \A q \in Peer : \A x : Holds(conn'[q], x) => Holds(conn[q], x)
    BY <1>3
  <2>2. \A x : InSeq(Done, x) <=> InSeq(Done, x) \/ \E q \in Peer : Holds(conn[q], x) /\ ~Holds(conn'[q], x)
    BY <1>3
  <2>. HIDE DEF Done
  <2>3. QED BY <1>2, <1>4, <2>1, <2>2, CallsComplete DEF CallsOK
<1>6. CallsOK'
  BY <1>4, <1>5 DEF CallsOK
<1>7. ServerInv'
  <2>1. \A q \in Peer : Connected(q)' <=> Connected(q)
    BY DEF Connected
  <2>2. QED BY <1>3, <2>1 DEF ServerInv
<1>8. QED BY <1>6, <1>7

\* A tool connects.
LEMMA AcceptKeeps ==
  ASSUME CallsOK, ServerInv, NEW p \in Peer, Accept(p), UNCHANGED <<owner, pc>>
  PROVE  CallsOK' /\ ServerInv'
<1>1. /\ ~Connected(p) /\ connections' = Append(connections, p) /\ conn' = [conn EXCEPT ![p] = NoConn]
      /\ UNCHANGED <<completions, to_run>>
  BY DEF Accept
<1>2. Laid(conn) /\ \A x : ~Holds(conn[p], x)
  BY <1>1 DEF CallsOK, CallsInv, Laid, ServerInv
<1>3. Laid(conn') /\ conn'[p] = NoConn /\ \A q \in Peer : q # p => conn'[q] = conn[q]
  <2>1. conn' = With(conn, p, NoConn)
    BY <1>1 DEF With
  <2>2. QED BY <1>2, <2>1, NewConn, Exchanged
<1>4. \A q \in Peer : \A x : Holds(conn'[q], x) <=> Holds(conn[q], x)
  BY <1>2, <1>3, NewConn
<1>5. Done' = Done /\ Listed(Done)
  BY <1>1 DEF Done, CallsOK, CallsInv, Listed
<1>6. CallsInv(conn', Done, owner)
  <2>1. \A q \in Peer : \A x : Holds(conn'[q], x) => Holds(conn[q], x)
    BY <1>4
  <2>2. \A x : InSeq(Done, x) <=> InSeq(Done, x) \/ \E q \in Peer : Holds(conn[q], x) /\ ~Holds(conn'[q], x)
    BY <1>4
  <2>. HIDE DEF Done
  <2>3. QED BY <1>3, <1>5, <2>1, <2>2, CallsComplete DEF CallsOK
<1>7. CallsOK'
  BY <1>5, <1>6 DEF CallsOK
<1>8. connections' \in Seq(Peer) /\ Distinct(connections')
      /\ \A q : InSeq(connections', q) <=> InSeq(connections, q) \/ q = p
  <2>1. connections \in Seq(Peer) /\ Distinct(connections) /\ ~InSeq(connections, p)
    BY <1>1 DEF ServerInv, Connected, InSeq
  <2>2. QED BY <1>1, <2>1, InAppend
<1>9. \A q \in Peer : Connected(q) => Connected(q)'
  BY <1>8 DEF Connected, InSeq
<1>10. ServerInv'
  BY <1>1, <1>4, <1>8, <1>9 DEF ServerInv
<1>11. QED BY <1>7, <1>10

\* A tool answers: the call in flight completes, and an answer to another is dropped.
LEMMA ResultKeeps ==
  ASSUME CallsOK, ServerInv, NEW p \in Peer, NEW ok \in BOOLEAN, ReadResult(p, ok),
         pc = "service", UNCHANGED <<owner, pc>>
  PROVE  CallsOK' /\ ServerInv'
<1>. DEFINE told == Tail(conn[p].told)
            id == Head(conn[p].told)
            c == [conn[p] EXCEPT !.told = told]
            d == Pumped(Freed(c))
<1>1. /\ Laid(conn) /\ Orderly(conn[p]) /\ conn[p].told \in Seq(CallId) /\ conn[p].told # <<>>
      /\ UNCHANGED <<connections, to_run>>
  BY DEF CallsOK, CallsInv, Laid, Orderly, Conn, ReadResult
<1>2. id \in CallId /\ told \in Seq(CallId)
  BY <1>1, HeadAndTail
<1>3. [conn[p] EXCEPT !.told = Tail(@)] = c
  BY <1>1 DEF Orderly, Conn
<1>. HIDE DEF told, id
<1>4. Orderly(c) /\ (\A x : Holds(c, x) <=> Holds(conn[p], x)) /\ c.inflight = conn[p].inflight
  BY <1>1, <1>2 DEF Orderly, Conn, Holds
<1>. HIDE DEF c
<1>5. CASE c.inflight # id
  <2>1. conn' = [conn EXCEPT ![p] = c] /\ completions' = completions
    BY <1>3, <1>5 DEF ReadResult, c, id
  <2>2. QED BY <1>1, <1>4, <2>1, ConnSettles
<1>6. CASE c.inflight = id
  <2>1. conn' = [conn EXCEPT ![p] = d] /\ completions' = Append(completions, Completion(id, ok))
    BY <1>3, <1>6 DEF ReadResult, c, id, Freed
  <2>2. Orderly(d) /\ \A x : Holds(d, x) <=> Holds(conn[p], x) /\ x # id
    BY <1>4, <1>6, FreedKeeps, PumpKeeps DEF Same
  <2>. HIDE DEF d
  <2>3. Laid(conn') /\ conn'[p] = d /\ \A q \in Peer : q # p => conn'[q] = conn[q]
    <3>1. conn' = With(conn, p, d)
      BY <2>1 DEF With
    <3>2. QED BY <1>1, <2>2, <3>1, Exchanged
  <2>4. completions' \in Seq(Completed) /\ Ids(completions') = Append(Ids(completions), id)
    <3>1. Completion(id, ok) \in Completed /\ Completion(id, ok).id = id
      BY <1>2 DEF Completion, Completed
    <3>2. QED BY <2>1, <3>1, IdsAppend DEF ServerInv
  <2>5. Done = Ids(completions) /\ Done' = Append(Done, id)
    BY <2>4 DEF Done
  <2>6. Holds(conn[p], id)
    BY <1>2, <1>4, <1>6 DEF Holds, CallId
  <2>7. Listed(Done') /\ \A x : InSeq(Done', x) <=> InSeq(Done, x) \/ x = id
    <3>1. Done \in Seq(CallId) /\ Distinct(Done) /\ ~InSeq(Done, id)
      BY <2>6 DEF CallsOK, CallsInv
    <3>2. QED BY <1>2, <2>5, <3>1, InAppend DEF Listed
  <2>8. \A q \in Peer : Holds(conn[q], id) => q = p
    BY <2>6 DEF CallsOK, CallsInv
  <2>9. \A q \in Peer : \A x : Holds(conn'[q], x) => Holds(conn[q], x)
    BY <2>2, <2>3
  <2>10. \A x : InSeq(Done', x) <=> InSeq(Done, x) \/ \E q \in Peer : Holds(conn[q], x) /\ ~Holds(conn'[q], x)
    BY <2>2, <2>3, <2>6, <2>7
  <2>11. CallsInv(conn', Done', owner)
    <3>. HIDE DEF Done
    <3>1. QED BY <2>3, <2>7, <2>9, <2>10, CallsComplete DEF CallsOK
  <2>12. CallsOK'
    BY <2>11 DEF CallsOK
  <2>13. \A q \in Peer : Connected(q)' <=> Connected(q)
    BY <1>1 DEF Connected
  <2>14. ServerInv'
    BY <1>1, <2>4, <2>9, <2>13 DEF ServerInv
  <2>15. QED BY <2>12, <2>14
<1>7. QED BY <1>5, <1>6

\* A line only marks its connection.
LEMMA MarkKeeps ==
  ASSUME CallsOK, ServerInv, NEW p \in Peer,
         ReadRegister(p) \/ ReadNonsense(p) \/ ReadClosed(p) \/ CallGoesLate(p), UNCHANGED <<owner, pc>>
  PROVE  CallsOK' /\ ServerInv'
<1>1. Orderly(conn[p]) /\ conn = [q \in Peer |-> conn[q]]
  BY DEF CallsOK, CallsInv
<1>. DEFINE c == conn[p]
            Marked(d) == /\ conn' = [conn EXCEPT ![p] = d] /\ Orderly(d)
                         /\ \A x : Holds(d, x) <=> Holds(c, x)
<1>2. UNCHANGED <<connections, completions, to_run>>
  BY DEF ReadRegister, ReadNonsense, ReadClosed, CallGoesLate
<1>3. CASE ReadRegister(p)
  <2>. DEFINE d == [c EXCEPT !.registered = TRUE]
  <2>1. conn' = [conn EXCEPT ![p] = d]
    BY <1>1, <1>3 DEF ReadRegister
  <2>2. Orderly(d) /\ \A x : Holds(d, x) <=> Holds(c, x)
    BY <1>1 DEF Orderly, Conn, Holds
  <2>3. QED BY <1>2, <2>1, <2>2, ConnSettles
<1>4. CASE ReadNonsense(p) \/ ReadClosed(p)
  <2>. DEFINE d == [c EXCEPT !.dead = TRUE]
  <2>1. conn' = [conn EXCEPT ![p] = d]
    BY <1>1, <1>4 DEF ReadNonsense, ReadClosed
  <2>2. Orderly(d) /\ \A x : Holds(d, x) <=> Holds(c, x)
    BY <1>1 DEF Orderly, Conn, Holds
  <2>3. QED BY <1>2, <2>1, <2>2, ConnSettles
<1>5. CASE CallGoesLate(p)
  <2>. DEFINE d == [c EXCEPT !.late = TRUE]
  <2>1. conn' = [conn EXCEPT ![p] = d]
    BY <1>1, <1>5 DEF CallGoesLate
  <2>2. Orderly(d) /\ \A x : Holds(d, x) <=> Holds(c, x)
    BY <1>1 DEF Orderly, Conn, Holds
  <2>3. QED BY <1>2, <2>1, <2>2, ConnSettles
<1>6. QED BY <1>3, <1>4, <1>5

\* The first provider of a tool that is offered.
LEMMA ProviderThere ==
  ASSUME ServerInv, NEW name, has_tool(name)
  PROVE  /\ FirstProvider(name) \in Peer /\ conn[FirstProvider(name)].registered
         /\ Connected(FirstProvider(name))
<1>. DEFINE P == {i \in DOMAIN connections : Provides(connections[i], name)}
            First(i) == /\ Provides(connections[i], name)
                        /\ \A j \in 1 .. i - 1 : ~Provides(connections[j], name)
<1>1. connections \in Seq(Peer) /\ Len(connections) \in Nat /\ DOMAIN connections = 1 .. Len(connections)
  BY LenProperties DEF ServerInv
<1>2. P \in SUBSET Nat /\ P # {}
  BY <1>1 DEF has_tool
<1>3. PICK k \in P : \A j \in P : k <= j
  <2>. HIDE DEF P
  <2>1. QED BY <1>2, LeastOne
<1>4. First(k)
  <2>1. ASSUME NEW j \in 1 .. k - 1  PROVE j \notin P
    BY <1>1, <1>3, <2>1
  <2>2. \A j \in 1 .. k - 1 : j \in DOMAIN connections
    BY <1>1, <1>3
  <2>3. QED BY <1>3, <2>1, <2>2
<1>5. k \in DOMAIN connections
  BY <1>3
<1>. DEFINE f == CHOOSE i \in DOMAIN connections : First(i)
<1>6. f \in DOMAIN connections /\ First(f)
  BY <1>4, <1>5
<1>7. FirstProvider(name) = connections[f]
  BY DEF FirstProvider
<1>. HIDE DEF f
<1>8. FirstProvider(name) \in Peer
  BY <1>1, <1>6, <1>7, ElementOfSeq
<1>9. conn[FirstProvider(name)].registered
  BY <1>6, <1>7 DEF Provides
<1>10. Connected(FirstProvider(name))
  BY <1>6, <1>7 DEF Connected
<1>11. QED BY <1>8, <1>9, <1>10

-----------------------------------------------------------------------------
(* The round: its slots and the calls that answer them.                     *)

SlotOwner(token, i) == [kind |-> "slot", token |-> token, index |-> i, state |-> "open"]

\* A slot without an answer is in the batch or has an open call of its own, and an
\* open call of a cycle has such a slot.
RoundOK(slots, batch, os, token) ==
  /\ \A x : OpenIn(os, x) /\ os[x].kind = "slot" =>
       /\ os[x].token = token /\ os[x].index \in DOMAIN slots \ batch
       /\ ~slots[os[x].index].done /\ slots[os[x].index].id = x
  /\ \A i \in DOMAIN slots : ~slots[i].done =>
       IF i \in batch THEN slots[i].id = 0
       ELSE OpenIn(os, slots[i].id) /\ os[slots[i].id] = SlotOwner(token, i)

NoSlotOpen(os) == \A x : OpenIn(os, x) => os[x].kind # "slot"

\* ot is os with open calls after them, those of a cycle for the one with the token.
Followed(ot, os, token) ==
  /\ Len(ot) >= Len(os)
  /\ \A x \in DOMAIN os : ot[x] = os[x]
  /\ \A x \in DOMAIN ot \ DOMAIN os :
       ot[x].state = "open" /\ (ot[x].kind = "slot" => ot[x].token = token)

\* With no call after them.
LEMMA FollowedSelf ==
  ASSUME NEW os \in Seq(Owner), NEW token
  PROVE  Followed(os, os, token)
<1>1. Len(os) \in Nat
  BY LenProperties
<1>2. QED BY <1>1 DEF Followed

\* With one call more.
LEMMA FollowedOne ==
  ASSUME NEW os \in Seq(Owner), NEW ot \in Seq(Owner), NEW token, Followed(ot, os, token),
         NEW o \in Owner, o.state = "open", o.kind = "slot" => o.token = token
  PROVE  Followed(Append(ot, o), os, token)
<1>. DEFINE u == Append(ot, o)
            m == Len(ot)
            n == Len(os)
<1>1. m \in Nat /\ n \in Nat /\ m >= n /\ DOMAIN ot = 1 .. m /\ DOMAIN os = 1 .. n
  BY LenProperties DEF Followed
<1>2. /\ Len(u) = m + 1 /\ DOMAIN u = 1 .. m + 1 /\ u[m + 1] = o
      /\ \A x \in 1 .. m : u[x] = ot[x]
  BY AppendProperties, LenProperties
<1>. HIDE DEF u, m, n
<1>3. /\ \A x \in 1 .. n : x \in 1 .. m
      /\ \A x \in 1 .. m + 1 : x = m + 1 \/ x \in 1 .. m
      /\ m + 1 >= n
  BY <1>1
<1>4. Followed(u, os, token)
  BY <1>1, <1>2, <1>3 DEF Followed, m, n
<1>5. QED BY <1>4 DEF u

\* No round has no open call.
LEMMA NoRound ==
  ASSUME NEW os, NEW token, NoSlotOpen(os)
  PROVE  RoundOK(<<>>, {}, os, token)
BY DEF RoundOK, NoSlotOpen

\* When every slot has its answer no call of the round is open.
LEMMA RoundOver ==
  ASSUME NEW slots, NEW batch, NEW os, NEW token, RoundOK(slots, batch, os, token),
         \A i \in DOMAIN slots : slots[i].done
  PROVE  NoSlotOpen(os)
BY DEF RoundOK, NoSlotOpen

\* s and a slot more.
LEMMA SlotAdded ==
  ASSUME NEW slots \in Seq(Slots), NEW slot \in Slots
  PROVE  LET n == Len(slots) + 1
         IN  /\ n \in Nat \ {0} /\ Append(slots, slot) \in Seq(Slots) /\ DOMAIN slots = 1 .. n - 1
             /\ DOMAIN Append(slots, slot) = 1 .. n /\ Append(slots, slot)[n] = slot
             /\ \A i \in DOMAIN slots : i # n /\ i \in 1 .. n /\ Append(slots, slot)[i] = slots[i]
             /\ \A i \in 1 .. n : i = n \/ i \in DOMAIN slots
<1>1. Len(slots) \in Nat /\ DOMAIN slots = 1 .. Len(slots)
  BY LenProperties
<1>. DEFINE t == Append(slots, slot)
<1>2. t \in Seq(Slots) /\ Len(t) = Len(slots) + 1 /\ DOMAIN t = 1 .. Len(t)
      /\ (\A i \in 1 .. Len(slots) : t[i] = slots[i]) /\ t[Len(slots) + 1] = slot
  BY AppendProperties, LenProperties
<1>. HIDE DEF t
<1>3. QED BY <1>1, <1>2 DEF t

\* A slot that is answered at once.
LEMMA RoundGrowsDone ==
  ASSUME NEW slots \in Seq(Slots), NEW batch \in SUBSET (DOMAIN slots), NEW os, NEW token,
         RoundOK(slots, batch, os, token), NEW slot \in Slots, slot.done
  PROVE  RoundOK(Append(slots, slot), batch, os, token)
<1>. DEFINE n == Len(slots) + 1
            t == Append(slots, slot)
<1>1. /\ DOMAIN t = 1 .. n /\ t[n] = slot
      /\ \A i \in DOMAIN slots : i # n /\ i \in 1 .. n /\ t[i] = slots[i]
      /\ \A i \in 1 .. n : i = n \/ i \in DOMAIN slots
  BY SlotAdded
<1>. HIDE DEF n, t
<1>2. QED BY <1>1 DEF RoundOK, t

\* A slot for the batch.
LEMMA RoundGrowsBatch ==
  ASSUME NEW slots \in Seq(Slots), NEW batch \in SUBSET (DOMAIN slots), NEW os, NEW token,
         RoundOK(slots, batch, os, token), NEW slot \in Slots, slot.id = 0
  PROVE  RoundOK(Append(slots, slot), batch \cup {Len(slots) + 1}, os, token)
<1>. DEFINE n == Len(slots) + 1
            t == Append(slots, slot)
<1>1. /\ DOMAIN t = 1 .. n /\ t[n] = slot
      /\ \A i \in DOMAIN slots : i # n /\ i \in 1 .. n /\ t[i] = slots[i]
      /\ \A i \in 1 .. n : i = n \/ i \in DOMAIN slots
  BY SlotAdded
<1>. HIDE DEF n, t
<1>2. RoundOK(t, batch \cup {n}, os, token)
  BY <1>1 DEF RoundOK
<1>3. QED BY <1>2 DEF t, n

\* A slot with a call of its own.
LEMMA RoundGrowsCall ==
  ASSUME NEW slots \in Seq(Slots), NEW batch \in SUBSET (DOMAIN slots), NEW os \in Seq(Owner), NEW token \in Nat,
         RoundOK(slots, batch, os, token), NEW slot \in Slots, slot.id = Len(os) + 1, ~slot.done
  PROVE  /\ SlotOwner(token, Len(slots) + 1) \in Owner
         /\ RoundOK(Append(slots, slot), batch, Append(os, SlotOwner(token, Len(slots) + 1)), token)
<1>. DEFINE n == Len(slots) + 1
            t == Append(slots, slot)
            o == SlotOwner(token, n)
            m == Len(os) + 1
            ot == Append(os, o)
<1>1. /\ n \in 1 .. n /\ n \in Nat /\ DOMAIN t = 1 .. n /\ t[n] = slot
      /\ \A i \in DOMAIN slots : i # n /\ i \in 1 .. n /\ t[i] = slots[i]
      /\ \A i \in 1 .. n : i = n \/ i \in DOMAIN slots
  BY SlotAdded
<1>2. o \in Owner /\ o.kind = "slot" /\ o.token = token /\ o.index = n /\ o.state = "open"
  <2>. HIDE DEF n
  <2>1. QED BY <1>1 DEF Owner, SlotOwner
<1>. HIDE DEF o
<1>3. /\ DOMAIN ot = 1 .. m /\ ot[m] = o
      /\ \A x \in DOMAIN os : x # m /\ x \in 1 .. m /\ ot[x] = os[x]
      /\ \A x \in 1 .. m : x = m \/ x \in DOMAIN os
      /\ m \in 1 .. m
  <2>1. Len(os) \in Nat /\ DOMAIN os = 1 .. Len(os)
    BY LenProperties
  <2>2. /\ DOMAIN ot = 1 .. Len(os) + 1 /\ ot[Len(os) + 1] = o
        /\ \A x \in 1 .. Len(os) : ot[x] = os[x]
    BY <1>2, AppendProperties, LenProperties
  <2>. HIDE DEF ot
  <2>3. QED BY <2>1, <2>2
<1>. HIDE DEF ot, m, n, t
<1>4. slot.id = m
  BY DEF m
<1>5. ~OpenIn(os, m) /\ \A x : OpenIn(ot, x) <=> OpenIn(os, x) \/ x = m
  <2>1. ~OpenIn(os, m) /\ OpenIn(ot, m)
    BY <1>2, <1>3 DEF OpenIn
  <2>2. ASSUME NEW x, x # m  PROVE OpenIn(ot, x) <=> OpenIn(os, x)
    BY <1>3, <2>2 DEF OpenIn
  <2>3. QED BY <2>1, <2>2
<1>6. n \notin batch
  BY <1>1
<1>7. ASSUME NEW x, OpenIn(ot, x), ot[x].kind = "slot"
      PROVE  /\ ot[x].token = token /\ ot[x].index \in DOMAIN t \ batch
             /\ ~t[ot[x].index].done /\ t[ot[x].index].id = x
  <2>1. CASE x = m
    <3>1. ot[x] = o
      BY <1>3, <2>1
    <3>2. n \in DOMAIN t
      BY <1>1
    <3>3. QED BY <1>1, <1>2, <1>4, <1>6, <2>1, <3>1, <3>2
  <2>2. CASE x # m
    <3>1. OpenIn(os, x) /\ ot[x] = os[x]
      BY <1>3, <1>5, <1>7, <2>2 DEF OpenIn
    <3>2. QED BY <1>1, <1>7, <3>1 DEF RoundOK
  <2>3. QED BY <2>1, <2>2
<1>8. ASSUME NEW i \in DOMAIN t, ~t[i].done
      PROVE  IF i \in batch THEN t[i].id = 0
             ELSE OpenIn(ot, t[i].id) /\ ot[t[i].id] = SlotOwner(token, i)
  <2>1. CASE i = n
    BY <1>1, <1>3, <1>4, <1>5, <1>6, <2>1 DEF o
  <2>2. CASE i # n
    <3>1. i \in DOMAIN slots /\ t[i] = slots[i]
      BY <1>1, <2>2
    <3>2. \A x : OpenIn(os, x) => OpenIn(ot, x) /\ ot[x] = os[x]
      BY <1>3, <1>5 DEF OpenIn
    <3>3. QED BY <1>8, <3>1, <3>2 DEF RoundOK
  <2>3. QED BY <2>1, <2>2
<1>9. RoundOK(t, batch, ot, token)
  BY <1>7, <1>8 DEF RoundOK
<1>10. QED BY <1>2, <1>9 DEF t, n, ot, o

\* An answer: the slot of call id has it, and the call is not open any more.
LEMMA RoundAnswered ==
  ASSUME NEW slots, NEW batch, NEW os, NEW token, RoundOK(slots, batch, os, token),
         NEW id, OpenIn(os, id), NEW ot, \A x : OpenIn(ot, x) <=> OpenIn(os, x) /\ x # id,
         \A x : x # id => ot[x] = os[x],
         NEW k, NEW t, os[id].kind = "slot" => k = os[id].index,
         os[id].kind # "slot" => t = slots,
         os[id].kind = "slot" =>
           /\ DOMAIN t = DOMAIN slots /\ t[k].done
           /\ \A i \in DOMAIN slots : i # k => t[i] = slots[i]
  PROVE  RoundOK(t, batch, ot, token)
<1>1. ASSUME NEW x, OpenIn(ot, x), ot[x].kind = "slot"
      PROVE  /\ ot[x].token = token /\ ot[x].index \in DOMAIN t \ batch
             /\ ~t[ot[x].index].done /\ t[ot[x].index].id = x
  <2>1. OpenIn(os, x) /\ x # id /\ ot[x] = os[x]
    BY <1>1
  <2>2. /\ os[x].token = token /\ os[x].index \in DOMAIN slots \ batch
        /\ ~slots[os[x].index].done /\ slots[os[x].index].id = x
    BY <1>1, <2>1 DEF RoundOK
  <2>3. CASE os[id].kind = "slot"
    <3>1. slots[k].id = id
      BY <2>3 DEF RoundOK
    <3>2. os[x].index # k
      BY <2>1, <2>2, <3>1
    <3>3. QED BY <2>1, <2>2, <2>3, <3>2
  <2>4. QED BY <2>1, <2>2, <2>3
<1>2. ASSUME NEW i \in DOMAIN t, ~t[i].done
      PROVE  IF i \in batch THEN t[i].id = 0
             ELSE OpenIn(ot, t[i].id) /\ ot[t[i].id] = SlotOwner(token, i)
  <2>1. i \in DOMAIN slots /\ t[i] = slots[i] /\ (os[id].kind = "slot" => i # k)
    BY <1>2
  <2>2. IF i \in batch THEN slots[i].id = 0
        ELSE OpenIn(os, slots[i].id) /\ os[slots[i].id] = SlotOwner(token, i)
    BY <1>2, <2>1 DEF RoundOK
  <2>3. ASSUME i \notin batch  PROVE slots[i].id # id
    <3>1. SUFFICES ASSUME slots[i].id = id  PROVE FALSE
      OBVIOUS
    <3>2. os[id] = SlotOwner(token, i)
      BY <2>2, <2>3, <3>1
    <3>3. os[id].kind = "slot" /\ os[id].index = i
      BY <3>2 DEF SlotOwner
    <3>4. QED BY <2>1, <3>3
  <2>4. QED BY <2>1, <2>2, <2>3
<1>3. QED BY <1>1, <1>2 DEF RoundOK

\* The batch's slots are answered together.
LEMMA BatchAnswered ==
  ASSUME NEW slots, NEW batch, NEW os, NEW token, RoundOK(slots, batch, os, token),
         NEW t, DOMAIN t = DOMAIN slots, \A i \in DOMAIN slots : IF i \in batch THEN t[i].done ELSE t[i] = slots[i]
  PROVE  RoundOK(t, {}, os, token)
BY DEF RoundOK

\* A call that is no cycle's comes in.
LEMMA RoundAndProbe ==
  ASSUME NEW slots, NEW batch, NEW os \in Seq(Owner), NEW token, RoundOK(slots, batch, os, token),
         NEW o \in Owner, o.kind # "slot"
  PROVE  RoundOK(slots, batch, Append(os, o), token)
<1>. DEFINE m == Len(os) + 1
            ot == Append(os, o)
<1>1. /\ DOMAIN ot = 1 .. m /\ ot[m] = o
      /\ \A x \in DOMAIN os : x # m /\ x \in 1 .. m /\ ot[x] = os[x]
      /\ \A x \in 1 .. m : x = m \/ x \in DOMAIN os
  <2>1. Len(os) \in Nat /\ DOMAIN os = 1 .. Len(os)
    BY LenProperties
  <2>2. /\ DOMAIN ot = 1 .. Len(os) + 1 /\ ot[Len(os) + 1] = o
        /\ \A x \in 1 .. Len(os) : ot[x] = os[x]
    BY AppendProperties, LenProperties
  <2>. HIDE DEF ot
  <2>3. QED BY <2>1, <2>2
<1>. HIDE DEF ot, m
<1>2. \A x : OpenIn(ot, x) /\ ot[x].kind = "slot" => OpenIn(os, x) /\ ot[x] = os[x]
  BY <1>1 DEF OpenIn
<1>3. \A x : OpenIn(os, x) => OpenIn(ot, x) /\ ot[x] = os[x]
  BY <1>1 DEF OpenIn
<1>4. RoundOK(slots, batch, ot, token)
  BY <1>2, <1>3 DEF RoundOK
<1>5. QED BY <1>4 DEF ot

\* cs are the connections with other calls on them: the same ones are registered, and
\* what is not connected holds none.
Variant(cs) ==
  \A p \in Peer : /\ cs[p].registered = conn[p].registered
                  /\ ~Connected(p) => \A x : ~Holds(cs[p], x)

\* A call is handed to the first provider.
LEMMA PlacedKeeps ==
  ASSUME ServerInv, NEW cs, NEW ds, NEW os, CallsInv(cs, ds, os), Variant(cs),
         NEW name, has_tool(name), NEW o \in Owner, o.state = "open"
  PROVE  CallsInv(Placed(cs, name, Len(os) + 1), ds, Append(os, o)) /\ Variant(Placed(cs, name, Len(os) + 1))
<1>. DEFINE p == FirstProvider(name)
            d == Pumped(Queued(cs[p], Len(os) + 1))
            ct == Placed(cs, name, Len(os) + 1)
<1>1. p \in Peer /\ Connected(p) /\ cs[p].registered
  BY ProviderThere DEF Variant
<1>2. ct = [cs EXCEPT ![p] = d] /\ cs = [q \in Peer |-> cs[q]]
  <2>1. cs = [q \in Peer |-> cs[q]]
    BY DEF CallsInv
  <2>2. ct = [cs EXCEPT ![p] = d]
    BY DEF Placed
  <2>3. QED BY <2>1, <2>2
<1>. HIDE DEF p
<1>3. CallsInv([cs EXCEPT ![p] = d], ds, Append(os, o)) /\ Same(d, cs[p])
  BY <1>1, CallEnters DEF Queued
<1>4. ct[p] = d /\ \A q \in Peer : q # p => ct[q] = cs[q]
  BY <1>1, <1>2
<1>. HIDE DEF d
<1>5. CallsInv(ct, ds, Append(os, o))
  BY <1>2, <1>3
<1>. HIDE DEF ct
<1>6. Variant(ct)
  BY <1>1, <1>3, <1>4 DEF Variant, Same
<1>7. QED BY <1>5, <1>6 DEF ct

-----------------------------------------------------------------------------
(* The calls of a reply are dispatched, one after the other.                *)

Accs == [slots : Seq(Slots), batch : SUBSET Nat, unsafe : BOOLEAN, offered : SUBSET Name,
         conn : [Peer -> Conn], owner : Seq(Owner)]

Sending(acc) ==
  /\ acc \in Accs
  /\ acc.batch \subseteq DOMAIN acc.slots
  /\ CallsInv(acc.conn, Done, acc.owner)
  /\ Variant(acc.conn)
  /\ RoundOK(acc.slots, acc.batch, acc.owner, cycle_token)
  /\ Followed(acc.owner, owner, cycle_token)

\* The fields a dispatched call changes.
Acc(acc, s, b, u, cs, os) ==
  [acc EXCEPT !.slots = s, !.batch = b, !.unsafe = u, !.conn = cs, !.owner = os]

\* The fields of an accumulator.
LEMMA AccFields ==
  ASSUME NEW acc \in Accs, NEW s \in Seq(Slots), NEW b \in SUBSET Nat, NEW u \in BOOLEAN,
         NEW cs, Laid(cs), NEW os \in Seq(Owner)
  PROVE  LET d == Acc(acc, s, b, u, cs, os)
         IN  d \in Accs /\ d.slots = s /\ d.batch = b /\ d.conn = cs /\ d.owner = os
<1>1. cs \in [Peer -> Conn]
  BY DEF Laid, Orderly
<1>2. QED BY <1>1 DEF Accs, Acc

\* The calls of a reply that count towards its limit can be counted.
LEMMA ExecutedFinite ==
  ASSUME NEW s \in Seq(Slots)
  PROVE  Cardinality({i \in DOMAIN s : s[i].dispatched}) \in Nat
<1>1. Len(s) \in Nat /\ DOMAIN s = 1 .. Len(s)
  BY LenProperties
<1>2. IsFiniteSet(1 .. Len(s))
  BY <1>1, FS_Interval
<1>3. {i \in DOMAIN s : s[i].dispatched} \subseteq 1 .. Len(s)
  BY <1>1
<1>4. QED BY <1>2, <1>3, FS_Subset, FS_CardinalityType

\* One call of a reply: refused, put off, put in the batch or handed to a tool.
LEMMA DispatchKeeps ==
  ASSUME ServerInv, cycle_token \in Nat, owner \in Seq(Owner), NEW acc, Sending(acc), NEW name
  PROVE  Sending(Dispatched(acc, name))
<1>. DEFINE n == Len(acc.slots) + 1
            id == Len(acc.owner) + 1
            executed == Cardinality({i \in DOMAIN acc.slots : acc.slots[i].dispatched})
            refused == Slot(TRUE, FALSE, FALSE, 0)
            own == Slot(FALSE, FALSE, TRUE, 0)
            failed == Slot(TRUE, FALSE, TRUE, 0)
            sent == Slot(FALSE, FALSE, TRUE, id)
            With1(slot) == Append(acc.slots, slot)
            o == SlotOwner(cycle_token, n)
            d == Dispatched(acc, name)
            Is(s, b, u, cs, os) == d = Acc(acc, s, b, u, cs, os)
<1>1. /\ acc \in Accs /\ acc.slots \in Seq(Slots) /\ acc.batch \in SUBSET (DOMAIN acc.slots) /\ acc.batch \in SUBSET Nat
      /\ acc.unsafe \in BOOLEAN /\ acc.owner \in Seq(Owner) /\ Laid(acc.conn)
      /\ CallsInv(acc.conn, Done, acc.owner) /\ Variant(acc.conn)
      /\ RoundOK(acc.slots, acc.batch, acc.owner, cycle_token)
      /\ Followed(acc.owner, owner, cycle_token)
  BY DEF Sending, Accs, CallsInv, Laid
<1>2. /\ refused \in Slots /\ refused.done /\ own \in Slots /\ own.id = 0 /\ failed \in Slots /\ failed.done
      /\ id \in Nat /\ sent \in Slots /\ sent.id = id /\ ~sent.done /\ n \in Nat
  <2>1. id \in Nat /\ n \in Nat
    BY <1>1, LenProperties
  <2>. HIDE DEF id, n
  <2>2. QED BY <2>1 DEF Slot, Slots
<1>3. \/ Is(With1(refused), acc.batch, acc.unsafe \/ name \notin ReadOnly, acc.conn, acc.owner)
      \/ Is(With1(refused), acc.batch, acc.unsafe, acc.conn, acc.owner)
      \/ Is(With1(failed), acc.batch, acc.unsafe, acc.conn, acc.owner)
      \/ Is(With1(own), acc.batch \cup {n}, acc.unsafe, acc.conn, acc.owner)
      \/ has_tool(name) /\ Is(With1(sent), acc.batch, acc.unsafe, Placed(acc.conn, name, id), Append(acc.owner, o))
  <2>0. executed \in Nat /\ MAX_CALLS_PER_REPLY \in Nat
    BY <1>1, ExecutedFinite, SubconAssumption
  <2>. HIDE DEF refused, own, failed, sent
  <2>1. CASE name \notin acc.offered
    <3>1. d = [[acc EXCEPT !.slots = Append(@, refused)] EXCEPT !.unsafe = @ \/ name \notin ReadOnly]
      BY <2>1 DEF Dispatched, refused
    <3>2. Is(With1(refused), acc.batch, acc.unsafe \/ name \notin ReadOnly, acc.conn, acc.owner)
      BY <1>1, <3>1 DEF Acc, Accs
    <3>3. QED BY <3>2
  <2>2. CASE name \in acc.offered /\ executed >= MAX_CALLS_PER_REPLY
    <3>1. d = [acc EXCEPT !.slots = Append(@, refused)]
      BY <2>0, <2>2 DEF Dispatched, refused
    <3>2. Is(With1(refused), acc.batch, acc.unsafe, acc.conn, acc.owner)
      BY <1>1, <3>1 DEF Acc, Accs
    <3>3. QED BY <3>2
  <2>3. CASE name \in acc.offered /\ executed < MAX_CALLS_PER_REPLY /\ name \in Internal
    <3>1. d = [[acc EXCEPT !.slots = Append(@, own)] EXCEPT !.batch = @ \cup {n}]
      BY <2>3 DEF Dispatched, own
    <3>2. Is(With1(own), acc.batch \cup {n}, acc.unsafe, acc.conn, acc.owner)
      BY <1>1, <3>1 DEF Acc, Accs
    <3>3. QED BY <3>2
  <2>4. CASE ~(executed >= MAX_CALLS_PER_REPLY) /\ name \in acc.offered
             /\ ~(name \in acc.offered /\ executed < MAX_CALLS_PER_REPLY /\ name \in Internal)
    <3>1. CASE has_tool(name)
      <4>1. d = [[acc EXCEPT !.slots = Append(@, sent)] EXCEPT !.conn = Placed(@, name, id), !.owner = Append(@, o)]
        BY <2>4, <3>1 DEF Dispatched, sent, SlotOwner
      <4>2. Is(With1(sent), acc.batch, acc.unsafe, Placed(acc.conn, name, id), Append(acc.owner, o))
        BY <1>1, <4>1 DEF Acc, Accs
      <4>3. QED BY <3>1, <4>2
    <3>2. CASE ~has_tool(name)
      <4>1. d = [acc EXCEPT !.slots = Append(@, failed)]
        BY <2>4, <3>2 DEF Dispatched, failed
      <4>2. Is(With1(failed), acc.batch, acc.unsafe, acc.conn, acc.owner)
        BY <1>1, <4>1 DEF Acc, Accs
      <4>3. QED BY <4>2
    <3>3. QED BY <3>1, <3>2
  <2>5. QED BY <2>1, <2>2, <2>3, <2>4
<1>. HIDE DEF d, refused, own, failed, sent, executed
<1>4. ASSUME NEW slot \in Slots, slot.done, NEW u \in BOOLEAN,
             Is(With1(slot), acc.batch, u, acc.conn, acc.owner)
      PROVE  Sending(d)
  <2>1. With1(slot) \in Seq(Slots) /\ DOMAIN acc.slots \subseteq DOMAIN With1(slot)
    BY <1>1, SlotAdded
  <2>2. RoundOK(With1(slot), acc.batch, acc.owner, cycle_token)
    BY <1>1, <1>4, RoundGrowsDone
  <2>. HIDE DEF With1
  <2>3. d \in Accs /\ d.slots = With1(slot) /\ d.batch = acc.batch /\ d.conn = acc.conn /\ d.owner = acc.owner
    BY <1>1, <1>4, <2>1, AccFields
  <2>4. QED BY <1>1, <2>1, <2>2, <2>3 DEF Sending
<1>5. ASSUME Is(With1(own), acc.batch \cup {n}, acc.unsafe, acc.conn, acc.owner)
      PROVE  Sending(d)
  <2>1. With1(own) \in Seq(Slots) /\ DOMAIN acc.slots \subseteq DOMAIN With1(own) /\ n \in DOMAIN With1(own)
    <3>1. /\ n \in Nat \ {0} /\ With1(own) \in Seq(Slots) /\ DOMAIN With1(own) = 1 .. n
          /\ \A i \in DOMAIN acc.slots : i \in 1 .. n
      BY <1>1, <1>2, SlotAdded
    <3>. HIDE DEF n, With1
    <3>2. QED BY <3>1
  <2>2. RoundOK(With1(own), acc.batch \cup {n}, acc.owner, cycle_token)
    BY <1>1, <1>2, RoundGrowsBatch
  <2>. DEFINE b == acc.batch \cup {n}
  <2>3. b \in SUBSET Nat
    BY <1>1, <1>2
  <2>. HIDE DEF With1, n
  <2>4. d \in Accs /\ d.slots = With1(own) /\ d.batch = b /\ d.conn = acc.conn /\ d.owner = acc.owner
    <3>1. d = Acc(acc, With1(own), b, acc.unsafe, acc.conn, acc.owner)
      BY <1>5
    <3>. HIDE DEF b
    <3>2. QED BY <1>1, <2>1, <2>3, <3>1, AccFields
  <2>5. QED BY <1>1, <2>1, <2>2, <2>4 DEF Sending
<1>6. ASSUME has_tool(name), Is(With1(sent), acc.batch, acc.unsafe, Placed(acc.conn, name, id), Append(acc.owner, o))
      PROVE  Sending(d)
  <2>1. With1(sent) \in Seq(Slots) /\ DOMAIN acc.slots \subseteq DOMAIN With1(sent)
    BY <1>1, <1>2, SlotAdded
  <2>2. o \in Owner /\ RoundOK(With1(sent), acc.batch, Append(acc.owner, o), cycle_token)
    BY <1>1, <1>2, RoundGrowsCall
  <2>3. o.state = "open" /\ o.token = cycle_token
    BY DEF SlotOwner
  <2>. DEFINE cs == Placed(acc.conn, name, id)
              os == Append(acc.owner, o)
  <2>4. CallsInv(cs, Done, os) /\ Variant(cs)
    <3>. HIDE DEF o, Done
    <3>1. QED BY <1>1, <1>6, <2>2, <2>3, PlacedKeeps
  <2>5. Followed(os, owner, cycle_token)
    <3>. HIDE DEF o
    <3>1. QED BY <1>1, <2>2, <2>3, FollowedOne
  <2>6. Laid(cs) /\ os \in Seq(Owner)
    BY <2>4 DEF CallsInv, Laid
  <2>. HIDE DEF With1, cs, os
  <2>7. d \in Accs /\ d.slots = With1(sent) /\ d.batch = acc.batch /\ d.conn = cs /\ d.owner = os
    <3>1. d = Acc(acc, With1(sent), acc.batch, acc.unsafe, cs, os)
      BY <1>6 DEF cs, os
    <3>2. QED BY <1>1, <2>1, <2>6, <3>1, AccFields
  <2>8. QED BY <1>1, <2>1, <2>2, <2>4, <2>5, <2>7 DEF Sending, os
<1>7. (acc.unsafe \/ name \notin ReadOnly) \in BOOLEAN
  OBVIOUS
<1>. HIDE DEF With1, Is, n, id, o
<1>8. QED BY <1>1, <1>2, <1>3, <1>4, <1>5, <1>6, <1>7 DEF d

\* All calls of a reply, one after the other.
LEMMA DispatchAllKeeps ==
  ASSUME ServerInv, cycle_token \in Nat, owner \in Seq(Owner), NEW start, Sending(start), NEW calls \in Seq(Name)
  PROVE  Sending(DispatchedAll(start, calls))
<1>. DEFINE n == Len(calls)
            V == {a \in Accs : Sending(a)}
            G == [i \in 0 .. n |-> [a \in V |-> IF i = 0 THEN a ELSE Dispatched(a, calls[i])]]
            Whole(f) == f = [i \in 0 .. n |-> IF i = 0 THEN start ELSE Dispatched(f[i - 1], calls[i])]
            after == CHOOSE f : Whole(f)
<1>1. n \in Nat
  BY LenProperties
<1>2. start \in V /\ \A a \in V : Sending(a)
  BY DEF Sending
<1>3. \A a \in V : \A name : Dispatched(a, name) \in V
  <2>1. \A a : Sending(a) => a \in V
    BY DEF Sending
  <2>. HIDE DEF V
  <2>2. QED BY <1>2, <2>1, DispatchKeeps
<1>. HIDE DEF V
<1>4. G \in [0 .. n -> [V -> V]]
  BY <1>3
<1>5. PICK w : Follows(w, n, V, start, G)
  <2>. HIDE DEF n, G
  <2>1. QED BY <1>1, <1>2, <1>4, RecursionTo
<1>6. /\ w \in [0 .. n -> V] /\ w[0] = start
      /\ \A i \in 1 .. n : w[i] = Dispatched(w[i - 1], calls[i])
  <2>1. w \in [0 .. n -> V] /\ w[0] = G[0][start] /\ \A i \in 1 .. n : w[i] = G[i][w[i - 1]]
    BY <1>5 DEF Follows
  <2>2. G[0][start] = start /\ \A i \in 1 .. n : \A a \in V : G[i][a] = Dispatched(a, calls[i])
    BY <1>1, <1>2
  <2>. HIDE DEF G, n
  <2>3. \A i \in 1 .. n : w[i - 1] \in V
    BY <1>1, <2>1
  <2>4. QED BY <2>1, <2>2, <2>3
<1>7. Whole(w)
  <2>1. ASSUME NEW i \in 0 .. n
        PROVE  w[i] = IF i = 0 THEN start ELSE Dispatched(w[i - 1], calls[i])
    <3>1. i # 0 => i \in 1 .. n
      BY <1>1
    <3>. HIDE DEF n
    <3>2. QED BY <1>6, <3>1
  <2>2. QED BY <1>6, <2>1
<1>8. Whole(after)
  BY <1>7
<1>9. DispatchedAll(start, calls) = after[n]
  BY DEF DispatchedAll
<1>. HIDE DEF after
<1>10. after[0] = start /\ \A i \in 1 .. n : after[i] = Dispatched(after[i - 1], calls[i])
  <2>1. \A i \in 0 .. n : after[i] = IF i = 0 THEN start ELSE Dispatched(after[i - 1], calls[i])
    BY <1>8
  <2>2. \A i \in 1 .. n : i \in 0 .. n /\ i # 0
    BY <1>1
  <2>3. 0 \in 0 .. n
    BY <1>1
  <2>4. QED BY <2>1, <2>2, <2>3
<1>. HIDE DEF n
<1>. DEFINE Good == {i \in 0 .. n : Sending(after[i])}
<1>11. 0 \in Good
  BY <1>1, <1>10
<1>12. ASSUME NEW k \in 0 .. n - 1, k \in Good  PROVE k + 1 \in Good
  <2>1. k + 1 \in 1 .. n /\ k + 1 \in 0 .. n /\ (k + 1) - 1 = k
    BY <1>1
  <2>2. Sending(Dispatched(after[k], calls[k + 1]))
    BY <1>12, DispatchKeeps
  <2>3. QED BY <1>10, <2>1, <2>2
<1>. HIDE DEF Good
<1>13. 0 .. n \subseteq Good
  BY <1>1, <1>11, <1>12, SetInductionTo
<1>14. n \in Good
  BY <1>1, <1>13
<1>15. QED BY <1>9, <1>14 DEF Good

-----------------------------------------------------------------------------
(* The act turn.                                                            *)

\* The cycle's slots, its batch and the open calls agree.
SlotsInv == cyc.batch \subseteq DOMAIN cyc.slots /\ RoundOK(cyc.slots, cyc.batch, owner, cycle_token)

\* What a step of the reasoner that leaves it with c, or with no cycle, keeps.
Kept(c) == JobInv' /\ LoopInv' /\ SlotsInv' /\ (cyc' = NoCycle \/ cyc'.act = c.act)

\* Outside the tool stage no call of a cycle is open.
LEMMA NoSlots ==
  ASSUME LoopInv, SlotsInv, cyc.stage # "ACTING_TOOLS"
  PROVE  cyc.slots = <<>> /\ cyc.batch = {} /\ NoSlotOpen(owner)
<1>1. cyc.slots = <<>> /\ cyc.batch = {}
  BY NoCycleIdle DEF LoopInv, Cycle
<1>2. \A i \in DOMAIN cyc.slots : FALSE
  BY <1>1
<1>3. QED BY <1>1, <1>2, RoundOver DEF SlotsInv

\* The model was asked or the cycle ended: there is no round.
LEMMA AskedOrIdle ==
  ASSUME JobInv, LoopInv, NEW c, Asked(c) \/ EndCycle \/ StayIdle, NoSlotOpen(owner'),
         pc' # "result", answer' = NoResult, loaded'
  PROVE  Kept(c)
<1>1. CASE Asked(c)
  <2>1. Waits
    BY <1>1 DEF Asked, Waits
  <2>2. cyc'.slots = <<>> /\ cyc'.batch = {}
    BY <1>1 DEF Asked
  <2>3. SlotsInv'
    BY <2>2, NoRound DEF SlotsInv
  <2>4. JobInv'
    BY <2>1, SubmitInv DEF Waits
  <2>5. QED BY <1>1, <2>1, <2>3, <2>4, WaitsKeeps DEF Kept, Asked
<1>2. CASE EndCycle \/ StayIdle
  <2>1. Ended /\ UNCHANGED jobVars /\ cyc' = NoCycle
    BY <1>2 DEF EndCycle, StayIdle, Ended, jobVars
  <2>2. SlotsInv'
    BY <2>1, NoCycleIdle, NoRound DEF SlotsInv
  <2>3. JobInv'
    BY <2>1, JobNextInv
  <2>4. QED BY <2>1, <2>2, <2>3, EndedKeeps, NoCycleIdle DEF Kept
<1>3. QED BY <1>1, <1>2

\* A round that has its answers is over; one that has not stays as it is.
LEMMA RoundFinishes ==
  ASSUME JobInv, LoopInv, NEW c \in Cycle, c.stage = "ACTING_TOOLS", maybe_finish_tool_round(c),
         c.batch \subseteq DOMAIN c.slots, RoundOK(c.slots, c.batch, owner', cycle_token),
         c.batch = {} => ~Busy,
         c.batch # {} => cyc.stage = "ACTING_TOOLS" /\ cyc.batch # {} /\ answer = NoResult,
         pc' # "result", answer' = NoResult, loaded'
  PROVE  Kept(c)
<1>1. CASE Answered(c)
  <2>1. NoSlotOpen(owner')
    BY <1>1, RoundOver DEF Answered, AllDone
  <2>2. Asked(c) \/ EndCycle
    BY <1>1, FinishesRound
  <2>3. QED BY <2>1, <2>2, AskedOrIdle
<1>2. CASE ~Answered(c)
  <2>1. Stays(c)
    BY <1>2, FinishesRound
  <2>2. LoopInv'
    BY <2>1, StaysKeeps
  <2>3. SlotsInv'
    BY <2>1 DEF SlotsInv, Stays
  <2>4. JobInv'
    BY <2>1, JobNextInv DEF Stays
  <2>5. QED BY <2>1, <2>2, <2>3, <2>4 DEF Kept, Stays
<1>3. QED BY <1>1, <1>2

\* The fields dispatch_calls() sets.
Turn(c, slots, batch, unsafe) ==
  [c EXCEPT !.stage = "ACTING_TOOLS", !.slots = slots, !.batch = batch, !.unsafe = unsafe]

\* The cycle with a new round.
LEMMA TurnTyped ==
  ASSUME NEW c \in Cycle, NEW slots \in Seq(Slots), NEW batch \in SUBSET Nat, NEW unsafe \in BOOLEAN
  PROVE  LET d == Turn(c, slots, batch, unsafe)
         IN  /\ d \in Cycle /\ d.stage = "ACTING_TOOLS" /\ d.slots = slots /\ d.batch = batch
             /\ d.act = c.act
BY DEF Turn, Cycle

\* The slots of a batch that no worker took.
Refused(slots, batch) ==
  [i \in DOMAIN slots |-> IF i \in batch THEN [slots[i] EXCEPT !.done = TRUE] ELSE slots[i]]

\* Slots changed one by one.
LEMMA SlotsMapped ==
  ASSUME NEW slots \in Seq(Slots), NEW t, t = [i \in DOMAIN slots |-> t[i]],
         \A i \in DOMAIN slots : t[i] \in Slots
  PROVE  t \in Seq(Slots) /\ DOMAIN t = DOMAIN slots
<1>1. Len(slots) \in Nat /\ DOMAIN slots = 1 .. Len(slots)
  BY LenProperties
<1>2. QED BY <1>1, ListSeq

\* Slots of a batch the worker refused are answered.
LEMMA RefusedTyped ==
  ASSUME NEW slots \in Seq(Slots), NEW batch
  PROVE  /\ Refused(slots, batch) \in Seq(Slots) /\ DOMAIN Refused(slots, batch) = DOMAIN slots
         /\ \A i \in DOMAIN slots : IF i \in batch THEN Refused(slots, batch)[i].done
                                    ELSE Refused(slots, batch)[i] = slots[i]
<1>. DEFINE t == Refused(slots, batch)
<1>1. \A i \in DOMAIN slots : slots[i] \in Slots
  BY ElementOfSeq, LenProperties
<1>2. t = [i \in DOMAIN slots |-> t[i]]
      /\ \A i \in DOMAIN slots : t[i] = IF i \in batch THEN [slots[i] EXCEPT !.done = TRUE] ELSE slots[i]
  BY DEF Refused
<1>. HIDE DEF t
<1>3. \A s \in Slots : [s EXCEPT !.done = TRUE] \in Slots /\ [s EXCEPT !.done = TRUE].done
  BY DEF Slots
<1>4. \A i \in DOMAIN slots : t[i] \in Slots /\ IF i \in batch THEN t[i].done ELSE t[i] = slots[i]
  BY <1>1, <1>2, <1>3
<1>5. QED BY <1>2, <1>4, SlotsMapped DEF t

\* Where the completed calls are when the phase does not change what is pending.
LEMMA CallsFrame ==
  ASSUME CallsOK, ServerInv, UNCHANGED <<conn, connections, completions, to_run, owner>>,
         pc' # pc => completions = <<>> /\ to_run = <<>>
  PROVE  CallsOK' /\ ServerInv'
<1>1. Done' = Done
  BY DEF Done
<1>2. \A p : Connected(p)' <=> Connected(p)
  BY DEF Connected
<1>3. QED BY <1>1, <1>2 DEF CallsOK, ServerInv

\* New connections and owners, at a phase where nothing is completed.
LEMMA CallsReplaced ==
  ASSUME CallsInv(conn', Done, owner'), Variant(conn'), ServerInv,
         UNCHANGED <<connections, completions, to_run>>,
         pc' # pc => completions = <<>> /\ to_run = <<>>
  PROVE  CallsOK' /\ ServerInv'
<1>1. Done' = Done
  BY DEF Done
<1>2. \A p : Connected(p)' <=> Connected(p)
  BY DEF Connected
<1>3. QED BY <1>1, <1>2 DEF CallsOK, ServerInv, Variant

\* The server as it is can be handed calls.
LEMMA VariantNow == ASSUME ServerInv PROVE Variant(conn)
  BY DEF ServerInv, Variant

\* The calls of a reply are on their way, or none of them could be sent.
LEMMA DispatchTurn ==
  ASSUME JobInv, LoopInv, SlotsInv, CallsOK, ServerInv, pc = "result", cyc.stage = "ACTING_MODEL",
         NEW calls \in Seq(Name), dispatch_calls(cyc, calls),
         UNCHANGED <<connections, completions, to_run>>, pc' = "jobs", answer' = NoResult, loaded'
  PROVE  Kept(cyc) /\ CallsOK' /\ ServerInv' /\ Followed(owner', owner, cycle_token)
<1>. DEFINE start == [slots |-> <<>>, batch |-> {}, unsafe |-> cyc.unsafe, offered |-> cyc.offered,
                      conn |-> conn, owner |-> owner]
            end == DispatchedAll(start, calls)
            asking == [cyc EXCEPT !.stage = "ACTING_TOOLS", !.slots = end.slots, !.batch = end.batch, !.unsafe = end.unsafe]
            refused == [asking EXCEPT !.batch = {},
                          !.slots = [i \in DOMAIN @ |-> IF i \in end.batch THEN [@[i] EXCEPT !.done = TRUE] ELSE @[i]]]
<1>1. /\ conn' = end.conn /\ owner' = end.owner
      /\ IF end.batch # {} /\ Accepts
         THEN /\ Submit /\ expected_job_id' = next_job_id /\ cyc' = asking /\ UNCHANGED cycle_token
         ELSE maybe_finish_tool_round(refused)
  BY DEF dispatch_calls
<1>2. cyc \in Cycle /\ cycle_token \in Nat /\ ~Busy /\ NoSlotOpen(owner)
      /\ cyc.unsafe \in BOOLEAN /\ cyc.offered \in SUBSET Name /\ owner \in Seq(Owner)
  BY NoSlots DEF LoopInv, Cycle, CallsOK, CallsInv
<1>3. Sending(start)
  <2>1. <<>> \in Seq(Slots) /\ {} \subseteq DOMAIN start.slots
    BY EmptySeq
  <2>2. CallsInv(conn, Done, owner) /\ owner \in Seq(Owner) /\ Laid(conn)
    BY DEF CallsOK, CallsInv, Laid
  <2>3. conn \in [Peer -> Conn]
    BY <2>2 DEF Laid, Orderly
  <2>4. start \in Accs
    BY <1>2, <2>1, <2>2, <2>3 DEF Accs
  <2>5. RoundOK(<<>>, {}, owner, cycle_token)
    BY <1>2, NoRound
  <2>. HIDE DEF Done
  <2>6. Followed(owner, owner, cycle_token)
    BY <2>2, FollowedSelf
  <2>7. QED BY <2>1, <2>2, <2>4, <2>5, <2>6, VariantNow DEF Sending
<1>. HIDE DEF start
<1>4. Sending(end)
  BY <1>2, <1>3, DispatchAllKeeps
<1>. HIDE DEF end
<1>5. /\ end.slots \in Seq(Slots) /\ end.batch \in SUBSET Nat /\ end.unsafe \in BOOLEAN
      /\ end.batch \subseteq DOMAIN end.slots /\ CallsInv(end.conn, Done, end.owner) /\ Variant(end.conn)
      /\ RoundOK(end.slots, end.batch, end.owner, cycle_token) /\ Followed(end.owner, owner, cycle_token)
  BY <1>4 DEF Sending, Accs
<1>6. CallsOK' /\ ServerInv' /\ Followed(owner', owner, cycle_token)
  <2>1. completions = <<>> /\ to_run = <<>>
    BY DEF ServerInv
  <2>2. CallsInv(conn', Done, owner') /\ Variant(conn') /\ Followed(owner', owner, cycle_token)
    BY <1>1, <1>5
  <2>. HIDE DEF Done
  <2>3. QED BY <2>1, <2>2, CallsReplaced
<1>7. asking = Turn(cyc, end.slots, end.batch, end.unsafe)
  BY DEF Turn
<1>8. refused = Turn(cyc, Refused(end.slots, end.batch), {}, end.unsafe)
  BY <1>2, <1>5 DEF Turn, Refused, Cycle
<1>. HIDE DEF asking, refused
<1>9. CASE end.batch # {} /\ Accepts
  <2>1. /\ cyc' \in Cycle /\ cyc'.stage = "ACTING_TOOLS" /\ cyc'.slots = end.slots
        /\ cyc'.batch = end.batch /\ cyc'.act = cyc.act
    BY <1>1, <1>2, <1>5, <1>7, <1>9, TurnTyped
  <2>2. Submit /\ expected_job_id' = next_job_id /\ cycle_token' = cycle_token
    BY <1>1, <1>9
  <2>3. Waits
    BY <1>9, <2>1, <2>2 DEF Waits
  <2>4. LoopInv'
    BY <2>3, WaitsKeeps
  <2>5. SlotsInv'
    BY <1>1, <1>5, <2>1, <2>2 DEF SlotsInv
  <2>6. QED BY <1>6, <2>1, <2>2, <2>4, <2>5, SubmitInv DEF Kept
<1>10. CASE ~(end.batch # {} /\ Accepts)
  <2>. DEFINE t == Refused(end.slots, end.batch)
  <2>1. /\ t \in Seq(Slots) /\ DOMAIN t = DOMAIN end.slots
        /\ \A i \in DOMAIN end.slots : IF i \in end.batch THEN t[i].done ELSE t[i] = end.slots[i]
    BY <1>5, RefusedTyped
  <2>2. RoundOK(t, {}, end.owner, cycle_token)
    BY <1>5, <2>1, BatchAnswered
  <2>. HIDE DEF t
  <2>3. /\ refused \in Cycle /\ refused.stage = "ACTING_TOOLS" /\ refused.slots = t
        /\ refused.batch = {} /\ refused.act = cyc.act
    BY <1>2, <1>5, <1>8, <2>1, TurnTyped DEF t
  <2>4. maybe_finish_tool_round(refused)
    BY <1>1, <1>10
  <2>5. Kept(refused)
    <3>1. RoundOK(refused.slots, refused.batch, owner', cycle_token)
      BY <1>1, <2>2, <2>3
    <3>2. refused.batch \subseteq DOMAIN refused.slots
      BY <2>3
    <3>3. QED BY <1>2, <2>3, <2>4, <3>1, <3>2, RoundFinishes
  <2>6. QED BY <1>6, <2>3, <2>5 DEF Kept
<1>11. QED BY <1>9, <1>10

-----------------------------------------------------------------------------
(* The steps of the main loop.                                              *)

CoreInv == JobInv /\ LoopInv /\ SlotsInv /\ CallsOK /\ ServerInv

\* A result is being handled, and the loop goes on to look for the next.
Handling ==
  /\ pc = "result" /\ pc' = "jobs" /\ answer' = NoResult
  /\ UNCHANGED <<connections, completions, to_run, profile>>

\* A result that hands no call to a tool leaves the calls alone.
LEMMA UndispatchedKeeps ==
  ASSUME CoreInv, Handling, NoDispatch
  PROVE  CallsOK' /\ ServerInv'
<1>1. completions = <<>> /\ to_run = <<>>
  BY DEF CoreInv, ServerInv, Handling
<1>2. QED BY <1>1, CallsFrame DEF CoreInv, Handling, NoDispatch

\* The cycle ends, or asks the model.
LEMMA EndsOrAsks ==
  ASSUME CoreInv, Handling, NoDispatch, loaded, cyc.stage # "ACTING_TOOLS",
         NEW c, Asked(c) \/ EndCycle \/ StayIdle
  PROVE  CoreInv' /\ Kept(c)
<1>1. NoSlotOpen(owner')
  BY NoSlots DEF CoreInv, NoDispatch
<1>2. Kept(c)
  BY <1>1, AskedOrIdle DEF CoreInv, Handling, loaded
<1>3. QED BY <1>2, UndispatchedKeeps DEF CoreInv, Kept

Retold(c, e) == [c EXCEPT !.nudged = TRUE, !.rounds = @ + 1, !.offered = e]

\* A model that answered for its tools is told once.
LEMMA RetoldTyped ==
  ASSUME NEW c \in Cycle, NEW e \in SUBSET Name
  PROVE  Retold(c, e) \in Cycle /\ Retold(c, e).act = c.act
<1>. DEFINE r == c.rounds + 1
<1>1. r \in Nat
  BY DEF Cycle
<1>2. Retold(c, e) = [c EXCEPT !.nudged = TRUE, !.rounds = r, !.offered = e]
  BY DEF Retold
<1>. HIDE DEF r
<1>3. QED BY <1>1, <1>2 DEF Cycle

\* What is offered are tools.
LEMMA OfferTyped == available_tool_names \in SUBSET Name
  BY SubconAssumption DEF available_tool_names

\* The reply of an act turn: the cycle ends, asks again, or its calls are dispatched.
LEMMA ReplyKeeps ==
  ASSUME CoreInv, Handling, loaded, cyc.stage = "ACTING_MODEL", NEW outcome, handle_act_reply(outcome)
  PROVE  CoreInv' /\ Kept(cyc)
<1>1. cyc \in Cycle /\ "ACTING_MODEL" \in Asking
  BY DEF CoreInv, LoopInv, Asking
<1>2. ASSUME NoDispatch, EndCycle  PROVE CoreInv' /\ Kept(cyc)
  BY <1>2, EndsOrAsks
<1>3. CASE EndCycle /\ NoDispatch
  BY <1>2, <1>3
<1>4. CASE /\ NoDispatch
           /\ IF cyc.nudged \/ cyc.rounds >= max_tool_rounds
              THEN EndCycle
              ELSE AskOrEnd([cyc EXCEPT !.nudged = TRUE, !.rounds = @ + 1, !.offered = available_tool_names],
                            "ACTING_MODEL")
  <2>. DEFINE c == Retold(cyc, available_tool_names)
  <2>1. EndCycle \/ AskOrEnd(c, "ACTING_MODEL")
    BY <1>4 DEF Retold
  <2>2. c \in Cycle /\ c.act = cyc.act
    BY <1>1, OfferTyped, RetoldTyped
  <2>. HIDE DEF c
  <2>3. EndCycle \/ Asked(c)
    BY <1>1, <2>1, <2>2, AsksOrEnds
  <2>4. EndCycle \/ Asked(cyc)
    BY <2>2, <2>3 DEF Asked
  <2>5. QED BY <1>4, <2>4, EndsOrAsks
<1>5. CASE NoDispatch /\ finish_act(cyc)
  <2>1. Asked(cyc) \/ EndCycle
    BY <1>1, <1>5, FinishesAct
  <2>2. QED BY <1>5, <2>1, EndsOrAsks
<1>6. CASE \E calls \in Replies \ {<<>>} : dispatch_calls(cyc, calls)
  <2>1. PICK calls \in Replies : dispatch_calls(cyc, calls)
    BY <1>6
  <2>2. calls \in Seq(Name)
    BY SubconAssumption
  <2>3. Kept(cyc) /\ CallsOK' /\ ServerInv'
    BY <2>1, <2>2, DispatchTurn DEF CoreInv, Handling, loaded
  <2>4. QED BY <2>3 DEF CoreInv, Kept
<1>7. QED BY <1>3, <1>4, <1>5, <1>6 DEF handle_act_reply

\* The batch's answers are filled in.
Filled(slots, batch, ok) ==
  [i \in DOMAIN slots |-> IF i \in batch THEN [slots[i] EXCEPT !.done = TRUE, !.ok = ok[i]] ELSE slots[i]]

\* The slots of a batch get their answers.
LEMMA FilledTyped ==
  ASSUME NEW slots \in Seq(Slots), NEW batch, NEW ok, \A i \in batch : ok[i] \in BOOLEAN
  PROVE  /\ Filled(slots, batch, ok) \in Seq(Slots) /\ DOMAIN Filled(slots, batch, ok) = DOMAIN slots
         /\ \A i \in DOMAIN slots : IF i \in batch THEN Filled(slots, batch, ok)[i].done
                                    ELSE Filled(slots, batch, ok)[i] = slots[i]
<1>. DEFINE t == Filled(slots, batch, ok)
<1>1. \A i \in DOMAIN slots : slots[i] \in Slots
  BY ElementOfSeq, LenProperties
<1>2. t = [i \in DOMAIN slots |-> t[i]]
      /\ \A i \in DOMAIN slots : t[i] = IF i \in batch THEN [slots[i] EXCEPT !.done = TRUE, !.ok = ok[i]] ELSE slots[i]
  BY DEF Filled
<1>. HIDE DEF t
<1>3. \A i \in DOMAIN slots : t[i] \in Slots /\ IF i \in batch THEN t[i].done ELSE t[i] = slots[i]
  <2>. SUFFICES ASSUME NEW i \in DOMAIN slots
                PROVE  t[i] \in Slots /\ IF i \in batch THEN t[i].done ELSE t[i] = slots[i]
    OBVIOUS
  <2>1. CASE i \in batch
    <3>1. t[i] = [slots[i] EXCEPT !.done = TRUE, !.ok = ok[i]]
      BY <1>2, <2>1
    <3>2. slots[i] \in Slots /\ ok[i] \in BOOLEAN
      BY <1>1, <2>1
    <3>3. t[i] \in Slots /\ t[i].done
      BY <3>1, <3>2 DEF Slots
    <3>4. QED BY <2>1, <3>3
  <2>2. CASE i \notin batch
    BY <1>1, <1>2, <2>2
  <2>3. QED BY <2>1, <2>2
<1>4. QED BY <1>2, <1>3, SlotsMapped DEF t

BatchBack(c, slots, batch) == [c EXCEPT !.slots = slots, !.batch = batch]

\* The cycle with its batch answered.
LEMMA BatchBackTyped ==
  ASSUME NEW c \in Cycle, NEW slots \in Seq(Slots), NEW batch \in SUBSET Nat
  PROVE  LET d == BatchBack(c, slots, batch)
         IN  /\ d \in Cycle /\ d.stage = c.stage /\ d.slots = slots /\ d.batch = batch /\ d.act = c.act
BY DEF BatchBack, Cycle

\* The batch of internal calls came back.
LEMMA BatchKeeps ==
  ASSUME CoreInv, Handling, loaded, cyc.stage = "ACTING_TOOLS", NEW outcome, handle_batch(outcome)
  PROVE  CoreInv' /\ Kept(cyc)
<1>1. PICK ok \in [cyc.batch -> IF outcome = "done" THEN BOOLEAN ELSE {FALSE}] :
        maybe_finish_tool_round(
         [cyc EXCEPT !.batch = {},
            !.slots = [i \in DOMAIN @ |-> IF i \in cyc.batch THEN [@[i] EXCEPT !.done = TRUE, !.ok = ok[i]] ELSE @[i]]])
  BY DEF handle_batch
<1>2. cyc \in Cycle /\ cyc.slots \in Seq(Slots) /\ ~Busy
  BY DEF CoreInv, LoopInv, Cycle, Handling
<1>. DEFINE t == Filled(cyc.slots, cyc.batch, ok)
            c == BatchBack(cyc, t, {})
<1>3. maybe_finish_tool_round(c)
  BY <1>1, <1>2 DEF Filled, BatchBack, Cycle
<1>4. \A i \in cyc.batch : ok[i] \in BOOLEAN
  OBVIOUS
<1>5. /\ t \in Seq(Slots) /\ DOMAIN t = DOMAIN cyc.slots
      /\ \A i \in DOMAIN cyc.slots : IF i \in cyc.batch THEN t[i].done ELSE t[i] = cyc.slots[i]
  BY <1>2, <1>4, FilledTyped
<1>. HIDE DEF t
<1>6. RoundOK(t, {}, owner', cycle_token)
  <2>1. RoundOK(cyc.slots, cyc.batch, owner, cycle_token) /\ owner' = owner
    BY DEF CoreInv, SlotsInv, handle_batch, NoDispatch
  <2>2. QED BY <1>5, <2>1, BatchAnswered
<1>7. c \in Cycle /\ c.stage = "ACTING_TOOLS" /\ c.slots = t /\ c.batch = {} /\ c.act = cyc.act
  BY <1>2, <1>5, BatchBackTyped
<1>. HIDE DEF c
<1>8. Kept(c)
  <2>1. RoundOK(c.slots, c.batch, owner', cycle_token)
    BY <1>6, <1>7
  <2>2. c.batch \subseteq DOMAIN c.slots
    BY <1>7
  <2>3. QED BY <1>2, <1>3, <1>7, <2>1, <2>2, RoundFinishes DEF CoreInv, Handling, loaded
<1>9. NoDispatch
  BY DEF handle_batch
<1>10. QED BY <1>7, <1>8, <1>9, UndispatchedKeeps DEF CoreInv, Kept

\* The cycle an act is begun with.
Begun(n, e) == [NoCycle EXCEPT !.act = n, !.offered = e]

\* It is a cycle.
LEMMA BegunTyped ==
  ASSUME NEW n \in Nat, NEW e \in SUBSET Name
  PROVE  Begun(n, e) \in Cycle /\ Begun(n, e).act = n
BY NoCycleIdle DEF Begun, Cycle

\* The model is asked to act, or the cycle ends at once.
LEMMA ActBegins ==
  ASSUME CoreInv, Handling, NoDispatch, loaded, cyc.stage = "PRIORITIZING", NEW n \in Nat,
         AskOrEnd([NoCycle EXCEPT !.act = n, !.offered = available_tool_names], "ACTING_MODEL")
  PROVE  CoreInv' /\ (cyc' = NoCycle \/ cyc'.act = n)
<1>. DEFINE c == Begun(n, available_tool_names)
<1>1. AskOrEnd(c, "ACTING_MODEL") /\ "ACTING_MODEL" \in Asking
  BY DEF Begun, Asking
<1>2. c \in Cycle /\ c.act = n
  BY OfferTyped, BegunTyped
<1>. HIDE DEF c
<1>3. Asked(c) \/ EndCycle
  BY <1>1, <1>2, AsksOrEnds
<1>4. QED BY <1>2, <1>3, EndsOrAsks DEF Kept

\* The choice was made: an act begins, or none.
LEMMA PrioritizedKeeps ==
  ASSUME CoreInv, Handling, NoDispatch, loaded, cyc.stage = "PRIORITIZING", IsFiniteSet(acts),
         NEW outcome, handle_prioritized(outcome)
  PROVE  CoreInv' /\ (cyc' = NoCycle \/ cyc'.act = Cardinality(acts) + 1)
<1>1. CASE StayIdle
  BY <1>1, EndsOrAsks, NoCycleIdle DEF StayIdle
<1>2. CASE \E t \in eligible_indices :
             AskOrEnd([NoCycle EXCEPT !.act = Cardinality(acts) + 1, !.offered = available_tool_names], "ACTING_MODEL")
  <2>1. Cardinality(acts) + 1 \in Nat
    BY FS_CardinalityType
  <2>. DEFINE n == Cardinality(acts) + 1
  <2>2. AskOrEnd([NoCycle EXCEPT !.act = n, !.offered = available_tool_names], "ACTING_MODEL")
    BY <1>2
  <2>. HIDE DEF n
  <2>3. n \in Nat
    BY <2>1 DEF n
  <2>4. CoreInv' /\ (cyc' = NoCycle \/ cyc'.act = n)
    BY <2>2, <2>3, ActBegins
  <2>5. QED BY <2>4 DEF n
<1>3. QED BY <1>1, <1>2 DEF handle_prioritized

\* A job result, whatever the stage it finds.
LEMMA ResultHandled ==
  ASSUME CoreInv, IsFiniteSet(acts), on_job_result
  PROVE  CoreInv'
<1>1. Handling
  BY DEF on_job_result, Handling
<1>2. CASE answer.id # expected_job_id \/ expected_job_id = 0
  <2>1. UNCHANGED <<reasonerVars, jobVars>> /\ NoDispatch
    BY <1>2 DEF on_job_result
  <2>2. expected_job_id = 0
    BY <1>1, <1>2 DEF CoreInv, LoopInv, Busy, InPipeline, Handling, NoResult
  <2>3. LoopInv'
    BY <1>1, <2>1, <2>2, NoResultTyped
       DEF CoreInv, LoopInv, Busy, InPipeline, Handling, NoResult, reasonerVars, jobVars, loaded
  <2>4. SlotsInv'
    BY <2>1 DEF CoreInv, SlotsInv, reasonerVars, NoDispatch
  <2>5. JobInv'
    BY <2>1, JobNextInv DEF CoreInv
  <2>6. QED BY <1>1, <2>1, <2>3, <2>4, <2>5, UndispatchedKeeps DEF CoreInv
<1>3. CASE ~(answer.id # expected_job_id \/ expected_job_id = 0)
  <2>1. (CASE cyc.stage = "PRIORITIZING" -> handle_prioritized(answer.outcome) /\ NoDispatch
            [] cyc.stage = "ACTING_MODEL" -> handle_act_reply(answer.outcome) /\ UNCHANGED <<storeVars, acts>>
            [] cyc.stage = "ACTING_TOOLS" -> handle_batch(answer.outcome) /\ UNCHANGED <<storeVars, acts>>
            [] cyc.stage = "FINDING"      -> handle_finding(answer.outcome) /\ NoDispatch /\ UNCHANGED acts)
    BY <1>3 DEF on_job_result
  <2>2. cyc.stage \in {"PRIORITIZING", "ACTING_MODEL", "ACTING_TOOLS", "FINDING"} /\ loaded
    BY <1>3 DEF CoreInv, LoopInv, Cycle, Asking
  <2>3. CASE cyc.stage = "PRIORITIZING"
    <3>1. handle_prioritized(answer.outcome) /\ NoDispatch
      BY <2>1, <2>3
    <3>2. QED BY <1>1, <2>2, <2>3, <3>1, PrioritizedKeeps
  <2>4. CASE cyc.stage = "ACTING_MODEL"
    <3>1. handle_act_reply(answer.outcome)
      BY <2>1, <2>4
    <3>2. QED BY <1>1, <2>2, <2>4, <3>1, ReplyKeeps
  <2>5. CASE cyc.stage = "ACTING_TOOLS"
    <3>1. handle_batch(answer.outcome)
      BY <2>1, <2>5
    <3>2. QED BY <1>1, <2>2, <2>5, <3>1, BatchKeeps
  <2>6. CASE cyc.stage = "FINDING"
    <3>1. EndCycle /\ NoDispatch
      BY <2>1, <2>6 DEF handle_finding
    <3>2. QED BY <1>1, <2>2, <2>6, <3>1, EndsOrAsks
  <2>7. QED BY <2>2, <2>3, <2>4, <2>5, <2>6
<1>4. QED BY <1>2, <1>3

\* One owner's call has run.
LEMMA OwnerRan ==
  ASSUME NEW os \in Seq(Owner), NEW id, OpenIn(os, id)
  PROVE  LET ot == [os EXCEPT ![id].state = IF @ = "open" THEN "ran" ELSE "again"]
         IN  /\ ot \in Seq(Owner)
             /\ \A x : OpenIn(ot, x) <=> OpenIn(os, x) /\ x # id
             /\ \A x : x # id => ot[x] = os[x]
<1>. DEFINE ot == [os EXCEPT ![id].state = IF @ = "open" THEN "ran" ELSE "again"]
            o == [os[id] EXCEPT !.state = "ran"]
<1>1. Len(os) \in Nat /\ DOMAIN os = 1 .. Len(os) /\ \A x \in 1 .. Len(os) : os[x] \in Owner
  BY LenProperties, ElementOfSeq
<1>2. id \in DOMAIN os /\ os[id].state = "open"
  BY DEF OpenIn
<1>3. ot = [os EXCEPT ![id] = o]
  BY <1>2
<1>4. o \in Owner /\ o.state = "ran"
  BY <1>1, <1>2 DEF Owner
<1>. HIDE DEF o
<1>5. /\ ot = [x \in 1 .. Len(os) |-> ot[x]] /\ ot[id] = o
      /\ \A x \in 1 .. Len(os) : x # id => ot[x] = os[x]
  BY <1>1, <1>2, <1>3
<1>6. \A x : x # id => ot[x] = os[x]
  BY <1>1, <1>2, <1>3
<1>. HIDE DEF ot
<1>7. \A x \in 1 .. Len(os) : ot[x] \in Owner
  BY <1>1, <1>2, <1>4, <1>5
<1>8. ot \in Seq(Owner) /\ DOMAIN ot = 1 .. Len(os)
  BY <1>1, <1>5, <1>7, ListSeq
<1>9. \A x : OpenIn(ot, x) <=> OpenIn(os, x) /\ x # id
  <2>1. \A x : x = id => ~OpenIn(ot, x)
    BY <1>4, <1>5 DEF OpenIn
  <2>2. \A x : x # id => (OpenIn(ot, x) <=> OpenIn(os, x))
    BY <1>1, <1>6, <1>8 DEF OpenIn
  <2>3. QED BY <2>1, <2>2
<1>10. QED BY <1>6, <1>8, <1>9 DEF ot

\* One slot has its answer.
AnsweredSlot(slots, k, ok) == [slots EXCEPT ![k] = [@ EXCEPT !.done = TRUE, !.ok = ok]]

\* One slot gets its answer.
LEMMA SlotAnswered ==
  ASSUME NEW slots \in Seq(Slots), NEW k \in DOMAIN slots, NEW ok \in BOOLEAN
  PROVE  LET t == AnsweredSlot(slots, k, ok)
         IN  /\ t \in Seq(Slots) /\ DOMAIN t = DOMAIN slots /\ t[k].done
             /\ \A i \in DOMAIN slots : i # k => t[i] = slots[i]
<1>. DEFINE t == AnsweredSlot(slots, k, ok)
            s == [slots[k] EXCEPT !.done = TRUE, !.ok = ok]
<1>1. \A i \in DOMAIN slots : slots[i] \in Slots
  BY ElementOfSeq, LenProperties
<1>2. s \in Slots /\ s.done
  BY <1>1 DEF Slots
<1>3. t = [slots EXCEPT ![k] = s]
  BY DEF AnsweredSlot
<1>. HIDE DEF s
<1>4. slots = [i \in DOMAIN slots |-> slots[i]]
  <2>1. \A S : \A v \in Seq(S) : v = [i \in DOMAIN v |-> v[i]]
    OBVIOUS
  <2>2. QED BY <2>1
<1>5. t = [i \in DOMAIN slots |-> t[i]] /\ t[k] = s /\ \A i \in DOMAIN slots : i # k => t[i] = slots[i]
  BY <1>3, <1>4
<1>. HIDE DEF t
<1>6. \A i \in DOMAIN slots : t[i] \in Slots
  BY <1>1, <1>2, <1>5
<1>7. QED BY <1>2, <1>5, <1>6, SlotsMapped DEF t

WithSlots(c, slots) == [c EXCEPT !.slots = slots]

\* The cycle with other slots.
LEMMA WithSlotsTyped ==
  ASSUME NEW c \in Cycle, NEW slots \in Seq(Slots)
  PROVE  LET d == WithSlots(c, slots)
         IN  d \in Cycle /\ d.stage = c.stage /\ d.slots = slots /\ d.batch = c.batch /\ d.act = c.act
BY DEF WithSlots, Cycle

\* The call whose callback is next is open.
LEMMA FirstCallback ==
  ASSUME CallsOK, ServerInv, pc = "callbacks", to_run # <<>>
  PROVE  LET id == Head(to_run).id
         IN  /\ Head(to_run) \in Completed /\ OpenIn(owner, id)
             /\ Tail(to_run) \in Seq(Completed) /\ Listed(Ids(Tail(to_run)))
             /\ \A x : InSeq(Ids(Tail(to_run)), x) <=> InSeq(Done, x) /\ x # id
             /\ \A p \in Peer : ~Holds(conn[p], id)
<1>. DEFINE id == Head(to_run).id
            rest == Ids(Tail(to_run))
<1>1. /\ Head(to_run) \in Completed /\ Tail(to_run) \in Seq(Completed)
      /\ Done # <<>> /\ Head(Done) = id /\ rest = Tail(Done)
  BY IdsTail DEF ServerInv, Done
<1>2. Done \in Seq(CallId) /\ Distinct(Done)
  BY DEF CallsOK, CallsInv
<1>. HIDE DEF id, rest
<1>3. /\ InSeq(Done, id) /\ rest \in Seq(CallId) /\ Distinct(rest) /\ ~InSeq(rest, id)
      /\ \A x : InSeq(rest, x) => InSeq(Done, x)
      /\ \A x : InSeq(Done, x) => x = id \/ InSeq(rest, x)
  <2>. HIDE DEF Done
  <2>1. QED BY <1>1, <1>2, HeadAndTail
<1>4. OpenIn(owner, id) /\ \A p \in Peer : ~Holds(conn[p], id)
  BY <1>3 DEF CallsOK, CallsInv
<1>5. QED BY <1>1, <1>3, <1>4 DEF Listed, id, rest

\* An act is under way.
Acting == cyc.stage \notin {"IDLE", "PRIORITIZING"}

\* No act begins: the cycle ended, stayed as it was, or goes on with its act.
CycleOn == cyc' = NoCycle \/ cyc' = cyc \/ (Acting /\ cyc'.act = cyc.act)

\* The callback of the next completed call, of a cycle or of the presence probe.
LEMMA CallbackKeeps ==
  ASSUME CoreInv, RunCallback
  PROVE  CoreInv' /\ CycleOn
<1>. DEFINE id == Head(to_run).id
            o == owner[id]
            ok == Head(to_run).ok
            rest == Ids(Tail(to_run))
<1>1. /\ pc = "callbacks" /\ pc' = "callbacks" /\ to_run # <<>> /\ to_run' = Tail(to_run)
      /\ owner' = Ran(id) /\ UNCHANGED <<connections, conn, completions, profile, answer>>
      /\ answer = NoResult
  BY DEF RunCallback, CoreInv, LoopInv
<1>2. /\ ok \in BOOLEAN /\ OpenIn(owner, id) /\ to_run' \in Seq(Completed) /\ Listed(rest)
      /\ \A x : InSeq(rest, x) <=> InSeq(Done, x) /\ x # id
      /\ \A p \in Peer : ~Holds(conn[p], id)
  BY <1>1, FirstCallback DEF CoreInv, Completed
<1>3. /\ owner' \in Seq(Owner)
      /\ \A x : OpenIn(owner', x) <=> OpenIn(owner, x) /\ x # id
      /\ \A x : x # id => owner'[x] = owner[x]
  <2>1. owner \in Seq(Owner)
    BY DEF CoreInv, CallsOK, CallsInv
  <2>2. owner' = [owner EXCEPT ![id].state = IF @ = "open" THEN "ran" ELSE "again"]
    BY <1>1 DEF Ran
  <2>. HIDE DEF id
  <2>3. OpenIn(owner, id)
    BY <1>2
  <2>. DEFINE ot == [owner EXCEPT ![id].state = IF @ = "open" THEN "ran" ELSE "again"]
  <2>4. /\ ot \in Seq(Owner)
        /\ \A x : OpenIn(ot, x) <=> OpenIn(owner, x) /\ x # id
        /\ \A x : x # id => ot[x] = owner[x]
    BY <2>1, <2>3, OwnerRan
  <2>5. owner' = ot
    BY <2>2
  <2>. HIDE DEF ot
  <2>6. QED BY <2>4, <2>5
<1>4. /\ o.kind = "probe" => UNCHANGED <<reasonerVars, jobVars>>
      /\ o.kind # "probe" =>
           IF Fits(o)
           THEN maybe_finish_tool_round(
                  [cyc EXCEPT !.slots[o.index] = [@ EXCEPT !.done = TRUE, !.ok = ok]])
           ELSE UNCHANGED <<reasonerVars, jobVars>>
  BY DEF RunCallback
<1>5. o.kind \in {"slot", "probe"}
  <2>1. owner \in Seq(Owner) /\ DOMAIN owner = 1 .. Len(owner) /\ id \in DOMAIN owner
    BY <1>2, LenProperties DEF CoreInv, CallsOK, CallsInv, OpenIn
  <2>2. o \in Owner
    BY <2>1, ElementOfSeq
  <2>3. QED BY <2>2 DEF Owner
<1>6. Done' = rest
  BY <1>1 DEF Done
<1>. HIDE DEF rest, id, ok
<1>7. CallsOK'
  <2>. DEFINE E == {id}
  <2>1. /\ \A p \in Peer : \A x : Holds(conn[p], x) <=> Holds(conn[p], x) /\ x \notin E
        /\ \A x : InSeq(rest, x) <=> InSeq(Done, x) /\ x \notin E
        /\ \A x : OpenIn(owner', x) <=> OpenIn(owner, x) /\ x \notin E
    BY <1>2, <1>3
  <2>2. Laid(conn) /\ CallsInv(conn, Done, owner)
    BY DEF CoreInv, CallsOK, CallsInv, Laid
  <2>. HIDE DEF E, Done
  <2>3. CallsInv(conn, rest, owner')
    BY <1>2, <1>3, <2>1, <2>2, CallsEnd
  <2>4. QED BY <1>1, <1>6, <2>3 DEF CallsOK
<1>8. ServerInv'
  BY <1>1, <1>2 DEF CoreInv, ServerInv, Connected
<1>9. RoundOK(cyc.slots, cyc.batch, owner, cycle_token) /\ cyc.batch \subseteq DOMAIN cyc.slots
  BY DEF CoreInv, SlotsInv
<1>10. CASE o.kind = "probe"
  <2>1. UNCHANGED <<reasonerVars, jobVars>>
    BY <1>4, <1>10
  <2>2. RoundOK(cyc.slots, cyc.batch, owner', cycle_token)
    <3>1. owner[id].kind # "slot"
      BY <1>10
    <3>2. QED BY <1>2, <1>3, <1>9, <3>1, RoundAnswered
  <2>3. SlotsInv'
    BY <1>9, <2>1, <2>2 DEF SlotsInv, reasonerVars
  <2>4. LoopInv'
    BY <1>1, <2>1, LoopFrame DEF CoreInv, reasonerVars, jobVars, loaded
  <2>5. JobInv'
    BY <2>1, JobNextInv DEF CoreInv
  <2>6. QED BY <1>7, <1>8, <2>1, <2>3, <2>4, <2>5 DEF CoreInv, reasonerVars, CycleOn
<1>11. CASE o.kind = "slot"
  <2>. DEFINE k == o.index
              t == AnsweredSlot(cyc.slots, k, ok)
              c == WithSlots(cyc, t)
  <2>1. /\ o.token = cycle_token /\ k \in DOMAIN cyc.slots \ cyc.batch
        /\ ~cyc.slots[k].done
    BY <1>2, <1>9, <1>11 DEF RoundOK
  <2>2. cyc \in Cycle /\ cyc.slots \in Seq(Slots)
    BY DEF CoreInv, LoopInv, Cycle
  <2>3. cyc.stage = "ACTING_TOOLS" /\ loaded
    <3>1. cyc.slots # <<>>
      BY <2>1
    <3>2. cyc.stage = "ACTING_TOOLS"
      BY <3>1, NoSlots DEF CoreInv
    <3>3. QED BY <3>2 DEF CoreInv, LoopInv
  <2>4. Fits(o)
    <3>1. k <= Len(cyc.slots)
      BY <2>1, <2>2, LenProperties
    <3>2. QED BY <2>1, <2>3, <3>1 DEF Fits
  <2>5. maybe_finish_tool_round(c)
    <3>1. maybe_finish_tool_round([cyc EXCEPT !.slots[k] = [@ EXCEPT !.done = TRUE, !.ok = ok]])
      BY <1>4, <1>11, <2>4
    <3>2. [cyc EXCEPT !.slots[k] = [@ EXCEPT !.done = TRUE, !.ok = ok]] = c
      BY <2>2 DEF WithSlots, AnsweredSlot, Cycle
    <3>. HIDE DEF c
    <3>3. QED BY <3>1, <3>2
  <2>6. /\ t \in Seq(Slots) /\ DOMAIN t = DOMAIN cyc.slots /\ t[k].done
        /\ \A i \in DOMAIN cyc.slots : i # k => t[i] = cyc.slots[i]
    <3>. HIDE DEF k
    <3>1. QED BY <1>2, <2>1, <2>2, SlotAnswered
  <2>. HIDE DEF t
  <2>7. c \in Cycle /\ c.stage = "ACTING_TOOLS" /\ c.slots = t /\ c.batch = cyc.batch /\ c.act = cyc.act
    BY <2>2, <2>3, <2>6, WithSlotsTyped
  <2>. HIDE DEF c
  <2>8. RoundOK(t, cyc.batch, owner', cycle_token)
    <3>1. owner[id].kind = "slot" /\ k = owner[id].index
      BY <1>11
    <3>. HIDE DEF k
    <3>2. QED BY <1>2, <1>3, <1>9, <2>6, <3>1, RoundAnswered
  <2>9. Kept(c)
    <3>1. RoundOK(c.slots, c.batch, owner', cycle_token) /\ c.batch \subseteq DOMAIN c.slots
      BY <1>9, <2>6, <2>7, <2>8
    <3>2. c.batch = {} => ~Busy
      BY <1>1, <2>3, <2>7, FreeWorker DEF CoreInv
    <3>3. loaded' /\ pc' # "result" /\ answer' = NoResult
      BY <1>1, <2>3 DEF loaded
    <3>4. QED BY <1>1, <2>3, <2>5, <2>7, <3>1, <3>2, <3>3, RoundFinishes DEF CoreInv
  <2>10. QED BY <1>7, <1>8, <2>3, <2>7, <2>9 DEF CoreInv, Kept, Acting, CycleOn
<1>12. QED BY <1>5, <1>10, <1>11

\* A question about the user's presence, if one is due: it is no call of a cycle.
Asks(cs, os, due) ==
  IF due THEN Probe(cs, os) ELSE conn' = cs /\ owner' = os

\* Presence is asked for, or not: at most one call enters the server.
LEMMA ProbeKeeps ==
  ASSUME ServerInv, NEW cs, NEW os, CallsInv(cs, Done, os), Variant(cs),
         NEW slots, NEW batch, NEW token, RoundOK(slots, batch, os, token),
         NEW due, due => has_tool("check_presence"), Asks(cs, os, due),
         UNCHANGED <<connections, completions, to_run>>,
         pc' # pc => completions = <<>> /\ to_run = <<>>
  PROVE  CallsOK' /\ ServerInv' /\ RoundOK(slots, batch, owner', token)
<1>1. CASE ~due
  <2>1. conn' = cs /\ owner' = os
    BY <1>1 DEF Asks
  <2>. HIDE DEF Done
  <2>2. QED BY <2>1, CallsReplaced
<1>2. CASE due
  <2>. DEFINE o == [kind |-> "probe", token |-> 0, index |-> 0, state |-> "open"]
  <2>1. conn' = Placed(cs, "check_presence", Len(os) + 1) /\ owner' = Append(os, o)
    BY <1>2 DEF Asks, Probe
  <2>2. o \in Owner /\ o.state = "open" /\ o.kind # "slot"
    BY DEF Owner
  <2>. HIDE DEF o, Done
  <2>3. CallsInv(conn', Done, owner') /\ Variant(conn')
    BY <1>2, <2>1, <2>2, PlacedKeeps
  <2>4. os \in Seq(Owner)
    BY DEF CallsInv
  <2>5. RoundOK(slots, batch, owner', token)
    BY <2>1, <2>2, <2>4, RoundAndProbe
  <2>6. QED BY <2>3, <2>5, CallsReplaced
<1>3. QED BY <1>1, <1>2

\* The calls a cycle waits for.
LEMMA UnderwayCalls ==
  ASSUME CoreInv
  PROVE  /\ Underway \in Seq(CallId)
         /\ \A x : InSeq(Underway, x) <=> OpenIn(owner, x) /\ owner[x].kind = "slot"
<1>. DEFINE ids == [i \in DOMAIN cyc.slots |-> IF cyc.slots[i].done THEN 0 ELSE cyc.slots[i].id]
            S == ToSet(ids) \ {0}
            n == Len(cyc.slots)
            u == Only(ids, S)
<1>1. cyc.slots \in Seq(Slots)
  BY DEF CoreInv, LoopInv, Cycle
<1>2. n \in Nat /\ DOMAIN cyc.slots = 1 .. n /\ \A i \in 1 .. n : cyc.slots[i] \in Slots
  BY <1>1, LenProperties, ElementOfSeq
<1>3. DOMAIN ids = 1 .. n /\ ids = [i \in 1 .. n |-> ids[i]]
      /\ \A i \in 1 .. n : ids[i] = IF cyc.slots[i].done THEN 0 ELSE cyc.slots[i].id
  <2>. HIDE DEF n
  <2>1. QED BY <1>2
<1>4. Underway = u
  BY DEF Underway
<1>. HIDE DEF n, ids
<1>5. \A i \in 1 .. n : ids[i] \in Nat
  BY <1>2, <1>3 DEF Slots
<1>6. ids \in Seq(Nat)
  BY <1>2, <1>3, <1>5, ListSeq
<1>7. \A x : InSeq(ids, x) => (x \in S <=> x # 0)
  BY DEF InSeq, ToSet
<1>. HIDE DEF S
<1>8. u \in Seq(Nat) /\ \A x : InSeq(u, x) <=> InSeq(ids, x) /\ x \in S
  BY <1>6, InOnly
<1>. HIDE DEF u
<1>9. \A x : InSeq(u, x) <=> InSeq(ids, x) /\ x # 0
  BY <1>7, <1>8
<1>10. u \in Seq(CallId)
  <2>. DEFINE m == Len(u)
  <2>1. m \in Nat /\ DOMAIN u = 1 .. m
    BY <1>8, LenProperties
  <2>2. \A i \in 1 .. m : u[i] \in CallId
    <3>1. \A i \in 1 .. m : u[i] \in Nat /\ InSeq(u, u[i])
      BY <1>8, <2>1, ElementOfSeq DEF InSeq
    <3>2. QED BY <1>9, <3>1 DEF CallId
  <2>3. u = [i \in 1 .. m |-> u[i]]
    <3>1. \A A : \A v \in Seq(A) : v = [i \in 1 .. Len(v) |-> v[i]]
      OBVIOUS
    <3>2. QED BY <1>8, <3>1
  <2>. HIDE DEF m
  <2>4. QED BY <2>1, <2>2, <2>3, ListSeq
<1>11. RoundOK(cyc.slots, cyc.batch, owner, cycle_token) /\ owner \in Seq(Owner)
  BY DEF CoreInv, SlotsInv, CallsOK, CallsInv
<1>12. ASSUME NEW x, InSeq(ids, x), x # 0  PROVE OpenIn(owner, x) /\ owner[x].kind = "slot"
  <2>1. PICK i \in 1 .. n : ids[i] = x
    BY <1>3, <1>12 DEF InSeq
  <2>2. ~cyc.slots[i].done /\ cyc.slots[i].id = x
    BY <1>3, <1>12, <2>1
  <2>3. OpenIn(owner, x) /\ owner[x] = SlotOwner(cycle_token, i)
    BY <1>2, <1>11, <1>12, <2>2 DEF RoundOK
  <2>4. QED BY <2>3 DEF SlotOwner
<1>13. ASSUME NEW x, OpenIn(owner, x), owner[x].kind = "slot"  PROVE InSeq(ids, x) /\ x # 0
  <2>. DEFINE i == owner[x].index
  <2>1. i \in DOMAIN cyc.slots /\ ~cyc.slots[i].done /\ cyc.slots[i].id = x
    BY <1>11, <1>13 DEF RoundOK
  <2>. HIDE DEF i
  <2>2. ids[i] = x /\ i \in DOMAIN ids
    BY <1>2, <1>3, <2>1
  <2>3. x # 0
    BY <1>11, <1>13, LenProperties DEF OpenIn
  <2>4. QED BY <2>2, <2>3 DEF InSeq
<1>14. QED BY <1>4, <1>9, <1>10, <1>12, <1>13

\* The owners of abandoned calls.
LEMMA OwnersForget ==
  ASSUME NEW os \in Seq(Owner), NEW ids \in Seq(CallId)
  PROVE  LET ot == Forgotten(os, ids)
         IN  /\ ot \in Seq(Owner)
             /\ \A x : OpenIn(ot, x) <=> OpenIn(os, x) /\ ~InSeq(ids, x)
             /\ \A x : OpenIn(ot, x) => ot[x] = os[x]
<1>. DEFINE ot == Forgotten(os, ids)
            n == Len(os)
<1>1. n \in Nat /\ DOMAIN os = 1 .. n /\ \A x \in 1 .. n : os[x] \in Owner
  BY LenProperties, ElementOfSeq
<1>2. \A x : x \in ToSet(ids) <=> InSeq(ids, x)
  BY DEF ToSet, InSeq
<1>3. /\ ot = [x \in 1 .. n |-> ot[x]]
      /\ \A x \in 1 .. n : ot[x] = IF InSeq(ids, x) THEN [os[x] EXCEPT !.state = "abandoned"] ELSE os[x]
  <2>. HIDE DEF n
  <2>1. QED BY <1>1, <1>2 DEF Forgotten
<1>. HIDE DEF ot, n
<1>4. \A o \in Owner : [o EXCEPT !.state = "abandoned"] \in Owner /\ [o EXCEPT !.state = "abandoned"].state = "abandoned"
  BY DEF Owner
<1>5. \A x \in 1 .. n : ot[x] \in Owner
  BY <1>1, <1>3, <1>4
<1>6. ot \in Seq(Owner) /\ DOMAIN ot = 1 .. n
  BY <1>1, <1>3, <1>5, ListSeq
<1>7. \A x : OpenIn(ot, x) <=> OpenIn(os, x) /\ ~InSeq(ids, x)
  BY <1>1, <1>3, <1>4, <1>6 DEF OpenIn
<1>8. \A x : OpenIn(ot, x) => ot[x] = os[x]
  BY <1>3, <1>6, <1>7 DEF OpenIn
<1>9. QED BY <1>6, <1>7, <1>8 DEF ot

\* Abandoning the cycle's calls leaves none of them open.
LEMMA CallsAbandoned ==
  ASSUME CoreInv, pc = "link"
  PROVE  LET cs == Abandoned(conn, Underway)
             os == Forgotten(owner, Underway)
         IN  CallsInv(cs, Done, os) /\ Variant(cs) /\ NoSlotOpen(os)
<1>. DEFINE u == Underway
            cs == Abandoned(conn, u)
            os == Forgotten(owner, u)
<1>1. u \in Seq(CallId) /\ \A x : InSeq(u, x) <=> OpenIn(owner, x) /\ owner[x].kind = "slot"
  BY UnderwayCalls
<1>2. /\ CallsInv(conn, Done, owner) /\ owner \in Seq(Owner) /\ \A p \in Peer : Orderly(conn[p])
      /\ Variant(conn)
  BY VariantNow DEF CoreInv, CallsOK, CallsInv
<1>. HIDE DEF u
<1>3. \A p \in Peer : /\ Same(AbandonedAll(conn[p], u), conn[p])
                      /\ \A x : Holds(AbandonedAll(conn[p], u), x) <=> Holds(conn[p], x) /\ ~InSeq(u, x)
  BY <1>1, <1>2, AbandonAllKeeps
<1>4. cs = [p \in Peer |-> cs[p]] /\ \A p \in Peer : cs[p] = AbandonedAll(conn[p], u)
  BY DEF Abandoned
<1>. HIDE DEF cs
<1>5. Laid(cs) /\ \A p \in Peer : \A x : Holds(cs[p], x) <=> Holds(conn[p], x) /\ ~InSeq(u, x)
  BY <1>3, <1>4 DEF Laid, Same
<1>6. /\ os \in Seq(Owner) /\ \A x : OpenIn(os, x) <=> OpenIn(owner, x) /\ ~InSeq(u, x)
      /\ \A x : OpenIn(os, x) => os[x] = owner[x]
  BY <1>1, <1>2, OwnersForget
<1>. HIDE DEF os
<1>7. Done = <<>> /\ \A x : ~InSeq(Done, x)
  BY NoElement DEF CoreInv, ServerInv, Done, Ids
<1>. DEFINE E == {x \in CallId : InSeq(u, x)}
<1>8. \A x : x \in E <=> InSeq(u, x)
  BY <1>1, InSeqType
<1>9. Listed(Done)
  BY <1>2 DEF CallsInv, Listed
<1>. HIDE DEF E, Done
<1>10. CallsInv(cs, Done, os)
  <2>1. /\ \A p \in Peer : \A x : Holds(cs[p], x) <=> Holds(conn[p], x) /\ x \notin E
        /\ \A x : InSeq(Done, x) <=> InSeq(Done, x) /\ x \notin E
        /\ \A x : OpenIn(os, x) <=> OpenIn(owner, x) /\ x \notin E
    BY <1>5, <1>6, <1>7, <1>8
  <2>2. QED BY <1>2, <1>5, <1>6, <1>9, <2>1, CallsEnd
<1>11. Variant(cs)
  BY <1>2, <1>3, <1>4, <1>5 DEF Variant, Same
<1>12. NoSlotOpen(os)
  BY <1>1, <1>6 DEF NoSlotOpen
<1>13. QED BY <1>10, <1>11, <1>12 DEF cs, os, u

\* A profile is loaded: the cycle and its calls are abandoned, and presence may be asked for.
LEMMA LearnKeeps ==
  ASSUME CoreInv, NEW p \in Profile, LearnProfile(p)
  PROVE  CoreInv' /\ cyc' = NoCycle
<1>. DEFINE cs == Abandoned(conn, Underway)
            os == Forgotten(owner, Underway)
            due == Probes(presence', probing)
<1>1. /\ pc = "link" /\ pc' = "link" /\ answer' = answer /\ UNCHANGED <<connections, completions, to_run>>
      /\ Asks(cs, os, due) /\ abandon_cycle
  BY DEF LearnProfile, Asks
<1>2. answer = NoResult
  BY <1>1 DEF CoreInv, LoopInv
<1>3. /\ cyc' = NoCycle /\ expected_job_id' = 0 /\ cycle_token' \in {cycle_token, cycle_token + 1}
      /\ AbortCurrent \/ UNCHANGED jobVars
  BY <1>1 DEF abandon_cycle
<1>4. JobInv'
  BY <1>3, JobNextInv DEF CoreInv, JobNext
<1>5. LoopInv'
  <2>1. Ended
    BY <1>3 DEF Ended, AbortCurrent, jobVars
  <2>2. QED BY <1>1, <1>2, <2>1, EndedKeeps DEF CoreInv
<1>6. due => has_tool("check_presence")
  BY DEF Probes
<1>7. CallsInv(cs, Done, os) /\ Variant(cs) /\ NoSlotOpen(os)
  BY <1>1, CallsAbandoned
<1>8. RoundOK(<<>>, {}, os, cycle_token')
  BY <1>7, NoRound
<1>. HIDE DEF cs, os, due, Done
<1>9. CallsOK' /\ ServerInv' /\ RoundOK(<<>>, {}, owner', cycle_token')
  BY <1>1, <1>6, <1>7, <1>8, ProbeKeeps DEF CoreInv
<1>10. SlotsInv'
  BY <1>3, <1>9, NoCycleIdle DEF SlotsInv
<1>11. QED BY <1>3, <1>4, <1>5, <1>9, <1>10 DEF CoreInv

\* A notice is taken, and presence may be asked for.
LEMMA NoticeKeeps ==
  ASSUME CoreInv, TakeNotice
  PROVE  CoreInv' /\ cyc' = cyc
<1>. DEFINE due == Head(notices) = "registered" /\ Probes(presence, probing)
<1>1. /\ pc' = pc /\ UNCHANGED <<reasonerVars, jobVars, answer, profile, connections, completions, to_run>>
  BY DEF TakeNotice
<1>2. Asks(conn, owner, due) /\ (due => has_tool("check_presence"))
  BY DEF TakeNotice, Asks, Probes
<1>. HIDE DEF due
<1>3. CallsInv(conn, Done, owner) /\ Variant(conn) /\ RoundOK(cyc.slots, cyc.batch, owner, cycle_token)
  BY VariantNow DEF CoreInv, CallsOK, SlotsInv
<1>. HIDE DEF Done
<1>4. CallsOK' /\ ServerInv' /\ RoundOK(cyc.slots, cyc.batch, owner', cycle_token)
  BY <1>1, <1>2, <1>3, ProbeKeeps DEF CoreInv
<1>5. SlotsInv'
  BY <1>1, <1>4 DEF CoreInv, SlotsInv, reasonerVars
<1>6. LoopInv'
  BY <1>1, LoopFrame DEF CoreInv, reasonerVars, jobVars, loaded
<1>7. JobInv'
  BY <1>1, JobNextInv DEF CoreInv
<1>8. QED BY <1>1, <1>4, <1>5, <1>6, <1>7 DEF CoreInv, reasonerVars

\* A cycle starts, or the next look is scheduled.
LEMMA StartKeeps ==
  ASSUME CoreInv, start_cycle
  PROVE  CoreInv' /\ (cyc' = NoCycle \/ cyc'.stage = "PRIORITIZING")
<1>. DEFINE due == Probes(presence, probing)
<1>1. /\ pc = "jobs" /\ pc' \in {"stop", "link"} /\ loaded /\ cyc.stage = "IDLE"
      /\ UNCHANGED <<answer, profile, connections, completions, to_run>>
      /\ AskModel(NoCycle, "PRIORITIZING") \/ StayIdle
  BY DEF start_cycle, NextPass
<1>2. Asks(conn, owner, due) /\ (due => has_tool("check_presence"))
  BY DEF start_cycle, Asks, Probes
<1>. HIDE DEF due
<1>3. CallsInv(conn, Done, owner) /\ Variant(conn) /\ NoSlotOpen(owner)
  BY <1>1, VariantNow, NoSlots DEF CoreInv, CallsOK
<1>4. RoundOK(<<>>, {}, owner, cycle_token) /\ completions = <<>> /\ to_run = <<>>
  BY <1>1, <1>3, NoRound DEF CoreInv, ServerInv
<1>. HIDE DEF Done
<1>5. CallsOK' /\ ServerInv' /\ RoundOK(<<>>, {}, owner', cycle_token)
  BY <1>1, <1>2, <1>3, <1>4, ProbeKeeps DEF CoreInv
<1>6. NoSlotOpen(owner')
  <2>1. \A i \in DOMAIN <<>> : FALSE
    OBVIOUS
  <2>2. QED BY <1>5, <2>1, RoundOver
<1>7. Asked(NoCycle) \/ StayIdle
  <2>1. "PRIORITIZING" \in Asking
    BY DEF Asking
  <2>2. QED BY <1>1, <2>1, AsksModel, NoCycleIdle
<1>8. answer' = NoResult /\ loaded'
  BY <1>1 DEF CoreInv, LoopInv, loaded
<1>9. Kept(NoCycle)
  <2>1. pc' # "result"
    BY <1>1
  <2>2. QED BY <1>6, <1>7, <1>8, <2>1, AskedOrIdle DEF CoreInv
<1>10. cyc' = NoCycle \/ cyc'.stage = "PRIORITIZING"
  BY <1>1 DEF AskModel, StayIdle, NoCycle
<1>11. QED BY <1>5, <1>9, <1>10 DEF CoreInv, Kept

-----------------------------------------------------------------------------
(* Every step keeps the core of the invariant.                              *)

\* A process that was just started.
Started ==
  /\ JobInit /\ ServerInit /\ pc = "link"
  /\ cyc = NoCycle /\ cycle_token = 0 /\ expected_job_id = 0
  /\ owner = <<>> /\ answer = NoResult

\* A started process satisfies the core.
LEMMA StartedCore == Started => CoreInv
<1>. SUFFICES ASSUME Started PROVE CoreInv
  OBVIOUS
<1>1. JobInv
  BY JobInitInv DEF Started
<1>2. pending = 0 /\ running = 0 /\ finished = NoResult
  BY DEF Started, JobInit
<1>3. LoopInv
  BY <1>2, NoCycleIdle, NoResultTyped DEF Started, LoopInv, Asking, InPipeline, NoResult, Busy
<1>4. \A x : ~OpenIn(owner, x)
  BY DEF Started, OpenIn
<1>5. SlotsInv
  <2>1. NoSlotOpen(owner)
    BY <1>4 DEF NoSlotOpen
  <2>2. QED BY <2>1, NoRound, NoCycleIdle DEF Started, SlotsInv
<1>6. conn = [p \in Peer |-> NoConn] /\ connections = <<>> /\ completions = <<>> /\ to_run = <<>>
  BY DEF Started, ServerInit
<1>7. \A p \in Peer : Orderly(conn[p]) /\ \A x : ~Holds(conn[p], x)
  BY <1>6, NewConn
<1>8. Done = <<>>
  BY <1>6 DEF Started, Done, Ids
<1>9. CallsOK
  <2>1. <<>> \in Seq(CallId) /\ Distinct(<<>>) /\ (\A x : ~InSeq(<<>>, x)) /\ <<>> \in Seq(Owner)
    BY NoElement, EmptySeq
  <2>2. conn = [p \in Peer |-> conn[p]] /\ owner = <<>>
    BY <1>6 DEF Started
  <2>. HIDE DEF Done
  <2>3. QED BY <1>4, <1>7, <1>8, <2>1, <2>2 DEF CallsOK, CallsInv
<1>10. ServerInv
  <2>1. <<>> \in Seq(Peer) /\ Distinct(<<>>) /\ <<>> \in Seq(Completed)
    BY NoElement, EmptySeq
  <2>2. QED BY <1>6, <1>7, <2>1 DEF ServerInv
<1>11. QED BY <1>1, <1>3, <1>5, <1>9, <1>10 DEF CoreInv

\* Steps of the phases that only pass on.
LEMMA FrameKeeps ==
  ASSUME CoreInv, UNCHANGED <<jobVars, serverVars, reasonerVars, owner, answer, profile>>,
         pc' = pc \/ (pc \notin {"result", "service"} /\ pc' # "result" /\ to_run = <<>>)
  PROVE  CoreInv' /\ cyc' = cyc
<1>1. pc' # pc => completions = <<>> /\ to_run = <<>>
  BY DEF CoreInv, ServerInv
<1>2. CallsOK' /\ ServerInv'
  BY <1>1, CallsFrame DEF CoreInv, serverVars
<1>3. LoopInv'
  BY LoopFrame DEF CoreInv, reasonerVars, jobVars, loaded
<1>4. SlotsInv'
  BY DEF CoreInv, SlotsInv, reasonerVars
<1>5. JobInv'
  BY JobNextInv DEF CoreInv
<1>6. QED BY <1>2, <1>3, <1>4, <1>5 DEF CoreInv, reasonerVars

\* The sweep: calls time out, connections are retired, and what they held completes.
LEMMA SweepKeeps ==
  ASSUME CoreInv, ServiceSweep
  PROVE  CoreInv' /\ cyc' = cyc
<1>1. /\ pc = "service" /\ pc' = "callbacks"
      /\ UNCHANGED <<jobVars, reasonerVars, owner, answer, profile>>
      /\ \E silent \in SUBSET ToSet(connections) : Sweep(silent)
  BY DEF ServiceSweep, Reading
<1>2. PICK silent : Sweep(silent)
  BY <1>1
<1>3. CallsInv(conn, Ids(completions), owner) /\ ServerInv /\ to_run = <<>>
  BY <1>1 DEF CoreInv, CallsOK, Done, ServerInv
<1>4. /\ CallsInv(conn', Ids(to_run'), owner)
      /\ connections' \in Seq(Peer) /\ Distinct(connections')
      /\ \A p \in Peer : ~Connected(p)' => \A x : ~Holds(conn'[p], x)
      /\ completions' = <<>> /\ to_run' \in Seq(Completed)
  BY <1>2, <1>3, SweepCalls
<1>5. CallsOK'
  BY <1>1, <1>4 DEF CallsOK, Done
<1>6. ServerInv'
  <2>1. completions' \in Seq(Completed)
    BY <1>4, EmptySeq
  <2>2. QED BY <1>1, <1>4, <2>1 DEF ServerInv
<1>7. LoopInv'
  BY <1>1, LoopFrame DEF CoreInv, reasonerVars, jobVars, loaded
<1>8. SlotsInv'
  BY <1>1 DEF CoreInv, SlotsInv, reasonerVars
<1>9. JobInv'
  BY <1>1, JobNextInv DEF CoreInv
<1>10. QED BY <1>1, <1>5, <1>6, <1>7, <1>8, <1>9 DEF CoreInv, reasonerVars

\* A line or an event from a tool, and a call that goes late.
LEMMA ReadKeeps ==
  ASSUME CoreInv, NEW p \in Peer,
         ReadQuiet(p) \/ ReadRegistration(p) \/ ReadPresence(p) \/ CallOverdue(p)
  PROVE  CoreInv' /\ cyc' = cyc
<1>1. pc' = pc /\ UNCHANGED <<jobVars, reasonerVars, owner, answer, profile>>
  BY DEF ReadQuiet, ReadRegistration, ReadPresence, CallOverdue, Reading, loopVars
<1>2. LoopInv' /\ SlotsInv'
  BY <1>1, LoopFrame DEF CoreInv, SlotsInv, reasonerVars, jobVars, loaded
<1>3. JobInv'
  BY <1>1, JobNextInv DEF CoreInv
<1>4. CallsOK' /\ ServerInv'
  <2>1. CASE ReadPresence(p)
    BY <1>1, <2>1, CallsFrame DEF ReadPresence, serverVars, CoreInv
  <2>2. CASE ReadRegistration(p) \/ CallOverdue(p)
    BY <1>1, <2>2, MarkKeeps DEF ReadRegistration, CallOverdue, CoreInv
  <2>3. CASE ReadQuiet(p)
    <3>1. CASE Accept(p)
      BY <1>1, <3>1, AcceptKeeps DEF CoreInv
    <3>2. CASE ReadNonsense(p) \/ ReadClosed(p)
      BY <1>1, <3>2, MarkKeeps DEF CoreInv
    <3>3. CASE \E ok \in BOOLEAN : ReadResult(p, ok)
      <4>1. PICK ok \in BOOLEAN : ReadResult(p, ok)
        BY <3>3
      <4>2. pc = "service"
        BY <2>3 DEF ReadQuiet, Reading
      <4>3. QED BY <1>1, <4>1, <4>2, ResultKeeps DEF CoreInv
    <3>4. QED BY <2>3, <3>1, <3>2, <3>3 DEF ReadQuiet
  <2>4. QED BY <2>1, <2>2, <2>3
<1>5. QED BY <1>1, <1>2, <1>3, <1>4 DEF CoreInv, reasonerVars

\* The worker's thread, the stop of it, and the result that is taken.
LEMMA WorkerStepKeeps ==
  ASSUME CoreInv, Worker \/ Shutdown \/ TakeJobResult
  PROVE  CoreInv' /\ cyc' = cyc
<1>1. UNCHANGED <<serverVars, reasonerVars, owner, profile>>
  BY DEF Worker, Shutdown, TakeJobResult, loopVars
<1>2. CallsOK' /\ ServerInv'
  <2>1. pc' # pc => completions = <<>> /\ to_run = <<>>
    BY DEF Worker, Shutdown, TakeJobResult, CoreInv, ServerInv
  <2>2. QED BY <1>1, <2>1, CallsFrame DEF CoreInv, serverVars
<1>3. SlotsInv'
  BY <1>1 DEF CoreInv, SlotsInv, reasonerVars
<1>4. CASE Worker
  <2>1. WorkerThread /\ UNCHANGED <<reasonerVars, profile, answer, pc>>
    BY <1>4 DEF Worker, loopVars
  <2>2. LoopInv'
    BY <2>1, WorkerKeeps DEF CoreInv
  <2>3. JobInv'
    BY <2>1, JobNextInv DEF CoreInv, JobNext
  <2>4. QED BY <1>1, <1>2, <1>3, <2>2, <2>3 DEF CoreInv, reasonerVars
<1>5. CASE Shutdown
  <2>1. RequestStop /\ UNCHANGED <<reasonerVars, profile, answer>> /\ pc = "stop" /\ pc' = "join"
    BY <1>5 DEF Shutdown, loopVars
  <2>2. LoopInv'
    BY <2>1, LoopFrame DEF CoreInv, reasonerVars, RequestStop, loaded
  <2>3. JobInv'
    BY <2>1, JobNextInv DEF CoreInv, JobNext
  <2>4. QED BY <1>1, <1>2, <1>3, <2>2, <2>3 DEF CoreInv, reasonerVars
<1>6. CASE TakeJobResult
  <2>1. LoopInv'
    BY <1>6, TakenKeeps DEF CoreInv
  <2>2. JobInv'
    BY <1>6, TakeResultInv DEF CoreInv, TakeJobResult
  <2>3. QED BY <1>1, <1>2, <1>3, <2>1, <2>2 DEF CoreInv, reasonerVars
<1>7. QED BY <1>4, <1>5, <1>6

\* The steps that touch neither the worker, the server nor the cycle.
Apart ==
  \/ SendDigest \/ LinkDone \/ ServiceDone \/ TickIdle \/ Joined
  \/ pull_notes \/ count_notes \/ (\E p \in Profile : RefuseProfile(p))
  \/ Signal \/ TimeGoesBy

\* They keep the core because they leave it alone.
LEMMA ApartKeeps ==
  ASSUME CoreInv, Apart
  PROVE  CoreInv' /\ cyc' = cyc /\ UNCHANGED <<jobVars, serverVars, reasonerVars, owner, answer, profile>>
<1>1. UNCHANGED <<jobVars, serverVars, reasonerVars, owner, answer, profile>>
  BY DEF Apart, SendDigest, LinkDone, ServiceDone, TickIdle, Joined, pull_notes, count_notes,
         RefuseProfile, Signal, TimeGoesBy, loopVars
<1>2. pc' = pc \/ (pc \notin {"result", "service", "callbacks"} /\ pc' # "result")
               \/ (pc = "callbacks" /\ pc' = "jobs" /\ to_run = <<>>)
  BY DEF Apart, SendDigest, LinkDone, ServiceDone, TickIdle, Joined, pull_notes, count_notes,
         RefuseProfile, Signal, TimeGoesBy, NextPass
<1>3. pc' = pc \/ (pc \notin {"result", "service"} /\ pc' # "result" /\ to_run = <<>>)
  BY <1>2 DEF CoreInv, ServerInv
<1>4. QED BY <1>1, <1>3, FrameKeeps

\* After a kill everything starts anew.
LEMMA CrashKeeps ==
  ASSUME Crash
  PROVE  CoreInv' /\ cyc' = NoCycle
<1>1. Started'
  BY DEF Crash, Started, JobRestart, ServerRestart, JobInit, ServerInit
<1>2. Started' => CoreInv'
  BY StartedCore, PTL
<1>3. QED BY <1>1, <1>2 DEF Crash

\* The next step, as its lemmas take it apart.
LEMMA NextParts ==
  ASSUME Next
  PROVE  \/ Apart \/ Worker \/ Shutdown \/ TakeJobResult \/ Crash
         \/ ServiceSweep \/ RunCallback \/ TakeNotice \/ on_job_result \/ start_cycle
         \/ \E p \in Profile : LearnProfile(p)
         \/ \E p \in Peer : ReadQuiet(p) \/ ReadRegistration(p) \/ ReadPresence(p) \/ CallOverdue(p)
BY DEF Next, MainLoop, Olli, Tools, Apart

\* The core is kept by every step.
LEMMA CoreNext ==
  ASSUME CoreInv, IsFiniteSet(acts), [Next]_vars
  PROVE  CoreInv'
<1>1. CASE UNCHANGED vars
  BY <1>1, FrameKeeps DEF vars, loopVars
<1>2. CASE Next
  <2>1. CASE Apart
    BY <2>1, ApartKeeps
  <2>2. CASE Worker \/ Shutdown \/ TakeJobResult
    BY <2>2, WorkerStepKeeps
  <2>3. CASE Crash
    BY <2>3, CrashKeeps
  <2>4. CASE ServiceSweep
    BY <2>4, SweepKeeps
  <2>5. CASE RunCallback
    BY <2>5, CallbackKeeps
  <2>6. CASE TakeNotice
    BY <2>6, NoticeKeeps
  <2>7. CASE on_job_result
    BY <2>7, ResultHandled
  <2>8. CASE start_cycle
    BY <2>8, StartKeeps
  <2>9. CASE \E p \in Profile : LearnProfile(p)
    BY <2>9, LearnKeeps
  <2>10. CASE \E p \in Peer : ReadQuiet(p) \/ ReadRegistration(p) \/ ReadPresence(p) \/ CallOverdue(p)
    BY <2>10, ReadKeeps
  <2>11. QED BY <1>2, <2>1, <2>2, <2>3, <2>4, <2>5, <2>6, <2>7, <2>8, <2>9, <2>10, NextParts
<1>3. QED BY <1>1, <1>2

-----------------------------------------------------------------------------
(* What the core of the invariant says of calls, callbacks and waiting.     *)

\* A place whose list has a number once or not at all.
LEMMA SpotsOnce ==
  ASSUME NEW place, NEW ids, Distinct(ids), NEW id
  PROVE  /\ InSeq(ids, id) => \E z : Spots(place, ids, id) = {z}
         /\ ~InSeq(ids, id) => Spots(place, ids, id) = {}
<1>1. ASSUME NEW k \in DOMAIN ids, ids[k] = id PROVE Spots(place, ids, id) = {<<place, k>>}
  <2>1. {i \in DOMAIN ids : ids[i] = id} = {k}
    BY <1>1 DEF Distinct
  <2>2. QED BY <2>1 DEF Spots
<1>2. ASSUME ~InSeq(ids, id) PROVE Spots(place, ids, id) = {}
  BY <1>2 DEF Spots, InSeq
<1>3. QED BY <1>1, <1>2 DEF InSeq

\* The completed calls are in the one of the two lists that is in use.
LEMMA SpotsDone ==
  ASSUME CallsOK, ServerInv, NEW id
  PROVE  LET there == Spots("completions", Ids(completions), id) \cup Spots("to_run", Ids(to_run), id)
         IN  /\ InSeq(Done, id) => \E z : there = {z}
             /\ ~InSeq(Done, id) => there = {}
<1>1. Distinct(Done)
  BY DEF CallsOK, CallsInv
<1>2. \A place : Spots(place, Ids(<<>>), id) = {}
  BY DEF Spots, Ids
<1>. DEFINE a == Spots("completions", Ids(completions), id)
            b == Spots("to_run", Ids(to_run), id)
<1>3. (a = {} /\ Done = Ids(to_run)) \/ (b = {} /\ Done = Ids(completions))
  BY <1>2 DEF ServerInv, Done
<1>4. /\ Done = Ids(to_run) => (InSeq(Done, id) => \E z : b = {z}) /\ (~InSeq(Done, id) => b = {})
      /\ Done = Ids(completions) => (InSeq(Done, id) => \E z : a = {z}) /\ (~InSeq(Done, id) => a = {})
  <2>1. ASSUME Done = Ids(to_run)
        PROVE  (InSeq(Ids(to_run), id) => \E z : b = {z}) /\ (~InSeq(Ids(to_run), id) => b = {})
    <3>1. Distinct(Ids(to_run))
      BY <1>1, <2>1
    <3>2. QED BY <3>1, SpotsOnce
  <2>2. ASSUME Done = Ids(completions)
        PROVE  (InSeq(Ids(completions), id) => \E z : a = {z}) /\ (~InSeq(Ids(completions), id) => a = {})
    <3>1. Distinct(Ids(completions))
      BY <1>1, <2>2
    <3>2. QED BY <3>1, SpotsOnce
  <2>. HIDE DEF a, b, Done
  <2>3. QED BY <2>1, <2>2
<1>. HIDE DEF a, b
<1>5. /\ InSeq(Done, id) => \E z : a \cup b = {z}
      /\ ~InSeq(Done, id) => a \cup b = {}
  BY <1>3, <1>4
<1>6. QED BY <1>5 DEF a, b

\* A call that is open is in one place, and one that is not is nowhere.
LEMMA CoreCallsOnce ==
  ASSUME CoreInv
  PROVE  CallsOnce
<1>. SUFFICES ASSUME NEW id \in DOMAIN owner
              PROVE  /\ owner[id].state # "again"
                     /\ Cardinality(Places(id)) = IF owner[id].state = "open" THEN 1 ELSE 0
  BY DEF CallsOnce
<1>. DEFINE completed == Spots("completions", Ids(completions), id) \cup Spots("to_run", Ids(to_run), id)
            on(p)     == Spots(p, LostWith(conn[p]), id)
<1>1. CallsOK /\ ServerInv
  BY DEF CoreInv
<1>2. owner[id].state # "again"
  <2>1. owner[id] \in Owner
    BY <1>1, ElementOfSeq, LenProperties DEF CallsOK, CallsInv
  <2>2. QED BY <2>1 DEF Owner
<1>3. (InSeq(Done, id) => \E z : completed = {z}) /\ (~InSeq(Done, id) => completed = {})
  BY <1>1, SpotsDone
<1>4. \A p \in Peer : /\ Holds(conn[p], id) => \E z : on(p) = {z}
                      /\ ~Holds(conn[p], id) => on(p) = {}
  <2>1. TAKE p \in Peer
  <2>2. Orderly(conn[p])
    BY <1>1 DEF CallsOK, CallsInv
  <2>3. Distinct(LostWith(conn[p])) /\ (InSeq(LostWith(conn[p]), id) <=> Holds(conn[p], id))
    BY <2>2, LostKeeps
  <2>4. QED BY <2>3, SpotsOnce
<1>5. Places(id) = completed \cup UNION {on(p) : p \in Peer}
  BY DEF Places
<1>. HIDE DEF completed, on
<1>6. CASE owner[id].state = "open"
  <2>1. InSeq(Done, id) \/ \E p \in Peer : Holds(conn[p], id)
    BY <1>1, <1>6 DEF CallsOK, CallsInv, OpenIn
  <2>2. CASE InSeq(Done, id)
    <3>1. \A p \in Peer : on(p) = {}
      BY <1>1, <1>4, <2>2 DEF CallsOK, CallsInv
    <3>2. \E z : Places(id) = {z}
      BY <1>3, <1>5, <2>2, <3>1
    <3>3. QED BY <1>2, <1>6, <3>2, FS_Singleton
  <2>3. ASSUME NEW p \in Peer, Holds(conn[p], id) PROVE Cardinality(Places(id)) = 1
    <3>1. completed = {} /\ \A q \in Peer : q # p => on(q) = {}
      BY <1>1, <1>3, <1>4, <2>3 DEF CallsOK, CallsInv
    <3>2. UNION {on(q) : q \in Peer} = on(p)
      BY <3>1
    <3>3. \E z : Places(id) = {z}
      BY <1>4, <1>5, <2>3, <3>1, <3>2
    <3>4. QED BY <3>3, FS_Singleton
  <2>4. QED BY <1>2, <1>6, <2>1, <2>2, <2>3
<1>7. CASE owner[id].state # "open"
  <2>1. ~InSeq(Done, id) /\ \A p \in Peer : ~Holds(conn[p], id)
    BY <1>1, <1>7 DEF CallsOK, CallsInv, OpenIn
  <2>2. Places(id) = {}
    BY <1>3, <1>4, <1>5, <2>1
  <2>3. QED BY <1>2, <1>7, <2>2, FS_EmptySet
<1>8. QED BY <1>6, <1>7

\* A completed call is open, so its slot is in the round and has no answer.
LEMMA CoreCallbackFits ==
  ASSUME CoreInv
  PROVE  CallbackFits
<1>. SUFFICES ASSUME NEW i \in DOMAIN to_run, owner[to_run[i].id].kind = "slot"
              PROVE  Fits(owner[to_run[i].id]) /\ ~cyc.slots[owner[to_run[i].id].index].done
  BY DEF CallbackFits
<1>. DEFINE x == to_run[i].id
            o == owner[x]
<1>1. pc = "callbacks" /\ to_run \in Seq(Completed)
  <2>1. DOMAIN <<>> = {}
    OBVIOUS
  <2>2. QED BY <2>1 DEF CoreInv, ServerInv
<1>2. InSeq(Done, x)
  BY <1>1, IdsKeep DEF Done, InSeq
<1>3. OpenIn(owner, x)
  BY <1>2 DEF CoreInv, CallsOK, CallsInv
<1>. HIDE DEF x
<1>4. /\ o.token = cycle_token /\ o.index \in DOMAIN cyc.slots \ cyc.batch
      /\ ~cyc.slots[o.index].done
  BY <1>3 DEF CoreInv, SlotsInv, RoundOK, x
<1>5. cyc.slots \in Seq(Slots) /\ cyc.slots # <<>>
  <2>1. DOMAIN <<>> = {}
    OBVIOUS
  <2>2. QED BY <1>4, <2>1 DEF CoreInv, LoopInv, Cycle
<1>6. cyc.stage = "ACTING_TOOLS"
  BY <1>5, NoCycleIdle DEF CoreInv, LoopInv, Cycle, Asking
<1>7. o.index <= Len(cyc.slots)
  BY <1>4, <1>5, LenProperties
<1>8. QED BY <1>4, <1>6, <1>7 DEF Fits, x

\* A job that is waited for is in the pipeline, and a slot without answer has its call.
LEMMA CoreAnswerUnderWay ==
  ASSUME CoreInv
  PROVE  AnswerUnderWay
<1>1. cyc.stage \in {"PRIORITIZING", "ACTING_MODEL", "FINDING"} => expected_job_id # 0
  BY DEF CoreInv, LoopInv, Asking
<1>2. expected_job_id # 0 => expected_job_id \in {pending, running, finished.id, answer.id}
  BY DEF CoreInv, LoopInv, InPipeline
<1>3. ASSUME cyc.stage = "ACTING_TOOLS"
      PROVE  /\ cyc.batch # {} <=> expected_job_id # 0
             /\ cyc.batch = {} => ~Busy
             /\ \A i \in DOMAIN cyc.slots \ cyc.batch :
                  cyc.slots[i].done \/ owner[cyc.slots[i].id] =
                    [kind |-> "slot", token |-> cycle_token, index |-> i, state |-> "open"]
  <2>1. cyc.batch # {} <=> expected_job_id # 0
    BY <1>3 DEF CoreInv, LoopInv
  <2>2. cyc.batch = {} => ~Busy
    <3>1. CASE pc = "result"
      BY <3>1 DEF CoreInv, LoopInv
    <3>2. CASE pc # "result"
      BY <1>3, <3>2, FreeWorker DEF CoreInv, LoopInv
    <3>3. QED BY <3>1, <3>2
  <2>3. \A i \in DOMAIN cyc.slots \ cyc.batch :
          cyc.slots[i].done \/ owner[cyc.slots[i].id] = SlotOwner(cycle_token, i)
    BY DEF CoreInv, SlotsInv, RoundOK
  <2>4. QED BY <2>1, <2>2, <2>3 DEF SlotOwner
<1>4. QED BY <1>1, <1>2, <1>3 DEF AnswerUnderWay

-----------------------------------------------------------------------------
(* Lists of notes: whose finding is in them, and which still have to be told. *)

Note == [n : Nat, urgent : BOOLEAN, at : Nat, delivered : BOOLEAN, expired : BOOLEAN]

\* The finding of act n is in q; it is and has not been delivered.
Has(q, n)  == \E x : InSeq(q, x) /\ x.n = n
Owes(q, n) == \E x : InSeq(q, x) /\ x.n = n /\ ~x.delivered

\* No act has two notes in the list.
OnePerAct(q) == \A x, y : InSeq(q, x) /\ InSeq(q, y) /\ x.n = y.n => x = y
Tidy(q) == q \in Seq(Note) /\ Distinct(q) /\ OnePerAct(q)

\* t is q after notes were dropped or marked delivered.
Left(t, q) == Tidy(t) /\ \A n : (Has(t, n) => Has(q, n)) /\ (Owes(t, n) => Owes(q, n))

\* Twice is once.
LEMMA LeftTwice ==
  ASSUME NEW q, NEW t, NEW u, Left(t, q), Left(u, t)
  PROVE  Left(u, q)
BY DEF Left

\* Nothing is tidy.
LEMMA EmptyList == Tidy(<<>>) /\ \A n : ~Has(<<>>, n)
BY NoElement DEF Tidy, OnePerAct, Has

\* Some of the notes.
LEMMA OnlyLeft ==
  ASSUME NEW q, Tidy(q), NEW S
  PROVE  Left(Only(q, S), q)
<1>1. /\ Only(q, S) \in Seq(Note) /\ Distinct(Only(q, S))
      /\ \A x : InSeq(Only(q, S), x) <=> InSeq(q, x) /\ x \in S
  BY InOnly DEF Tidy
<1>2. QED BY <1>1 DEF Left, Tidy, OnePerAct, Has, Owes

\* A change of the notes one by one.
Changes(f) ==
  \A x \in Note : f[x] \in Note /\ f[x].n = x.n /\ (~f[x].delivered => ~x.delivered)

\* Such a change neither moves a finding nor makes it owed again.
LEMMA MappedLeft ==
  ASSUME NEW q, Tidy(q), NEW f, Changes(f)
  PROVE  Left(Mapped(q, f), q)
<1>1. \A x : InSeq(q, x) => x \in Note /\ f[x] \in Note /\ f[x].n = x.n /\ (~f[x].delivered => ~x.delivered)
  BY InSeqType DEF Tidy, Changes
<1>2. \A x, y : InSeq(q, x) /\ InSeq(q, y) /\ f[x] = f[y] => x = y
  BY <1>1 DEF Tidy, OnePerAct
<1>3. /\ Mapped(q, f) \in Seq(Note) /\ Distinct(Mapped(q, f))
      /\ \A y : InSeq(Mapped(q, f), y) <=> \E x : InSeq(q, x) /\ y = f[x]
  BY <1>1, <1>2, MappedElements DEF Tidy
<1>. DEFINE t == Mapped(q, f)
<1>. HIDE DEF t
<1>4. \A y : InSeq(t, y) => \E x : InSeq(q, x) /\ y = f[x] /\ y.n = x.n /\ (~y.delivered => ~x.delivered)
  BY <1>1, <1>3 DEF t
<1>5. OnePerAct(t)
  BY <1>4 DEF Tidy, OnePerAct
<1>6. \A n : (Has(t, n) => Has(q, n)) /\ (Owes(t, n) => Owes(q, n))
  BY <1>4 DEF Has, Owes
<1>7. QED BY <1>3, <1>5, <1>6 DEF Left, Tidy, t

Expired(x, t) == IF Stale(x, t) THEN [x EXCEPT !.delivered = TRUE, !.expired = TRUE] ELSE x

\* The stale notes are marked.
LEMMA ExpireLeft ==
  ASSUME NEW q, Tidy(q), NEW t
  PROVE  Left(ExpireOld(q, t), q)
<1>. DEFINE f == [x \in Note |-> Expired(x, t)]
<1>1. \A x \in Note : Expired(x, t) \in Note /\ Expired(x, t).n = x.n /\ (~Expired(x, t).delivered => ~x.delivered)
  <2>1. TAKE x \in Note
  <2>2. [x EXCEPT !.delivered = TRUE, !.expired = TRUE] \in Note
    BY DEF Note
  <2>3. QED BY <2>2 DEF Expired, Note
<1>2. \A i \in DOMAIN q : q[i] \in Note
  BY ElementOfSeq, LenProperties DEF Tidy
<1>3. Changes(f)
  BY <1>1 DEF Changes
<1>4. Mapped(q, f) = ExpireOld(q, t)
  BY <1>2 DEF Mapped, ExpireOld, Expired
<1>. HIDE DEF f
<1>5. QED BY <1>3, <1>4, MappedLeft

\* Every note is marked, and none is owed.
LEMMA DeliverLeft ==
  ASSUME NEW q, Tidy(q)
  PROVE  Left(Delivered(q), q) /\ \A n : ~Owes(Delivered(q), n)
<1>. DEFINE g(x) == [x EXCEPT !.delivered = TRUE]
            f == [x \in Note |-> g(x)]
<1>1. \A x \in Note : g(x) \in Note /\ g(x).n = x.n /\ g(x).delivered
  BY DEF Note
<1>. HIDE DEF g
<1>2. \A i \in DOMAIN q : q[i] \in Note
  BY ElementOfSeq, LenProperties DEF Tidy
<1>3. Changes(f)
  BY <1>1 DEF Changes
<1>4. Mapped(q, f) = Delivered(q)
  BY <1>2 DEF Mapped, Delivered, g
<1>5. \A y : InSeq(Delivered(q), y) => y.delivered
  BY <1>1, <1>2 DEF InSeq, Delivered, g
<1>. HIDE DEF f
<1>6. Left(Delivered(q), q)
  BY <1>3, <1>4, MappedLeft
<1>7. QED BY <1>5, <1>6 DEF Owes

\* The old notes are dropped.
LEMMA PruneLeft ==
  ASSUME NEW q, Tidy(q), NEW t
  PROVE  Left(PruneOld(q, t), q)
BY OnlyLeft DEF PruneOld

\* The digest has the notes that were still owed.
LEMMA DigestOwed ==
  ASSUME NEW q, Tidy(q)
  PROVE  Tidy(Digest(q)) /\ \A n : Has(Digest(q), n) => Owes(q, n)
<1>. DEFINE w == Waiting(q)
            U == {note \in ToSet(w) : note.urgent}
            R == ToSet(w) \ U
            a == Only(w, U)
            b == Only(w, R)
<1>1. Left(w, q) /\ \A x : InSeq(w, x) => InSeq(q, x) /\ ~x.delivered
  BY OnlyLeft, InOnly DEF Waiting, Tidy
<1>2. Digest(q) = a \o b
  BY DEF Digest
<1>3. U \cap R = {}
  OBVIOUS
<1>. HIDE DEF U, R
<1>4. /\ a \in Seq(Note) /\ b \in Seq(Note) /\ Distinct(a) /\ Distinct(b)
      /\ \A x : InSeq(a, x) <=> InSeq(w, x) /\ x \in U
      /\ \A x : InSeq(b, x) <=> InSeq(w, x) /\ x \in R
  <2>. HIDE DEF w
  <2>1. w \in Seq(Note) /\ Distinct(w)
    BY <1>1 DEF Left, Tidy
  <2>2. QED BY <2>1, InOnly
<1>. HIDE DEF w, a, b
<1>5. /\ a \o b \in Seq(Note) /\ Distinct(a \o b)
      /\ \A x : InSeq(a \o b, x) <=> InSeq(a, x) \/ InSeq(b, x)
  BY <1>3, <1>4, InConcat
<1>6. \A x : InSeq(Digest(q), x) => InSeq(w, x) /\ InSeq(q, x) /\ ~x.delivered
  BY <1>1, <1>2, <1>4, <1>5
<1>7. OnePerAct(Digest(q))
  BY <1>1, <1>6 DEF Left, Tidy, OnePerAct
<1>8. QED BY <1>2, <1>5, <1>6, <1>7 DEF Tidy, Has, Owes

\* A note of an act that has none.
LEMMA NoteAdded ==
  ASSUME NEW q, Tidy(q), NEW note \in Note, ~Has(q, note.n)
  PROVE  /\ Tidy(Append(q, note))
         /\ \A n : /\ Has(Append(q, note), n) <=> Has(q, n) \/ n = note.n
                   /\ Owes(Append(q, note), n) => Owes(q, n) \/ n = note.n
<1>1. ~InSeq(q, note)
  BY DEF Has
<1>2. /\ Append(q, note) \in Seq(Note) /\ Distinct(Append(q, note))
      /\ \A y : InSeq(Append(q, note), y) <=> InSeq(q, y) \/ y = note
  BY <1>1, InAppend DEF Tidy
<1>. DEFINE t == Append(q, note)
<1>. HIDE DEF t
<1>3. t \in Seq(Note) /\ Distinct(t) /\ \A y : InSeq(t, y) <=> InSeq(q, y) \/ y = note
  BY <1>2 DEF t
<1>4. OnePerAct(t)
  BY <1>3 DEF Tidy, OnePerAct, Has
<1>5. \A n : (Has(t, n) <=> Has(q, n) \/ n = note.n) /\ (Owes(t, n) => Owes(q, n) \/ n = note.n)
  BY <1>3 DEF Has, Owes
<1>6. QED BY <1>3, <1>4, <1>5 DEF Tidy, t

-----------------------------------------------------------------------------
(* What a step does to what is kept: the acts begun, the runs and the notes. *)

\* The act of a cycle that was under way is still its act.
ActGoesOn == Acting' => Acting /\ cyc'.act = cyc.act

Settled == UNCHANGED <<acts, runs, handing, handed, profile>>

\* Nothing of it changes.
Rests == Settled /\ ActGoesOn /\ UNCHANGED <<queue, disk>> /\ (pc' = "send" <=> pc = "send")

\* Notes are dropped or expire, and that is saved.
Tidies ==
  /\ Settled /\ ActGoesOn /\ loaded /\ pc # "send" /\ pc' # "send"
  /\ Tidy(queue) => Left(queue', queue)
  /\ save_queue(queue')

Pulls == pull_notes /\ cyc' = cyc

Sends == SendDigest /\ cyc' = cyc

\* Another profile's state is loaded.
Switches ==
  \E p \in Profile :
    /\ profile' = p /\ runs' = disk[p].runs /\ queue' = disk[p].queue
    /\ cyc' = NoCycle /\ pc = "link" /\ pc' = "link"
    /\ UNCHANGED <<disk, acts, handing, handed>>

Restarts == Crash

\* An act of task t begins: its run is recorded.
BeginsAct(t) ==
  /\ t \in eligible_indices /\ loaded
  /\ runs' = [runs EXCEPT ![t] = RunRecorded(@, now)]
  /\ save_items(runs')
  /\ acts' = acts \cup {[profile |-> profile, task |-> t, at |-> now,
                         arrival |-> tracker.last_arrival, n |-> Cardinality(acts) + 1]}
  /\ cyc' = NoCycle \/ cyc'.act = Cardinality(acts) + 1
  /\ UNCHANGED <<queue, handing, handed, profile, now, tracker>> /\ pc = "result" /\ pc' = "jobs"

\* The finding of the act under way becomes a note.
Finds ==
  /\ Settled /\ loaded /\ Acting /\ cyc' = NoCycle /\ pc = "result" /\ pc' = "jobs"
  /\ \E note : /\ note = [n |-> cyc.act, urgent |-> note.urgent, at |-> now, delivered |-> FALSE, expired |-> FALSE]
               /\ note.urgent \in BOOLEAN
               /\ queue' = Append(queue, note)
  /\ save_queue(queue')

\* Time goes by, and the last arrival is a time that came by or is forgotten.
Clock == now' \in {now, now + 1} /\ tracker'.last_arrival \in {tracker.last_arrival, now, 0}

Kind ==
  Rests \/ Tidies \/ Pulls \/ Sends \/ Switches \/ Restarts \/ Finds \/ \E t \in Task : BeginsAct(t)

\* No cycle, no act.
LEMMA Idles == cyc' = NoCycle => ActGoesOn
BY DEF ActGoesOn, Acting, NoCycle

\* Such a cycle has the act it had.
LEMMA GoesOn == CycleOn => ActGoesOn
BY DEF CycleOn, ActGoesOn, Acting, NoCycle

\* Housekeeping marks and drops.
LEMMA HousekeepingLeft ==
  ASSUME Tidy(queue), Housekeeping
  PROVE  Left(queue', queue)
<1>. DEFINE e == ExpireOld(queue, now)
<1>1. Left(e, queue) /\ queue' = PruneOld(e, now)
  BY ExpireLeft DEF Housekeeping
<1>. HIDE DEF e
<1>2. Left(queue', e)
  BY <1>1, PruneLeft DEF Left
<1>3. QED BY <1>1, <1>2, LeftTwice

\* The steps of the phases, the tools' lines and the worker.
LEMMA ApartKind ==
  ASSUME CoreInv, Apart
  PROVE  Kind
<1>1. cyc' = cyc /\ profile' = profile
  BY ApartKeeps
<1>2. ActGoesOn
  BY <1>1, GoesOn DEF CycleOn
<1>3. CASE LinkDone \/ ServiceDone \/ Joined \/ (\E p \in Profile : RefuseProfile(p)) \/ Signal \/ TimeGoesBy
  <2>1. Rests
    BY <1>1, <1>2, <1>3 DEF Rests, Settled, LinkDone, ServiceDone, Joined, RefuseProfile, Signal,
                            TimeGoesBy, loopVars, storeVars, worldVars
  <2>2. QED BY <2>1 DEF Kind
<1>4. CASE TickIdle
  <2>1. Settled /\ pc # "send" /\ pc' # "send" /\ (UNCHANGED storeVars \/ (loaded /\ Housekeeping))
    BY <1>1, <1>4 DEF TickIdle, NextPass, Settled, Housekeeping, loopVars, storeVars, worldVars
  <2>2. CASE UNCHANGED storeVars
    BY <1>2, <2>1, <2>2 DEF Kind, Rests, storeVars
  <2>3. CASE loaded /\ Housekeeping
    <3>1. save_queue(queue')
      BY <2>3 DEF Housekeeping
    <3>2. QED BY <1>2, <2>1, <2>3, <3>1, HousekeepingLeft DEF Kind, Tidies
  <2>4. QED BY <2>1, <2>2, <2>3
<1>5. CASE count_notes
  BY <1>1, <1>2, <1>5, ExpireLeft DEF Kind, Tidies, Settled, count_notes, loopVars, worldVars
<1>6. CASE pull_notes \/ SendDigest
  BY <1>1, <1>6 DEF Kind, Pulls, Sends
<1>7. QED BY <1>3, <1>4, <1>5, <1>6 DEF Apart

\* The worker, the lines, the callbacks and the notices leave all of it alone.
LEMMA QuietKind ==
  ASSUME CoreInv, \/ Worker \/ Shutdown \/ TakeJobResult \/ ServiceSweep \/ RunCallback \/ TakeNotice
                  \/ \E p \in Peer : ReadQuiet(p) \/ ReadRegistration(p) \/ ReadPresence(p) \/ CallOverdue(p)
  PROVE  Rests
<1>1. CycleOn
  BY WorkerStepKeeps, SweepKeeps, CallbackKeeps, NoticeKeeps, ReadKeeps DEF CycleOn
<1>2. /\ UNCHANGED <<acts, runs, handing, handed, profile, queue, disk>>
      /\ (pc' = "send" <=> pc = "send")
  BY DEF Worker, Shutdown, TakeJobResult, ServiceSweep, RunCallback, TakeNotice, Reading, ReadQuiet,
         ReadRegistration, ReadPresence, CallOverdue, loopVars, storeVars, worldVars
<1>3. QED BY <1>1, <1>2, GoesOn DEF Rests, Settled

\* A cycle that starts has no act yet.
LEMMA StartKind ==
  ASSUME CoreInv, start_cycle
  PROVE  Kind
<1>1. ActGoesOn
  BY StartKeeps, Idles DEF ActGoesOn, Acting
<1>2. /\ Settled /\ loaded /\ pc # "send" /\ pc' # "send" /\ (UNCHANGED storeVars \/ Housekeeping)
  BY DEF start_cycle, NextPass, Settled, Housekeeping, storeVars
<1>3. CASE UNCHANGED storeVars
  BY <1>1, <1>2, <1>3 DEF Kind, Rests, storeVars
<1>4. CASE Housekeeping
  <2>1. save_queue(queue')
    BY <1>4 DEF Housekeeping
  <2>2. QED BY <1>1, <1>2, <1>4, <2>1, HousekeepingLeft DEF Kind, Tidies
<1>5. QED BY <1>2, <1>3, <1>4

\* A job result may begin an act, or make a note of its finding.
LEMMA ResultKind ==
  ASSUME CoreInv, IsFiniteSet(acts), on_job_result
  PROVE  Kind
<1>1. Handling /\ UNCHANGED <<profile, handing, handed, now, tracker>> /\ pc = "result" /\ pc' = "jobs"
  BY DEF on_job_result, Handling, presenceVars
<1>. SUFFICES ASSUME ~(UNCHANGED <<reasonerVars, storeVars, acts>>) PROVE Kind
  <2>1. CASE UNCHANGED <<reasonerVars, storeVars, acts>>
    <3>1. ActGoesOn
      BY <2>1, GoesOn DEF CycleOn, reasonerVars
    <3>2. QED BY <1>1, <2>1, <3>1 DEF Kind, Rests, Settled, storeVars
  <2>2. QED BY <2>1
<1>2. ~(answer.id # expected_job_id \/ expected_job_id = 0)
  BY DEF on_job_result
<1>3. (CASE cyc.stage = "PRIORITIZING" -> handle_prioritized(answer.outcome) /\ NoDispatch
          [] cyc.stage = "ACTING_MODEL" -> handle_act_reply(answer.outcome) /\ UNCHANGED <<storeVars, acts>>
          [] cyc.stage = "ACTING_TOOLS" -> handle_batch(answer.outcome) /\ UNCHANGED <<storeVars, acts>>
          [] cyc.stage = "FINDING"      -> handle_finding(answer.outcome) /\ NoDispatch /\ UNCHANGED acts)
  BY <1>2 DEF on_job_result
<1>4. cyc.stage \in {"PRIORITIZING", "ACTING_MODEL", "ACTING_TOOLS", "FINDING"} /\ loaded
  BY <1>2 DEF CoreInv, LoopInv, Cycle, Asking
<1>5. CASE cyc.stage = "PRIORITIZING"
  <2>1. handle_prioritized(answer.outcome) /\ NoDispatch
    BY <1>3, <1>5
  <2>2. CASE StayIdle /\ UNCHANGED <<storeVars, acts>>
    <3>1. ActGoesOn
      BY <2>2, Idles DEF StayIdle
    <3>2. QED BY <1>1, <2>2, <3>1 DEF Kind, Rests, Settled, storeVars
  <2>3. CASE ~(StayIdle /\ UNCHANGED <<storeVars, acts>>)
    <3>1. cyc' = NoCycle \/ cyc'.act = Cardinality(acts) + 1
      BY <1>1, <1>4, <1>5, <2>1, PrioritizedKeeps
    <3>2. PICK t \in eligible_indices :
            LET recorded == [runs EXCEPT ![t] = RunRecorded(@, now)]
            IN  /\ runs' = recorded
                /\ save_items(recorded)
                /\ UNCHANGED queue
                /\ acts' = acts \cup {[profile |-> profile, task |-> t, at |-> now,
                                       arrival |-> tracker.last_arrival, n |-> Cardinality(acts) + 1]}
      BY <2>1, <2>3 DEF handle_prioritized
    <3>3. t \in Task
      BY DEF eligible_indices
    <3>4. BeginsAct(t)
      BY <1>1, <1>4, <3>1, <3>2 DEF BeginsAct
    <3>5. QED BY <3>3, <3>4 DEF Kind
  <2>4. QED BY <2>2, <2>3
<1>6. CASE cyc.stage \in {"ACTING_MODEL", "ACTING_TOOLS"}
  <2>1. UNCHANGED <<storeVars, acts>>
    BY <1>3, <1>6
  <2>2. Kept(cyc)
    <3>1. CASE cyc.stage = "ACTING_MODEL"
      BY <1>1, <1>3, <1>4, <3>1, ReplyKeeps
    <3>2. CASE cyc.stage = "ACTING_TOOLS"
      BY <1>1, <1>3, <1>4, <3>2, BatchKeeps
    <3>3. QED BY <1>6, <3>1, <3>2
  <2>3. ActGoesOn
    BY <1>6, <2>2, GoesOn DEF Kept, CycleOn, Acting
  <2>4. QED BY <1>1, <2>1, <2>3 DEF Kind, Rests, Settled, storeVars
<1>7. CASE cyc.stage = "FINDING"
  <2>1. handle_finding(answer.outcome) /\ UNCHANGED acts
    BY <1>3, <1>7
  <2>2. cyc' = NoCycle /\ runs' = runs
    BY <2>1 DEF handle_finding, EndCycle
  <2>3. CASE UNCHANGED <<queue, disk>>
    BY <1>1, <2>1, <2>2, <2>3, Idles DEF Kind, Rests, Settled
  <2>4. CASE ~(UNCHANGED <<queue, disk>>)
    <3>1. PICK urgent \in BOOLEAN :
            LET note  == [n |-> cyc.act, urgent |-> urgent, at |-> now,
                          delivered |-> FALSE, expired |-> FALSE]
                notes == Append(queue, note)
            IN  queue' = notes /\ save_queue(notes)
      BY <2>1, <2>4 DEF handle_finding
    <3>. DEFINE note == [n |-> cyc.act, urgent |-> urgent, at |-> now, delivered |-> FALSE, expired |-> FALSE]
    <3>2. /\ note = [n |-> cyc.act, urgent |-> note.urgent, at |-> now, delivered |-> FALSE, expired |-> FALSE]
          /\ note.urgent \in BOOLEAN
      OBVIOUS
    <3>3. queue' = Append(queue, note) /\ save_queue(queue')
      BY <3>1
    <3>. HIDE DEF note
    <3>4. Finds
      BY <1>1, <1>4, <1>7, <2>1, <2>2, <3>2, <3>3 DEF Finds, Settled, Acting
    <3>5. QED BY <3>4 DEF Kind
  <2>5. QED BY <2>3, <2>4
<1>8. QED BY <1>4, <1>5, <1>6, <1>7

\* Every step is of one of these kinds.
LEMMA StepKind ==
  ASSUME CoreInv, IsFiniteSet(acts), [Next]_vars
  PROVE  Kind
<1>1. CASE UNCHANGED vars
  <2>1. ActGoesOn
    BY <1>1, GoesOn DEF CycleOn, vars, reasonerVars
  <2>2. QED BY <1>1, <2>1 DEF Kind, Rests, Settled, vars, loopVars, storeVars, worldVars
<1>2. CASE Next
  <2>1. CASE \E p \in Profile : LearnProfile(p)
    <3>1. PICK p \in Profile : LearnProfile(p)
      BY <2>1
    <3>2. Switches
      BY <3>1, LearnKeeps DEF LearnProfile, Switches
    <3>3. QED BY <3>2 DEF Kind
  <2>2. QED BY <1>2, <2>1, NextParts, ApartKind, QuietKind, StartKind, ResultKind DEF Kind, Restarts
<1>3. QED BY <1>1, <1>2

\* Every step leaves times to be times.
LEMMA StepClock ==
  ASSUME [Next]_vars
  PROVE  Clock
<1>1. CASE UNCHANGED vars
  BY <1>1 DEF Clock, vars, worldVars, presenceVars
<1>2. ASSUME NEW value, on_presence(value) PROVE tracker'.last_arrival \in {tracker.last_arrival, now, 0}
  BY <1>2 DEF on_presence, TrackerAfter
<1>3. CASE RunCallback \/ TakeNotice
  <2>1. now' = now /\ (tracker' = tracker \/ \E value : on_presence(value))
    BY <1>3 DEF RunCallback, TakeNotice, presenceVars, worldVars
  <2>2. QED BY <1>2, <2>1 DEF Clock
<1>4. CASE \/ Worker \/ Shutdown \/ TakeJobResult \/ ServiceSweep \/ on_job_result \/ start_cycle
           \/ SendDigest \/ LinkDone \/ ServiceDone \/ TickIdle \/ Joined \/ pull_notes \/ count_notes
           \/ (\E p \in Profile : RefuseProfile(p)) \/ Signal \/ TimeGoesBy
  BY <1>4 DEF Clock, Worker, Shutdown, TakeJobResult, ServiceSweep, Reading, on_job_result, start_cycle,
              SendDigest, LinkDone, ServiceDone, TickIdle, Joined, pull_notes, count_notes, RefuseProfile,
              Signal, TimeGoesBy, presenceVars, worldVars
<1>5. CASE Crash \/ \E p \in Profile : LearnProfile(p)
  BY <1>5 DEF Clock, Crash, LearnProfile, NewTracker
<1>6. CASE \E p \in Peer : ReadQuiet(p) \/ ReadRegistration(p) \/ ReadPresence(p) \/ CallOverdue(p)
  BY <1>6 DEF Clock, ReadQuiet, ReadRegistration, ReadPresence, CallOverdue, Reading, presenceVars, worldVars
<1>7. QED BY <1>1, <1>3, <1>4, <1>5, <1>6, NextParts DEF Apart

-----------------------------------------------------------------------------
(* What is kept, and what becomes of a note.                                *)

Act   == [profile : Profile, task : Task, at : Nat, arrival : Nat, n : Nat]
Runs  == [Task -> Seq(Nat)]
State == [runs : Runs, queue : Seq(Note)]
Given == [n : Nat, profile : Profile \cup {"none"}]

\* The acts are numbered from one, without repeating.
Numbered(as) ==
  /\ IsFiniteSet(as) /\ as \subseteq Act
  /\ \A a \in as : a.n \in 1 .. Cardinality(as)
  /\ \A a, b \in as : a.n = b.n => a = b

\* Act n was one of profile p.
Home(as, n, p) == \E a \in as : a.n = n /\ a.profile = p

DiskOK(d) == d \in [Profile -> State]

\* What is saved, and what of it is loaded.
StoreOK ==
  /\ Numbered(acts) /\ now \in Nat /\ tracker.last_arrival \in Nat
  /\ DiskOK(disk)
  /\ loaded => profile \in Profile /\ queue = disk[profile].queue /\ runs = disk[profile].runs

\* Every queue has its own profile's findings, at most one of each act.
QueuesOK ==
  \A p \in Profile : Tidy(disk[p].queue) /\ \A n : Has(disk[p].queue, n) => Home(acts, n, p)

\* So have the digest that is on its way and what was handed over; what is owed
\* is in neither, and nothing is in both.
HandingOK ==
  /\ Tidy(handing) /\ (pc # "send" => handing = <<>>)
  /\ \A n : Has(handing, n) => Home(acts, n, profile) /\ ~Has(handed, n)
  /\ handed \in Seq(Given) /\ Distinct(handed) /\ OnePerAct(handed)
  /\ \A x : InSeq(handed, x) => Home(acts, x.n, x.profile)
  /\ \A p \in Profile : \A n : Owes(disk[p].queue, n) => ~Has(handing, n) /\ ~Has(handed, n)

\* The act under way has no note yet.
Untold(n) == (\A p \in Profile : ~Has(disk[p].queue, n)) /\ ~Has(handing, n) /\ ~Has(handed, n)
ActUntold == Acting => Home(acts, cyc.act, profile) /\ Untold(cyc.act)

NotesInv == StoreOK /\ QueuesOK /\ HandingOK /\ ActUntold

\* The next act gets the next number.
LEMMA ActAdded ==
  ASSUME NEW as, Numbered(as), NEW a \in Act, a.n = Cardinality(as) + 1
  PROVE  /\ Numbered(as \cup {a}) /\ a \notin as /\ a.n \in Nat
         /\ \A b \in as : b.n \in Nat /\ b.n < a.n
<1>. DEFINE k == Cardinality(as)
            after == as \cup {a}
<1>1. k \in Nat /\ IsFiniteSet(as) /\ as \subseteq Act /\ a.n = k + 1
  BY FS_CardinalityType DEF Numbered
<1>2. (\A b \in as : b.n \in 1 .. k) /\ \A b, c \in as : b.n = c.n => b = c
  BY DEF Numbered
<1>. HIDE DEF k
<1>3. \A b \in as : b.n \in Nat /\ b.n < a.n
  <2>1. \A m \in 1 .. k : m \in Nat /\ m < k + 1
    BY <1>1
  <2>2. QED BY <1>1, <1>2, <2>1
<1>4. a \notin as
  <2>1. ~(k + 1 < k + 1)
    BY <1>1
  <2>2. QED BY <1>1, <1>3, <2>1
<1>5. IsFiniteSet(after) /\ Cardinality(after) = k + 1
  BY <1>1, <1>4, FS_AddElement DEF k
<1>6. after \subseteq Act /\ \A b \in after : b \in as \/ b = a
  BY <1>1
<1>. HIDE DEF after
<1>7. \A b \in after : b.n \in 1 .. Cardinality(after)
  <2>1. \A m \in 1 .. k : m \in 1 .. k + 1
    BY <1>1
  <2>2. k + 1 \in 1 .. k + 1
    BY <1>1
  <2>3. QED BY <1>1, <1>2, <1>5, <1>6, <2>1, <2>2
<1>8. \A b, c \in after : b.n = c.n => b = c
  <2>1. \A b \in as : b.n # a.n
    <3>1. ~(k + 1 < k + 1)
      BY <1>1
    <3>2. QED BY <1>1, <1>3, <3>1
  <2>2. QED BY <1>2, <1>6, <2>1
<1>9. a.n \in Nat
  <2>1. \A m \in Nat : m + 1 \in Nat
    OBVIOUS
  <2>2. QED BY <1>1, <2>1
<1>10. QED BY <1>3, <1>4, <1>5, <1>6, <1>7, <1>8, <1>9 DEF Numbered, after

\* An act has one profile.
LEMMA HomeOnce ==
  ASSUME NEW as, Numbered(as), NEW n, NEW p, NEW q, Home(as, n, p), Home(as, n, q)
  PROVE  p = q
BY DEF Numbered, Home

\* A queue that is saved changes that queue alone.
LEMMA QueueSaved ==
  ASSUME DiskOK(disk), profile \in Profile, NEW q \in Seq(Note), save_queue(q)
  PROVE  /\ DiskOK(disk')
         /\ \A p \in Profile : disk'[p].queue = IF p = profile THEN q ELSE disk[p].queue
         /\ \A p \in Profile : disk'[p].runs = disk[p].runs
<1>. DEFINE S == [disk[profile] EXCEPT !.queue = q]
<1>1. \A p \in Profile : disk[p] \in State /\ disk[p] = [runs |-> disk[p].runs, queue |-> disk[p].queue]
  BY DEF DiskOK, State
<1>2. S \in State /\ S.queue = q /\ S.runs = disk[profile].runs
  BY <1>1 DEF State
<1>3. disk' = [disk EXCEPT ![profile] = S]
  BY DEF save_queue
<1>. HIDE DEF S
<1>4. DiskOK(disk') /\ \A p \in Profile : disk'[p] = IF p = profile THEN S ELSE disk[p]
  BY <1>2, <1>3 DEF DiskOK
<1>5. QED BY <1>2, <1>4

\* Runs that are saved change those runs alone.
LEMMA RunsSaved ==
  ASSUME DiskOK(disk), profile \in Profile, NEW r \in Runs, save_items(r)
  PROVE  /\ DiskOK(disk')
         /\ \A p \in Profile : disk'[p].runs = IF p = profile THEN r ELSE disk[p].runs
         /\ \A p \in Profile : disk'[p].queue = disk[p].queue
<1>. DEFINE S == [disk[profile] EXCEPT !.runs = r]
<1>1. \A p \in Profile : disk[p] \in State /\ disk[p] = [runs |-> disk[p].runs, queue |-> disk[p].queue]
  BY DEF DiskOK, State
<1>2. S \in State /\ S.runs = r /\ S.queue = disk[profile].queue
  BY <1>1 DEF State
<1>3. disk' = [disk EXCEPT ![profile] = S]
  BY DEF save_items
<1>. HIDE DEF S
<1>4. DiskOK(disk') /\ \A p \in Profile : disk'[p] = IF p = profile THEN S ELSE disk[p]
  BY <1>2, <1>3 DEF DiskOK
<1>5. QED BY <1>2, <1>4

\* A recorded run is the time of an act.
LEMMA RunTyped ==
  ASSUME StoreOK, loaded, NEW t \in Task, NEW r, r = [runs EXCEPT ![t] = RunRecorded(@, now)]
  PROVE  r \in Runs /\ r[t] = RunRecorded(runs[t], now) /\ \A u \in Task : u # t => r[u] = runs[u]
<1>1. runs \in Runs
  BY DEF StoreOK, DiskOK, State
<1>2. runs[t] \in Seq(Nat) /\ now \in Nat
  BY <1>1 DEF StoreOK, Runs
<1>3. Append(runs[t], now) \in Seq(Nat)
  BY <1>2, AppendProperties
<1>4. RunRecorded(runs[t], now) \in Seq(Nat)
  <2>. DEFINE all == Append(runs[t], now)
              Recent == {x \in ToSet(all) : x >= now - 2 * WINDOW}
  <2>1. RunRecorded(runs[t], now) = Only(all, Recent)
    BY DEF RunRecorded
  <2>. HIDE DEF all, Recent
  <2>2. Only(all, Recent) \in Seq(Nat)
    BY <1>3, InOnly DEF all
  <2>3. QED BY <2>1, <2>2
<1>. DEFINE v == RunRecorded(runs[t], now)
<1>5. r = [runs EXCEPT ![t] = v]
  OBVIOUS
<1>. HIDE DEF v
<1>6. r \in Runs /\ r[t] = v /\ \A u \in Task : u # t => r[u] = runs[u]
  BY <1>1, <1>4, <1>5 DEF Runs, v
<1>7. QED BY <1>6 DEF v

-----------------------------------------------------------------------------
(* Every kind of step keeps it.                                             *)

\* Times stay times.
LEMMA ClockTyped ==
  ASSUME StoreOK, Clock
  PROVE  now' \in Nat /\ tracker'.last_arrival \in Nat
BY DEF StoreOK, Clock

\* Nothing of it changed.
LEMMA RestsKeeps ==
  ASSUME NotesInv, Clock, Rests
  PROVE  NotesInv'
<1>1. UNCHANGED <<acts, runs, handing, handed, profile, queue, disk>> /\ (pc' = "send" <=> pc = "send")
  BY DEF Rests, Settled
<1>2. StoreOK'
  BY <1>1, ClockTyped DEF NotesInv, StoreOK, loaded
<1>3. QueuesOK' /\ HandingOK'
  BY <1>1 DEF NotesInv, QueuesOK, HandingOK
<1>4. ActUntold'
  BY <1>1 DEF NotesInv, ActUntold, Rests, ActGoesOn, Untold
<1>5. QED BY <1>2, <1>3, <1>4 DEF NotesInv

\* A new queue for the loaded profile with nothing that the old one had not.
LEMMA QueueLeft ==
  ASSUME NotesInv, loaded, Left(queue', queue), save_queue(queue'), UNCHANGED <<runs, profile>>
  PROVE  /\ DiskOK(disk') /\ loaded' /\ queue' = disk'[profile].queue /\ runs' = disk'[profile].runs
         /\ profile \in Profile
         /\ \A p \in Profile :
              Left(disk'[p].queue, disk[p].queue) /\ (p # profile => disk'[p].queue = disk[p].queue)
<1>1. profile \in Profile /\ queue = disk[profile].queue /\ runs = disk[profile].runs /\ DiskOK(disk)
  BY DEF NotesInv, StoreOK
<1>2. queue' \in Seq(Note)
  BY DEF Left, Tidy
<1>3. /\ DiskOK(disk')
      /\ \A p \in Profile : disk'[p].queue = IF p = profile THEN queue' ELSE disk[p].queue
      /\ \A p \in Profile : disk'[p].runs = disk[p].runs
  BY <1>1, <1>2, QueueSaved
<1>4. \A p \in Profile : Left(disk[p].queue, disk[p].queue)
  BY DEF NotesInv, QueuesOK, Left
<1>5. QED BY <1>1, <1>3, <1>4 DEF loaded

\* Notes expired or were dropped, in memory and on disk alike.
LEMMA TidiesKeeps ==
  ASSUME NotesInv, Clock, Tidies
  PROVE  NotesInv'
<1>1. UNCHANGED <<acts, runs, handing, handed, profile>> /\ loaded /\ pc # "send" /\ pc' # "send" /\ save_queue(queue')
  BY DEF Tidies, Settled
<1>2. Tidy(queue)
  BY <1>1 DEF NotesInv, StoreOK, QueuesOK
<1>3. Left(queue', queue)
  BY <1>2 DEF Tidies
<1>4. /\ DiskOK(disk') /\ loaded' /\ queue' = disk'[profile].queue /\ runs' = disk'[profile].runs
      /\ profile \in Profile
      /\ \A p \in Profile : Left(disk'[p].queue, disk[p].queue)
  BY <1>1, <1>3, QueueLeft
<1>5. StoreOK'
  BY <1>1, <1>4, ClockTyped DEF NotesInv, StoreOK
<1>6. QueuesOK' /\ HandingOK'
  BY <1>1, <1>4 DEF NotesInv, QueuesOK, HandingOK, Left
<1>7. ActUntold'
  BY <1>1, <1>4 DEF NotesInv, ActUntold, Tidies, ActGoesOn, Untold, Left
<1>8. QED BY <1>5, <1>6, <1>7 DEF NotesInv

\* What was owed goes into the digest and is owed no more, on disk before it is sent.
LEMMA PullsKeeps ==
  ASSUME NotesInv, Clock, Pulls
  PROVE  NotesInv'
<1>. DEFINE kept == ExpireOld(queue, now)
            told == Delivered(kept)
<1>1. /\ UNCHANGED <<acts, runs, handed, profile>> /\ loaded /\ pc = "link" /\ pc' = "send" /\ cyc' = cyc
      /\ handing' = Digest(kept) /\ queue' = PruneOld(told, now) /\ save_queue(queue')
  BY DEF Pulls, pull_notes, worldVars
<1>2. Tidy(queue) /\ queue = disk[profile].queue /\ profile \in Profile
  BY <1>1 DEF NotesInv, StoreOK, QueuesOK
<1>3. Left(kept, queue)
  BY <1>2, ExpireLeft
<1>. HIDE DEF kept
<1>4. Left(told, kept) /\ (\A n : ~Owes(told, n)) /\ Tidy(Digest(kept)) /\ \A n : Has(Digest(kept), n) => Owes(kept, n)
  BY <1>3, DeliverLeft, DigestOwed DEF Left
<1>. HIDE DEF told
<1>5. Left(queue', told)
  BY <1>1, <1>4, PruneLeft DEF Left
<1>6. Left(queue', queue) /\ \A n : ~Owes(queue', n)
  BY <1>3, <1>4, <1>5 DEF Left
<1>7. /\ DiskOK(disk') /\ loaded' /\ queue' = disk'[profile].queue /\ runs' = disk'[profile].runs
      /\ \A p \in Profile :
              Left(disk'[p].queue, disk[p].queue) /\ (p # profile => disk'[p].queue = disk[p].queue)
  BY <1>1, <1>6, QueueLeft
<1>8. /\ Tidy(handing') /\ handing = <<>>
      /\ \A n : Has(handing', n) => Owes(disk[profile].queue, n) /\ Has(disk[profile].queue, n)
  <2>1. \A n : Owes(queue, n) => Has(queue, n)
    BY DEF Owes, Has
  <2>2. QED BY <1>1, <1>2, <1>3, <1>4, <2>1 DEF Left, NotesInv, HandingOK
<1>9. StoreOK'
  BY <1>1, <1>2, <1>7, ClockTyped DEF NotesInv, StoreOK
<1>10. QueuesOK'
  BY <1>1, <1>7 DEF NotesInv, QueuesOK, Left
<1>11. \A n : Has(handing', n) => Home(acts, n, profile) /\ ~Has(handed, n)
  BY <1>2, <1>8 DEF NotesInv, QueuesOK, HandingOK
<1>12. ASSUME NEW p \in Profile, NEW n, Owes(disk'[p].queue, n)
       PROVE  ~Has(handing', n) /\ ~Has(handed, n)
  <2>1. p # profile
    BY <1>6, <1>7, <1>12
  <2>2. Owes(disk[p].queue, n) /\ Has(disk[p].queue, n)
    BY <1>7, <1>12, <2>1 DEF Owes, Has
  <2>3. Home(acts, n, p) /\ ~Has(handed, n)
    BY <2>2 DEF NotesInv, QueuesOK, HandingOK
  <2>4. QED BY <1>11, <2>1, <2>3, HomeOnce DEF NotesInv, StoreOK
<1>13. HandingOK'
  BY <1>1, <1>8, <1>11, <1>12 DEF NotesInv, HandingOK
<1>14. ActUntold'
  BY <1>1, <1>2, <1>7, <1>8 DEF NotesInv, ActUntold, Acting, Untold, Left
<1>15. QED BY <1>9, <1>10, <1>13, <1>14 DEF NotesInv

\* What is handed over, and under which profile.
LEMMA DigestGiven ==
  ASSUME Tidy(handing), profile \in Profile \cup {"none"}, NEW given,
         given = [i \in DOMAIN handing |-> [n |-> handing[i].n, profile |-> profile]]
  PROVE  /\ given \in Seq(Given) /\ Distinct(given)
         /\ \A y : InSeq(given, y) => Has(handing, y.n) /\ y.profile = profile
         /\ OnePerAct(given) /\ \A n : Has(handing, n) <=> Has(given, n)
<1>. DEFINE g(x) == [n |-> x.n, profile |-> profile]
            f == [x \in Note |-> g(x)]
<1>1. \A x \in Note : g(x) \in Given /\ g(x).n = x.n /\ g(x).profile = profile
  BY DEF Note, Given
<1>2. handing \in Seq(Note) /\ Distinct(handing) /\ \A i \in DOMAIN handing : handing[i] \in Note
  BY ElementOfSeq, LenProperties DEF Tidy
<1>3. Mapped(handing, f) = given
  BY <1>2 DEF Mapped
<1>. HIDE DEF g
<1>4. \A x : InSeq(handing, x) => x \in Note /\ f[x] = g(x) /\ f[x] \in Given /\ f[x].n = x.n /\ f[x].profile = profile
  BY <1>1, <1>2 DEF InSeq
<1>. HIDE DEF f
<1>5. \A x, y : InSeq(handing, x) /\ InSeq(handing, y) /\ f[x] = f[y] => x = y
  BY <1>4 DEF Tidy, OnePerAct
<1>6. /\ given \in Seq(Given) /\ Distinct(given)
      /\ \A y : InSeq(given, y) <=> \E x : InSeq(handing, x) /\ y = f[x]
  <2>1. /\ Mapped(handing, f) \in Seq(Given) /\ Distinct(Mapped(handing, f))
        /\ \A y : InSeq(Mapped(handing, f), y) <=> \E x : InSeq(handing, x) /\ y = f[x]
    <3>1. (\A x : InSeq(handing, x) => f[x] \in Given) /\ handing \in Seq(Note) /\ Distinct(handing)
      BY <1>2, <1>4
    <3>. HIDE DEF Given, Note
    <3>2. QED BY ONLY <1>5, <3>1, MappedElements
  <2>2. QED BY <1>3, <2>1
<1>7. \A y : InSeq(given, y) => Has(handing, y.n) /\ y.profile = profile
  BY <1>4, <1>6 DEF Has
<1>8. OnePerAct(given)
  BY <1>4, <1>6 DEF Tidy, OnePerAct
<1>9. \A n : Has(handing, n) <=> Has(given, n)
  BY <1>4, <1>6 DEF Has
<1>10. QED BY <1>6, <1>7, <1>8, <1>9

\* The digest reaches olli or is lost; either way it is gone.
LEMMA SendsKeeps ==
  ASSUME NotesInv, Clock, Sends
  PROVE  NotesInv'
<1>. DEFINE given == [i \in DOMAIN handing |-> [n |-> handing[i].n, profile |-> profile]]
<1>1. /\ UNCHANGED <<acts, runs, queue, disk, profile, cyc>> /\ handing' = <<>> /\ pc' = "link"
      /\ handed' = handed \o given \/ handed' = handed
  BY DEF Sends, SendDigest, storeVars
<1>2. profile \in Profile \cup {"none"} /\ Tidy(handing)
  BY DEF NotesInv, StoreOK, HandingOK, loaded
<1>3. /\ given \in Seq(Given) /\ Distinct(given)
      /\ \A y : InSeq(given, y) => Has(handing, y.n) /\ y.profile = profile
      /\ OnePerAct(given) /\ \A n : Has(handing, n) <=> Has(given, n)
  BY <1>2, DigestGiven
<1>. HIDE DEF given
<1>4. handed \in Seq(Given) /\ Distinct(handed) /\ OnePerAct(handed) /\ \A n : Has(handing, n) => ~Has(handed, n)
  BY DEF NotesInv, HandingOK
<1>5. \A x, y : InSeq(handed, x) /\ InSeq(given, y) => x.n # y.n
  BY <1>3, <1>4 DEF Has
<1>. DEFINE h == handed \o given
<1>6. h \in Seq(Given) /\ Distinct(h) /\ \A x : InSeq(h, x) <=> InSeq(handed, x) \/ InSeq(given, x)
  <2>1. \A x \in Given : ~(InSeq(handed, x) /\ InSeq(given, x))
    BY <1>5
  <2>2. QED BY <1>3, <1>4, <2>1, InConcat
<1>. HIDE DEF h
<1>7. OnePerAct(h)
  BY <1>3, <1>4, <1>5, <1>6 DEF OnePerAct
<1>8. \A n : Has(h, n) => Has(handed, n) \/ Has(handing, n)
  BY <1>3, <1>6 DEF Has
<1>9. \A x : InSeq(h, x) => Home(acts, x.n, x.profile)
  BY <1>3, <1>6 DEF NotesInv, HandingOK
<1>10. handed' \in {handed, h}
  BY <1>1 DEF h
<1>11. /\ handed' \in Seq(Given) /\ Distinct(handed') /\ OnePerAct(handed')
       /\ \A x : InSeq(handed', x) => Home(acts, x.n, x.profile)
       /\ \A n : Has(handed', n) => Has(handed, n) \/ Has(handing, n)
  <2>1. \A x : InSeq(handed, x) => Home(acts, x.n, x.profile)
    BY DEF NotesInv, HandingOK
  <2>2. QED BY <1>4, <1>6, <1>7, <1>8, <1>9, <1>10, <2>1
<1>12. StoreOK' /\ QueuesOK'
  BY <1>1, ClockTyped DEF NotesInv, StoreOK, QueuesOK, loaded
<1>13. HandingOK'
  BY <1>1, <1>11, EmptyList DEF NotesInv, HandingOK
<1>14. ActUntold'
  BY <1>1, <1>11, EmptyList DEF NotesInv, ActUntold, Acting, Untold
<1>15. QED BY <1>12, <1>13, <1>14 DEF NotesInv

\* The next profile's notes come from its own folder, and no act is under way.
LEMMA SwitchesKeeps ==
  ASSUME NotesInv, Clock, Switches
  PROVE  NotesInv'
<1>1. PICK p \in Profile : /\ profile' = p /\ runs' = disk[p].runs /\ queue' = disk[p].queue
                           /\ cyc' = NoCycle /\ pc = "link" /\ pc' = "link"
                           /\ UNCHANGED <<disk, acts, handing, handed>>
  BY DEF Switches
<1>2. handing = <<>>
  BY <1>1 DEF NotesInv, HandingOK
<1>3. StoreOK' /\ QueuesOK'
  BY <1>1, ClockTyped DEF NotesInv, StoreOK, QueuesOK
<1>4. HandingOK'
  BY <1>1, <1>2, EmptyList DEF NotesInv, HandingOK
<1>5. ActUntold'
  BY <1>1 DEF ActUntold, Acting, NoCycle
<1>6. QED BY <1>3, <1>4, <1>5 DEF NotesInv

\* After a kill the digest is gone, and what is on disk is as it was.
LEMMA RestartsKeeps ==
  ASSUME NotesInv, Clock, Restarts
  PROVE  NotesInv'
<1>1. /\ profile' = "none" /\ cyc' = NoCycle /\ handing' = <<>> /\ pc' = "link"
      /\ UNCHANGED <<disk, acts, handed>>
  BY DEF Restarts, Crash
<1>2. ~loaded'
  BY <1>1 DEF loaded
<1>3. StoreOK' /\ QueuesOK'
  BY <1>1, <1>2, ClockTyped DEF NotesInv, StoreOK, QueuesOK
<1>4. HandingOK'
  BY <1>1, EmptyList DEF NotesInv, HandingOK
<1>5. ActUntold'
  BY <1>1 DEF ActUntold, Acting, NoCycle
<1>6. QED BY <1>3, <1>4, <1>5 DEF NotesInv

\* The act that begins, as it is recorded.
NewAct(t) == [profile |-> profile, task |-> t, at |-> now, arrival |-> tracker.last_arrival,
              n |-> Cardinality(acts) + 1]

\* The act that begins has a number no act had.
LEMMA ActRecorded ==
  ASSUME StoreOK, NEW t \in Task, BeginsAct(t)
  PROVE  /\ NewAct(t) \in Act /\ acts' = acts \cup {NewAct(t)} /\ Numbered(acts')
         /\ \A a \in acts : a.n \in Nat /\ a.n < NewAct(t).n
         /\ NewAct(t).n = Cardinality(acts) + 1 /\ NewAct(t).profile = profile
         /\ NewAct(t).task = t /\ NewAct(t).at = now /\ NewAct(t).arrival = tracker.last_arrival
<1>. DEFINE k == Cardinality(acts) + 1
<1>1. k \in Nat
  BY FS_CardinalityType DEF StoreOK, Numbered
<1>2. /\ NewAct(t) = [profile |-> profile, task |-> t, at |-> now, arrival |-> tracker.last_arrival, n |-> k]
      /\ acts' = acts \cup {NewAct(t)} /\ loaded
  BY DEF BeginsAct, NewAct
<1>3. profile \in Profile /\ now \in Nat /\ tracker.last_arrival \in Nat /\ Numbered(acts)
  BY <1>2 DEF StoreOK
<1>. HIDE DEF k
<1>4. NewAct(t) \in Act /\ NewAct(t).n = k
  BY <1>1, <1>2, <1>3 DEF Act
<1>5. Numbered(acts \cup {NewAct(t)}) /\ \A a \in acts : a.n \in Nat /\ a.n < NewAct(t).n
  BY <1>3, <1>4, ActAdded DEF k
<1>6. QED BY <1>2, <1>4, <1>5 DEF k

\* A new act has no note yet, since every note is of an act that began.
LEMMA BeginsKeeps ==
  ASSUME NotesInv, Clock, NEW t \in Task, BeginsAct(t)
  PROVE  NotesInv'
<1>. DEFINE k == Cardinality(acts) + 1
<1>1. /\ loaded /\ loaded' /\ save_items(runs') /\ pc # "send" /\ pc' # "send"
      /\ UNCHANGED <<queue, handing, handed, profile>> /\ (cyc' = NoCycle \/ cyc'.act = k)
  BY DEF BeginsAct, loaded
<1>2. StoreOK
  BY DEF NotesInv
<1>3. /\ Numbered(acts') /\ (\A a \in acts : a \in acts' /\ a.n \in Nat /\ a.n < k)
      /\ \E a \in acts' : a.n = k /\ a.profile = profile
  BY <1>2, ActRecorded
<1>4. runs' \in Runs
  BY <1>1, <1>2, RunTyped DEF BeginsAct
<1>5. /\ DiskOK(disk') /\ profile \in Profile
      /\ \A p \in Profile : disk'[p].runs = IF p = profile THEN runs' ELSE disk[p].runs
      /\ \A p \in Profile : disk'[p].queue = disk[p].queue
  BY <1>1, <1>2, <1>4, RunsSaved DEF StoreOK
<1>. HIDE DEF k
<1>6. StoreOK'
  BY <1>1, <1>2, <1>3, <1>5, ClockTyped DEF StoreOK
<1>7. \A n, p : Home(acts, n, p) => Home(acts', n, p) /\ n # k
  <2>1. \A n \in Nat : n < k => n # k
    <3>1. k \in Nat
      BY <1>2, FS_CardinalityType DEF StoreOK, Numbered, k
    <3>2. QED BY <3>1
  <2>2. QED BY <1>3, <2>1 DEF Home
<1>8. QueuesOK' /\ HandingOK'
  BY <1>1, <1>5, <1>7 DEF NotesInv, QueuesOK, HandingOK
<1>9. Home(acts', k, profile)
  BY <1>3 DEF Home
<1>10. Untold(k)
  <2>1. \A x : InSeq(handed, x) => x.n # k
    BY <1>7 DEF NotesInv, HandingOK
  <2>2. QED BY <1>7, <2>1 DEF NotesInv, QueuesOK, HandingOK, Untold, Has
<1>11. ActUntold'
  <2>1. Acting' => cyc'.act = k
    BY <1>1 DEF Acting, NoCycle
  <2>2. QED BY <1>1, <1>5, <1>9, <1>10, <2>1 DEF ActUntold, Untold
<1>12. QED BY <1>6, <1>8, <1>11 DEF NotesInv

\* The act's finding is its first note, and it is its profile's.
LEMMA FindsKeeps ==
  ASSUME CoreInv, NotesInv, Clock, Finds
  PROVE  NotesInv'
<1>1. PICK note :
         /\ note = [n |-> cyc.act, urgent |-> note.urgent, at |-> now, delivered |-> FALSE, expired |-> FALSE]
         /\ note.urgent \in BOOLEAN
         /\ queue' = Append(queue, note)
  BY DEF Finds
<1>2. /\ UNCHANGED <<acts, runs, handing, handed, profile>> /\ loaded /\ loaded' /\ Acting /\ cyc' = NoCycle
      /\ pc # "send" /\ pc' # "send" /\ save_queue(queue')
  BY DEF Finds, Settled, loaded
<1>3. cyc.act \in Nat /\ now \in Nat /\ note.n = cyc.act
  BY <1>1 DEF CoreInv, LoopInv, Cycle, NotesInv, StoreOK
<1>4. note \in Note
  <2>1. \A u \in BOOLEAN : [n |-> cyc.act, urgent |-> u, at |-> now, delivered |-> FALSE, expired |-> FALSE] \in Note
    BY <1>3 DEF Note
  <2>2. QED BY <1>1, <2>1
<1>5. /\ profile \in Profile /\ queue = disk[profile].queue /\ runs = disk[profile].runs /\ DiskOK(disk)
      /\ Tidy(queue) /\ ~Has(queue, note.n) /\ Home(acts, note.n, profile)
      /\ ~Has(handing, note.n) /\ ~Has(handed, note.n)
  BY <1>2, <1>3 DEF NotesInv, StoreOK, QueuesOK, ActUntold, Untold
<1>6. /\ Tidy(queue')
      /\ \A n : /\ Has(queue', n) <=> Has(queue, n) \/ n = note.n
                /\ Owes(queue', n) => Owes(queue, n) \/ n = note.n
  BY <1>1, <1>4, <1>5, NoteAdded
<1>7. /\ DiskOK(disk')
      /\ \A p \in Profile : disk'[p].queue = IF p = profile THEN queue' ELSE disk[p].queue
      /\ \A p \in Profile : disk'[p].runs = disk[p].runs
  BY <1>2, <1>5, <1>6, QueueSaved DEF Tidy
<1>8. StoreOK'
  BY <1>2, <1>5, <1>7, ClockTyped DEF NotesInv, StoreOK
<1>9. QueuesOK' /\ HandingOK'
  BY <1>2, <1>5, <1>6, <1>7 DEF NotesInv, QueuesOK, HandingOK
<1>10. ActUntold'
  BY <1>2 DEF ActUntold, Acting, NoCycle
<1>11. QED BY <1>8, <1>9, <1>10 DEF NotesInv

\* What is kept is kept by every step.
LEMMA NotesNext ==
  ASSUME CoreInv, NotesInv, [Next]_vars
  PROVE  NotesInv'
<1>1. IsFiniteSet(acts)
  BY DEF NotesInv, StoreOK, Numbered
<1>2. Kind /\ Clock
  BY <1>1, StepKind, StepClock
<1>3. QED BY <1>2, RestsKeeps, TidiesKeeps, PullsKeeps, SendsKeeps, SwitchesKeeps, RestartsKeeps, FindsKeeps,
             BeginsKeeps DEF Kind

\* What a note's invariant says of the notes that were handed over and are kept.
LEMMA NotesNotesKept ==
  ASSUME NotesInv
  PROVE  NotesKept
<1>1. NoteHandedOnce
  <2>. SUFFICES ASSUME NEW i \in DOMAIN handed, NEW j \in DOMAIN handed, handed[i].n = handed[j].n
                PROVE  i = j
    BY DEF NoteHandedOnce
  <2>1. InSeq(handed, handed[i]) /\ InSeq(handed, handed[j])
    BY DEF InSeq
  <2>2. handed[i] = handed[j]
    BY <2>1 DEF NotesInv, HandingOK, OnePerAct
  <2>3. QED BY <2>2 DEF NotesInv, HandingOK, Distinct
<1>2. \A n, p : Home(acts, n, p) => FoundFor(n) = p
  BY DEF NotesInv, StoreOK, Numbered, Home, FoundFor
<1>3. \A p \in Profile : \A i \in DOMAIN disk[p].queue : Has(disk[p].queue, disk[p].queue[i].n)
  BY DEF Has, InSeq
<1>4. \A i \in DOMAIN handed : InSeq(handed, handed[i])
  BY DEF InSeq
<1>5. NotesAtHome
  <2>1. \A p \in Profile : \A i \in DOMAIN disk[p].queue : Home(acts, disk[p].queue[i].n, p)
    BY <1>3 DEF NotesInv, QueuesOK
  <2>2. \A i \in DOMAIN handed : Home(acts, handed[i].n, handed[i].profile)
    BY <1>4 DEF NotesInv, HandingOK
  <2>3. QED BY <1>2, <2>1, <2>2 DEF NotesAtHome
<1>6. QED BY <1>1, <1>5 DEF NotesKept

-----------------------------------------------------------------------------
(* Runs and acts: every act has its run, as long as it matters.             *)

Since(r, x) == Only(r, {v \in ToSet(r) : v >= x})

\* What the runs r of a task say at a time of its acts as.
Counted(as, r, time) ==
  /\ \A v : InSeq(r, v) => v <= time
  /\ \A a \in as : a.at <= time /\ \E v : InSeq(r, v) /\ a.at <= v
  /\ \A x \in Int : x >= time - 2 * WINDOW => Cardinality({a \in as : a.at >= x}) <= Len(Since(r, x))

Of(as, p, t) == {a \in as : a.profile = p /\ a.task = t}
RunsInv == \A p \in Profile, t \in Task : Counted(Of(acts, p, t), disk[p].runs[t], now)

\* The numbers of the task list.
LEMMA Limits ==
  WINDOW \in Nat /\ \A t \in Task : Cap[t] \in Nat /\ Gap[t] \in Nat
BY TasksAssumption

\* ToSet has the elements.
LEMMA InToSet == \A s, x : x \in ToSet(s) <=> InSeq(s, x)
BY DEF ToSet, InSeq

\* The greatest of some numbers up to a limit, and the least.
LEMMA GreatestOne ==
  ASSUME NEW S \in SUBSET Nat, S # {}, NEW limit \in Nat, \A y \in S : y <= limit
  PROVE  Max(S) \in S /\ \A y \in S : y <= Max(S)
<1>. DEFINE D == {n \in Nat : \E y \in S : y = limit - n}
<1>1. \A y \in S : y \in Nat /\ limit - y \in D
  <2>1. TAKE y \in S
  <2>2. y \in Nat /\ y <= limit
    OBVIOUS
  <2>3. limit - y \in Nat /\ y = limit - (limit - y)
    BY <2>2
  <2>4. QED BY <2>2, <2>3
<1>2. D \in SUBSET Nat /\ D # {}
  BY <1>1
<1>3. PICK d \in D : \A e \in D : d <= e
  BY <1>2, LeastOne
<1>4. PICK m \in S : m = limit - d /\ d \in Nat
  BY <1>3
<1>5. \A y \in S : m >= y
  <2>1. TAKE y \in S
  <2>2. y \in Nat /\ m \in Nat /\ d <= limit - y
    BY <1>1, <1>3
  <2>. HIDE DEF D
  <2>3. QED BY <1>4, <2>2
<1>6. Max(S) \in S /\ \A y \in S : Max(S) >= y
  BY <1>4, <1>5 DEF Max
<1>7. \A y \in S : y <= Max(S)
  <2>1. TAKE y \in S
  <2>2. Max(S) >= y /\ Max(S) \in Nat /\ y \in Nat
    BY <1>1, <1>6
  <2>3. QED BY <2>2
<1>8. QED BY <1>6, <1>7

\* Min is an element.
LEMMA LeastMin ==
  ASSUME NEW S \in SUBSET Nat, S # {}
  PROVE  Min(S) \in S
<1>1. \E x \in S : \A y \in S : x =< y
  BY LeastOne
<1>2. QED BY <1>1 DEF Min

\* The runs from x on.
LEMMA SinceTyped ==
  ASSUME NEW r \in Seq(Nat), NEW x \in Int
  PROVE  /\ Since(r, x) \in Seq(Nat) /\ Len(Since(r, x)) \in Nat
         /\ \A v : InSeq(Since(r, x), v) <=> InSeq(r, v) /\ v >= x
<1>1. /\ Since(r, x) \in Seq(Nat)
      /\ \A v : InSeq(Since(r, x), v) <=> InSeq(r, v) /\ v \in {u \in ToSet(r) : u >= x}
  BY InOnly DEF Since
<1>2. QED BY <1>1, InToSet, LenProperties

\* Time alone only makes less matter.
LEMMA CountedLater ==
  ASSUME NEW as, NEW r, NEW n \in Nat, NEW m \in Nat, n <= m, Counted(as, r, n), r \in Seq(Nat),
         as \subseteq Act
  PROVE  Counted(as, r, m)
<1>1. \A v \in Nat : v <= n => v <= m
  OBVIOUS
<1>2. \A v : InSeq(r, v) => v \in Nat
  BY InSeqType
<1>3. \A a \in as : a.at \in Nat
  BY DEF Act
<1>4. \A x \in Int : x >= m - 2 * WINDOW => x >= n - 2 * WINDOW
  BY Limits
<1>5. QED BY <1>1, <1>2, <1>3, <1>4 DEF Counted

\* An act's run is recorded: it is one more of both.
LEMMA CountedMore ==
  ASSUME NEW as, NEW r \in Seq(Nat), NEW time \in Nat, Counted(as, r, time),
         IsFiniteSet(as), as \subseteq Act, NEW a, a \in Act, a.at = time, a \notin as
  PROVE  Counted(as \cup {a}, RunRecorded(r, time), time)
<1>. DEFINE all == Append(r, time)
            s == RunRecorded(r, time)
            after == as \cup {a}
            keep == time - 2 * WINDOW
<1>1. all \in Seq(Nat) /\ \A v : InSeq(all, v) <=> InSeq(r, v) \/ v = time
  BY InAppend
<1>2. s = Since(all, keep)
  BY DEF RunRecorded, Since
<1>3. keep \in Int /\ time >= keep
  BY Limits
<1>. HIDE DEF all, s, keep
<1>4. s \in Seq(Nat) /\ \A v : InSeq(s, v) <=> InSeq(all, v) /\ v >= keep
  BY <1>1, <1>2, <1>3, SinceTyped
<1>5. InSeq(s, time) /\ \A v : InSeq(s, v) => v <= time
  <2>1. (\A v : InSeq(r, v) => v <= time) /\ time <= time
    BY DEF Counted
  <2>2. \A v : InSeq(all, v) => v <= time
    BY <1>1, <2>1
  <2>3. QED BY <1>1, <1>3, <1>4, <2>2
<1>6. \A b \in after : b.at <= time /\ \E v : InSeq(s, v) /\ b.at <= v
  BY <1>5 DEF Counted
<1>7. ASSUME NEW x \in Int, x >= keep
      PROVE  Cardinality({b \in after : b.at >= x}) <= Len(Since(s, x))
  <2>1. Since(s, x) = Only(all, {v \in ToSet(all) : v >= x})
    <3>. DEFINE A == {v \in ToSet(all) : v >= keep}
                B == {v \in ToSet(s) : v >= x}
                C == {v \in ToSet(all) : v >= x}
    <3>1. \A v : InSeq(all, v) => v \in Nat
      BY <1>1, InSeqType
    <3>2. \A v \in Nat : v >= x => v >= keep
      BY <1>3, <1>7
    <3>3. \A v : InSeq(all, v) => (v \in C <=> v \in A /\ v \in B)
      BY <1>4, <3>1, <3>2, InToSet
    <3>4. s = Only(all, A) /\ Since(s, x) = Only(s, B)
      BY <1>2 DEF Since
    <3>. HIDE DEF A, B, C
    <3>5. Only(Only(all, A), B) = Only(all, C)
      BY <1>1, <3>3, OnlyOnly
    <3>6. QED BY <3>4, <3>5 DEF C
  <2>. DEFINE C == {v \in ToSet(all) : v >= x}
              old == Since(r, x)
  <2>2. Only(r, C) = old
    <3>1. \A v : InSeq(r, v) => (v \in C <=> v \in {u \in ToSet(r) : u >= x})
      BY <1>1, InToSet
    <3>. HIDE DEF C
    <3>2. Only(r, C) = Only(r, {u \in ToSet(r) : u >= x})
      BY <3>1, OnlySame
    <3>3. QED BY <3>2 DEF Since
  <2>3. time \in C <=> time >= x
    BY <1>1, InToSet
  <2>. HIDE DEF C
  <2>4. Since(s, x) = IF time >= x THEN Append(old, time) ELSE old
    <3>1. Only(Append(r, time), C) = IF time \in C THEN Append(Only(r, C), time) ELSE Only(r, C)
      BY OnlyAppend
    <3>2. QED BY <2>1, <2>2, <2>3, <3>1 DEF C, all
  <2>5. old \in Seq(Nat) /\ Len(old) \in Nat
    BY SinceTyped
  <2>. HIDE DEF old
  <2>6. Len(Append(old, time)) = Len(old) + 1
    BY <2>5, AppendProperties
  <2>. DEFINE before == {b \in as : b.at >= x}
  <2>7. /\ IsFiniteSet(before) /\ Cardinality(before) \in Nat /\ a \notin before
        /\ Cardinality(before) <= Len(old)
    <3>1. IsFiniteSet(before)
      BY FS_Subset
    <3>2. Cardinality(before) <= Len(old)
      BY <1>7 DEF Counted, keep, old
    <3>3. QED BY <3>1, <3>2, FS_CardinalityType
  <2>8. {b \in after : b.at >= x} = IF time >= x THEN before \cup {a} ELSE before
    OBVIOUS
  <2>. HIDE DEF before
  <2>9. Cardinality(before \cup {a}) = Cardinality(before) + 1
    BY <2>7, FS_AddElement
  <2>10. CASE time >= x
    <3>1. Cardinality({b \in after : b.at >= x}) = Cardinality(before) + 1
      BY <2>8, <2>9, <2>10
    <3>2. Len(Since(s, x)) = Len(old) + 1
      BY <2>4, <2>6, <2>10
    <3>3. QED BY <2>5, <2>7, <3>1, <3>2
  <2>11. CASE ~(time >= x)
    BY <2>4, <2>7, <2>8, <2>11
  <2>12. QED BY <2>10, <2>11
<1>8. QED BY <1>5, <1>6, <1>7 DEF Counted, s, after, keep

\* A task that may run has room in its window, and its gap is over.
LEMMA EligibleAllows ==
  ASSUME NEW t \in Task, NEW r \in Seq(Nat), NEW time \in Nat, NEW arrival \in Nat, NEW as,
         as \subseteq Act, Counted(as, r, time), IsFiniteSet(as), Eligible(t, r, time, arrival)
  PROVE  /\ Cap[t] > 0 => Cardinality({b \in as : b.at >= Max({time - WINDOW, arrival})}) < Cap[t]
         /\ \A b \in as : time - b.at >= Gap[t]
<1>. DEFINE start == Max({time - WINDOW, arrival})
            inside == InWindow(r, time, arrival)
            rested == IF Gap[t] > 0 /\ r # <<>> THEN Max(ToSet(r)) + Gap[t] ELSE time
            allowed == IF Cap[t] > 0 /\ Len(inside) >= Cap[t] THEN Blocking(inside, Cap[t]) + WINDOW + 1 ELSE time
            cap == Cap[t]
            gap == Gap[t]
<1>1. WINDOW \in Nat /\ cap \in Nat /\ gap \in Nat
  BY Limits
<1>2. start \in Int /\ start >= time - WINDOW
  <2>1. \A u, v \in Int : Max({u, v}) \in Int /\ Max({u, v}) >= u
    <3>1. TAKE u, v \in Int
    <3>2. \E x \in {u, v} : \A y \in {u, v} : x >= y
      OBVIOUS
    <3>3. Max({u, v}) \in {u, v} /\ \A y \in {u, v} : Max({u, v}) >= y
      BY <3>2 DEF Max
    <3>4. QED BY <3>3
  <2>. DEFINE w == time - WINDOW
  <2>2. w \in Int /\ arrival \in Int
    BY <1>1
  <2>. HIDE DEF w
  <2>3. Max({w, arrival}) \in Int /\ Max({w, arrival}) >= w
    BY <2>1, <2>2
  <2>4. QED BY <2>3 DEF w
<1>. HIDE DEF start
<1>3. inside = Since(r, start)
  BY DEF InWindow, Since, start
<1>4. /\ inside \in Seq(Nat) /\ Len(inside) \in Nat
      /\ \A v : InSeq(inside, v) <=> InSeq(r, v) /\ v >= start
  BY <1>2, <1>3, SinceTyped
<1>5. Max({time, rested, allowed}) <= time
  BY DEF Eligible, NextEligible
<1>6. \A v : InSeq(r, v) => v \in Nat /\ v <= time
  BY InSeqType DEF Counted
<1>7. ASSUME r # <<>> PROVE Max(ToSet(r)) \in Nat /\ \A v : InSeq(r, v) => v <= Max(ToSet(r))
  <2>1. ToSet(r) \in SUBSET Nat /\ \A y \in ToSet(r) : y <= time
    BY <1>6, InToSet
  <2>2. InSeq(r, r[1])
    <3>1. 1 \in DOMAIN r
      BY <1>7, EmptySeq, LenProperties
    <3>2. QED BY <3>1 DEF InSeq
  <2>3. ToSet(r) # {}
    BY <2>2, InToSet
  <2>4. QED BY <2>1, <2>3, GreatestOne, InToSet
<1>8. ASSUME cap > 0, Len(inside) >= cap
      PROVE  Blocking(inside, cap) \in Nat /\ Blocking(inside, cap) >= start
  <2>. DEFINE S == {v \in ToSet(inside) : Cardinality({i \in DOMAIN inside : inside[i] > v}) < cap}
              m == Max(ToSet(inside))
  <2>1. ToSet(inside) \in SUBSET Nat /\ \A y \in ToSet(inside) : y <= time /\ y >= start
    BY <1>4, <1>6, InToSet
  <2>2. ToSet(inside) # {}
    <3>. HIDE DEF inside
    <3>1. 1 \in DOMAIN inside
      BY <1>1, <1>4, <1>8, LenProperties
    <3>2. InSeq(inside, inside[1])
      BY <3>1 DEF InSeq
    <3>3. QED BY <3>2, InToSet
  <2>3. m \in ToSet(inside) /\ \A y \in ToSet(inside) : y <= m
    BY <2>1, <2>2, GreatestOne
  <2>. HIDE DEF inside, m
  <2>4. {i \in DOMAIN inside : inside[i] > m} = {}
    <3>1. \A i \in DOMAIN inside : inside[i] \in ToSet(inside)
      BY InToSet DEF InSeq
    <3>2. \A i \in DOMAIN inside : inside[i] \in Nat /\ inside[i] <= m /\ m \in Nat
      BY <2>1, <2>3, <3>1
    <3>3. QED BY <3>2
  <2>5. m \in S
    BY <1>1, <1>8, <2>3, <2>4, FS_EmptySet
  <2>6. Min(S) \in S
    BY <2>1, <2>5, LeastMin
  <2>7. Blocking(inside, cap) = Min(S)
    BY DEF Blocking
  <2>8. QED BY <2>1, <2>6, <2>7
<1>9. allowed \in Int /\ rested \in Int
  BY <1>1, <1>7, <1>8
<1>10. rested <= time /\ allowed <= time
  <2>. HIDE DEF rested, allowed
  <2>. DEFINE T == {time, rested, allowed}
  <2>1. \E x \in T : \A y \in T : x >= y
    BY <1>9
  <2>2. Max(T) \in T /\ \A y \in T : Max(T) >= y
    BY <2>1 DEF Max
  <2>3. Max(T) \in Int /\ Max(T) >= rested /\ Max(T) >= allowed
    BY <1>9, <2>2
  <2>4. QED BY <1>5, <1>9, <2>3
<1>11. cap > 0 => Len(inside) < cap
  <2>1. ASSUME cap > 0, Len(inside) >= cap PROVE FALSE
    <3>1. allowed = Blocking(inside, cap) + WINDOW + 1
      BY <2>1
    <3>2. Blocking(inside, cap) \in Nat /\ Blocking(inside, cap) >= start
      BY <1>8, <2>1
    <3>. HIDE DEF allowed, inside
    <3>3. QED BY <1>1, <1>2, <1>10, <3>1, <3>2
  <2>. HIDE DEF inside, cap
  <2>2. QED BY <1>1, <1>4, <2>1
<1>12. Cardinality({b \in as : b.at >= start}) <= Len(inside)
  <2>1. start >= time - 2 * WINDOW
    BY <1>1, <1>2
  <2>2. QED BY <1>2, <1>3, <2>1 DEF Counted
<1>13. Cardinality({b \in as : b.at >= start}) \in Nat
  <2>1. IsFiniteSet({b \in as : b.at >= start})
    BY FS_Subset
  <2>2. QED BY <2>1, FS_CardinalityType
<1>14. cap > 0 => Cardinality({b \in as : b.at >= start}) < cap
  <2>. DEFINE k == Cardinality({b \in as : b.at >= start})
  <2>. HIDE DEF inside, cap, k
  <2>1. QED BY <1>1, <1>4, <1>11, <1>12, <1>13 DEF k
<1>15. \A b \in as : time - b.at >= gap
  <2>1. TAKE b \in as
  <2>2. b.at \in Nat /\ b.at <= time
    BY DEF Act, Counted
  <2>3. PICK v : InSeq(r, v) /\ b.at <= v
    BY DEF Counted
  <2>4. r # <<>>
    BY <2>3, NoElement
  <2>5. v \in Nat /\ v <= Max(ToSet(r)) /\ Max(ToSet(r)) \in Nat
    BY <1>6, <1>7, <2>3, <2>4
  <2>6. gap > 0 => Max(ToSet(r)) + gap <= time
    BY <1>10, <2>4
  <2>. HIDE DEF gap, rested
  <2>. DEFINE g == Max(ToSet(r))
              w == b.at
  <2>. HIDE DEF g, w
  <2>7. w <= v /\ g \in Nat /\ v \in Nat /\ v <= g /\ w \in Nat /\ w <= time /\ (gap > 0 => g + gap <= time)
    BY <2>2, <2>3, <2>5, <2>6 DEF g, w
  <2>8. time - w >= gap
    BY <1>1, <2>7
  <2>9. QED BY <2>8 DEF w
<1>16. QED BY <1>14, <1>15 DEF start

-----------------------------------------------------------------------------
(* The steps.                                                               *)

\* Only a step in which an act begins changes the runs that are saved.
LEMMA RunsStay ==
  ASSUME CoreInv, NotesInv, Kind, \A t \in Task : ~BeginsAct(t)
  PROVE  acts' = acts /\ \A p \in Profile : disk'[p].runs = disk[p].runs
<1>1. CASE Rests \/ Switches
  BY <1>1 DEF Rests, Settled, Switches
<1>2. CASE Sends \/ Restarts
  BY <1>2 DEF Sends, SendDigest, Restarts, Crash, storeVars
<1>3. ASSUME loaded, queue' \in Seq(Note), save_queue(queue')
      PROVE  \A p \in Profile : disk'[p].runs = disk[p].runs
  BY <1>3, QueueSaved DEF NotesInv, StoreOK
<1>4. CASE Tidies
  <2>1. Tidy(queue)
    BY <1>4 DEF Tidies, NotesInv, StoreOK, QueuesOK
  <2>2. QED BY <1>3, <1>4, <2>1 DEF Tidies, Settled, Left, Tidy
<1>5. CASE Finds
  <2>1. PICK note :
          /\ note = [n |-> cyc.act, urgent |-> note.urgent, at |-> now, delivered |-> FALSE, expired |-> FALSE]
          /\ note.urgent \in BOOLEAN
          /\ queue' = Append(queue, note)
    BY <1>5 DEF Finds
  <2>2. cyc.act \in Nat /\ now \in Nat
    BY DEF CoreInv, LoopInv, Cycle, NotesInv, StoreOK
  <2>3. \A u \in BOOLEAN : [n |-> cyc.act, urgent |-> u, at |-> now, delivered |-> FALSE, expired |-> FALSE] \in Note
    BY <2>2 DEF Note
  <2>4. note \in Note
    BY <2>1, <2>3
  <2>5. queue \in Seq(Note)
    BY <1>5 DEF Finds, NotesInv, StoreOK, QueuesOK, Tidy
  <2>6. queue' \in Seq(Note)
    BY <2>1, <2>4, <2>5, InAppend
  <2>7. QED BY <1>3, <1>5, <2>6 DEF Finds, Settled
<1>6. CASE Pulls
  <2>1. Tidy(queue) /\ loaded /\ save_queue(queue') /\ acts' = acts
        /\ queue' = PruneOld(Delivered(ExpireOld(queue, now)), now)
    BY <1>6 DEF Pulls, pull_notes, worldVars, NotesInv, StoreOK, QueuesOK
  <2>2. queue' \in Seq(Note)
    BY <2>1, ExpireLeft, DeliverLeft, PruneLeft DEF Left, Tidy
  <2>3. QED BY <1>3, <2>1, <2>2
<1>7. QED BY <1>1, <1>2, <1>4, <1>5, <1>6 DEF Kind

\* A task's runs and its acts.
LEMMA RunsTyped ==
  ASSUME NotesInv, NEW p \in Profile, NEW t \in Task
  PROVE  /\ disk[p].runs[t] \in Seq(Nat) /\ Of(acts, p, t) \subseteq Act /\ IsFiniteSet(Of(acts, p, t))
<1>1. disk[p].runs[t] \in Seq(Nat)
  BY DEF NotesInv, StoreOK, DiskOK, State, Runs
<1>2. Of(acts, p, t) \subseteq acts /\ IsFiniteSet(acts) /\ acts \subseteq Act
  BY DEF Of, NotesInv, StoreOK, Numbered
<1>3. QED BY <1>1, <1>2, FS_Subset

\* Acts and runs keep in step, through switches and kills: a run is saved with its act.
LEMMA RunsNext ==
  ASSUME CoreInv, NotesInv, RunsInv, [Next]_vars
  PROVE  RunsInv'
<1>1. Kind /\ Clock /\ IsFiniteSet(acts) /\ now \in Nat /\ now' \in Nat
  BY StepKind, StepClock, ClockTyped DEF NotesInv, StoreOK, Numbered
<1>2. now <= now'
  BY <1>1 DEF Clock
<1>3. ASSUME acts' = acts, \A p \in Profile : disk'[p].runs = disk[p].runs PROVE RunsInv'
  <2>. SUFFICES ASSUME NEW p \in Profile, NEW t \in Task PROVE Counted(Of(acts, p, t), disk[p].runs[t], now')
    BY <1>3 DEF RunsInv
  <2>1. Counted(Of(acts, p, t), disk[p].runs[t], now)
    BY DEF RunsInv
  <2>2. QED BY <1>1, <1>2, <2>1, RunsTyped, CountedLater
<1>4. ASSUME NEW t \in Task, BeginsAct(t) PROVE RunsInv'
  <2>1. /\ loaded /\ save_items(runs') /\ now' = now
        /\ runs' = [runs EXCEPT ![t] = RunRecorded(@, now)]
    BY <1>4 DEF BeginsAct
  <2>2. runs' \in Runs /\ runs'[t] = RunRecorded(runs[t], now) /\ \A u \in Task : u # t => runs'[u] = runs[u]
    <3>. DEFINE r == runs'
    <3>1. StoreOK /\ loaded /\ r = [runs EXCEPT ![t] = RunRecorded(@, now)]
      BY <2>1 DEF NotesInv
    <3>. HIDE DEF r
    <3>2. r \in Runs /\ r[t] = RunRecorded(runs[t], now) /\ \A u \in Task : u # t => r[u] = runs[u]
      BY <3>1, RunTyped
    <3>3. QED BY <3>2 DEF r
  <2>3. profile \in Profile /\ DiskOK(disk) /\ runs = disk[profile].runs
    BY <2>1 DEF NotesInv, StoreOK
  <2>4. \A p \in Profile : disk'[p].runs = IF p = profile THEN runs' ELSE disk[p].runs
    BY <2>1, <2>2, <2>3, RunsSaved
  <2>. DEFINE a == NewAct(t)
  <2>5. /\ a \in Act /\ acts' = acts \cup {a} /\ a \notin acts
        /\ a.profile = profile /\ a.task = t /\ a.at = now
    <3>1. /\ a \in Act /\ acts' = acts \cup {a} /\ \A b \in acts : b.n \in Nat /\ b.n < a.n
          /\ a.profile = profile /\ a.task = t /\ a.at = now
      BY <1>4, ActRecorded DEF NotesInv
    <3>2. \A k \in Nat : ~(k < k)
      OBVIOUS
    <3>3. a \notin acts
      BY <3>1, <3>2
    <3>4. QED BY <3>1, <3>3
  <2>. HIDE DEF a
  <2>. SUFFICES ASSUME NEW p \in Profile, NEW u \in Task PROVE Counted(Of(acts', p, u), disk'[p].runs[u], now)
    BY <2>1 DEF RunsInv
  <2>6. Counted(Of(acts, p, u), disk[p].runs[u], now)
    BY DEF RunsInv
  <2>7. CASE p = profile /\ u = t
    <3>1. Of(acts', p, u) = Of(acts, p, u) \cup {a} /\ a \notin Of(acts, p, u)
      BY <2>5, <2>7 DEF Of
    <3>2. disk'[p].runs[u] = RunRecorded(disk[p].runs[u], now)
      BY <2>2, <2>3, <2>4, <2>7
    <3>. DEFINE as == Of(acts, p, u)
                r  == disk[p].runs[u]
    <3>3. r \in Seq(Nat) /\ as \subseteq Act /\ IsFiniteSet(as) /\ Counted(as, r, now)
      BY <2>6, RunsTyped
    <3>. HIDE DEF as, r
    <3>4. Counted(as \cup {a}, RunRecorded(r, now), now)
      BY <1>1, <2>5, <3>1, <3>3, CountedMore DEF as
    <3>5. QED BY <3>1, <3>2, <3>4 DEF as, r
  <2>8. CASE ~(p = profile /\ u = t)
    <3>1. Of(acts', p, u) = Of(acts, p, u)
      BY <2>5, <2>8 DEF Of
    <3>2. disk'[p].runs[u] = disk[p].runs[u]
      BY <2>2, <2>3, <2>4, <2>8
    <3>3. QED BY <2>6, <3>1, <3>2
  <2>9. QED BY <2>7, <2>8
<1>5. QED BY <1>1, <1>3, <1>4, RunsStay

\* The allowance of one act among the acts as.
Allowed(as, a) ==
  LET earlier == {b \in as : b.profile = a.profile /\ b.task = a.task /\ b.n < a.n}
  IN  /\ Cap[a.task] > 0 =>
           Cardinality({b \in earlier : b.at >= Max({a.at - WINDOW, a.arrival})}) < Cap[a.task]
      /\ \A b \in earlier : a.at - b.at >= Gap[a.task]

\* An act begins only within its task's allowance; the acts before it are not concerned.
LEMMA AllowanceNext ==
  ASSUME CoreInv, NotesInv, RunsInv, AllowanceKept, [Next]_vars
  PROVE  AllowanceKept'
<1>1. Kind /\ IsFiniteSet(acts)
  BY StepKind DEF NotesInv, StoreOK, Numbered
<1>2. ASSUME \A t \in Task : ~BeginsAct(t) PROVE AllowanceKept'
  <2>1. acts' = acts
    BY <1>1, <1>2, RunsStay
  <2>2. QED BY <2>1 DEF AllowanceKept
<1>3. ASSUME NEW t \in Task, BeginsAct(t) PROVE AllowanceKept'
  <2>. DEFINE a == NewAct(t)
              r == disk[profile].runs[t]
              mine == Of(acts, profile, t)
  <2>1. /\ a \in Act /\ acts' = acts \cup {a} /\ \A b \in acts : b.n \in Nat /\ b.n < a.n
        /\ a.profile = profile /\ a.task = t /\ a.at = now /\ a.arrival = tracker.last_arrival
    BY <1>3, ActRecorded DEF NotesInv
  <2>2. a.n \in Nat
    BY <2>1 DEF Act
  <2>3. loaded /\ Eligible(t, runs[t], now, tracker.last_arrival)
    BY <1>3 DEF BeginsAct, eligible_indices
  <2>4. /\ profile \in Profile /\ runs[t] = r /\ now \in Nat /\ tracker.last_arrival \in Nat
    BY <2>3 DEF NotesInv, StoreOK
  <2>5. r \in Seq(Nat) /\ mine \subseteq Act /\ IsFiniteSet(mine) /\ Counted(mine, r, now)
    BY <2>4, RunsTyped DEF RunsInv
  <2>. HIDE DEF a, r
  <2>6. /\ Cap[t] > 0 => Cardinality({b \in mine : b.at >= Max({now - WINDOW, tracker.last_arrival})}) < Cap[t]
        /\ \A b \in mine : now - b.at >= Gap[t]
    <3>. HIDE DEF mine
    <3>1. QED BY <2>3, <2>4, <2>5, EligibleAllows
  <2>7. {b \in acts' : b.profile = a.profile /\ b.task = a.task /\ b.n < a.n} = mine
    <3>1. \A k \in Nat : ~(k < k)
      OBVIOUS
    <3>2. ~(a.n < a.n)
      BY <2>2, <3>1
    <3>3. QED BY <2>1, <3>2 DEF Of
  <2>8. Allowed(acts', a)
    <3>. HIDE DEF mine
    <3>1. QED BY <2>1, <2>6, <2>7 DEF Allowed
  <2>9. ASSUME NEW c \in acts PROVE Allowed(acts', c)
    <3>1. \A i, j \in Nat : i < j => ~(j < i)
      OBVIOUS
    <3>2. ~(a.n < c.n)
      BY <2>1, <2>2, <3>1
    <3>3. {b \in acts' : b.profile = c.profile /\ b.task = c.task /\ b.n < c.n}
            = {b \in acts : b.profile = c.profile /\ b.task = c.task /\ b.n < c.n}
      BY <2>1, <3>2
    <3>4. Allowed(acts, c)
      BY DEF AllowanceKept, Allowed
    <3>5. QED BY <3>3, <3>4 DEF Allowed
  <2>10. \A c \in acts' : Allowed(acts', c)
    BY <2>1, <2>8, <2>9
  <2>11. QED BY <2>10 DEF AllowanceKept, Allowed
<1>4. QED BY <1>2, <1>3

-----------------------------------------------------------------------------
(* The server and its cycles implement CallbackService.                      *)

Callbacks == INSTANCE CallbackService WITH cycle <- cycle_token, calls <- owner

\* The cycle goes on, or it is over and there is none.
CycleMoves == \/ cycle_token' = cycle_token
              \/ cycle_token' = cycle_token + 1 /\ cyc' = NoCycle

\* The end of a round leaves the cycle's number alone unless it ends the cycle.
LEMMA RoundMoves == ASSUME NEW c, maybe_finish_tool_round(c) PROVE CycleMoves
BY DEF maybe_finish_tool_round, finish_act, AskOrEnd, AskModel, EndCycle, CycleMoves

\* So does everything a job result leads to.
LEMMA ResultMoves == ASSUME CoreInv, on_job_result PROVE CycleMoves
<1>1. CASE answer.id # expected_job_id \/ expected_job_id = 0
  BY <1>1 DEF on_job_result, reasonerVars, CycleMoves
<1>2. CASE ~(answer.id # expected_job_id \/ expected_job_id = 0)
  <2>1. (CASE cyc.stage = "PRIORITIZING" -> handle_prioritized(answer.outcome) /\ NoDispatch
            [] cyc.stage = "ACTING_MODEL" -> handle_act_reply(answer.outcome) /\ UNCHANGED <<storeVars, acts>>
            [] cyc.stage = "ACTING_TOOLS" -> handle_batch(answer.outcome) /\ UNCHANGED <<storeVars, acts>>
            [] cyc.stage = "FINDING"      -> handle_finding(answer.outcome) /\ NoDispatch /\ UNCHANGED acts)
    BY <1>2 DEF on_job_result
  <2>2. cyc.stage \in {"PRIORITIZING", "ACTING_MODEL", "ACTING_TOOLS", "FINDING"}
    BY <1>2 DEF CoreInv, LoopInv, Cycle, Asking
  <2>3. CASE cyc.stage = "PRIORITIZING"
    BY <2>1, <2>3 DEF handle_prioritized, StayIdle, AskOrEnd, AskModel, EndCycle, CycleMoves
  <2>4. CASE cyc.stage = "ACTING_MODEL"
    <3>1. handle_act_reply(answer.outcome)
      BY <2>1, <2>4
    <3>2. ASSUME NEW calls, dispatch_calls(cyc, calls) PROVE CycleMoves
      <4>1. cycle_token' = cycle_token \/ \E c : maybe_finish_tool_round(c)
        BY <3>2 DEF dispatch_calls
      <4>2. QED BY <4>1, RoundMoves DEF CycleMoves
    <3>3. QED BY <3>1, <3>2 DEF handle_act_reply, finish_act, AskOrEnd, AskModel, EndCycle, CycleMoves
  <2>5. CASE cyc.stage = "ACTING_TOOLS"
    <3>1. \E c : maybe_finish_tool_round(c)
      BY <2>1, <2>5 DEF handle_batch
    <3>2. QED BY <3>1, RoundMoves
  <2>6. CASE cyc.stage = "FINDING"
    BY <2>1, <2>6 DEF handle_finding, EndCycle, CycleMoves
  <2>7. QED BY <2>2, <2>3, <2>4, <2>5, <2>6
<1>3. QED BY <1>1, <1>2

\* A cycle that is over has no call open.
LEMMA CycleTurns ==
  ASSUME CoreInv', CycleMoves
  PROVE  Callbacks!Turns
<1>1. CASE cycle_token' = cycle_token
  BY <1>1 DEF Callbacks!Turns
<1>2. CASE cycle_token' = cycle_token + 1 /\ cyc' = NoCycle
  <2>1. RoundOK(<<>>, {}, owner', cycle_token')
    BY <1>2, NoCycleIdle DEF CoreInv, SlotsInv
  <2>2. NoSlotOpen(owner')
    <3>1. \A i \in DOMAIN <<>> : FALSE
      OBVIOUS
    <3>2. QED BY <2>1, <3>1, RoundOver
  <2>3. ~Callbacks!Waits'
    BY <2>2 DEF Callbacks!Waits, Callbacks!Open, Callbacks!OfCycle, NoSlotOpen, OpenIn
  <2>4. QED BY <1>2, <2>3 DEF Callbacks!Turns
<1>3. QED BY <1>1, <1>2 DEF CycleMoves

\* Calls of the present cycle or of none are handed in, and the cycle may end.
LEMMA CallsHandedIn ==
  ASSUME CoreInv', CycleMoves, Followed(owner', owner, cycle_token)
  PROVE  Callbacks!HandIn
<1>1. Callbacks!Follow(owner)
  BY DEF Followed, Callbacks!Follow, Callbacks!Open, Callbacks!OfCycle
<1>2. QED BY <1>1, CycleTurns DEF Callbacks!HandIn

\* Asking for presence hands in one call at most, of no cycle.
LEMMA PresenceAsked ==
  ASSUME NEW os \in Seq(Owner), NEW cs, NEW due, Asks(cs, os, due), NEW token
  PROVE  Followed(owner', os, token)
<1>1. Followed(os, os, token)
  BY FollowedSelf
<1>2. CASE ~due
  BY <1>1, <1>2 DEF Asks
<1>3. CASE due
  <2>. DEFINE o == [kind |-> "probe", token |-> 0, index |-> 0, state |-> "open"]
  <2>1. owner' = Append(os, o)
    BY <1>3 DEF Asks, Probe
  <2>2. o \in Owner /\ o.state = "open" /\ o.kind # "slot"
    BY DEF Owner
  <2>. HIDE DEF o
  <2>3. QED BY <1>1, <2>1, <2>2, FollowedOne
<1>4. QED BY <1>2, <1>3

\* The steps that hand calls in.
LEMMA HandInStep ==
  ASSUME CoreInv, CoreInv', on_job_result \/ TakeNotice \/ start_cycle
  PROVE  Callbacks!HandIn
<1>1. owner \in Seq(Owner)
  BY DEF CoreInv, CallsOK, CallsInv
<1>2. CASE on_job_result
  <2>1. CycleMoves
    BY <1>2, ResultMoves
  <2>2. ASSUME NEW calls \in Replies, cyc.stage = "ACTING_MODEL", dispatch_calls(cyc, calls)
        PROVE  Followed(owner', owner, cycle_token)
    <3>1. calls \in Seq(Name)
      BY SubconAssumption
    <3>2. /\ pc = "result" /\ pc' = "jobs" /\ answer' = NoResult
          /\ UNCHANGED <<connections, completions, to_run, profile>>
      BY <1>2 DEF on_job_result
    <3>3. loaded'
      BY <2>2, <3>2 DEF CoreInv, LoopInv, loaded
    <3>4. QED BY <2>2, <3>1, <3>2, <3>3, DispatchTurn DEF CoreInv
  <2>3. NoDispatch \/ (cyc.stage = "ACTING_MODEL" /\ \E calls \in Replies : dispatch_calls(cyc, calls))
    <3>1. CASE answer.id # expected_job_id \/ expected_job_id = 0
      BY <1>2, <3>1 DEF on_job_result
    <3>2. CASE ~(answer.id # expected_job_id \/ expected_job_id = 0)
      <4>1. cyc.stage \in {"PRIORITIZING", "ACTING_MODEL", "ACTING_TOOLS", "FINDING"}
        BY <3>2 DEF CoreInv, LoopInv, Cycle, Asking
      <4>2. cyc.stage = "ACTING_MODEL" => handle_act_reply(answer.outcome)
        BY <1>2, <3>2 DEF on_job_result
      <4>3. cyc.stage # "ACTING_MODEL" => NoDispatch
        BY <1>2, <3>2, <4>1 DEF on_job_result, handle_batch
      <4>4. QED BY <4>2, <4>3 DEF handle_act_reply
    <3>3. QED BY <3>1, <3>2
  <2>4. Followed(owner', owner, cycle_token)
    BY <1>1, <2>2, <2>3, FollowedSelf DEF NoDispatch
  <2>5. QED BY <2>1, <2>4, CallsHandedIn
<1>3. CASE TakeNotice \/ start_cycle
  <2>1. CycleMoves
    BY <1>3 DEF TakeNotice, start_cycle, reasonerVars, StayIdle, AskModel, CycleMoves
  <2>2. \E due : Asks(conn, owner, due)
    <3>1. Asks(conn, owner, TRUE) \/ Asks(conn, owner, FALSE)
      BY <1>3 DEF TakeNotice, start_cycle, Asks
    <3>2. QED BY <3>1
  <2>3. Followed(owner', owner, cycle_token)
    BY <1>1, <2>2, PresenceAsked
  <2>4. QED BY <2>1, <2>3, CallsHandedIn
<1>4. QED BY <1>2, <1>3

\* A callback completes an open call, of the present cycle if it is of one.
LEMMA CompleteStep ==
  ASSUME CoreInv, CoreInv', RunCallback
  PROVE  \E c \in DOMAIN owner : Callbacks!Complete(c)
<1>. DEFINE id == Head(to_run).id
            o == owner[id]
<1>1. pc = "callbacks" /\ to_run # <<>> /\ owner' = Ran(id)
  BY DEF RunCallback
<1>2. OpenIn(owner, id)
  BY <1>1, FirstCallback DEF CoreInv
<1>3. CycleMoves
  <2>1. cycle_token' = cycle_token \/ \E c : maybe_finish_tool_round(c)
    BY DEF RunCallback, reasonerVars
  <2>2. QED BY <2>1, RoundMoves DEF CycleMoves
<1>. HIDE DEF id
<1>4. id \in DOMAIN owner /\ o.state = "open"
  BY <1>2 DEF OpenIn
<1>5. o.kind = "slot" => o.token = cycle_token
  BY <1>2 DEF CoreInv, SlotsInv, RoundOK
<1>6. owner' = [owner EXCEPT ![id].state = "ran"]
  BY <1>1, <1>4 DEF Ran
<1>7. Callbacks!Complete(id)
  BY <1>3, <1>4, <1>5, <1>6, CycleTurns DEF Callbacks!Complete, Callbacks!Open, Callbacks!OfCycle
<1>8. QED BY <1>4, <1>7

\* Another profile is loaded: the cycle is given up with exactly its open calls.
LEMMA AbandonStep ==
  ASSUME CoreInv, CoreInv', NEW p \in Profile, LearnProfile(p)
  PROVE  Callbacks!Abandon
<1>. DEFINE u == Underway
            os == Forgotten(owner, u)
            old == [c \in DOMAIN owner |-> IF owner[c].state = "open" /\ owner[c].kind = "slot"
                                           THEN [owner[c] EXCEPT !.state = "abandoned"] ELSE owner[c]]
<1>1. u \in Seq(CallId) /\ \A x : InSeq(u, x) <=> OpenIn(owner, x) /\ owner[x].kind = "slot"
  BY UnderwayCalls
<1>2. owner \in Seq(Owner)
  BY DEF CoreInv, CallsOK, CallsInv
<1>3. (\E cs, due : Asks(cs, os, due)) /\ cycle_token' \in {cycle_token, cycle_token + 1} /\ cyc' = NoCycle
  <2>1. Asks(Abandoned(conn, u), os, TRUE) \/ Asks(Abandoned(conn, u), os, FALSE)
    BY DEF LearnProfile, Asks
  <2>2. QED BY <2>1 DEF LearnProfile, abandon_cycle
<1>. HIDE DEF u
<1>4. \A x : x \in ToSet(u) <=> InSeq(u, x)
  BY DEF ToSet, InSeq
<1>5. os = old
  BY <1>1, <1>4 DEF Forgotten, OpenIn
<1>6. os \in Seq(Owner)
  BY <1>1, <1>2, OwnersForget
<1>7. DOMAIN os = DOMAIN owner /\ Len(os) = Len(owner)
  <2>1. DOMAIN os = DOMAIN owner
    BY DEF Forgotten
  <2>2. Len(os) \in Nat /\ Len(owner) \in Nat /\ DOMAIN os = 1 .. Len(os) /\ DOMAIN owner = 1 .. Len(owner)
    BY <1>2, <1>6, LenProperties
  <2>. HIDE DEF os
  <2>3. \A m \in Nat : Cardinality(1 .. m) = m
    BY FS_Interval
  <2>4. QED BY <2>1, <2>2, <2>3
<1>. HIDE DEF os
<1>8. Followed(owner', os, cycle_token)
  BY <1>3, <1>6, PresenceAsked
<1>9. Callbacks!Follow(old)
  BY <1>5, <1>7, <1>8 DEF Followed, Callbacks!Follow, Callbacks!Open, Callbacks!OfCycle
<1>10. ~Callbacks!Waits'
  <2>1. RoundOK(<<>>, {}, owner', cycle_token')
    BY <1>3, NoCycleIdle DEF CoreInv, SlotsInv
  <2>2. NoSlotOpen(owner')
    <3>1. \A i \in DOMAIN <<>> : FALSE
      OBVIOUS
    <3>2. QED BY <2>1, <3>1, RoundOver
  <2>3. QED BY <2>2 DEF Callbacks!Waits, Callbacks!Open, Callbacks!OfCycle, NoSlotOpen, OpenIn
<1>11. QED BY <1>3, <1>9, <1>10 DEF Callbacks!Abandon, Callbacks!Open, Callbacks!OfCycle

\* Every step of the server is one of the service's, or changes nothing there.
LEMMA CallbackNext ==
  ASSUME CoreInv, CoreInv', [Next]_vars
  PROVE  [Callbacks!Next]_(Callbacks!vars)
<1>1. CASE on_job_result \/ TakeNotice \/ start_cycle
  BY <1>1, HandInStep DEF Callbacks!Next
<1>2. CASE RunCallback
  BY <1>2, CompleteStep DEF Callbacks!Next
<1>3. CASE \E p \in Profile : LearnProfile(p)
  BY <1>3, AbandonStep DEF Callbacks!Next
<1>4. CASE Crash
  BY <1>4 DEF Crash, Callbacks!Next, Callbacks!Restart
<1>5. CASE UNCHANGED <<owner, cycle_token>>
  BY <1>5 DEF Callbacks!vars
<1>6. CASE Apart
  BY <1>6, <1>5, ApartKeeps DEF reasonerVars
<1>7. CASE Worker \/ Shutdown \/ TakeJobResult \/ ServiceSweep
  BY <1>7, <1>5 DEF Worker, Shutdown, TakeJobResult, ServiceSweep, Reading, reasonerVars, loopVars
<1>8. CASE \E p \in Peer : ReadQuiet(p) \/ ReadRegistration(p) \/ ReadPresence(p) \/ CallOverdue(p)
  BY <1>8, <1>5 DEF ReadQuiet, ReadRegistration, ReadPresence, CallOverdue, Reading, reasonerVars, loopVars
<1>9. CASE UNCHANGED vars
  BY <1>9, <1>5 DEF vars, reasonerVars, loopVars
<1>10. QED BY <1>1, <1>2, <1>3, <1>4, <1>6, <1>7, <1>8, <1>9, NextParts

-----------------------------------------------------------------------------
(* The subconscious server, whatever olli, the tools, the models and the     *)
(* clock do and however often it is killed.                                  *)

SubconInv == CoreInv /\ NotesInv /\ RunsInv /\ AllowanceKept

\* A process that starts for the first time satisfies the whole of it.
LEMMA SubconInitInv == Init => SubconInv
<1>. SUFFICES ASSUME Init PROVE SubconInv
  OBVIOUS
<1>1. CoreInv
  BY StartedCore DEF Init, Started
<1>2. acts = {} /\ handed = <<>> /\ handing = <<>> /\ now = 1 /\ ~loaded /\ ~Acting /\ tracker.last_arrival = 0
  BY DEF Init, Acting, NoCycle, loaded, NewTracker
<1>3. IsFiniteSet(acts)
  BY <1>2, FS_EmptySet
<1>4. DiskOK(disk) /\ \A p \in Profile : disk[p].queue = <<>> /\ disk[p].runs = EmptyRun
  <2>1. EmptyRun \in Runs /\ <<>> \in Seq(Note)
    BY EmptySeq DEF EmptyRun, Runs
  <2>2. [runs |-> EmptyRun, queue |-> <<>>] \in State
    BY <2>1 DEF State
  <2>3. QED BY <2>2 DEF Init, DiskOK
<1>5. StoreOK
  BY <1>2, <1>3, <1>4 DEF StoreOK, Numbered
<1>6. \A n, p : Owes(<<>>, n) => Has(<<>>, n)
  BY DEF Owes, Has
<1>7. <<>> \in Seq(Given) /\ Distinct(<<>>) /\ OnePerAct(<<>>) /\ \A x : ~InSeq(<<>>, x)
  BY NoElement, EmptyList DEF Tidy
<1>8. QueuesOK /\ HandingOK /\ ActUntold
  BY <1>2, <1>4, <1>6, <1>7, EmptyList DEF QueuesOK, HandingOK, ActUntold
<1>9. RunsInv
  <2>. SUFFICES ASSUME NEW p \in Profile, NEW t \in Task PROVE Counted(Of(acts, p, t), disk[p].runs[t], now)
    BY DEF RunsInv
  <2>1. Of(acts, p, t) = {} /\ disk[p].runs[t] = <<>>
    BY <1>2, <1>4 DEF Of, EmptyRun
  <2>2. \A x \in Int : Len(Since(<<>>, x)) \in Nat
    BY EmptySeq, SinceTyped
  <2>3. \A x : {a \in {} : a.at >= x} = {}
    OBVIOUS
  <2>4. Cardinality({}) = 0
    BY FS_EmptySet
  <2>5. QED BY <1>7, <2>1, <2>2, <2>3, <2>4 DEF Counted
<1>10. AllowanceKept
  BY <1>2 DEF AllowanceKept
<1>11. QED BY <1>1, <1>5, <1>8, <1>9, <1>10 DEF SubconInv, NotesInv

\* The whole of it is kept by every step.
LEMMA SubconNextInv ==
  ASSUME SubconInv, [Next]_vars
  PROVE  SubconInv'
<1>1. CoreInv /\ NotesInv /\ RunsInv /\ AllowanceKept /\ IsFiniteSet(acts)
  BY DEF SubconInv, NotesInv, StoreOK, Numbered
<1>2. QED BY <1>1, CoreNext, NotesNext, RunsNext, AllowanceNext DEF SubconInv

\* The invariant holds throughout, for every list of tasks, tools and profiles and
\* every bound: calls, the round, the job, the notes and the runs agree.
THEOREM SubconInvariant == SubconSpec => []SubconInv
<1>1. Init => SubconInv
  BY SubconInitInv
<1>2. SubconInv /\ [Next]_vars => SubconInv'
  BY SubconNextInv
<1> QED BY <1>1, <1>2, PTL DEF SubconSpec

\* Every call handed to the tool server is in exactly one place until its callback
\* has run or it was abandoned, and in none after (tool_server.hpp:26): none is lost
\* with a connection, and none is answered twice.
THEOREM CallsAnsweredOnce == SubconSpec => []CallsOnce
<1>1. SubconInv => CallsOnce
  BY CoreCallsOnce DEF SubconInv
<1> QED BY <1>1, SubconInvariant, PTL

\* A cycle's callback always finds the cycle, the round and the unanswered slot it
\* was made for (reasoner.cpp, dispatch_calls()): an abandoned cycle leaves none.
THEOREM CallbacksFit == SubconSpec => []CallbackFits
<1>1. SubconInv => CallbackFits
  BY CoreCallbackFits DEF SubconInv
<1> QED BY <1>1, SubconInvariant, PTL

\* A cycle never waits for something that is not on its way: its job is in the
\* worker's pipeline, or every slot without an answer has its open call, and the
\* worker is free when the calls have come back (reasoner.cpp:987).
THEOREM AnswersUnderWay == SubconSpec => []AnswerUnderWay
<1>1. SubconInv => AnswerUnderWay
  BY CoreAnswerUnderWay DEF SubconInv
<1> QED BY <1>1, SubconInvariant, PTL

\* No note is handed to olli twice, and none under another profile than the one
\* whose task found it, whatever switches, kills and lost digests come between
\* (subcon.cpp, the pull; reasoner.cpp, handle_finding() and activate_profile()).
THEOREM NotesSafe == SubconSpec => []NotesKept
<1>1. SubconInv => NotesKept
  BY NotesNotesKept DEF SubconInv
<1> QED BY <1>1, SubconInvariant, PTL

\* No task is acted on more often than its window allows or sooner than its gap,
\* whatever fails, is abandoned or is killed in between (reasoner.cpp:765): every act
\* has its run on disk before the model is asked.
THEOREM AllowancesKept == SubconSpec => []AllowanceKept
<1>1. SubconInv => AllowanceKept
  BY DEF SubconInv
<1> QED BY <1>1, SubconInvariant, PTL

\* A job the reasoner or the shutdown aborted before its end does not come to its
\* end, with the worker driven by the real main loop (job_worker.cpp:21).
THEOREM AbortsCut == SubconSpec => []AbortedIsCut
<1>1. SubconInv => AbortedIsCut
  BY DEF SubconInv, CoreInv, JobInv
<1> QED BY <1>1, SubconInvariant, PTL

\* The tool server keeps its promise to the cycles (tool_server.hpp:26) and they keep
\* theirs: a call completes at most once, in the cycle that made it, unless it was abandoned,
\* and what became of it is final until the process is restarted.
THEOREM CallbacksServed == SubconSpec => Callbacks!Spec
<1>1. Init => Callbacks!Init
  BY DEF Init, Callbacks!Init
<1>2. SubconInv /\ SubconInv' /\ [Next]_vars => [Callbacks!Next]_(Callbacks!vars)
  BY CallbackNext DEF SubconInv
<1> QED BY <1>1, <1>2, SubconInvariant, PTL DEF SubconSpec, Callbacks!Spec

=============================================================================
