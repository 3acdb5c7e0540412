-------------------------- MODULE ToolWorkerProofs --------------------------
(* Proofs about ToolWorker: type correctness, and the inductive invariant   *)
(* from which its safety properties follow.                                *)
EXTENDS ToolWorker, SequenceTheorems, TLAPS

USE NameOfAssumption, NoneAssumption, BackgroundAssumption, BoundsAssumption

-----------------------------------------------------------------------------
(* Type correctness: one lemma per group of actions.                       *)

LEMMA CallerType ==
  ASSUME TypeOK,
         \/ \E i \in Instances, c \in Calls : \/ PutPendingCall(i, c)
                                            \/ GetPendingResult(i, c)
                                            \/ AbandonCall(i, c)
         \/ \E i \in Instances : FinishInstance(i)
         \/ GetPendingEvent
  PROVE  TypeOK'
<1>1. ASSUME NEW i \in Instances, NEW c \in Calls, PutPendingCall(i, c)
      PROVE  TypeOK'
  BY <1>1 DEF PutPendingCall, TypeOK, remoteVars
<1>2. ASSUME NEW i \in Instances, NEW c \in Calls, GetPendingResult(i, c)
      PROVE  TypeOK'
  BY <1>2 DEF GetPendingResult, TakenResult, TypeOK, remoteVars
<1>3. ASSUME NEW i \in Instances, NEW c \in Calls, AbandonCall(i, c)
      PROVE  TypeOK'
  BY <1>3 DEF AbandonCall, TypeOK, remoteVars
<1>4. ASSUME NEW i \in Instances, FinishInstance(i)  PROVE TypeOK'
  BY <1>4 DEF FinishInstance, TypeOK, workerVars, remoteVars
<1>5. CASE GetPendingEvent
  BY <1>5 DEF GetPendingEvent, EventQueued, TypeOK, remoteVars, callerVars
<1>6. QED BY <1>1, <1>2, <1>3, <1>4, <1>5

LEMMA PeerType ==
  ASSUME TypeOK,
         \/ \E k \in Conns, c \in Calls : PeerResult(k, c)
         \/ \E k \in Conns : PeerEvent(k)
         \/ TimePasses
  PROVE  TypeOK'
<1>1. ASSUME NEW k \in Conns, NEW c \in Calls, PeerResult(k, c)  PROVE TypeOK'
  BY <1>1 DEF PeerResult, TypeOK, workerVars, callerVars, Line
<1>2. ASSUME NEW k \in Conns, PeerEvent(k)  PROVE TypeOK'
  BY <1>2 DEF PeerEvent, TypeOK, workerVars, callerVars, Line
<1>3. CASE TimePasses
  BY <1>3 DEF TimePasses, TypeOK, workerVars, remoteVars, callerVars
<1>4. QED BY <1>1, <1>2, <1>3

LEMMA PollType ==
  ASSUME TypeOK, NEW k \in Conns, Poll(k)
  PROVE  TypeOK'
<1>1. CASE conn[k] # "open"
  BY <1>1 DEF Poll, TypeOK, callerVars, Conns
<1>2. CASE conn[k] = "open"
  <2>1. PICK m \in NextLine(k) : PollLine(k, m)
    BY <1>2 DEF Poll, PollCommunications
  <2>2. m \in Line \cup {None} /\ (m # None => wire[k] # <<>>)
    BY DEF NextLine, TypeOK
  <2>3. /\ wire' \in [Conns -> Seq(Line)]
        /\ pending_results' \in [Calls -> Seq(Verdict)]
        /\ landed' \in [Calls -> Seq(Verdict)]
        /\ pending_events' \in Nat
    BY <2>1, <2>2 DEF PollLine, Hear, TypeOK, Verdict
  <2>4. /\ awaiting_call_id' \in [Conns -> Calls \cup {None}]
        /\ pending_calls' \subseteq Calls
        /\ delivered' \subseteq Calls
        /\ conn' \in [Conns -> {"unborn", "open", "closed", "erased"}]
    BY <2>1 DEF PollLine, Send, Mine, MarkDead, TypeOK
  <2>5. /\ pc' \in {"sleep", "poll", "sweep"}
        /\ cursor' \in Nat
        /\ UNCHANGED <<abandoned_call_ids, call_deadlines,
                       registered_tool_defs, stamp, clock, overdue, tool_defs,
                       instance, outstanding, claimed>>
    BY DEF Poll, TypeOK, callerVars, Conns
  <2>6. QED
    BY <2>3, <2>4, <2>5 DEF TypeOK
<1>3. QED BY <1>1, <1>2

LEMMA TickType ==
  ASSUME TypeOK, BeginTick \/ EndTick
  PROVE  TypeOK'
<1>1. CASE BeginTick
  <2>1. /\ conn' \in [Conns -> {"unborn", "open", "closed", "erased"}]
        /\ tool_defs' \in [Conns -> SUBSET Names]
    <3>1. CASE Register
      <4>1. PICK k \in Conns, defs \in SUBSET Names, fd \in {"open", "closed"} :
              /\ conn' = [conn EXCEPT ![k] = fd]
              /\ tool_defs' = [tool_defs EXCEPT ![k] = defs]
        BY <3>1 DEF Register
      <4>2. QED BY <4>1 DEF TypeOK
    <3>2. CASE UNCHANGED <<conn, tool_defs>>
      BY <3>2 DEF TypeOK
    <3>3. QED BY <1>1, <3>1, <3>2 DEF BeginTick
  <2>2. pc' \in {"sleep", "poll", "sweep"} /\ cursor' \in Nat
    BY <1>1 DEF BeginTick
  <2>3. UNCHANGED <<pending_calls, pending_results, pending_events,
                    abandoned_call_ids, call_deadlines, registered_tool_defs,
                    stamp, clock, overdue, awaiting_call_id, wire, delivered,
                    instance, outstanding, claimed, landed>>
    BY <1>1 DEF BeginTick, workerVars, callerVars
  <2>4. QED
    BY <2>1, <2>2, <2>3 DEF TypeOK
<1>2. CASE EndTick
  <2>1. /\ pending_results' \in [Calls -> Seq(Verdict)]
        /\ landed' \in [Calls -> Seq(Verdict)]
    BY <1>2 DEF EndTick, WithTimeouts, TypeOK, Verdict
  <2>2. /\ conn' \in [Conns -> {"unborn", "open", "closed", "erased"}]
        /\ tool_defs' \in [Conns -> SUBSET Names]
        /\ awaiting_call_id' \in [Conns -> Calls \cup {None}]
        /\ wire' \in [Conns -> Seq(Line)]
    BY <1>2 DEF EndTick, TypeOK
  <2>3. /\ call_deadlines' \subseteq Calls
        /\ pending_calls' \subseteq Calls
        /\ abandoned_call_ids' \subseteq Calls
        /\ registered_tool_defs' \subseteq Names
        /\ pc' \in {"sleep", "poll", "sweep"}
        /\ cursor' \in Nat
    BY <1>2 DEF EndTick, DeadlinesLeft, Unanswered, StillQueued, TypeOK
  <2>4. UNCHANGED <<pending_events, stamp, clock, overdue, delivered,
                    instance, outstanding, claimed>>
    BY <1>2 DEF EndTick, callerVars
  <2>5. QED
    BY <2>1, <2>2, <2>3, <2>4 DEF TypeOK
<1>3. QED BY <1>1, <1>2

LEMMA StutterType == TypeOK /\ UNCHANGED vars => TypeOK'
BY DEF TypeOK, vars, workerVars, remoteVars, callerVars

-----------------------------------------------------------------------------
(* The inductive invariant: one lemma per action that changes what it is    *)
(* about. TypeOK' is a hypothesis of each, TypeCorrect's lemmas give it.     *)

\* What Append does to the histories of at most one verdict.
LEMMA AppendShort ==
  ASSUME NEW x \in Verdict, NEW y \in Verdict
  PROVE  Append(<<>>, x) = <<x>> /\ Append(<<x>>, y) = <<x, y>>
<1>1. <<x>> \in Seq(Verdict) /\ Len(<<x>>) = 1 /\ <<x>>[1] = x
  OBVIOUS
<1>2. /\ Append(<<x>>, y) \in Seq(Verdict) /\ Len(Append(<<x>>, y)) = 2
      /\ Append(<<x>>, y)[1] = x /\ Append(<<x>>, y)[2] = y
  BY <1>1, AppendProperties
<1>3. /\ <<x, y>> \in Seq(Verdict) /\ Len(<<x, y>>) = 2
      /\ <<x, y>>[1] = x /\ <<x, y>>[2] = y
  OBVIOUS
<1>4. \A n \in 1 .. 2 : Append(<<x>>, y)[n] = <<x, y>>[n]
  <2>1. \A n \in 1 .. 2 : n = 1 \/ n = 2
    OBVIOUS
  <2>2. QED BY <2>1, <1>2, <1>3
<1>5. Append(<<>>, x) = <<x>>
  OBVIOUS
<1>6. QED BY <1>2, <1>3, <1>4, <1>5, SeqEqual

LEMMA HeadShort ==
  ASSUME NEW x \in Verdict, NEW y \in Verdict
  PROVE  /\ <<x>> # <<>> /\ Head(<<x>>) = x
         /\ <<x, y>> # <<>> /\ Head(<<x, y>>) = x
<1>1. Len(<<x>>) = 1 /\ Len(<<x, y>>) = 2 /\ <<x>>[1] = x /\ <<x, y>>[1] = x
  OBVIOUS
<1>2. <<x>> \in Seq(Verdict) /\ <<x, y>> \in Seq(Verdict)
  OBVIOUS
<1>3. QED BY <1>1, <1>2

LEMMA InitIInv == Init => IInv
BY DEF Init, IInv, TypeOK, FreshInv, QueuedInv, FlightInv, DeadlineInv,
       LandedInv, OwnerInv, PromiseInv, NoTimeoutAfterAnswer, Accounted,
       Outstanding, Conns

\* A dispatched call is fresh: only its own entries change.
LEMMA PutIInv ==
  ASSUME IInv, TypeOK', NEW i \in Instances, NEW c \in Calls,
         PutPendingCall(i, c)
  PROVE  IInv'
<1>. USE DEF IInv
<1>1. /\ stamp'[c] # 0
      /\ \A d \in Calls \ {c} : stamp'[d] = stamp[d]
      /\ \A d \in Calls \ {c} : Outstanding(d)' <=> Outstanding(d)
      /\ ~Outstanding(c)
  BY DEF PutPendingCall, TypeOK, FreshInv, Outstanding
<1>2. UNCHANGED <<pending_results, abandoned_call_ids, awaiting_call_id,
                  delivered, claimed, landed, pc>>
  BY DEF PutPendingCall, remoteVars
<1>3. FreshInv'
  BY <1>1, <1>2 DEF PutPendingCall, FreshInv
<1>4. QueuedInv'
  BY <1>2 DEF PutPendingCall, QueuedInv, FreshInv
<1>5. FlightInv'
  BY <1>2 DEF FlightInv
<1>6. DeadlineInv'
  BY <1>2 DEF PutPendingCall, DeadlineInv, FreshInv
<1>7. LandedInv' /\ NoTimeoutAfterAnswer'
  BY <1>2 DEF LandedInv, NoTimeoutAfterAnswer
<1>8. OwnerInv'
  BY <1>1, <1>2 DEF PutPendingCall, OwnerInv, TypeOK, FreshInv, Outstanding
<1>9. Accounted'
  BY <1>1, <1>2 DEF PutPendingCall, Accounted
<1>10. PromiseInv'
  BY <1>1, <1>2 DEF PutPendingCall, PromiseInv, FreshInv, Outstanding, TypeOK
<1>11. QED BY <1>3, <1>4, <1>5, <1>6, <1>7, <1>8, <1>9, <1>10

\* The claimed call had a result, so its deadline was already dropped; it has
\* one dispatcher, so nobody else waits for it.
LEMMA ClaimIInv ==
  ASSUME IInv, TypeOK', NEW i \in Instances, NEW c \in Calls,
         GetPendingResult(i, c)
  PROVE  IInv'
<1>. USE DEF IInv
<1>1. UNCHANGED <<pending_calls, abandoned_call_ids, call_deadlines, stamp,
                  awaiting_call_id, delivered, landed, pc>>
  BY DEF GetPendingResult, TakenResult, remoteVars
<1>2. /\ \A d \in Calls \ {c} : pending_results'[d] = pending_results[d]
      /\ \A d \in Calls \ {c} : Outstanding(d)' <=> Outstanding(d)
      /\ \A d \in Calls \ {c} : claimed'[d] = claimed[d]
      /\ ~Outstanding(c)'
      /\ c \notin abandoned_call_ids
      /\ c \notin call_deadlines
      /\ stamp[c] # 0
  BY DEF GetPendingResult, TakenResult, LockFree, TypeOK, OwnerInv, Outstanding,
         DeadlineInv, FreshInv
<1>3. FreshInv'
  BY <1>1, <1>2 DEF FreshInv
<1>4. QueuedInv' /\ FlightInv' /\ NoTimeoutAfterAnswer'
  BY <1>1 DEF QueuedInv, FlightInv, NoTimeoutAfterAnswer
<1>5. DeadlineInv'
  BY <1>1, <1>2 DEF DeadlineInv, TypeOK
<1>6. LandedInv'
  BY <1>1, <1>2 DEF GetPendingResult, TakenResult, LandedInv
<1>7. OwnerInv'
  BY <1>1 DEF GetPendingResult, TakenResult, OwnerInv, TypeOK
<1>8. Accounted'
  BY <1>1, <1>2 DEF Accounted
<1>9. PromiseInv'
  BY <1>1, <1>2 DEF GetPendingResult, TakenResult, PromiseInv, LandedInv
<1>10. QED BY <1>3, <1>4, <1>5, <1>6, <1>7, <1>8, <1>9

LEMMA AbandonIInv ==
  ASSUME IInv, TypeOK', NEW i \in Instances, NEW c \in Calls,
         AbandonCall(i, c)
  PROVE  IInv'
<1>. USE DEF IInv
<1>1. UNCHANGED <<pending_calls, pending_results, call_deadlines, stamp,
                  awaiting_call_id, delivered, claimed, landed, pc>>
  BY DEF AbandonCall, remoteVars
<1>2. /\ \A d \in Calls : Outstanding(d)' => Outstanding(d)
      /\ Outstanding(c)
      /\ stamp[c] # 0
  BY DEF AbandonCall, TypeOK, Outstanding, FreshInv
<1>3. FreshInv'
  BY <1>1, <1>2 DEF AbandonCall, FreshInv
<1>4. /\ QueuedInv' /\ FlightInv' /\ DeadlineInv' /\ LandedInv'
      /\ NoTimeoutAfterAnswer'
  BY <1>1 DEF QueuedInv, FlightInv, DeadlineInv, LandedInv,
              NoTimeoutAfterAnswer
<1>5. OwnerInv'
  BY DEF AbandonCall, OwnerInv, TypeOK
<1>6. Accounted'
  BY <1>1, <1>2 DEF AbandonCall, Accounted
<1>7. PromiseInv'
  <2>1. \A d \in Calls : Outstanding(d) => Outstanding(d)' \/ d = c
    BY DEF AbandonCall, Outstanding, TypeOK
  <2>2. QED BY <1>1, <1>2, <2>1 DEF AbandonCall, PromiseInv
<1>8. QED BY <1>3, <1>4, <1>5, <1>6, <1>7

\* Steps that leave the calls alone: peers, time, events, the start of a
\* tick, PART 2's decision to erase an instance.
LEMMA OtherIInv ==
  ASSUME IInv, TypeOK',
         \/ \E k \in Conns, c \in Calls : PeerResult(k, c)
         \/ \E k \in Conns : PeerEvent(k)
         \/ TimePasses \/ GetPendingEvent \/ BeginTick
         \/ \E i \in Instances : FinishInstance(i)
         \/ UNCHANGED vars
  PROVE  IInv'
<1>. USE DEF IInv
<1>1. UNCHANGED <<pending_calls, pending_results, abandoned_call_ids,
                  call_deadlines, stamp, awaiting_call_id, delivered,
                  outstanding, claimed, landed>>
  BY DEF PeerResult, PeerEvent, TimePasses, GetPendingEvent, BeginTick,
         FinishInstance, vars, workerVars, remoteVars, callerVars
<1>2. pc' = pc \/ pc = "sleep"
  BY DEF PeerResult, PeerEvent, TimePasses, GetPendingEvent, BeginTick,
         FinishInstance, vars
<1>3. \A d \in Calls : Outstanding(d)' <=> Outstanding(d)
  BY <1>1 DEF Outstanding
<1>4. FreshInv' /\ Accounted' /\ PromiseInv'
  BY <1>1, <1>3 DEF FreshInv, Accounted, PromiseInv
<1>5. QueuedInv' /\ FlightInv' /\ LandedInv' /\ OwnerInv' /\ NoTimeoutAfterAnswer'
  BY <1>1 DEF QueuedInv, FlightInv, LandedInv, OwnerInv, NoTimeoutAfterAnswer
<1>6. DeadlineInv'
  BY <1>1, <1>2 DEF DeadlineInv
<1>7. QED BY <1>4, <1>5, <1>6

\* One call of poll_communications: the line read may resolve the call in
\* flight, and the oldest queued call may take its place.
LEMMA PollIInv ==
  ASSUME IInv, TypeOK', NEW k \in Conns, Poll(k)
  PROVE  IInv'
<1>. USE DEF IInv
<1>1. UNCHANGED <<abandoned_call_ids, call_deadlines, stamp, outstanding,
                  claimed>>
  BY DEF Poll, callerVars
<1>2. pc = "poll" /\ pc' # "sleep"
  BY DEF Poll
<1>3. \A d \in Calls : Outstanding(d)' <=> Outstanding(d)
  BY <1>1 DEF Outstanding
<1>4. CASE conn[k] # "open"
  <2>1. UNCHANGED <<pending_calls, pending_results, awaiting_call_id,
                    delivered, landed>>
    BY <1>4 DEF Poll
  <2>2. /\ FreshInv' /\ QueuedInv' /\ FlightInv' /\ LandedInv' /\ OwnerInv'
        /\ NoTimeoutAfterAnswer' /\ Accounted' /\ PromiseInv'
    BY <1>1, <1>3, <2>1 DEF FreshInv, QueuedInv, FlightInv, LandedInv,
                  OwnerInv, NoTimeoutAfterAnswer, Accounted, PromiseInv
  <2>3. DeadlineInv'
    BY <1>1, <1>2, <2>1 DEF DeadlineInv
  <2>4. QED BY <2>2, <2>3
<1>5. CASE conn[k] = "open"
  <2>. DEFINE a == awaiting_call_id[k]
  <2>1. PICK m \in NextLine(k) : PollLine(k, m)
    BY <1>5 DEF Poll, PollCommunications
  \* What the line did: the call in flight was answered, or nothing changed.
  <2>2. \/ /\ a # None /\ a \in Calls
           /\ pending_results' = [pending_results EXCEPT ![a] = Append(@, Answer)]
           /\ landed' = [landed EXCEPT ![a] = Append(@, Answer)]
           /\ awaiting_call_id'[k] # a
        \/ UNCHANGED <<pending_results, landed>>
    <3>1. CASE m \in Calls /\ m = a
      <4>1. /\ pending_results' = [pending_results EXCEPT ![a] = Append(@, Answer)]
            /\ landed' = [landed EXCEPT ![a] = Append(@, Answer)]
        BY <2>1, <3>1 DEF PollLine, Hear
      <4>2. a \in delivered
        BY <3>1 DEF FlightInv
      <4>3. awaiting_call_id'[k] # a
        BY <2>1, <3>1, <4>2 DEF PollLine, Send, Mine, QueuedInv, TypeOK
      <4>4. QED BY <3>1, <4>1, <4>3
    <3>2. CASE ~(m \in Calls /\ m = a)
      BY <2>1, <3>2 DEF PollLine, Hear
    <3>3. QED BY <3>1, <3>2
  \* What was sent: a queued call, or nothing.
  <2>3. \/ \E c \in pending_calls :
             /\ pending_calls' = pending_calls \ {c}
             /\ delivered' = delivered \cup {c}
             /\ awaiting_call_id' = [awaiting_call_id EXCEPT ![k] = c]
        \/ /\ UNCHANGED <<pending_calls, delivered>>
           /\ awaiting_call_id'[k] \in {None, a}
           /\ \A j \in Conns \ {k} : awaiting_call_id'[j] = awaiting_call_id[j]
    <3>1. CASE \E c \in Mine(k) :
                 Send(k, c) /\ awaiting_call_id' = [awaiting_call_id EXCEPT ![k] = c]
      BY <3>1 DEF Send, Mine
    <3>2. CASE /\ UNCHANGED <<pending_calls, delivered>>
               /\ \E b \in {None, a} :
                    awaiting_call_id' = [awaiting_call_id EXCEPT ![k] = b]
      BY <3>2 DEF TypeOK
    <3>3. QED BY <2>1, <3>1, <3>2 DEF PollLine, MarkDead
  <2>4. \A d \in Calls :
          \/ landed'[d] = landed[d] /\ pending_results'[d] = pending_results[d]
          \/ /\ d = a /\ a # None /\ awaiting_call_id'[k] # a
             /\ landed'[d] = Append(landed[d], Answer) /\ landed'[d] # <<>>
             /\ pending_results'[d] = Append(pending_results[d], Answer)
             /\ pending_results'[d] # <<>>
    <3>1. Answer \in Verdict
      BY DEF Verdict
    <3>2. \A s \in Seq(Verdict) : Append(s, Answer) # <<>>
      BY <3>1, AppendProperties
    <3>3. CASE UNCHANGED <<pending_results, landed>>
      BY <3>3
    <3>4. CASE /\ a # None /\ a \in Calls /\ awaiting_call_id'[k] # a
               /\ pending_results' = [pending_results EXCEPT ![a] = Append(@, Answer)]
               /\ landed' = [landed EXCEPT ![a] = Append(@, Answer)]
      <4>1. landed[a] \in Seq(Verdict) /\ pending_results[a] \in Seq(Verdict)
        BY <3>4 DEF TypeOK
      <4>2. /\ landed'[a] = Append(landed[a], Answer)
            /\ pending_results'[a] = Append(pending_results[a], Answer)
            /\ \A d \in Calls \ {a} : /\ landed'[d] = landed[d]
                                     /\ pending_results'[d] = pending_results[d]
        BY <3>4 DEF TypeOK
      <4>3. QED BY <3>2, <3>4, <4>1, <4>2
    <3>5. QED BY <2>2, <3>3, <3>4
  <2>5. FreshInv'
    BY <1>1, <1>3, <2>3, <2>4 DEF FreshInv, FlightInv
  <2>6. QueuedInv'
    BY <1>1, <2>3, <2>4 DEF QueuedInv, FlightInv, TypeOK
  <2>7. FlightInv'
    <3>. SUFFICES ASSUME NEW j \in Conns, awaiting_call_id'[j] # None
                  PROVE  /\ awaiting_call_id'[j] \in delivered'
                         /\ landed'[awaiting_call_id'[j]] \in {<<>>, <<Timeout>>}
                         /\ \A h \in Conns \ {j} :
                              awaiting_call_id'[h] # awaiting_call_id'[j]
      BY DEF FlightInv
    <3>1. awaiting_call_id'[j] \in delivered'
      BY <2>3 DEF FlightInv, TypeOK
    <3>2. CASE \E c \in pending_calls :
                 awaiting_call_id' = [awaiting_call_id EXCEPT ![k] = c]
      <4>1. PICK c \in pending_calls :
                   awaiting_call_id' = [awaiting_call_id EXCEPT ![k] = c]
        BY <3>2
      <4>2. /\ c \in Calls /\ c \notin delivered /\ landed[c] = <<>>
            /\ \A h \in Conns : awaiting_call_id[h] # c
        BY DEF QueuedInv, FlightInv, TypeOK
      <4>3. landed'[c] = <<>>
        BY <2>4, <4>2
      <4>4. CASE j = k
        BY <3>1, <4>1, <4>2, <4>3, <4>4 DEF TypeOK
      <4>5. CASE j # k
        <5>1. awaiting_call_id'[j] = awaiting_call_id[j]
          BY <4>1, <4>5 DEF TypeOK
        <5>2. awaiting_call_id[j] # a /\ awaiting_call_id[j] \in Calls
          BY <4>5, <5>1 DEF FlightInv, TypeOK
        <5>3. landed'[awaiting_call_id[j]] = landed[awaiting_call_id[j]]
          BY <2>4, <5>2
        <5>4. \A h \in Conns \ {j} : awaiting_call_id'[h] # awaiting_call_id[j]
          BY <4>1, <4>2, <5>1 DEF FlightInv, TypeOK
        <5>5. QED BY <3>1, <5>1, <5>3, <5>4 DEF FlightInv
      <4>6. QED BY <3>1, <4>4, <4>5
    <3>3. CASE /\ awaiting_call_id'[k] \in {None, a}
               /\ \A h \in Conns \ {k} : awaiting_call_id'[h] = awaiting_call_id[h]
      <4>1. awaiting_call_id'[j] = awaiting_call_id[j] /\ awaiting_call_id[j] \in Calls
        BY <3>3 DEF TypeOK
      <4>2. landed'[awaiting_call_id[j]] = landed[awaiting_call_id[j]]
        BY <2>4, <3>3, <4>1 DEF FlightInv
      <4>3. \A h \in Conns \ {j} : awaiting_call_id'[h] # awaiting_call_id[j]
        BY <3>3, <4>1 DEF FlightInv
      <4>4. QED BY <3>1, <4>1, <4>2, <4>3 DEF FlightInv
    <3>4. QED BY <2>3, <3>2, <3>3
  <2>8. DeadlineInv'
    BY <1>1, <1>2, <2>4 DEF DeadlineInv, TypeOK
  <2>9. LandedInv'
    BY <2>4 DEF LandedInv
  <2>10. NoTimeoutAfterAnswer'
    <3>. SUFFICES ASSUME NEW d \in Calls
                  PROVE  landed'[d] \in {<<>>, <<Answer>>, <<Timeout>>, <<Timeout, Answer>>}
      BY DEF NoTimeoutAfterAnswer
    <3>1. CASE landed'[d] = landed[d]
      BY <3>1 DEF NoTimeoutAfterAnswer
    <3>2. CASE d = a /\ a # None /\ landed'[d] = Append(landed[d], Answer)
      <4>1. landed[d] \in {<<>>, <<Timeout>>}
        BY <3>2 DEF FlightInv
      <4>2. Append(<<>>, Answer) = <<Answer>> /\ Append(<<Timeout>>, Answer) = <<Timeout, Answer>>
        BY AppendShort DEF Verdict
      <4>3. QED BY <3>2, <4>1, <4>2
    <3>3. QED BY <2>4, <3>1, <3>2
  <2>11. OwnerInv' /\ Accounted'
    BY <1>1, <1>3, <2>4 DEF OwnerInv, Accounted
  <2>12. PromiseInv'
    BY <1>1, <1>3, <2>4 DEF PromiseInv
  <2>13. QED
    BY <2>5, <2>6, <2>7, <2>8, <2>9, <2>10, <2>11, <2>12
<1>6. QED BY <1>4, <1>5

\* The end of a tick: a call times out only if it has a deadline and no
\* unclaimed result, and DeadlineInv says that it then has no verdict at all.
LEMMA EndTickIInv ==
  ASSUME IInv, TypeOK', EndTick
  PROVE  IInv'
<1>. USE DEF IInv
<1>1. /\ pc = "sweep" /\ pc' = "sleep"
      /\ call_deadlines' = DeadlinesLeft \ Expired
      /\ pending_calls' = pending_calls \ Expired
      /\ abandoned_call_ids' \subseteq abandoned_call_ids
      /\ UNCHANGED <<stamp, delivered, outstanding, claimed>>
  BY DEF EndTick, StillQueued, callerVars
<1>2. \A c \in Expired : c \in Calls /\ landed[c] = <<>> /\ pending_results[c] = <<>>
  BY DEF Expired, DeadlinesLeft, Unanswered, DeadlineInv, TypeOK
<1>3. \A c \in Calls : landed'[c] = IF c \in Expired THEN <<Timeout>> ELSE landed[c]
  BY <1>2, AppendShort DEF EndTick, WithTimeouts, Verdict
<1>4. \A c \in Calls :
        \/ /\ c \in abandoned_call_ids' <=> c \in abandoned_call_ids
           /\ pending_results'[c] = IF c \in Expired THEN <<Timeout>>
                                                     ELSE pending_results[c]
        \/ /\ c \in abandoned_call_ids /\ c \notin abandoned_call_ids'
           /\ c \in Expired \/ pending_results[c] # <<>>
  BY <1>2, AppendShort DEF EndTick, WithTimeouts, Verdict
<1>5. \A c \in Calls : Outstanding(c)' <=> Outstanding(c)
  BY <1>1 DEF Outstanding
<1>6. <<Timeout>> # <<>>
  OBVIOUS
<1>7. FreshInv'
  <2>1. Expired \subseteq call_deadlines /\ DeadlinesLeft \subseteq call_deadlines
    BY DEF Expired, DeadlinesLeft, Unanswered
  <2>2. QED BY <1>1, <1>3, <1>4, <1>5, <2>1 DEF FreshInv
<1>8. QueuedInv'
  BY <1>1, <1>3 DEF DeadlinesLeft, Unanswered, QueuedInv, LandedInv, TypeOK
<1>9. FlightInv'
  <2>1. \A k \in Conns : awaiting_call_id'[k] \in {None, awaiting_call_id[k]}
    BY DEF EndTick
  <2>2. QED BY <1>1, <1>2, <1>3, <2>1 DEF FlightInv, TypeOK
<1>10. DeadlineInv'
  BY <1>1, <1>3, <1>4
     DEF DeadlinesLeft, Unanswered, DeadlineInv, LandedInv, TypeOK
<1>11. LandedInv'
  <2>1. \A c \in Calls : pending_results[c] # <<>> => landed'[c] # <<>>
    BY <1>3, <1>6 DEF LandedInv
  <2>2. \A c \in Calls : c \in Expired => landed'[c] # <<>>
    BY <1>3, <1>6
  <2>3. QED BY <1>4, <2>1, <2>2 DEF LandedInv
<1>12. OwnerInv'
  BY <1>1 DEF OwnerInv
<1>13. NoTimeoutAfterAnswer'
  BY <1>3 DEF NoTimeoutAfterAnswer
<1>14. Accounted'
  <2>1. \A c \in call_deadlines : c \in DeadlinesLeft \/ pending_results[c] # <<>>
    BY DEF DeadlinesLeft, Unanswered
  <2>2. QED BY <1>1, <1>4, <1>5, <1>6, <2>1 DEF Accounted, OwnerInv, Outstanding
<1>15. PromiseInv'
  <2>. SUFFICES ASSUME NEW c \in Calls
                PROVE  /\ Outstanding(c) \/ c \in abandoned_call_ids'
                            => claimed[c] = None /\ pending_results'[c] = landed'[c]
                       /\ stamp[c] # 0 /\ landed'[c] = <<>>
                            => /\ claimed[c] = None
                               /\ Outstanding(c) \/ c \in abandoned_call_ids'
    BY <1>1, <1>5 DEF PromiseInv
  <2>1. CASE c \in abandoned_call_ids' <=> c \in abandoned_call_ids
    <3>1. pending_results'[c] = IF c \in Expired THEN <<Timeout>>
                                                ELSE pending_results[c]
      BY <1>4, <2>1
    <3>2. QED BY <1>2, <1>3, <1>6, <2>1, <3>1 DEF PromiseInv
  <2>2. CASE /\ c \in abandoned_call_ids /\ c \notin abandoned_call_ids'
             /\ c \in Expired \/ pending_results[c] # <<>>
    <3>1. ~Outstanding(c)
      BY <2>2 DEF OwnerInv, Outstanding
    <3>2. landed'[c] # <<>>
      BY <1>3, <1>6, <2>2 DEF LandedInv
    <3>3. QED BY <2>2, <3>1, <3>2
  <2>3. QED BY <1>4, <2>1, <2>2
<1>16. QED
  BY <1>7, <1>8, <1>9, <1>10, <1>11, <1>12, <1>13, <1>14, <1>15

LEMMA NextType == TypeOK /\ [Next]_vars => TypeOK'
BY CallerType, PeerType, PollType, TickType, StutterType DEF Next

LEMMA NextIInv == IInv /\ [Next]_vars => IInv'
<1>1. IInv /\ [Next]_vars => TypeOK'
  BY NextType DEF IInv
<1>2. QED
  BY <1>1, PutIInv, ClaimIInv, AbandonIInv, OtherIInv, PollIInv, EndTickIInv
     DEF Next

-----------------------------------------------------------------------------
(* Theorems.                                                               *)

\* Every variable keeps its type: in particular awaiting_call_id names a call
\* or nothing, and every queue holds verdicts or lines only.
THEOREM TypeCorrect == Spec => []TypeOK
<1>1. Init => TypeOK
  BY DEF Init, TypeOK, Conns
<1>2. QED BY <1>1, NextType, PTL DEF Spec

\* The invariant holds for any number of instances, calls and connections.
THEOREM Invariance == Spec => []IInv
BY InitIInv, NextIInv, PTL DEF Spec

\* Nobody waits for nothing: a call that is waited for has a running deadline
\* or a result, whatever connections came and went.
THEOREM AccountedHolds == Spec => []Accounted
<1>1. IInv => Accounted
  BY DEF IInv
<1>2. QED BY <1>1, Invariance, PTL

\* A call is answered at most once and never times out after its answer.
THEOREM OneAnswer == Spec => []NoTimeoutAfterAnswer
<1>1. IInv => NoTimeoutAfterAnswer
  BY DEF IInv
<1>2. QED BY <1>1, Invariance, PTL

\* No call is sent to a second connection, or sent at all once its dispatcher
\* can have been given a verdict for it.
THEOREM AtMostOneExecution == Spec => NeverRedispatched
<1>1. IInv /\ [Next]_vars => [TakenOnce]_vars
  <2>. SUFFICES ASSUME IInv, Next  PROVE TakenOnce
    BY DEF TakenOnce, vars, remoteVars
  <2>1. ASSUME NEW k \in Conns, Poll(k)  PROVE TakenOnce
    BY <2>1 DEF Poll, PollCommunications, PollLine, Send, Mine, TakenOnce,
                IInv, QueuedInv, Resolved, TypeOK
  <2>2. CASE EndTick
    BY <2>2 DEF EndTick, TakenOnce
  <2>3. CASE UNCHANGED awaiting_call_id
    BY <2>3 DEF TakenOnce
  <2>4. QED
    BY <2>1, <2>2, <2>3
       DEF Next, PutPendingCall, GetPendingResult, AbandonCall, FinishInstance,
           GetPendingEvent, BeginTick, PeerResult, PeerEvent, TimePasses,
           remoteVars
<1>2. QED BY <1>1, Invariance, PTL DEF Spec, NeverRedispatched

-----------------------------------------------------------------------------
(* Refinement: every step of the worker is a step of CallService.           *)

\* What the refinement mapping sees of a step that changes neither the verdict
\* of a call nor who waits for it.
LEMMA SamePhases ==
  ASSUME UNCHANGED <<stamp, claimed, abandoned_call_ids, outstanding>>
  PROVE  \A c \in Calls : Phase(c)' = Phase(c)
BY DEF Phase, Outstanding

LEMMA SubmitStep ==
  ASSUME IInv, IInv', NEW i \in Instances, NEW c \in Calls, PutPendingCall(i, c)
  PROVE  Service!Submit(c)
<1>. USE DEF IInv
<1>1. Phase(c) = "new" /\ Phase(c)' = "waiting"
  BY DEF Phase, PutPendingCall, TypeOK, FreshInv, Outstanding
<1>2. \A d \in Calls \ {c} : Phase(d)' = Phase(d)
  BY DEF Phase, PutPendingCall, TypeOK, Outstanding
<1>3. \A d \in Calls : FirstVerdict(d)' = FirstVerdict(d)
  BY DEF PutPendingCall, FirstVerdict, Resolved
<1>4. UNCHANGED claimed
  BY DEF PutPendingCall
<1>5. QED BY <1>1, <1>2, <1>3, <1>4 DEF Service!Submit

LEMMA ClaimStep ==
  ASSUME IInv, IInv', NEW i \in Instances, NEW c \in Calls,
         GetPendingResult(i, c)
  PROVE  Service!Claim(c)
<1>. USE DEF IInv
<1>1. /\ Outstanding(c) /\ stamp[c] # 0 /\ c \notin abandoned_call_ids
      /\ claimed[c] = None /\ pending_results[c] = landed[c] /\ landed[c] # <<>>
  BY DEF GetPendingResult, TakenResult, Outstanding, FreshInv, OwnerInv, PromiseInv
<1>2. Head(landed[c]) \in Verdict /\ None \notin Verdict
  BY <1>1 DEF TypeOK, Verdict, Answer, Timeout
<1>3. Phase(c) = "waiting"
  BY <1>1 DEF Phase
<1>4. FirstVerdict(c) = Head(landed[c]) /\ FirstVerdict(c) # None
  BY <1>1, <1>2 DEF FirstVerdict, Resolved
<1>5. claimed' = [claimed EXCEPT ![c] = FirstVerdict(c)]
  BY <1>1, <1>4 DEF GetPendingResult, TakenResult
<1>6. Phase(c)' = "claimed"
  BY <1>1, <1>4, <1>5 DEF GetPendingResult, TakenResult, Phase, TypeOK
<1>7. \A d \in Calls \ {c} : Phase(d)' = Phase(d)
  BY DEF Phase, GetPendingResult, TypeOK, Outstanding
<1>8. \A d \in Calls : FirstVerdict(d)' = FirstVerdict(d)
  BY DEF GetPendingResult, TakenResult, FirstVerdict, Resolved
<1>9. QED BY <1>3, <1>4, <1>5, <1>6, <1>7, <1>8 DEF Service!Claim

LEMMA AbandonStep ==
  ASSUME IInv, IInv', NEW i \in Instances, NEW c \in Calls, AbandonCall(i, c)
  PROVE  Service!Abandon(c)
<1>. USE DEF IInv
<1>1. /\ Outstanding(c) /\ stamp[c] # 0 /\ c \notin abandoned_call_ids
      /\ claimed[c] = None
  BY DEF AbandonCall, Outstanding, FreshInv, OwnerInv, PromiseInv
<1>2. Phase(c) = "waiting" /\ Phase(c)' = "abandoned"
  BY <1>1 DEF Phase, AbandonCall, TypeOK
<1>3. \A d \in Calls \ {c} : Phase(d)' = Phase(d)
  BY DEF Phase, AbandonCall, TypeOK, Outstanding
<1>4. UNCHANGED claimed /\ \A d \in Calls : FirstVerdict(d)' = FirstVerdict(d)
  BY DEF AbandonCall, FirstVerdict, Resolved
<1>5. QED BY <1>2, <1>3, <1>4 DEF Service!Abandon

\* A first verdict resolves its call; a late answer changes nothing that the
\* dispatcher can see.
LEMMA PollStep ==
  ASSUME IInv, IInv', NEW k \in Conns, Poll(k)
  PROVE  (\E c \in Calls : Service!Resolve(c)) \/ UNCHANGED Service!vars
<1>. USE DEF IInv
<1>0. PICK a : a = awaiting_call_id[k]
  OBVIOUS
<1>1. UNCHANGED claimed /\ \A d \in Calls : Phase(d)' = Phase(d)
  BY SamePhases DEF Poll, callerVars
<1>2. CASE UNCHANGED landed
  <2>1. \A d \in Calls : FirstVerdict(d)' = FirstVerdict(d)
    BY <1>2 DEF FirstVerdict, Resolved
  <2>2. QED BY <1>1, <2>1 DEF Service!vars
<1>3. CASE a \in Calls /\ landed' = [landed EXCEPT ![a] = Append(@, Answer)]
  <2>1. landed[a] \in {<<>>, <<Timeout>>} /\ a \in delivered /\ a # None
    BY <1>0, <1>3 DEF FlightInv
  <2>2. \A d \in Calls \ {a} : FirstVerdict(d)' = FirstVerdict(d)
    BY <1>3 DEF FirstVerdict, Resolved, TypeOK
  <2>3. CASE landed[a] = <<>>
    <3>1. landed'[a] = <<Answer>>
      BY <1>3, <2>3, AppendShort DEF TypeOK, Verdict
    <3>2. FirstVerdict(a) = None /\ FirstVerdict(a)' = Answer
      BY <2>3, <3>1, HeadShort DEF FirstVerdict, Resolved, Verdict
    <3>3. stamp[a] # 0
      BY <1>3, <2>1 DEF FreshInv
    <3>4. Phase(a) \in {"waiting", "abandoned"}
      BY <1>3, <2>3, <3>3 DEF Phase, PromiseInv
    <3>5. Service!Resolve(a)
      <4>1. Service!Open(a)
        BY <1>3, <3>2, <3>4 DEF Service!Open
      <4>2. [d \in Calls |-> FirstVerdict(d)]' =
              [[d \in Calls |-> FirstVerdict(d)] EXCEPT ![a] = Answer]
        BY <1>3, <2>2, <3>2
      <4>3. QED BY <1>1, <4>1, <4>2 DEF Service!Resolve, Verdict
    <3>6. QED BY <1>3, <3>5
  <2>4. CASE landed[a] = <<Timeout>>
    <3>1. landed'[a] = <<Timeout, Answer>>
      BY <1>3, <2>4, AppendShort DEF TypeOK, Verdict
    <3>2. FirstVerdict(a)' = FirstVerdict(a)
      BY <2>4, <3>1, HeadShort DEF FirstVerdict, Resolved, Verdict
    <3>3. \A d \in Calls : FirstVerdict(d)' = FirstVerdict(d)
      BY <2>2, <3>2
    <3>4. QED BY <1>1, <3>3 DEF Service!vars
  <2>5. QED BY <2>1, <2>3, <2>4
<1>4. UNCHANGED landed \/ (a \in Calls /\ landed' = [landed EXCEPT ![a] = Append(@, Answer)])
  <2>1. CASE conn[k] # "open"
    BY <2>1 DEF Poll
  <2>2. CASE conn[k] = "open"
    <3>1. PICK m \in NextLine(k) : PollLine(k, m)
      BY <2>2 DEF Poll, PollCommunications
    <3>2. CASE m \in Calls /\ m = a
      BY <1>0, <3>1, <3>2 DEF PollLine, Hear
    <3>3. CASE ~(m \in Calls /\ m = a)
      BY <1>0, <3>1, <3>3 DEF PollLine, Hear
    <3>4. QED BY <3>2, <3>3
  <2>3. QED BY <2>1, <2>2
<1>5. QED BY <1>2, <1>3, <1>4

LEMMA EndTickStep ==
  ASSUME IInv, IInv', EndTick
  PROVE  \E late, forgotten \in SUBSET Calls : Service!Housekeep(late, forgotten)
<1>. USE DEF IInv
<1>. DEFINE forgotten == {c \in abandoned_call_ids :
                            c \in Expired \/ pending_results[c] # <<>>}
<1>1. \A c \in Expired : /\ c \in Calls /\ landed[c] = <<>> /\ stamp[c] # 0
                     /\ pending_results[c] = <<>>
  BY DEF Expired, DeadlinesLeft, Unanswered, DeadlineInv, TypeOK, FreshInv
<1>2. \A c \in Calls : landed'[c] = IF c \in Expired THEN <<Timeout>> ELSE landed[c]
  BY <1>1, AppendShort DEF EndTick, WithTimeouts, Verdict
<1>3. abandoned_call_ids' = abandoned_call_ids \ forgotten
  <2>1. \A c \in Expired : Append(pending_results[c], Timeout) # <<>>
    BY <1>1, AppendShort, HeadShort DEF Verdict
  <2>2. QED BY <2>1 DEF EndTick, WithTimeouts, TypeOK
<1>4. UNCHANGED <<stamp, outstanding, claimed>>
  BY DEF EndTick, callerVars
<1>5. \A c \in Expired : Service!Open(c)
  BY <1>1 DEF Service!Open, Phase, FirstVerdict, Resolved, PromiseInv
<1>6. \A c \in Calls : FirstVerdict(c)' = IF c \in Expired THEN Timeout
                                                       ELSE FirstVerdict(c)
  BY <1>1, <1>2 DEF FirstVerdict, Resolved
<1>7. \A c \in forgotten : Phase(c) = "abandoned" /\ Phase(c)' = "dropped"
  BY <1>3, <1>4 DEF Phase, PromiseInv, OwnerInv, Outstanding, FreshInv, TypeOK
<1>8. \A c \in Calls \ forgotten : Phase(c)' = Phase(c)
  BY <1>3, <1>4 DEF Phase, Outstanding
<1>9. \A c \in forgotten : FirstVerdict(c)' # None
  <2>1. \A c \in forgotten : c \in Calls /\ (c \in Expired \/ landed[c] # <<>>)
    BY DEF LandedInv, TypeOK
  <2>2. \A c \in Calls : landed[c] # <<>> => Head(landed[c]) # None
    BY DEF TypeOK, Verdict, Answer, Timeout
  <2>3. QED BY <1>6, <2>1, <2>2 DEF FirstVerdict, Resolved, Timeout
<1>10. Expired \subseteq Calls /\ forgotten \subseteq Calls
  BY <1>1 DEF TypeOK
<1>11. Service!Housekeep(Expired, forgotten)
  BY <1>4, <1>5, <1>6, <1>7, <1>8, <1>9, <1>10 DEF Service!Housekeep
<1>12. QED BY <1>10, <1>11

\* The worker implements the service: one verdict per call, the first to
\* arrive, handed over at most once, through every interleaving.
THEOREM Refinement == Spec => Implements
<1>1. Init => Service!Init
  BY DEF Init, Service!Init, Phase, FirstVerdict, Resolved
<1>2. IInv /\ IInv' /\ [Next]_vars => [Service!Next]_(Service!vars)
  <2>. SUFFICES ASSUME IInv, IInv', [Next]_vars
                PROVE  Service!Next \/ UNCHANGED Service!vars
    OBVIOUS
  <2>1. CASE \E i \in Instances, c \in Calls : \/ PutPendingCall(i, c)
                                            \/ GetPendingResult(i, c)
                                            \/ AbandonCall(i, c)
    BY <2>1, SubmitStep, ClaimStep, AbandonStep DEF Service!Next
  <2>2. CASE \E k \in Conns : Poll(k)
    BY <2>2, PollStep DEF Service!Next
  <2>3. CASE EndTick
    BY <2>3, EndTickStep DEF Service!Next
  <2>4. CASE UNCHANGED <<stamp, claimed, abandoned_call_ids, outstanding, landed>>
    <3>1. \A c \in Calls : FirstVerdict(c)' = FirstVerdict(c)
      BY <2>4 DEF FirstVerdict, Resolved
    <3>2. QED BY <2>4, <3>1, SamePhases DEF Service!vars
  <2>5. QED
    BY <2>1, <2>2, <2>3, <2>4
       DEF Next, FinishInstance, GetPendingEvent, BeginTick, PeerResult,
           PeerEvent, TimePasses, vars, workerVars, callerVars
<1>3. QED
  BY <1>1, <1>2, Invariance, PTL DEF Spec, Implements, Service!Spec

=============================================================================
