--------------------------- MODULE SidetrackProofs ---------------------------
(* Proofs about Sidetrack: who has the scratch instance, and what the history  *)
(* keeps of the messages that were pushed.                                     *)
EXTENDS Sidetrack, SeqLemmas, SequenceTheorems, TLAPS

-----------------------------------------------------------------------------
(* Who has the scratch instance.                                              *)

Reply == [thread : {"none", "sending", "returned", "finished"},
          complete : BOOLEAN, calls : SUBSET Tools, text : BOOLEAN]

Waiting == {3, 5}

\* A thread of the instance belongs to a call that stage 3 or 5 waits for, and
\* what that call has left behind is settled before the stage moves on.
ReviewOK ==
  /\ scratch \in Reply
  /\ second_guess_stage \in 0 .. 6 \cup {100}
  /\ scratch.thread # "none" => second_guess_stage \in Waiting
  /\ ActionsSettled
  /\ at = "poll" => second_guess_stage \in Waiting

\* A pass is due from the tick that saw the review at rest: since then the
\* review may have noticed a reply, and waited for its timer, once.
PassOK ==
  consolidation_stage = 2 =>
    /\ second_guess_stage \in {0, 1, 100}
    /\ at \in {"clear", "review", "sized", "guess"} => second_guess_stage # 1

ScratchIInv ==
  ReviewOK /\ PassOK /\ (at = "pass" => consolidation_stage = 2)

LEMMA ScratchInit == Init => ScratchIInv
<1>1. 0 \in 0 .. 6 /\ 0 \notin {4, 6}
  OBVIOUS
<1>2. QED
  BY <1>1 DEF Init, ScratchIInv, ReviewOK, PassOK, Reply, NoReply, ActionsSettled

LEMMA StartedCall ==
  ASSUME StartCall
  PROVE  scratch' \in Reply /\ scratch'.calls = {} /\ scratch'.thread = "sending"
<1>1. NoReply \in Reply /\ NoReply.calls = {}
  BY DEF NoReply, Reply
<1>2. QED BY <1>1 DEF StartCall, Reply

LEMMA ScratchNext == ScratchIInv /\ [Next]_vars => ScratchIInv'
<1>. SUFFICES ASSUME ScratchIInv, [Next]_vars  PROVE ScratchIInv'
  OBVIOUS
<1>. USE DEF ScratchIInv, ReviewOK, PassOK, ActionsSettled, Waiting
<1>1. CASE SubmitLine
  BY <1>1 DEF SubmitLine, stages, second
<1>2. CASE ChatReplies
  BY <1>2 DEF ChatReplies, stages, second, guess
<1>3. CASE Narrate
  BY <1>3 DEF Narrate, stages, second, guess
<1>4. CASE Interrupt
  BY <1>4 DEF Interrupt, stages, second, guess
<1>5. CASE Shutdown
  BY <1>5 DEF Shutdown, stages, second, guess
<1>6. CASE Joined
  BY <1>6 DEF Joined, stages, guess, Reply
<1>7. CASE CheckActivity
  BY <1>7 DEF CheckActivity, stages, second, guess
<1>8. CASE PersistentTimeChecks
  BY <1>8 DEF PersistentTimeChecks, stages, second, guess
<1>9. CASE ConsolidationWaits
  BY <1>9 DEF ConsolidationWaits, MayStart, second, guess
<1>10. CASE BeginPass
  BY <1>10 DEF BeginPass, stages, guess, NoReply, Reply
<1>11. CASE EndPass
  BY <1>11 DEF EndPass, second, guess
<1>12. CASE ClearContext
  BY <1>12 DEF ClearContext, second, guess
<1>13. CASE NoticeReply
  BY <1>13 DEF NoticeReply, stages, second
<1>14. CASE NoteSize
  BY <1>14 DEF NoteSize, stages, second
<1>15. CASE AbortReview
  BY <1>15 DEF AbortReview, Apart, stages, second
<1>16. CASE ReviewWaits
  BY <1>16 DEF ReviewWaits, Apart, stages, second
<1>17. CASE BeginReview
  <2>1. scratch' \in Reply /\ second_guess_stage' = 3 /\ at' = "end"
    BY <1>17, StartedCall DEF BeginReview
  <2>2. consolidation_stage # 2 /\ consolidation_stage' = consolidation_stage
    BY <1>17 DEF BeginReview, Apart, stages
  <2>3. QED BY <2>1, <2>2
<1>18. CASE CaptureActions
  BY <1>18 DEF CaptureActions, Apart, stages, second
<1>19. CASE PollCall
  <2>1. scratch'.calls \in SUBSET Tools /\ scratch' \in Reply
    BY <1>19 DEF PollCall, Reply
  <2>2. scratch'.thread # "none" => IsProcessing
    BY <1>19 DEF PollCall, Reply
  <2>3. CASE CallOver(scratch'.calls, outstanding')
    <3>1. second_guess_stage' = second_guess_stage + 1 /\ second_guess_stage' \in {4, 6}
      BY <1>19, <2>3 DEF PollCall
    <3>2. scratch'.thread = "none" /\ scratch'.calls = {} /\ outstanding' = {}
      BY <2>2, <2>3 DEF CallOver
    <3>3. consolidation_stage # 2
      BY <1>19 DEF PollCall
    <3>4. at' = "end" /\ consolidation_stage' = consolidation_stage
      BY <1>19 DEF PollCall, Apart, stages
    <3>5. QED BY <2>1, <3>1, <3>2, <3>3, <3>4
  <2>4. CASE ~CallOver(scratch'.calls, outstanding')
    <3>1. second_guess_stage' = second_guess_stage
      BY <1>19, <2>4 DEF PollCall
    <3>2. at' = "end" /\ consolidation_stage' = consolidation_stage /\ at = "poll"
      BY <1>19 DEF PollCall, Apart, stages
    <3>3. QED BY <2>1, <3>1, <3>2
  <2>5. QED BY <2>3, <2>4
<1>20. CASE Decide
  <2>1. consolidation_stage # 2 /\ consolidation_stage' = consolidation_stage /\ at' = "end"
    BY <1>20 DEF Decide, Apart, stages
  <2>2. CASE Commit(ActionNote)
    <3>1. second_guess_stage' = 100 /\ scratch' = scratch /\ outstanding' = outstanding
      BY <2>2 DEF Commit, second
    <3>2. second_guess_stage = 4
      BY <1>20 DEF Decide
    <3>3. QED BY <2>1, <3>1, <3>2
  <2>3. CASE StartCall /\ second_guess_stage' = 5
    <3>1. scratch' \in Reply
      BY <2>3, StartedCall
    <3>2. QED BY <2>1, <2>3, <3>1
  <2>4. QED BY <1>20, <2>2, <2>3 DEF Decide
<1>21. CASE CommitAnswer
  <2>1. second_guess_stage' = 100 /\ scratch' = scratch /\ outstanding' = outstanding
    BY <1>21 DEF CommitAnswer, Commit, second
  <2>2. second_guess_stage = 6 /\ at' = "end" /\ consolidation_stage' = consolidation_stage
    BY <1>21 DEF CommitAnswer, Apart, stages
  <2>3. QED BY <2>1, <2>2
<1>22. CASE EndCheck
  BY <1>22 DEF EndCheck, stages, guess, second
<1>23. CASE ScratchReplies
  BY <1>23 DEF ScratchReplies, stages, guess, Reply
<1>24. CASE ScratchEnds
  BY <1>24 DEF ScratchEnds, stages, guess, Reply
<1>25. CASE UNCHANGED vars
  BY <1>25 DEF vars, stages, guess, second
<1>26. QED
  BY <1>1, <1>2, <1>3, <1>4, <1>5, <1>6, <1>7, <1>8, <1>9, <1>10, <1>11, <1>12, <1>13,
     <1>14, <1>15, <1>16, <1>17, <1>18, <1>19, <1>20, <1>21, <1>22, <1>23, <1>24, <1>25
  DEF Next, Check

\* Passes and reviews share the scratch instance, and neither ever finds the
\* other's work on it, nor its own unfinished.
THEOREM ScratchKeeps == Spec => []ScratchKept
<1>1. ScratchIInv => ScratchKept
  BY DEF ScratchIInv, ReviewOK, PassOK, ScratchKept, ScratchExclusive, ActionsSettled,
         IsProcessing, Waiting
<1>2. QED BY <1>1, ScratchInit, ScratchNext, PTL DEF Spec

-----------------------------------------------------------------------------
(* One sequence after another, and sequences element by element.              *)

\* A function on 1 .. n is a sequence.
LEMMA FunctionSeq ==
  ASSUME NEW S, NEW n \in Nat, NEW a \in [1 .. n -> S]
  PROVE  a \in Seq(S) /\ Len(a) = n
OBVIOUS

Rows(a, n, T) == a \in [1 .. n -> Seq(T)]

LEMMA RowsSeq ==
  ASSUME NEW T, NEW n \in Nat, NEW a, Rows(a, n, T)
  PROVE  a \in Seq(Seq(T)) /\ Len(a) = n /\ \A i \in 1 .. n : a[i] \in Seq(T)
BY FunctionSeq DEF Rows

LEMMA FlattenType ==
  ASSUME NEW T, NEW ss \in Seq(Seq(T))
  PROVE  FlattenSeq(ss) \in Seq(T)
<1>1. PICK f : Joins(f, Len(ss), T, ss)
  BY FlattenRuns
<1>2. Len(ss) \in 0 .. Len(ss)
  BY LenProperties
<1>3. QED BY <1>1, <1>2 DEF Joins

\* A sequence of sequences in two parts.
LEMMA FlattenConcat ==
  ASSUME NEW T, NEW a \in Seq(Seq(T)), NEW b \in Seq(Seq(T))
  PROVE  FlattenSeq(a \o b) = FlattenSeq(a) \o FlattenSeq(b)
<1>. DEFINE m == Len(a)
            n == Len(b)
            u == a \o b
<1>1. /\ m \in Nat /\ n \in Nat /\ u \in Seq(Seq(T)) /\ Len(u) = m + n
      /\ \A k \in 1 .. m + n : u[k] = IF k <= m THEN a[k] ELSE b[k - m]
      /\ \A k \in 1 .. n : b[k] \in Seq(T)
  BY LenProperties, ConcatProperties, ElementOfSeq
<1>2. PICK f : Joins(f, m + n, T, u)
  <2>1. u \in Seq(Seq(T)) /\ Len(u) = m + n
    BY <1>1
  <2>. HIDE DEF m, n, u
  <2>2. QED BY <2>1, FlattenRuns
<1>3. PICK g : Joins(g, m, T, a)
  BY FlattenRuns
<1>4. PICK h : Joins(h, n, T, b)
  BY FlattenRuns
<1>. HIDE DEF m, n, u
<1>5. f[m] = g[m]
  <2>. DEFINE S == {i \in 0 .. m : f[i] = g[i]}
  <2>1. 0 \in S
    BY <1>1, <1>2, <1>3 DEF Joins
  <2>2. \A k \in 0 .. m - 1 : k \in S => k + 1 \in S
    <3>. SUFFICES ASSUME NEW k \in 0 .. m - 1, k \in S  PROVE k + 1 \in S
      OBVIOUS
    <3>1. k + 1 \in 1 .. m /\ k + 1 \in 1 .. m + n /\ k + 1 <= m /\ (k + 1) - 1 = k
          /\ k + 1 \in 0 .. m
      BY <1>1
    <3>2. f[k + 1] = f[k] \o u[k + 1] /\ g[k + 1] = g[k] \o a[k + 1] /\ u[k + 1] = a[k + 1]
      BY <1>1, <1>2, <1>3, <3>1 DEF Joins
    <3>3. QED BY <3>1, <3>2
  <2>. HIDE DEF S
  <2>3. 0 .. m \subseteq S
    BY <1>1, <2>1, <2>2, SetInductionTo
  <2>4. m \in S
    BY <1>1, <2>3
  <2>5. QED BY <2>4 DEF S
<1>6. f[m + n] = g[m] \o h[n]
  <2>. DEFINE S == {i \in 0 .. n : f[m + i] = g[m] \o h[i]}
  <2>1. 0 \in S
    <3>1. g[m] \in Seq(T) /\ m + 0 = m
      BY <1>1, <1>3 DEF Joins
    <3>2. g[m] \o <<>> = g[m]
      BY <3>1, ConcatEmptySeq
    <3>3. f[m + 0] = g[m] \o h[0]
      BY <1>4, <1>5, <3>1, <3>2 DEF Joins
    <3>4. 0 \in 0 .. n
      BY <1>1
    <3>5. QED BY <3>3, <3>4
  <2>2. \A k \in 0 .. n - 1 : k \in S => k + 1 \in S
    <3>. SUFFICES ASSUME NEW k \in 0 .. n - 1, k \in S  PROVE k + 1 \in S
      OBVIOUS
    <3>1. /\ k + 1 \in 1 .. n /\ m + (k + 1) \in 1 .. m + n /\ ~(m + (k + 1) <= m)
          /\ (m + (k + 1)) - 1 = m + k /\ (m + (k + 1)) - m = k + 1 /\ (k + 1) - 1 = k
          /\ k + 1 \in 0 .. n /\ k \in 0 .. n /\ m \in 0 .. m
      <4>1. k \in Nat /\ k < n /\ m \in Nat /\ n \in Nat
        BY <1>1
      <4>2. QED BY <4>1
    <3>2. f[m + (k + 1)] = f[m + k] \o b[k + 1] /\ h[k + 1] = h[k] \o b[k + 1]
      BY <1>1, <1>2, <1>4, <3>1 DEF Joins
    <3>3. g[m] \in Seq(T) /\ h[k] \in Seq(T) /\ b[k + 1] \in Seq(T)
      BY <1>1, <1>3, <1>4, <3>1 DEF Joins
    <3>4. (g[m] \o h[k]) \o b[k + 1] = g[m] \o (h[k] \o b[k + 1])
      <4>1. Grouped(g[m], h[k], b[k + 1])
        BY ONLY <3>3, ConcatGrouped
      <4>2. QED BY ONLY <4>1 DEF Grouped
    <3>5. QED BY <3>1, <3>2, <3>4
  <2>. HIDE DEF S
  <2>3. 0 .. n \subseteq S
    BY <1>1, <2>1, <2>2, SetInductionTo
  <2>4. n \in S
    BY <1>1, <2>3
  <2>5. QED BY <2>4 DEF S
<1>7. QED BY <1>2, <1>3, <1>4, <1>6 DEF u, Joins

LEMMA FlattenOne ==
  ASSUME NEW T, NEW s \in Seq(T)
  PROVE  FlattenSeq(<<s>>) = s
<1>1. <<s>> \in Seq(Seq(T)) /\ Len(<<s>>) = 1 /\ <<s>>[1] = s
  OBVIOUS
<1>2. PICK f : Joins(f, Len(<<s>>), T, <<s>>)
  BY <1>1, FlattenRuns
<1>3. 1 \in 1 .. Len(<<s>>) /\ 1 - 1 = 0
  BY <1>1
<1>4. FlattenSeq(<<s>>) = <<>> \o s
  BY <1>1, <1>2, <1>3 DEF Joins
<1>5. QED BY <1>4, ConcatEmptySeq DEF Joins

\* What each place takes over from the one before it and hands on to the next
\* leaves the whole as it was.
LEMMA FlattenTelescopes ==
  ASSUME NEW T, NEW n \in Nat, NEW a, Rows(a, n, T), NEW b, Rows(b, n, T),
         NEW c \in [0 .. n -> Seq(T)],
         c[0] = <<>>, c[n] = <<>>,
         \A i \in 1 .. n : c[i - 1] \o a[i] = b[i] \o c[i]
  PROVE  FlattenSeq(a) = FlattenSeq(b)
<1>1. /\ a \in Seq(Seq(T)) /\ Len(a) = n /\ b \in Seq(Seq(T)) /\ Len(b) = n
      /\ \A i \in 1 .. n : a[i] \in Seq(T) /\ b[i] \in Seq(T)
  BY RowsSeq
<1>2. PICK f : Joins(f, n, T, a)
  BY <1>1, FlattenRuns
<1>3. PICK g : Joins(g, n, T, b)
  BY <1>1, FlattenRuns
<1>. DEFINE S == {i \in 0 .. n : f[i] = g[i] \o c[i]}
<1>4. 0 \in S
  <2>1. <<>> \in Seq(T) /\ 0 \in 0 .. n
    OBVIOUS
  <2>2. <<>> \o <<>> = <<>>
    BY <2>1, ConcatEmptySeq
  <2>3. QED BY <1>2, <1>3, <2>1, <2>2 DEF Joins
<1>5. \A k \in 0 .. n - 1 : k \in S => k + 1 \in S
  <2>. SUFFICES ASSUME NEW k \in 0 .. n - 1, k \in S  PROVE k + 1 \in S
    OBVIOUS
  <2>1. k + 1 \in 1 .. n /\ (k + 1) - 1 = k /\ k + 1 \in 0 .. n /\ k \in 0 .. n
    OBVIOUS
  <2>2. /\ g[k] \in Seq(T) /\ c[k] \in Seq(T) /\ a[k + 1] \in Seq(T) /\ b[k + 1] \in Seq(T)
        /\ c[k + 1] \in Seq(T)
    BY <1>1, <1>3, <2>1 DEF Joins
  <2>3. f[k + 1] = (g[k] \o c[k]) \o a[k + 1] /\ g[k + 1] = g[k] \o b[k + 1]
        /\ c[k] \o a[k + 1] = b[k + 1] \o c[k + 1]
    BY <1>2, <1>3, <2>1 DEF Joins
  <2>. HIDE DEF S
  <2>4. (g[k] \o c[k]) \o a[k + 1] = g[k] \o (c[k] \o a[k + 1])
    <3>1. Grouped(g[k], c[k], a[k + 1])
      BY ONLY <2>2, ConcatGrouped
    <3>2. QED BY ONLY <3>1 DEF Grouped
  <2>5. g[k] \o (b[k + 1] \o c[k + 1]) = (g[k] \o b[k + 1]) \o c[k + 1]
    <3>1. Grouped(g[k], b[k + 1], c[k + 1])
      BY ONLY <2>2, ConcatGrouped
    <3>2. QED BY ONLY <3>1 DEF Grouped
  <2>6. QED BY <2>1, <2>3, <2>4, <2>5 DEF S
<1>. HIDE DEF S
<1>6. 0 .. n \subseteq S
  BY <1>4, <1>5, SetInductionTo
<1>7. f[n] = g[n] \o <<>>
  <2>1. n \in S
    BY <1>6
  <2>2. QED BY <2>1 DEF S
<1>8. g[n] \in Seq(T)
  BY <1>3 DEF Joins
<1>9. QED BY <1>2, <1>3, <1>7, <1>8, ConcatEmptySeq DEF Joins

\* If every other sequence is empty, one of them is all.
LEMMA FlattenPicks ==
  ASSUME NEW T, NEW n \in Nat, NEW a, Rows(a, n, T), NEW j \in 1 .. n,
         \A i \in 1 .. n : i # j => a[i] = <<>>
  PROVE  FlattenSeq(a) = a[j]
<1>1. a \in Seq(Seq(T)) /\ Len(a) = n
  BY RowsSeq
<1>2. PICK f : Joins(f, n, T, a)
  BY <1>1, FlattenRuns
<1>. DEFINE one == a[j]
<1>3. one \in Seq(T)
  BY RowsSeq
<1>. HIDE DEF one
<1>4. <<>> \in Seq(T) /\ <<>> \o <<>> = <<>> /\ <<>> \o one = one /\ one \o <<>> = one
  <2>1. <<>> \in Seq(T)
    BY EmptySeq
  <2>2. QED BY <1>3, <2>1, ConcatEmptySeq
<1>. USE DEF one
<1>. DEFINE S == {i \in 0 .. n : f[i] = IF i < j THEN <<>> ELSE a[j]}
<1>5. 0 \in S
  BY <1>2 DEF Joins
<1>6. \A k \in 0 .. n - 1 : k \in S => k + 1 \in S
  <2>. SUFFICES ASSUME NEW k \in 0 .. n - 1, k \in S  PROVE k + 1 \in S
    OBVIOUS
  <2>1. k + 1 \in 1 .. n /\ (k + 1) - 1 = k /\ k + 1 \in 0 .. n
    OBVIOUS
  <2>2. f[k + 1] = f[k] \o a[k + 1] /\ f[k] = IF k < j THEN <<>> ELSE a[j]
    BY <1>2, <2>1 DEF Joins
  <2>3. CASE k + 1 < j
    <3>1. k < j /\ k + 1 # j
      BY <2>3
    <3>2. QED BY <1>4, <2>1, <2>2, <2>3, <3>1
  <2>4. CASE k + 1 = j
    <3>1. k < j
      BY <2>4
    <3>2. ~(k + 1 < j) /\ f[k] = <<>>
      BY <2>2, <2>4, <3>1
    <3>3. f[k + 1] = <<>> \o a[j]
      BY <2>2, <2>4, <3>2
    <3>4. QED BY <1>4, <2>1, <3>2, <3>3
  <2>5. CASE k >= j
    <3>1. ~(k < j) /\ k + 1 # j /\ ~(k + 1 < j)
      BY <2>5
    <3>2. QED BY <1>4, <2>1, <2>2, <3>1
  <2>6. k + 1 < j \/ k + 1 = j \/ k >= j
    OBVIOUS
  <2>7. QED BY <2>3, <2>4, <2>5, <2>6
<1>. HIDE DEF S
<1>7. 0 .. n \subseteq S
  BY <1>5, <1>6, SetInductionTo
<1>8. n \in S /\ ~(n < j)
  BY <1>7
<1>9. QED BY <1>2, <1>8 DEF S, Joins

\* If all are empty, nothing is left.
LEMMA FlattenNothing ==
  ASSUME NEW T, NEW n \in Nat, NEW a, Rows(a, n, T), \A i \in 1 .. n : a[i] = <<>>
  PROVE  FlattenSeq(a) = <<>>
<1>1. CASE n = 0
  <2>1. a \in Seq(Seq(T)) /\ Len(a) = 0
    BY <1>1, RowsSeq
  <2>2. a = <<>> /\ FlattenSeq(a) = a
    BY <2>1, EmptySeq DEF FlattenSeq
  <2>3. QED BY <2>2
<1>2. CASE n # 0
  <2>1. 1 \in 1 .. n
    BY <1>2
  <2>2. FlattenSeq(a) = a[1]
    BY <2>1, FlattenPicks
  <2>3. QED BY <2>1, <2>2
<1>3. QED BY <1>1, <1>2

\* A sequence cut into its elements.
LEMMA FlattenSingles ==
  ASSUME NEW T, NEW s \in Seq(T)
  PROVE  FlattenSeq([i \in DOMAIN s |-> <<s[i]>>]) = s
<1>. DEFINE n == Len(s)
            a == [i \in 1 .. n |-> <<s[i]>>]
            Upto(i) == [j \in 1 .. i |-> s[j]]
<1>1. n \in Nat /\ DOMAIN s = 1 .. n /\ \A i \in 1 .. n : s[i] \in T
  BY LenProperties, ElementOfSeq
<1>2. a \in [1 .. n -> Seq(T)]
  <2>1. \A i \in 1 .. n : <<s[i]>> \in Seq(T)
    BY <1>1
  <2>2. QED BY <2>1
<1>3. \A i \in 1 .. n : a[i] = <<s[i]>>
  OBVIOUS
<1>. HIDE DEF a, n
<1>4. a \in Seq(Seq(T)) /\ Len(a) = n
  BY <1>1, <1>2, FunctionSeq
<1>5. PICK f : Joins(f, n, T, a)
  BY <1>4, FlattenRuns
<1>. DEFINE S == {i \in 0 .. n : f[i] = Upto(i)}
<1>6. 0 \in S
  <2>1. Upto(0) = <<>>
    OBVIOUS
  <2>2. QED BY <1>1, <1>5, <2>1 DEF Joins
<1>7. \A k \in 0 .. n - 1 : k \in S => k + 1 \in S
  <2>. SUFFICES ASSUME NEW k \in 0 .. n - 1, k \in S  PROVE k + 1 \in S
    OBVIOUS
  <2>1. k + 1 \in 1 .. n /\ (k + 1) - 1 = k /\ k + 1 \in 0 .. n /\ k \in Nat /\ k + 1 \in Nat
    BY <1>1
  <2>2. f[k + 1] = Upto(k) \o <<s[k + 1]>>
    <3>1. f[k] = Upto(k)
      OBVIOUS
    <3>2. f[k + 1] = f[k] \o a[k + 1]
      BY <1>5, <2>1 DEF Joins
    <3>3. a[k + 1] = <<s[k + 1]>>
      BY <1>3, <2>1
    <3>. HIDE DEF Upto
    <3>4. QED BY <3>1, <3>2, <3>3
  <2>3. \A j \in 1 .. k + 1 : j \in 1 .. n
    BY <1>1
  <2>4. Upto(k) \in [1 .. k -> T] /\ Upto(k + 1) \in [1 .. k + 1 -> T]
    BY <1>1, <2>3
  <2>5. Upto(k) \in Seq(T) /\ Len(Upto(k)) = k /\ Upto(k + 1) \in Seq(T) /\ Len(Upto(k + 1)) = k + 1
    <3>. HIDE DEF Upto
    <3>1. Upto(k) \in Seq(T) /\ Len(Upto(k)) = k
      BY <2>1, <2>4, FunctionSeq
    <3>2. Upto(k + 1) \in Seq(T) /\ Len(Upto(k + 1)) = k + 1
      BY <2>1, <2>4, FunctionSeq
    <3>3. QED BY <3>1, <3>2
  <2>6. <<s[k + 1]>> \in Seq(T) /\ Len(<<s[k + 1]>>) = 1 /\ <<s[k + 1]>>[1] = s[k + 1]
    BY <1>1, <2>1
  <2>7. Upto(k) \o <<s[k + 1]>> = Upto(k + 1)
    <3>. DEFINE u == Upto(k)
                one == <<s[k + 1]>>
                v == Upto(k + 1)
    <3>1. /\ u \o one \in Seq(T) /\ Len(u \o one) = k + 1
          /\ \A i \in 1 .. k + 1 : (u \o one)[i] = IF i <= k THEN u[i] ELSE one[i - k]
      <4>. HIDE DEF u, one
      <4>1. QED BY <2>5, <2>6, ConcatProperties DEF u, one
    <3>2. \A i \in 1 .. k + 1 : v[i] = s[i] /\ (i <= k => u[i] = s[i]) /\ (~(i <= k) => i = k + 1 /\ i - k = 1)
      BY <2>1
    <3>3. \A i \in 1 .. k + 1 : (u \o one)[i] = v[i]
      BY <2>6, <3>1, <3>2
    <3>. HIDE DEF u, one, v
    <3>4. v \in Seq(T) /\ Len(v) = k + 1
      BY <2>5 DEF v
    <3>5. u \o one = v
      BY <3>1, <3>3, <3>4, SeqEqual
    <3>6. QED BY <3>5 DEF u, one, v
  <2>8. QED BY <2>1, <2>2, <2>7
<1>. HIDE DEF S
<1>8. 0 .. n \subseteq S
  BY <1>1, <1>6, <1>7, SetInductionTo
<1>9. n \in S
  BY <1>1, <1>8
<1>10. f[n] = Upto(n)
  BY <1>9 DEF S
<1>11. Upto(n) = s
  BY <1>1, LenProperties
<1>12. a = [i \in DOMAIN s |-> <<s[i]>>]
  BY <1>1 DEF a
<1>13. QED BY <1>5, <1>10, <1>11, <1>12 DEF Joins

\* What G makes of each element, one after another.
Maker(G, M, T) == \A m \in M : G[m] \in Seq(T)
Pieces(G, h) == [i \in DOMAIN h |-> G[h[i]]]
Through(G, h) == FlattenSeq(Pieces(G, h))

LEMMA ThroughSeq ==
  ASSUME NEW M, NEW T, NEW G, Maker(G, M, T), NEW h \in Seq(M)
  PROVE  /\ Rows(Pieces(G, h), Len(h), T)
         /\ Pieces(G, h) \in Seq(Seq(T)) /\ Len(Pieces(G, h)) = Len(h)
         /\ \A i \in 1 .. Len(h) : Pieces(G, h)[i] = G[h[i]]
         /\ Through(G, h) \in Seq(T)
<1>. DEFINE n == Len(h)
            a == Pieces(G, h)
<1>1. n \in Nat /\ DOMAIN h = 1 .. n /\ \A i \in 1 .. n : h[i] \in M
  BY LenProperties, ElementOfSeq
<1>2. a \in [1 .. n -> Seq(T)] /\ \A i \in 1 .. n : a[i] = G[h[i]]
  BY <1>1 DEF Maker, Pieces
<1>3. a \in Seq(Seq(T)) /\ Len(a) = n
  <2>. HIDE DEF a, n
  <2>1. QED BY <1>1, <1>2, FunctionSeq
<1>4. FlattenSeq(a) \in Seq(T)
  <2>. HIDE DEF a
  <2>1. QED BY <1>3, FlattenType
<1>5. QED BY <1>2, <1>3, <1>4 DEF Through, Rows

LEMMA ThroughConcat ==
  ASSUME NEW M, NEW T, NEW G, Maker(G, M, T), NEW h \in Seq(M), NEW k \in Seq(M)
  PROVE  Through(G, h \o k) = Through(G, h) \o Through(G, k)
<1>. DEFINE a == Pieces(G, h)
            b == Pieces(G, k)
            hk == h \o k
            c == Pieces(G, hk)
            d == a \o b
            m == Len(h)
            n == Len(k)
<1>1. /\ m \in Nat /\ n \in Nat /\ hk \in Seq(M) /\ Len(hk) = m + n
      /\ \A i \in 1 .. m + n : hk[i] = IF i <= m THEN h[i] ELSE k[i - m]
  BY LenProperties, ConcatProperties
<1>2. a \in Seq(Seq(T)) /\ Len(a) = m /\ \A i \in 1 .. m : a[i] = G[h[i]]
  BY ThroughSeq
<1>3. b \in Seq(Seq(T)) /\ Len(b) = n /\ \A i \in 1 .. n : b[i] = G[k[i]]
  BY ThroughSeq
<1>. HIDE DEF hk
<1>4. c \in Seq(Seq(T)) /\ Len(c) = Len(hk) /\ \A i \in 1 .. Len(hk) : c[i] = G[hk[i]]
  <2>1. hk \in Seq(M)
    BY <1>1
  <2>2. QED BY <2>1, ThroughSeq
<1>. HIDE DEF a, b, c, m, n
<1>5. /\ d \in Seq(Seq(T)) /\ Len(d) = m + n
      /\ \A i \in 1 .. m + n : d[i] = IF i <= m THEN a[i] ELSE b[i - m]
  <2>1. a \in Seq(Seq(T)) /\ b \in Seq(Seq(T)) /\ Len(a) = m /\ Len(b) = n
    BY <1>2, <1>3
  <2>2. QED BY <2>1, ConcatProperties
<1>. HIDE DEF d
<1>6. \A i \in 1 .. m + n : c[i] = d[i]
  <2>. SUFFICES ASSUME NEW i \in 1 .. m + n  PROVE c[i] = d[i]
    OBVIOUS
  <2>1. c[i] = G[hk[i]]
    BY <1>1, <1>4
  <2>2. CASE i <= m
    <3>1. i \in 1 .. m /\ hk[i] = h[i] /\ d[i] = a[i]
      BY <1>1, <1>5, <2>2
    <3>2. QED BY <1>2, <2>1, <3>1
  <2>3. CASE ~(i <= m)
    <3>1. i - m \in 1 .. n /\ hk[i] = k[i - m] /\ d[i] = b[i - m]
      BY <1>1, <1>5, <2>3
    <3>2. QED BY <1>3, <2>1, <3>1
  <2>4. QED BY <2>2, <2>3
<1>7. c = d
  <2>1. Len(c) = Len(d) /\ \A i \in 1 .. Len(c) : c[i] = d[i]
    BY <1>1, <1>4, <1>5, <1>6
  <2>2. QED BY <1>4, <1>5, <2>1, SeqEqual
<1>8. FlattenSeq(a \o b) = FlattenSeq(a) \o FlattenSeq(b)
  BY <1>2, <1>3, FlattenConcat
<1>9. QED BY <1>7, <1>8 DEF Through, a, b, c, d, hk

\* Element by element of each of several sequences.
ThroughEach(G, n, ss) == [i \in 1 .. n |-> Through(G, ss[i])]

LEMMA ThroughFlatten ==
  ASSUME NEW M, NEW T, NEW G, Maker(G, M, T), NEW n \in Nat, NEW ss, Rows(ss, n, M)
  PROVE  /\ FlattenSeq(ss) \in Seq(M)
         /\ Rows(ThroughEach(G, n, ss), n, T)
         /\ Through(G, FlattenSeq(ss)) = FlattenSeq(ThroughEach(G, n, ss))
<1>. DEFINE tt == ThroughEach(G, n, ss)
<1>1. ss \in Seq(Seq(M)) /\ Len(ss) = n /\ \A i \in 1 .. n : ss[i] \in Seq(M)
  BY RowsSeq
<1>2. Rows(tt, n, T)
  <2>1. \A i \in 1 .. n : Through(G, ss[i]) \in Seq(T)
    BY <1>1, ThroughSeq
  <2>2. QED BY <2>1 DEF Rows, ThroughEach
<1>3. \A i \in 1 .. n : tt[i] = Through(G, ss[i])
  BY DEF ThroughEach
<1>. HIDE DEF tt
<1>4. tt \in Seq(Seq(T)) /\ Len(tt) = n
  BY <1>2, RowsSeq
<1>5. PICK f : Joins(f, n, M, ss)
  BY <1>1, FlattenRuns
<1>6. PICK g : Joins(g, n, T, tt)
  BY <1>4, FlattenRuns
<1>. DEFINE S == {i \in 0 .. n : g[i] = Through(G, f[i])}
<1>7. 0 \in S
  <2>1. Through(G, <<>>) = <<>>
    <3>1. Pieces(G, <<>>) = <<>> /\ Len(<<>>) = 0
      BY DEF Pieces
    <3>2. QED BY <3>1 DEF Through, FlattenSeq
  <2>2. QED BY <1>5, <1>6, <2>1 DEF Joins
<1>8. \A k \in 0 .. n - 1 : k \in S => k + 1 \in S
  <2>. SUFFICES ASSUME NEW k \in 0 .. n - 1, k \in S  PROVE k + 1 \in S
    OBVIOUS
  <2>1. k + 1 \in 1 .. n /\ (k + 1) - 1 = k /\ k + 1 \in 0 .. n /\ k \in 0 .. n
    OBVIOUS
  <2>2. f[k + 1] = f[k] \o ss[k + 1] /\ g[k + 1] = g[k] \o tt[k + 1]
        /\ f[k] \in Seq(M) /\ ss[k + 1] \in Seq(M)
    BY <1>1, <1>5, <1>6, <2>1 DEF Joins
  <2>3. Through(G, f[k] \o ss[k + 1]) = Through(G, f[k]) \o Through(G, ss[k + 1])
    <3>. DEFINE x == f[k]
                y == ss[k + 1]
    <3>1. x \in Seq(M) /\ y \in Seq(M)
      BY <2>2
    <3>. HIDE DEF x, y
    <3>2. Through(G, x \o y) = Through(G, x) \o Through(G, y)
      BY <3>1, ThroughConcat
    <3>3. QED BY <3>2 DEF x, y
  <2>4. QED BY <1>3, <2>1, <2>2, <2>3
<1>. HIDE DEF S
<1>9. 0 .. n \subseteq S
  BY <1>7, <1>8, SetInductionTo
<1>10. g[n] = Through(G, f[n])
  <2>1. n \in S
    BY <1>9
  <2>2. QED BY <2>1 DEF S
<1>11. FlattenSeq(ss) \in Seq(M)
  BY <1>1, FlattenType
<1>12. QED BY <1>2, <1>5, <1>6, <1>10, <1>11 DEF Joins, tt

\* G leaves out every element, or none.
LEMMA ThroughNone ==
  ASSUME NEW M, NEW T, NEW G, Maker(G, M, T), NEW h \in Seq(M),
         \A m \in M : G[m] = <<>>
  PROVE  Through(G, h) = <<>>
<1>. DEFINE a == Pieces(G, h)
<1>1. /\ Rows(a, Len(h), T)
      /\ \A i \in 1 .. Len(h) : a[i] = G[h[i]]
  BY ThroughSeq
<1>2. Len(h) \in Nat /\ \A i \in 1 .. Len(h) : h[i] \in M
  BY LenProperties, ElementOfSeq
<1>. HIDE DEF a
<1>3. \A i \in 1 .. Len(h) : a[i] = <<>>
  BY <1>1, <1>2
<1>4. FlattenSeq(a) = <<>>
  BY <1>1, <1>2, <1>3, FlattenNothing
<1>5. QED BY <1>4 DEF Through, a

LEMMA ThroughAll ==
  ASSUME NEW M, NEW G, NEW h \in Seq(M), \A m \in M : G[m] = <<m>>
  PROVE  Through(G, h) = h
<1>1. \A i \in DOMAIN h : h[i] \in M
  BY LenProperties, ElementOfSeq
<1>2. [i \in DOMAIN h |-> G[h[i]]] = [i \in DOMAIN h |-> <<h[i]>>]
  BY <1>1
<1>3. QED BY <1>2, FlattenSingles DEF Through, Pieces

-----------------------------------------------------------------------------
(* The messages of a history, level by level.                                 *)

Roles == {"system", "user", "assistant", "tool"}
Msg == [role : Roles, level : {-1} \cup Nat, covers : Seq(Nat)]
OnLevel(k) == {m \in Msg : m.level = k}

\* Those no pass takes; they stand for none that arrived.
Guarded == {m \in OnLevel(-1) : m.covers = <<>>}

Picks(k) == [m \in Msg |-> IF m.level = k THEN <<m>> ELSE <<>>]
Covers == [m \in Msg |-> m.covers]

LEMMA Subsets ==
  /\ Guarded \subseteq Msg /\ Guarded \subseteq OnLevel(-1)
  /\ \A k : OnLevel(k) \subseteq Msg /\ Seq(OnLevel(k)) \subseteq Seq(Msg)
  /\ Seq(Guarded) \subseteq Seq(Msg) /\ Seq(Guarded) \subseteq Seq(OnLevel(-1))
<1>1. Guarded \subseteq Msg /\ Guarded \subseteq OnLevel(-1)
  BY DEF Guarded, OnLevel
<1>2. \A k : OnLevel(k) \subseteq Msg
  BY DEF OnLevel
<1>3. \A A, B : A \subseteq B => Seq(A) \subseteq Seq(B)
  BY SeqMonotonic
<1>4. QED BY <1>1, <1>2, <1>3

LEMMA MakersOK ==
  /\ Maker(Covers, Msg, Nat)
  /\ \A k : Maker(Picks(k), Msg, OnLevel(k))
<1>1. Maker(Covers, Msg, Nat)
  BY DEF Maker, Covers, Msg
<1>2. ASSUME NEW k  PROVE Maker(Picks(k), Msg, OnLevel(k))
  <2>. SUFFICES ASSUME NEW m \in Msg  PROVE Picks(k)[m] \in Seq(OnLevel(k))
    BY DEF Maker
  <2>1. CASE m.level = k
    <3>1. m \in OnLevel(k) /\ Picks(k)[m] = <<m>>
      BY <2>1 DEF OnLevel, Picks
    <3>2. QED BY <3>1
  <2>2. CASE m.level # k
    BY <2>2 DEF Picks
  <2>3. QED BY <2>1, <2>2
<1>3. QED BY <1>1, <1>2

LEMMA AtLevelIs ==
  ASSUME NEW h \in Seq(Msg), NEW k
  PROVE  AtLevel(h, k) = Through(Picks(k), h)
<1>1. \A i \in DOMAIN h : h[i] \in Msg
  BY LenProperties, ElementOfSeq
<1>2. \A i \in DOMAIN h : Picks(k)[h[i]] = IF h[i].level = k THEN <<h[i]>> ELSE <<>>
  BY <1>1 DEF Picks
<1>3. QED BY <1>2 DEF AtLevel, Through, Pieces

LEMMA CoveredIs ==
  ASSUME NEW h \in Seq(Msg)
  PROVE  Covered(h) = Through(Covers, h)
<1>1. \A i \in DOMAIN h : h[i] \in Msg
  BY LenProperties, ElementOfSeq
<1>2. \A i \in DOMAIN h : Covers[h[i]] = h[i].covers
  BY <1>1 DEF Covers
<1>3. QED BY <1>2 DEF Covered, Through, Pieces

LEMMA AtLevelType ==
  ASSUME NEW h \in Seq(Msg), NEW k
  PROVE  AtLevel(h, k) \in Seq(OnLevel(k)) /\ AtLevel(h, k) \in Seq(Msg)
<1>1. Maker(Picks(k), Msg, OnLevel(k))
  BY MakersOK
<1>2. Through(Picks(k), h) \in Seq(OnLevel(k))
  BY <1>1, ThroughSeq
<1>3. QED BY <1>2, AtLevelIs, Subsets

LEMMA CoveredType ==
  ASSUME NEW h \in Seq(Msg)
  PROVE  Covered(h) \in Seq(Nat)
<1>1. Maker(Covers, Msg, Nat)
  BY MakersOK
<1>2. Through(Covers, h) \in Seq(Nat)
  BY <1>1, ThroughSeq
<1>3. QED BY <1>2, CoveredIs

LEMMA CoveredConcat ==
  ASSUME NEW a \in Seq(Msg), NEW b \in Seq(Msg)
  PROVE  a \o b \in Seq(Msg) /\ Covered(a \o b) = Covered(a) \o Covered(b)
<1>1. Maker(Covers, Msg, Nat)
  BY MakersOK
<1>2. Through(Covers, a \o b) = Through(Covers, a) \o Through(Covers, b)
  BY <1>1, ThroughConcat
<1>. DEFINE c == a \o b
<1>3. c \in Seq(Msg)
  BY ConcatProperties
<1>. HIDE DEF c
<1>4. Covered(c) = Through(Covers, c)
  BY <1>3, CoveredIs
<1>5. Covered(a) = Through(Covers, a) /\ Covered(b) = Through(Covers, b)
  BY CoveredIs
<1>6. QED BY <1>2, <1>3, <1>4, <1>5 DEF c

LEMMA AtLevelConcat ==
  ASSUME NEW a \in Seq(Msg), NEW b \in Seq(Msg), NEW k
  PROVE  AtLevel(a \o b, k) = AtLevel(a, k) \o AtLevel(b, k)
<1>1. Maker(Picks(k), Msg, OnLevel(k))
  BY MakersOK
<1>2. Through(Picks(k), a \o b) = Through(Picks(k), a) \o Through(Picks(k), b)
  BY <1>1, ThroughConcat
<1>. DEFINE c == a \o b
<1>3. c \in Seq(Msg)
  BY ConcatProperties
<1>. HIDE DEF c
<1>4. AtLevel(c, k) = Through(Picks(k), c)
  BY <1>3, AtLevelIs
<1>5. AtLevel(a, k) = Through(Picks(k), a) /\ AtLevel(b, k) = Through(Picks(k), b)
  BY AtLevelIs
<1>6. QED BY <1>2, <1>4, <1>5 DEF c

\* What is all at one level.
LEMMA OneLevel ==
  ASSUME NEW k, NEW h \in Seq(OnLevel(k))
  PROVE  AtLevel(h, k) = h /\ \A j : j # k => AtLevel(h, j) = <<>>
<1>1. h \in Seq(Msg)
  BY Subsets
<1>2. \A m \in OnLevel(k) : m \in Msg /\ m.level = k
  BY DEF OnLevel
<1>3. \A m \in OnLevel(k) : Picks(k)[m] = <<m>>
  BY <1>2 DEF Picks
<1>4. AtLevel(h, k) = h
  BY <1>1, <1>3, AtLevelIs, ThroughAll
<1>5. ASSUME NEW j, j # k  PROVE AtLevel(h, j) = <<>>
  <2>1. \A m \in OnLevel(k) : Picks(j)[m] = <<>>
    BY <1>2, <1>5 DEF Picks
  <2>2. Maker(Picks(j), OnLevel(k), Msg)
    BY <2>1, EmptySeq DEF Maker
  <2>3. Through(Picks(j), h) = <<>>
    BY <2>1, <2>2, ThroughNone
  <2>4. QED BY <1>1, <2>3, AtLevelIs
<1>6. QED BY <1>4, <1>5

LEMMA GuardedCover ==
  ASSUME NEW h \in Seq(Guarded)
  PROVE  Covered(h) = <<>>
<1>1. h \in Seq(Msg)
  BY Subsets
<1>2. \A m \in Guarded : Covers[m] = <<>>
  BY DEF Guarded, OnLevel, Covers
<1>3. Maker(Covers, Guarded, Nat)
  BY <1>2, EmptySeq DEF Maker
<1>4. Through(Covers, h) = <<>>
  BY <1>2, <1>3, ThroughNone
<1>5. QED BY <1>1, <1>4, CoveredIs

LEMMA CoveredOne ==
  ASSUME NEW m \in Msg
  PROVE  Covered(<<m>>) = m.covers
<1>1. m.covers \in Seq(Nat)
  BY DEF Msg
<1>2. [i \in DOMAIN <<m>> |-> <<m>>[i].covers] = <<m.covers>>
  OBVIOUS
<1>3. QED BY <1>1, <1>2, FlattenOne DEF Covered

LEMMA CoveredNone == Covered(<<>>) = <<>>
<1>1. [i \in DOMAIN <<>> |-> <<>>[i].covers] = <<>> /\ Len(<<>>) = 0
  OBVIOUS
<1>2. QED BY <1>1 DEF Covered, FlattenSeq

-----------------------------------------------------------------------------
(* A history is its protected messages, then its levels from the oldest.      *)

Stack(q) == FlattenSeq([i \in 1 .. MaxLevels + 1 |-> q[MaxLevels + 1 - i]])

Levels(q) == DOMAIN q = 0 .. MaxLevels /\ \A k \in 0 .. MaxLevels : q[k] \in Seq(OnLevel(k))

Fits(h, p, q) == p \in Seq(Guarded) /\ Levels(q) /\ h = p \o Stack(q)

Shaped(h) == \E p, q : Fits(h, p, q)

\* The places of the levels in the stack.
LEMMA Places ==
  /\ MaxLevels \in Nat /\ MaxLevels + 1 \in Nat
  /\ \A i \in 1 .. MaxLevels + 1 : MaxLevels + 1 - i \in 0 .. MaxLevels
  /\ \A k \in 0 .. MaxLevels : /\ MaxLevels + 1 - k \in 1 .. MaxLevels + 1
                               /\ MaxLevels + 1 - (MaxLevels + 1 - k) = k
  /\ \A i \in 1 .. MaxLevels + 1 : \A k \in 0 .. MaxLevels :
       MaxLevels + 1 - i = k => i = MaxLevels + 1 - k
BY SizesAssumption

LEMMA StackRows ==
  ASSUME NEW q, Levels(q)
  PROVE  LET n == MaxLevels + 1
             rows == [i \in 1 .. n |-> q[n - i]]
         IN  /\ Rows(rows, n, Msg)
             /\ \A i \in 1 .. n : rows[i] = q[n - i] /\ q[n - i] \in Seq(OnLevel(n - i))
             /\ Stack(q) = FlattenSeq(rows)
             /\ Stack(q) \in Seq(Msg)
<1>. DEFINE n == MaxLevels + 1
            rows == [i \in 1 .. n |-> q[n - i]]
<1>1. \A i \in 1 .. n : q[n - i] \in Seq(OnLevel(n - i)) /\ q[n - i] \in Seq(Msg)
  BY Places, Subsets DEF Levels
<1>2. Rows(rows, n, Msg)
  BY <1>1 DEF Rows
<1>3. Stack(q) = FlattenSeq(rows)
  <2>1. \A i \in 1 .. n : q[MaxLevels + 1 - i] = q[n - i]
    BY Places
  <2>2. QED BY <2>1 DEF Stack
<1>4. FlattenSeq(rows) \in Seq(Msg)
  <2>1. n \in Nat
    BY Places
  <2>. HIDE DEF rows, n
  <2>2. rows \in Seq(Seq(Msg))
    BY <1>2, <2>1, RowsSeq
  <2>3. QED BY <2>2, FlattenType
<1>5. QED BY <1>1, <1>2, <1>3, <1>4

\* Each level of a history that fits is the one it was put together from.
LEMMA FitsLevels ==
  ASSUME NEW h, NEW p, NEW q, Fits(h, p, q)
  PROVE  /\ h \in Seq(Msg) /\ AtLevel(h, -1) = p
         /\ \A k \in 0 .. MaxLevels : AtLevel(h, k) = q[k]
<1>. DEFINE n == MaxLevels + 1
            rows == [i \in 1 .. n |-> q[n - i]]
<1>1. /\ n \in Nat /\ Rows(rows, n, Msg)
      /\ \A i \in 1 .. n : rows[i] = q[n - i] /\ q[n - i] \in Seq(OnLevel(n - i))
      /\ Stack(q) = FlattenSeq(rows) /\ Stack(q) \in Seq(Msg)
  BY StackRows, Places DEF Fits
<1>2. p \in Seq(Msg) /\ p \in Seq(OnLevel(-1)) /\ h = p \o Stack(q)
  BY Subsets DEF Fits
<1>3. h \in Seq(Msg)
  BY <1>1, <1>2, ConcatProperties
<1>. HIDE DEF rows
<1>4. ASSUME NEW k
      PROVE  LET cut == [i \in 1 .. n |-> AtLevel(rows[i], k)]
             IN  Rows(cut, n, OnLevel(k)) /\ AtLevel(Stack(q), k) = FlattenSeq(cut)
  <2>. DEFINE cut == [i \in 1 .. n |-> AtLevel(rows[i], k)]
              through == ThroughEach(Picks(k), n, rows)
  <2>1. \A i \in 1 .. n : rows[i] \in Seq(Msg)
    BY <1>1, RowsSeq
  <2>2. \A i \in 1 .. n : AtLevel(rows[i], k) = Through(Picks(k), rows[i])
                        /\ AtLevel(rows[i], k) \in Seq(OnLevel(k))
    BY <2>1, AtLevelIs, AtLevelType
  <2>3. cut = through /\ Rows(cut, n, OnLevel(k))
    BY <2>2 DEF Rows, ThroughEach
  <2>4. Maker(Picks(k), Msg, OnLevel(k))
    BY MakersOK
  <2>5. Through(Picks(k), FlattenSeq(rows)) = FlattenSeq(through)
    <3>. HIDE DEF n
    <3>1. QED BY <1>1, <2>4, ThroughFlatten
  <2>6. AtLevel(Stack(q), k) = Through(Picks(k), Stack(q))
    BY <1>1, AtLevelIs
  <2>. HIDE DEF cut, through
  <2>7. QED BY <1>1, <2>3, <2>5, <2>6 DEF cut
<1>5. ASSUME NEW k
      PROVE  AtLevel(h, k) = AtLevel(p, k) \o AtLevel(Stack(q), k)
  BY <1>1, <1>2, AtLevelConcat
<1>6. \A i \in 1 .. n : /\ AtLevel(rows[i], n - i) = rows[i]
                        /\ \A k : k # n - i => AtLevel(rows[i], k) = <<>>
  <2>. SUFFICES ASSUME NEW i \in 1 .. n
                PROVE  /\ AtLevel(rows[i], n - i) = rows[i]
                       /\ \A k : k # n - i => AtLevel(rows[i], k) = <<>>
    OBVIOUS
  <2>. DEFINE row == rows[i]
              l == n - i
  <2>1. row \in Seq(OnLevel(l))
    BY <1>1
  <2>. HIDE DEF row, l
  <2>2. AtLevel(row, l) = row /\ \A k : k # l => AtLevel(row, k) = <<>>
    BY <2>1, OneLevel
  <2>3. QED BY <2>2 DEF row, l
<1>7. AtLevel(p, -1) = p /\ \A k \in 0 .. MaxLevels : AtLevel(p, k) = <<>>
  BY <1>2, OneLevel
<1>8. AtLevel(h, -1) = p
  <2>. DEFINE cut == [i \in 1 .. n |-> AtLevel(rows[i], -1)]
  <2>1. Rows(cut, n, OnLevel(-1)) /\ AtLevel(Stack(q), -1) = FlattenSeq(cut)
    BY <1>4
  <2>2. \A i \in 1 .. n : cut[i] = <<>>
    <3>. SUFFICES ASSUME NEW i \in 1 .. n  PROVE cut[i] = <<>>
      OBVIOUS
    <3>1. n - i \in 0 .. MaxLevels
      BY Places
    <3>2. -1 # n - i
      BY <3>1, Places
    <3>. HIDE DEF n
    <3>3. AtLevel(rows[i], -1) = <<>>
      BY <1>6, <3>2
    <3>4. QED BY <3>3
  <2>. HIDE DEF cut, n
  <2>3. FlattenSeq(cut) = <<>>
    BY <1>1, <2>1, <2>2, FlattenNothing
  <2>4. QED BY <1>2, <1>5, <1>7, <2>1, <2>3, ConcatEmptySeq
<1>9. ASSUME NEW k \in 0 .. MaxLevels  PROVE AtLevel(h, k) = q[k]
  <2>. DEFINE cut == [i \in 1 .. n |-> AtLevel(rows[i], k)]
              j == n - k
  <2>1. Rows(cut, n, OnLevel(k)) /\ AtLevel(Stack(q), k) = FlattenSeq(cut)
    BY <1>4
  <2>2. j \in 1 .. n /\ n - j = k
    BY Places
  <2>3. \A i \in 1 .. n : i # j => n - i # k
    BY Places
  <2>4. \A i \in 1 .. n : i # j => cut[i] = <<>>
    BY <1>6, <2>3
  <2>5. cut[j] = q[k]
    <3>1. rows[j] = q[k]
      BY <1>1, <2>2
    <3>2. AtLevel(rows[j], k) = rows[j]
      BY <1>6, <2>2
    <3>3. QED BY <2>2, <3>1, <3>2
  <2>. HIDE DEF cut, n, j
  <2>6. FlattenSeq(cut) = cut[j]
    <3>1. n \in Nat /\ j \in 1 .. n /\ Rows(cut, n, OnLevel(k))
      BY <1>1, <2>1, <2>2
    <3>2. QED BY <2>4, <3>1, FlattenPicks
  <2>7. q[k] \in Seq(Msg)
    BY Subsets DEF Fits, Levels
  <2>8. QED BY <1>5, <1>7, <2>1, <2>5, <2>6, <2>7, ConcatEmptySeq
<1>10. QED BY <1>3, <1>8, <1>9

\* What a history that fits covers, level by level.
LEMMA FitsCovered ==
  ASSUME NEW h, NEW p, NEW q, Fits(h, p, q)
  PROVE  LET n == MaxLevels + 1
             cut == [i \in 1 .. n |-> Covered(q[n - i])]
         IN  Rows(cut, n, Nat) /\ Covered(h) = FlattenSeq(cut)
<1>. DEFINE n == MaxLevels + 1
            rows == [i \in 1 .. n |-> q[n - i]]
            cut == [i \in 1 .. n |-> Covered(q[n - i])]
            through == ThroughEach(Covers, n, rows)
<1>1. /\ n \in Nat /\ Rows(rows, n, Msg)
      /\ \A i \in 1 .. n : rows[i] = q[n - i]
      /\ Stack(q) = FlattenSeq(rows) /\ Stack(q) \in Seq(Msg)
  BY StackRows, Places DEF Fits
<1>2. p \in Seq(Msg) /\ p \in Seq(Guarded) /\ h = p \o Stack(q)
  BY Subsets DEF Fits
<1>. HIDE DEF rows, n
<1>3. \A i \in 1 .. n : q[n - i] \in Seq(Msg)
  BY <1>1, RowsSeq
<1>4. \A i \in 1 .. n : Covered(q[n - i]) = Through(Covers, rows[i])
                      /\ Covered(q[n - i]) \in Seq(Nat)
  BY <1>1, <1>3, CoveredIs, CoveredType
<1>5. cut = through /\ Rows(cut, n, Nat)
  BY <1>4 DEF Rows, ThroughEach
<1>6. Maker(Covers, Msg, Nat)
  BY MakersOK
<1>7. Through(Covers, FlattenSeq(rows)) = FlattenSeq(through)
  BY <1>1, <1>6, ThroughFlatten
<1>8. Covered(Stack(q)) = Through(Covers, Stack(q)) /\ Covered(Stack(q)) \in Seq(Nat)
  BY <1>1, CoveredIs, CoveredType
<1>9. Covered(h) = Covered(p) \o Covered(Stack(q))
  BY <1>1, <1>2, CoveredConcat
<1>10. Covered(p) = <<>>
  BY <1>2, GuardedCover
<1>11. <<>> \o Covered(Stack(q)) = Covered(Stack(q))
  BY <1>8, ConcatEmptySeq
<1>12. QED BY <1>1, <1>5, <1>7, <1>8, <1>9, <1>10, <1>11 DEF n

-----------------------------------------------------------------------------
(* The walk of a pass over the levels.                                        *)

\* How much of a level is squashed.
LEMMA OverflowFits ==
  ASSUME NEW s \in Seq(Msg), NEW k
  PROVE  Overflow(s, k) \in 0 .. Len(s)
<1>. DEFINE l == Len(s)
            n == IF l <= Keep THEN 0 ELSE l - Keep
            m == IF n < Trigger THEN 0 ELSE IF k = 0 THEN Shrunk(s, n) ELSE n
<1>1. l \in Nat /\ Keep \in Nat /\ Trigger \in Nat
  BY LenProperties, SizesAssumption
<1>2. n \in 0 .. l
  BY <1>1
<1>3. Shrunk(s, n) \in 0 .. l
  <2>. HIDE DEF n
  <2>. DEFINE ends == {i \in 1 .. n : s[i].role = "assistant"}
              last == CHOOSE i \in ends : \A j \in ends : j <= i
  <2>1. CASE ends = {}
    BY <1>1, <2>1 DEF Shrunk
  <2>2. CASE ends # {}
    <3>. DEFINE P == {j \in 0 .. n : n - j \in ends}
    <3>1. PICK e \in ends : TRUE
      BY <2>2
    <3>2. n - e \in P /\ P \in SUBSET Nat
      BY <1>1, <1>2, <3>1
    <3>3. PICK j \in P : \A i \in P : j <= i
      <4>. HIDE DEF P
      <4>1. QED BY <3>2, LeastOne
    <3>4. n - j \in ends /\ j \in 0 .. n
      BY <3>3
    <3>5. \A i \in ends : i <= n - j
      <4>. SUFFICES ASSUME NEW i \in ends  PROVE i <= n - j
        OBVIOUS
      <4>1. i \in 1 .. n /\ n \in Nat
        BY <1>1, <1>2
      <4>2. n - i \in 0 .. n /\ n - (n - i) = i
        BY <4>1
      <4>3. n - i \in P
        BY <4>2
      <4>4. j <= n - i /\ j \in Nat
        BY <3>3, <3>4, <4>3
      <4>5. QED BY <4>1, <4>4
    <3>. HIDE DEF P, ends
    <3>6. last \in ends
      BY <3>4, <3>5
    <3>7. Shrunk(s, n) = last
      BY <2>2 DEF Shrunk, ends
    <3>8. last \in 1 .. n
      BY <3>6 DEF ends
    <3>. HIDE DEF last
    <3>9. QED BY <1>1, <1>2, <3>7, <3>8
  <2>3. QED BY <2>1, <2>2
<1>4. m \in 0 .. l
  <2>. HIDE DEF n
  <2>1. QED BY <1>1, <1>2, <1>3
<1>5. Overflow(s, k) = IF m < Trigger THEN 0 ELSE m
  BY DEF Overflow
<1>. HIDE DEF m
<1>6. QED BY <1>1, <1>4, <1>5

\* The oldest of a level and the rest of it.
LEMMA Halves ==
  ASSUME NEW S, NEW s \in Seq(S), NEW n \in 0 .. Len(s)
  PROVE  /\ SubSeq(s, 1, n) \in Seq(S) /\ SubSeq(s, n + 1, Len(s)) \in Seq(S)
         /\ SubSeq(s, 1, n) \o SubSeq(s, n + 1, Len(s)) = s
         /\ n = 0 => SubSeq(s, n + 1, Len(s)) = s
<1>. DEFINE l == Len(s)
<1>1. l \in Nat /\ \A i \in 1 .. l : s[i] \in S
  BY LenProperties, ElementOfSeq
<1>2. n \in Nat /\ n <= l /\ 1 \in 1 .. l + 1 /\ n \in 1 - 1 .. l /\ l \in n .. l
  BY <1>1
<1>3. SubSeq(s, 1, n) \in Seq(S)
  BY <1>2, FirstElements
<1>4. \A i \in n + 1 .. l : s[i] \in S
  BY <1>1, <1>2
<1>5. SubSeq(s, n + 1, l) \in Seq(S)
  <2>1. n + 1 \in Int /\ l \in Int
    BY <1>1, <1>2
  <2>. HIDE DEF l
  <2>2. QED BY <1>4, <2>1, SubSeqProperties
<1>6. SubSeq(s, 1, n) \o SubSeq(s, n + 1, l) = SubSeq(s, 1, l)
  BY <1>2, ConcatAdjacentSubSeq
<1>7. SubSeq(s, 1, l) = s
  BY SubSeqFull
<1>8. n = 0 => n + 1 = 1
  OBVIOUS
<1>9. QED BY <1>3, <1>5, <1>6, <1>7, <1>8

Squashed == [rest : Seq(Msg), summary : Seq(Msg)]

\* Squashing a level neither loses nor moves what it covers: the summary is of the
\* oldest, the rest stays; and what stays and what is promoted are at their levels.
LEMMA SquashKeeps ==
  ASSUME NEW h \in Seq(Msg), NEW asked, NEW k \in 0 .. MaxLevels, NEW promoted \in Seq(Msg)
  PROVE  LET r == Squash(h, asked, k, promoted)
         IN  /\ r \in Squashed
             /\ Covered(r.summary) \o Covered(r.rest) = Covered(AtLevel(h, k)) \o Covered(promoted)
             /\ promoted \in Seq(OnLevel(k)) => r.rest \in Seq(OnLevel(k))
             /\ r.summary \in Seq(OnLevel(k + 1))
             /\ k = MaxLevels => r.summary = <<>>
<1>. DEFINE level == AtLevel(h, k) \o promoted
            due == k < MaxLevels /\ \E i \in DOMAIN h : h[i].level >= k
            n == IF due /\ asked[k] THEN Overflow(level, k) ELSE 0
            rest == SubSeq(level, n + 1, Len(level))
            first == SubSeq(level, 1, n)
            one == Message("system", k + 1, Covered(first))
            summary == IF n = 0 THEN <<>> ELSE <<one>>
            r == [rest |-> rest, summary |-> summary]
<1>1. Squash(h, asked, k, promoted) = r
  BY DEF Squash
<1>2. /\ level \in Seq(Msg)
      /\ Covered(level) = Covered(AtLevel(h, k)) \o Covered(promoted)
      /\ promoted \in Seq(OnLevel(k)) => level \in Seq(OnLevel(k))
  <2>1. AtLevel(h, k) \in Seq(Msg) /\ AtLevel(h, k) \in Seq(OnLevel(k))
    BY AtLevelType
  <2>2. QED BY <2>1, CoveredConcat, ConcatProperties
<1>. HIDE DEF level
<1>3. n \in 0 .. Len(level)
  <2>1. Overflow(level, k) \in 0 .. Len(level)
    BY <1>2, OverflowFits
  <2>2. 0 \in 0 .. Len(level)
    BY <1>2, LenProperties
  <2>. HIDE DEF due
  <2>3. QED BY <2>1, <2>2
<1>4. k = MaxLevels => n = 0
  BY Places
<1>. HIDE DEF n
<1>5. /\ first \in Seq(Msg) /\ rest \in Seq(Msg) /\ first \o rest = level
      /\ n = 0 => rest = level
  BY <1>2, <1>3, Halves
<1>6. level \in Seq(OnLevel(k)) => rest \in Seq(OnLevel(k))
  BY <1>3, Halves
<1>7. Covered(first) \o Covered(rest) = Covered(level)
  <2>. HIDE DEF first, rest
  <2>1. Covered(first \o rest) = Covered(first) \o Covered(rest)
    BY <1>5, CoveredConcat
  <2>2. QED BY <1>5, <2>1
<1>. HIDE DEF first, rest
<1>8. Covered(first) \in Seq(Nat) /\ Covered(rest) \in Seq(Nat)
  BY <1>5, CoveredType
<1>9. one \in Msg /\ one.level = k + 1 /\ one.covers = Covered(first)
  <2>1. k + 1 \in {-1} \cup Nat
    OBVIOUS
  <2>2. QED BY <1>8, <2>1 DEF Message, Msg, Roles
<1>. HIDE DEF one
<1>10. /\ summary \in Seq(Msg) /\ summary \in Seq(OnLevel(k + 1))
       /\ Covered(summary) = IF n = 0 THEN <<>> ELSE Covered(first)
  <2>1. CASE n = 0
    BY <2>1, CoveredNone, EmptySeq
  <2>2. CASE n # 0
    <3>1. one \in OnLevel(k + 1)
      BY <1>9 DEF OnLevel
    <3>2. <<one>> \in Seq(Msg) /\ <<one>> \in Seq(OnLevel(k + 1))
      BY <1>9, <3>1
    <3>3. Covered(<<one>>) = Covered(first)
      BY <1>9, CoveredOne
    <3>4. QED BY <2>2, <3>2, <3>3
  <2>3. QED BY <2>1, <2>2
<1>11. Covered(summary) \o Covered(rest) = Covered(level)
  <2>1. CASE n = 0
    <3>1. <<>> \o Covered(rest) = Covered(rest)
      BY <1>8, ConcatEmptySeq
    <3>2. QED BY <1>5, <1>10, <2>1, <3>1
  <2>2. CASE n # 0
    BY <1>7, <1>10, <2>2
  <2>3. QED BY <2>1, <2>2
<1>12. k = MaxLevels => summary = <<>>
  BY <1>4
<1>. HIDE DEF summary
<1>13. r.rest = rest /\ r.summary = summary /\ r \in Squashed
  BY <1>5, <1>10 DEF Squashed
<1>. HIDE DEF r
<1>14. QED BY <1>1, <1>2, <1>6, <1>10, <1>11, <1>12, <1>13

\* The walk gives every level its turn, with what the one below has promoted.
LEMMA WalkRuns ==
  ASSUME NEW h \in Seq(Msg), NEW asked
  PROVE  LET w == Walked(h, asked)
         IN  /\ DOMAIN w = 0 .. MaxLevels
             /\ \A k \in 0 .. MaxLevels :
                  w[k] = Squash(h, asked, k, IF k = 0 THEN <<>> ELSE w[k - 1].summary)
<1>. DEFINE n == MaxLevels
            V == Squashed
            G == [k \in 0 .. n |-> [v \in V |-> Squash(h, asked, k, v.summary)]]
            v0 == [rest |-> <<>>, summary |-> <<>>]
            Whole(w) == w = [k \in 0 .. n |-> Squash(h, asked, k, IF k = 0 THEN <<>> ELSE w[k - 1].summary)]
            walk == CHOOSE w : Whole(w)
<1>1. n \in Nat
  BY Places
<1>2. v0 \in V /\ v0.summary = <<>>
  BY EmptySeq DEF Squashed
<1>3. \A k \in 0 .. n : \A v \in V : Squash(h, asked, k, v.summary) \in V
  <2>. SUFFICES ASSUME NEW k \in 0 .. n, NEW v \in V
                PROVE  Squash(h, asked, k, v.summary) \in V
    OBVIOUS
  <2>. DEFINE p == v.summary
  <2>1. p \in Seq(Msg)
    BY DEF Squashed
  <2>. HIDE DEF p
  <2>2. Squash(h, asked, k, p) \in Squashed
    BY <2>1, SquashKeeps
  <2>3. QED BY <2>2 DEF p
<1>4. G \in [0 .. n -> [V -> V]]
  BY <1>3
<1>5. /\ \A v \in V : G[0][v] = Squash(h, asked, 0, v.summary)
      /\ \A k \in 1 .. n : \A v \in V : G[k][v] = Squash(h, asked, k, v.summary)
  BY <1>1
<1>6. PICK w : Follows(w, n, V, v0, G)
  <2>. HIDE DEF n, V, v0, G
  <2>1. QED BY <1>1, <1>2, <1>4, RecursionTo
<1>7. /\ w \in [0 .. n -> V]
      /\ w[0] = Squash(h, asked, 0, <<>>)
      /\ \A k \in 1 .. n : w[k] = Squash(h, asked, k, w[k - 1].summary)
  <2>1. w \in [0 .. n -> V] /\ w[0] = G[0][v0] /\ \A k \in 1 .. n : w[k] = G[k][w[k - 1]]
    BY <1>6 DEF Follows
  <2>. HIDE DEF G, v0, V, n
  <2>2. \A k \in 1 .. n : w[k - 1] \in V
    BY <1>1, <2>1
  <2>3. QED BY <1>2, <1>5, <2>1, <2>2
<1>8. Whole(w)
  <2>1. ASSUME NEW k \in 0 .. n
        PROVE  w[k] = Squash(h, asked, k, IF k = 0 THEN <<>> ELSE w[k - 1].summary)
    <3>1. k # 0 => k \in 1 .. n
      BY <1>1
    <3>. HIDE DEF n
    <3>2. QED BY <1>7, <3>1
  <2>2. QED BY <1>7, <2>1
<1>9. Whole(walk)
  BY <1>8
<1>10. Walked(h, asked) = walk
  BY DEF Walked
<1>. HIDE DEF walk
<1>11. /\ DOMAIN walk = 0 .. n
       /\ \A k \in 0 .. n :
            walk[k] = Squash(h, asked, k, IF k = 0 THEN <<>> ELSE walk[k - 1].summary)
  BY <1>9
<1>12. QED BY <1>10, <1>11

\* A pass keeps the shape of a history, and what it covers.
LEMMA ConsolidatedKeeps ==
  ASSUME NEW h, Shaped(h), NEW asked
  PROVE  /\ Shaped(Consolidated(h, asked))
         /\ Covered(Consolidated(h, asked)) = Covered(h)
<1>. DEFINE n == MaxLevels + 1
            w == Walked(h, asked)
            prom == [k \in 0 .. MaxLevels |-> IF k = 0 THEN <<>> ELSE w[k - 1].summary]
            rest == [k \in 0 .. MaxLevels |-> w[k].rest]
            after == Consolidated(h, asked)
<1>1. PICK p, q : Fits(h, p, q)
  BY DEF Shaped
<1>2. /\ h \in Seq(Msg) /\ AtLevel(h, -1) = p
      /\ \A k \in 0 .. MaxLevels : AtLevel(h, k) = q[k]
  BY <1>1, FitsLevels
<1>3. \A k \in 0 .. MaxLevels : w[k] = Squash(h, asked, k, prom[k])
  <2>1. \A k \in 0 .. MaxLevels :
          w[k] = Squash(h, asked, k, IF k = 0 THEN <<>> ELSE w[k - 1].summary)
    BY <1>2, WalkRuns
  <2>2. QED BY <2>1
<1>4. prom[0] = <<>> /\ \A k \in 1 .. MaxLevels : prom[k] = w[k - 1].summary
  BY Places
<1>. HIDE DEF w, prom
<1>5. \A k \in 0 .. MaxLevels : prom[k] \in Seq(Msg)
  <2>. DEFINE S == {k \in 0 .. MaxLevels : prom[k] \in Seq(Msg)}
  <2>1. 0 \in S
    <3>1. 0 \in 0 .. MaxLevels
      BY Places
    <3>2. <<>> \in Seq(Msg)
      BY EmptySeq
    <3>3. QED BY <1>4, <3>1, <3>2
  <2>2. \A k \in 0 .. MaxLevels - 1 : k \in S => k + 1 \in S
    <3>. SUFFICES ASSUME NEW k \in 0 .. MaxLevels - 1, k \in S  PROVE k + 1 \in S
      OBVIOUS
    <3>1. k \in 0 .. MaxLevels /\ k + 1 \in 1 .. MaxLevels /\ k + 1 \in 0 .. MaxLevels /\ (k + 1) - 1 = k
      BY Places
    <3>. DEFINE a == prom[k]
    <3>2. a \in Seq(Msg)
      OBVIOUS
    <3>. HIDE DEF a
    <3>3. Squash(h, asked, k, a) \in Squashed
      BY <1>2, <3>1, <3>2, SquashKeeps
    <3>4. w[k].summary \in Seq(Msg)
      BY <1>3, <3>1, <3>3 DEF a, Squashed
    <3>5. QED BY <1>4, <3>1, <3>4
  <2>. HIDE DEF S
  <2>3. 0 .. MaxLevels \subseteq S
    BY <2>1, <2>2, Places, SetInductionTo
  <2>4. QED BY <2>3 DEF S
<1>6. ASSUME NEW k \in 0 .. MaxLevels
      PROVE  /\ w[k] \in Squashed
             /\ Covered(w[k].summary) \o Covered(w[k].rest) = Covered(q[k]) \o Covered(prom[k])
             /\ prom[k] \in Seq(OnLevel(k)) => w[k].rest \in Seq(OnLevel(k))
             /\ w[k].summary \in Seq(OnLevel(k + 1))
             /\ k = MaxLevels => w[k].summary = <<>>
  <2>. DEFINE a == prom[k]
              r == Squash(h, asked, k, a)
  <2>1. a \in Seq(Msg)
    BY <1>5
  <2>. HIDE DEF a
  <2>2. /\ r \in Squashed
        /\ Covered(r.summary) \o Covered(r.rest) = Covered(AtLevel(h, k)) \o Covered(a)
        /\ a \in Seq(OnLevel(k)) => r.rest \in Seq(OnLevel(k))
        /\ r.summary \in Seq(OnLevel(k + 1))
        /\ k = MaxLevels => r.summary = <<>>
    BY <1>2, <2>1, SquashKeeps
  <2>3. w[k] = r
    BY <1>3 DEF a
  <2>. HIDE DEF r
  <2>4. AtLevel(h, k) = q[k]
    BY <1>2
  <2>5. QED BY <2>2, <2>3, <2>4 DEF a
<1>7. \A k \in 0 .. MaxLevels : prom[k] \in Seq(OnLevel(k))
  <2>. SUFFICES ASSUME NEW k \in 0 .. MaxLevels  PROVE prom[k] \in Seq(OnLevel(k))
    OBVIOUS
  <2>1. CASE k = 0
    BY <1>4, <2>1, EmptySeq
  <2>2. CASE k # 0
    <3>1. k - 1 \in 0 .. MaxLevels /\ k \in 1 .. MaxLevels /\ (k - 1) + 1 = k
      BY <2>2, Places
    <3>2. w[k - 1].summary \in Seq(OnLevel((k - 1) + 1))
      BY <1>6, <3>1
    <3>3. QED BY <1>4, <3>1, <3>2
  <2>3. QED BY <2>1, <2>2
<1>8. Levels(rest)
  <2>1. \A k \in 0 .. MaxLevels : rest[k] = w[k].rest /\ w[k].rest \in Seq(OnLevel(k))
    BY <1>6, <1>7
  <2>2. QED BY <2>1 DEF Levels
<1>9. after = p \o Stack(rest)
  <2>1. \A i \in 1 .. n : rest[MaxLevels + 1 - i] = w[MaxLevels + 1 - i].rest
    BY Places
  <2>2. Stack(rest) = Flattened(h, w)
    BY <2>1 DEF Stack, Flattened
  <2>3. after = AtLevel(h, -1) \o Flattened(h, w)
    BY DEF Consolidated, Protected, w
  <2>4. QED BY <1>2, <2>2, <2>3
<1>10. Fits(after, p, rest)
  BY <1>1, <1>8, <1>9 DEF Fits
<1>. DEFINE a == [i \in 1 .. n |-> Covered(rest[n - i])]
            b == [i \in 1 .. n |-> Covered(q[n - i])]
            c == [i \in 0 .. n |-> IF i = 0 THEN <<>> ELSE Covered(prom[n - i])]
<1>. HIDE DEF after
<1>11. Rows(a, n, Nat) /\ Covered(after) = FlattenSeq(a)
  <2>. HIDE DEF rest
  <2>1. QED BY <1>10, FitsCovered
<1>12. Rows(b, n, Nat) /\ Covered(h) = FlattenSeq(b)
  BY <1>1, FitsCovered
<1>13. c \in [0 .. n -> Seq(Nat)]
  <2>1. ASSUME NEW i \in 0 .. n, i # 0  PROVE Covered(prom[n - i]) \in Seq(Nat)
    <3>. DEFINE x == prom[n - i]
    <3>1. n - i \in 0 .. MaxLevels
      BY <2>1, Places
    <3>2. x \in Seq(Msg)
      BY <1>5, <3>1
    <3>. HIDE DEF x
    <3>3. Covered(x) \in Seq(Nat)
      BY <3>2, CoveredType
    <3>4. QED BY <3>3 DEF x
  <2>2. <<>> \in Seq(Nat)
    BY EmptySeq
  <2>3. QED BY <2>1, <2>2
<1>14. /\ c[0] = <<>>
       /\ \A i \in 1 .. n : c[i] = Covered(prom[n - i])
       /\ \A i \in 1 .. n : a[i] = Covered(w[n - i].rest) /\ b[i] = Covered(q[n - i])
  <2>1. 0 \in 0 .. n /\ \A i \in 1 .. n : i \in 0 .. n /\ i # 0 /\ n - i \in 0 .. MaxLevels
    BY Places
  <2>2. QED BY <2>1
<1>15. c[n] = <<>>
  <2>1. n \in 1 .. n /\ n - n = 0
    BY Places
  <2>. HIDE DEF c, n
  <2>2. QED BY <1>4, <1>14, <2>1, CoveredNone
<1>16. ASSUME NEW i \in 1 .. n  PROVE c[i - 1] \o a[i] = b[i] \o c[i]
  <2>. DEFINE k == n - i
  <2>1. k \in 0 .. MaxLevels
    BY Places
  <2>2. Covered(w[k].summary) \o Covered(w[k].rest) = Covered(q[k]) \o Covered(prom[k])
    BY <1>6, <2>1
  <2>3. c[i - 1] = Covered(w[k].summary)
    <3>1. CASE i = 1
      <4>1. k = MaxLevels /\ i - 1 = 0
        BY <3>1, Places
      <4>. HIDE DEF c, k
      <4>2. w[k].summary = <<>>
        BY <1>6, <2>1, <4>1
      <4>3. QED BY <1>14, <4>1, <4>2, CoveredNone
    <3>2. CASE i # 1
      <4>1. i - 1 \in 1 .. n /\ n - (i - 1) \in 1 .. MaxLevels /\ (n - (i - 1)) - 1 = k
        BY <3>2, Places
      <4>2. prom[n - (i - 1)] = w[k].summary
        <5>. HIDE DEF k, n
        <5>1. QED BY <1>4, <4>1
      <4>. HIDE DEF c, k
      <4>3. QED BY <1>14, <4>1, <4>2
    <3>3. QED BY <3>1, <3>2
  <2>. HIDE DEF a, b, c
  <2>4. a[i] = Covered(w[k].rest) /\ b[i] = Covered(q[k]) /\ c[i] = Covered(prom[k])
    BY <1>14
  <2>5. QED BY <2>2, <2>3, <2>4
<1>17. FlattenSeq(a) = FlattenSeq(b)
  <2>1. n \in Nat
    BY Places
  <2>. HIDE DEF a, b, c, n
  <2>2. c[0] = <<>>
    BY <1>14
  <2>3. QED BY <1>11, <1>12, <1>13, <1>15, <1>16, <2>1, <2>2, FlattenTelescopes
<1>18. Shaped(after)
  <2>. HIDE DEF rest
  <2>1. QED BY <1>10 DEF Shaped
<1>19. QED BY <1>11, <1>12, <1>17, <1>18 DEF after

\* So does a wipe, of which the protected messages are left, and what is pushed.
LEMMA ProtectedShaped ==
  ASSUME NEW h, Shaped(h)
  PROVE  Shaped(Protected(h)) /\ Covered(Protected(h)) = <<>>
<1>. DEFINE none == [k \in 0 .. MaxLevels |-> <<>>]
<1>1. PICK p, q : Fits(h, p, q)
  BY DEF Shaped
<1>2. Protected(h) = p
  BY <1>1, FitsLevels DEF Protected
<1>3. p \in Seq(Guarded) /\ p \in Seq(Msg)
  BY <1>1, Subsets DEF Fits
<1>4. Levels(none)
  BY EmptySeq DEF Levels
<1>5. Stack(none) = <<>>
  <2>. DEFINE n == MaxLevels + 1
              rows == [i \in 1 .. n |-> none[n - i]]
  <2>1. Rows(rows, n, Msg) /\ Stack(none) = FlattenSeq(rows)
    <3>. HIDE DEF none
    <3>1. QED BY <1>4, StackRows
  <2>2. \A i \in 1 .. n : rows[i] = <<>>
    BY Places
  <2>3. n \in Nat
    BY Places
  <2>. HIDE DEF rows, n
  <2>4. QED BY <2>1, <2>2, <2>3, FlattenNothing
<1>6. p \o <<>> = p
  BY <1>3, ConcatEmptySeq
<1>. HIDE DEF none
<1>7. Shaped(p)
  BY <1>3, <1>4, <1>5, <1>6 DEF Fits, Shaped
<1>8. QED BY <1>2, <1>3, <1>7, GuardedCover

LEMMA PushedShaped ==
  ASSUME NEW h, Shaped(h), NEW new \in Seq(OnLevel(0))
  PROVE  Shaped(h \o new) /\ Covered(h \o new) = Covered(h) \o Covered(new)
<1>1. PICK p, q : Fits(h, p, q)
  BY DEF Shaped
<1>2. h \in Seq(Msg) /\ new \in Seq(Msg)
  BY <1>1, FitsLevels, Subsets
<1>. DEFINE u == [k \in 0 .. MaxLevels |-> IF k = 0 THEN q[0] \o new ELSE q[k]]
            n == MaxLevels + 1
            rows == [i \in 1 .. n |-> q[n - i]]
            next == [i \in 1 .. n |-> u[n - i]]
            top == [i \in 1 .. MaxLevels |-> q[n - i]]
<1>3. Levels(q) /\ p \in Seq(Guarded) /\ h = p \o Stack(q)
  BY <1>1 DEF Fits
<1>4. Levels(u)
  <2>1. 0 \in 0 .. MaxLevels /\ q[0] \in Seq(OnLevel(0))
    BY <1>3, Places DEF Levels
  <2>2. q[0] \o new \in Seq(OnLevel(0))
    BY <2>1, ConcatProperties
  <2>3. QED BY <1>3, <2>2 DEF Levels
<1>5. /\ Rows(rows, n, Msg) /\ Rows(next, n, Msg)
      /\ Stack(q) = FlattenSeq(rows) /\ Stack(u) = FlattenSeq(next)
      /\ Stack(q) \in Seq(Msg) /\ Stack(u) \in Seq(Msg)
  <2>1. Rows(rows, n, Msg) /\ Stack(q) = FlattenSeq(rows) /\ Stack(q) \in Seq(Msg)
    BY <1>3, StackRows
  <2>2. Rows(next, n, Msg) /\ Stack(u) = FlattenSeq(next) /\ Stack(u) \in Seq(Msg)
    <3>. HIDE DEF u
    <3>1. QED BY <1>4, StackRows
  <2>3. QED BY <2>1, <2>2
<1>6. /\ q[0] \in Seq(Msg) /\ q[0] \o new \in Seq(Msg)
      /\ \A i \in 1 .. MaxLevels : q[n - i] \in Seq(Msg)
  <2>1. \A k \in 0 .. MaxLevels : q[k] \in Seq(Msg)
    BY <1>3, Subsets DEF Levels
  <2>2. 0 \in 0 .. MaxLevels /\ \A i \in 1 .. MaxLevels : n - i \in 0 .. MaxLevels
    BY Places
  <2>3. q[0] \in Seq(Msg) /\ \A i \in 1 .. MaxLevels : q[n - i] \in Seq(Msg)
    BY <2>1, <2>2
  <2>4. QED BY <1>2, <2>3, ConcatProperties
<1>7. Rows(top, MaxLevels, Msg) /\ top \in Seq(Seq(Msg)) /\ Len(top) = MaxLevels
  <2>1. Rows(top, MaxLevels, Msg)
    BY <1>6 DEF Rows
  <2>. HIDE DEF top
  <2>2. QED BY <2>1, Places, RowsSeq
<1>8. ASSUME NEW s \in Seq(Msg), NEW a, Rows(a, n, Msg), a[n] = s,
             \A i \in 1 .. MaxLevels : a[i] = q[n - i]
      PROVE  FlattenSeq(a) = FlattenSeq(top) \o s
  <2>. DEFINE last == <<s>>
              both == top \o last
  <2>1. last \in Seq(Seq(Msg)) /\ Len(last) = 1 /\ last[1] = s
    OBVIOUS
  <2>2. a \in Seq(Seq(Msg)) /\ Len(a) = n
    <3>1. n \in Nat /\ Rows(a, n, Msg)
      BY <1>8, Places
    <3>. HIDE DEF n
    <3>2. QED BY <3>1, RowsSeq
  <2>3. \A i \in 1 .. MaxLevels : top[i] = q[n - i]
    OBVIOUS
  <2>. HIDE DEF top, last
  <2>4. /\ both \in Seq(Seq(Msg)) /\ Len(both) = MaxLevels + 1
        /\ \A i \in 1 .. MaxLevels + 1 : both[i] = IF i <= MaxLevels THEN top[i] ELSE last[i - MaxLevels]
    <3>1. top \in Seq(Seq(Msg)) /\ last \in Seq(Seq(Msg)) /\ Len(top) = MaxLevels /\ Len(last) = 1
      BY <1>7, <2>1
    <3>2. /\ both \in Seq(Seq(Msg)) /\ Len(both) = Len(top) + Len(last)
          /\ \A i \in 1 .. Len(top) + Len(last) :
               both[i] = IF i <= Len(top) THEN top[i] ELSE last[i - Len(top)]
      BY <3>1, ConcatProperties
    <3>. HIDE DEF both
    <3>3. QED BY <3>1, <3>2
  <2>. HIDE DEF both
  <2>5. \A i \in 1 .. n : a[i] = both[i]
    <3>. SUFFICES ASSUME NEW i \in 1 .. n  PROVE a[i] = both[i]
      OBVIOUS
    <3>1. CASE i \in 1 .. MaxLevels
      <4>1. i <= MaxLevels /\ i \in 1 .. MaxLevels + 1
        BY <3>1, Places
      <4>2. both[i] = top[i]
        BY <2>4, <4>1
      <4>3. top[i] = q[n - i] /\ a[i] = q[n - i]
        BY <1>8, <2>3, <3>1
      <4>4. QED BY <4>2, <4>3
    <3>2. CASE i = n
      <4>1. ~(n <= MaxLevels) /\ n - MaxLevels = 1 /\ n \in 1 .. n
        BY Places
      <4>2. both[n] = s
        BY <2>1, <2>4, <4>1
      <4>3. QED BY <1>8, <3>2, <4>2
    <3>3. i \in 1 .. MaxLevels \/ i = n
      BY Places
    <3>4. QED BY <3>1, <3>2, <3>3
  <2>6. a = both
    <3>1. Len(a) = Len(both) /\ \A i \in 1 .. Len(a) : a[i] = both[i]
      BY <2>2, <2>4, <2>5
    <3>2. QED BY <2>2, <2>4, <3>1, SeqEqual
  <2>7. FlattenSeq(top \o last) = FlattenSeq(top) \o FlattenSeq(last)
    BY <1>7, <2>1, FlattenConcat
  <2>8. FlattenSeq(last) = s
    BY FlattenOne DEF last
  <2>9. QED BY <2>6, <2>7, <2>8 DEF both
<1>9. Stack(q) = FlattenSeq(top) \o q[0]
  <2>1. rows[n] = q[0] /\ \A i \in 1 .. MaxLevels : rows[i] = q[n - i]
    BY Places
  <2>. HIDE DEF rows, top, n
  <2>2. QED BY <1>5, <1>6, <1>8, <2>1
<1>10. Stack(u) = FlattenSeq(top) \o (q[0] \o new)
  <2>1. next[n] = q[0] \o new
    <3>1. n \in 1 .. n /\ n - n = 0 /\ 0 \in 0 .. MaxLevels
      BY Places
    <3>. HIDE DEF n
    <3>2. next[n] = u[n - n]
      BY <3>1
    <3>3. u[0] = q[0] \o new
      BY <3>1
    <3>. HIDE DEF next, u
    <3>4. QED BY <3>1, <3>2, <3>3
  <2>2. \A i \in 1 .. MaxLevels : next[i] = q[n - i]
    <3>. SUFFICES ASSUME NEW i \in 1 .. MaxLevels  PROVE next[i] = q[n - i]
      OBVIOUS
    <3>1. i \in 1 .. n /\ n - i \in 0 .. MaxLevels /\ n - i # 0
      BY Places
    <3>. HIDE DEF n
    <3>2. QED BY <3>1
  <2>. HIDE DEF next, top, n, u
  <2>3. QED BY <1>5, <1>6, <1>8, <2>1, <2>2
<1>. HIDE DEF u, top, rows, next
<1>11. h \o new = p \o Stack(u)
  <2>1. FlattenSeq(top) \in Seq(Msg) /\ p \in Seq(Msg)
    BY <1>3, <1>7, FlattenType, Subsets
  <2>. DEFINE t == FlattenSeq(top)
              x == q[0]
  <2>2. t \in Seq(Msg) /\ x \in Seq(Msg)
    BY <1>6, <2>1
  <2>3. h = p \o (t \o x) /\ Stack(u) = t \o (x \o new)
    BY <1>3, <1>9, <1>10
  <2>. HIDE DEF t, x
  <2>5. t \o x \in Seq(Msg)
    BY <2>2, ConcatProperties
  <2>6. (p \o (t \o x)) \o new = p \o ((t \o x) \o new)
    <3>. DEFINE y == t \o x
    <3>1. p \in Seq(Msg) /\ y \in Seq(Msg) /\ new \in Seq(Msg)
      BY <1>2, <2>1, <2>5
    <3>. HIDE DEF y
    <3>2. (p \o y) \o new = p \o (y \o new)
      <4>1. Grouped(p, y, new)
        BY ONLY <3>1, ConcatGrouped
      <4>2. QED BY ONLY <4>1 DEF Grouped
    <3>3. QED BY <3>2 DEF y
  <2>7. (t \o x) \o new = t \o (x \o new)
    <3>1. Grouped(t, x, new)
      BY ONLY <1>2, <2>2, ConcatGrouped
    <3>2. QED BY ONLY <3>1 DEF Grouped
  <2>8. QED BY <2>3, <2>6, <2>7
<1>12. Shaped(h \o new)
  BY <1>3, <1>4, <1>11 DEF Fits, Shaped
<1>13. QED BY <1>2, <1>12, CoveredConcat

-----------------------------------------------------------------------------
(* Nothing is lost.                                                           *)

\* A history of these messages, and no other, in the order of their arrival.
Tells(h, numbers) ==
  Shaped(h) /\ Rising(Covered(h)) /\ ToSet(Covered(h)) = numbers

\* The copy a pass works on tells what the chat had when it was taken, of which
\* nothing is wiped while the pass is at work.
HistoryInv ==
  /\ pushed \in Nat /\ excused \subseteq 1 .. pushed
  /\ Tells(history, (1 .. pushed) \ excused)
  /\ at = "pass" => \E numbers : /\ Tells(working_history, numbers)
                                 /\ numbers \subseteq (1 .. pushed) \ excused

LEMMA TellsNothing ==
  ASSUME NEW h, Shaped(h)
  PROVE  Tells(Protected(h), {})
<1>1. Shaped(Protected(h)) /\ Covered(Protected(h)) = <<>>
  BY ProtectedShaped
<1>2. DOMAIN <<>> = {}
  OBVIOUS
<1>3. QED BY <1>1, <1>2 DEF Tells, Rising, ToSet

LEMMA TellsConsolidated ==
  ASSUME NEW h, NEW numbers, Tells(h, numbers), NEW asked
  PROVE  Tells(Consolidated(h, asked), numbers)
BY ConsolidatedKeeps DEF Tells

\* What arrives comes after all that has.
LEMMA TellsPushed ==
  ASSUME HistoryInv, NEW roles \in Seq(Roles), Push(roles)
  PROVE  /\ pushed' \in Nat /\ 1 .. pushed \subseteq 1 .. pushed'
         /\ Tells(history', (1 .. pushed') \ excused)
<1>. DEFINE n == Len(roles)
            new == [i \in DOMAIN roles |-> Message(roles[i], 0, <<pushed + i>>)]
            late == [i \in 1 .. n |-> pushed + i]
            old == Covered(history)
            m == Len(old)
            all == old \o late
<1>1. n \in Nat /\ DOMAIN roles = 1 .. n /\ \A i \in 1 .. n : roles[i] \in Roles
  BY LenProperties, ElementOfSeq
<1>2. pushed \in Nat /\ pushed' = pushed + n /\ history' = history \o new
  BY DEF HistoryInv, Push
<1>3. /\ new \in Seq(OnLevel(0)) /\ DOMAIN new = 1 .. n
      /\ \A i \in 1 .. n : new[i].covers = <<pushed + i>>
  <2>1. ASSUME NEW i \in 1 .. n
        PROVE  /\ Message(roles[i], 0, <<pushed + i>>) \in OnLevel(0)
               /\ Message(roles[i], 0, <<pushed + i>>).covers = <<pushed + i>>
    <3>1. pushed + i \in Nat
      BY <1>1, <1>2
    <3>2. <<pushed + i>> \in Seq(Nat)
      BY <3>1
    <3>3. roles[i] \in Roles
      BY <1>1
    <3>4. QED BY <3>2, <3>3 DEF Message, OnLevel, Msg
  <2>2. new \in [1 .. n -> OnLevel(0)] /\ \A i \in 1 .. n : new[i].covers = <<pushed + i>>
    BY <1>1, <2>1
  <2>. HIDE DEF new, n
  <2>3. QED BY <1>1, <2>2, FunctionSeq
<1>4. late \in Seq(Nat) /\ Len(late) = n /\ \A i \in 1 .. n : late[i] = pushed + i
  <2>1. late \in [1 .. n -> Nat] /\ \A i \in 1 .. n : late[i] = pushed + i
    BY <1>1, <1>2
  <2>. HIDE DEF late, n
  <2>2. QED BY <1>1, <2>1, FunctionSeq
<1>5. Covered(new) = late
  <2>1. [i \in DOMAIN new |-> new[i].covers] = [i \in DOMAIN late |-> <<late[i]>>]
    <3>1. DOMAIN late = 1 .. n
      OBVIOUS
    <3>. HIDE DEF new, late, n
    <3>2. QED BY <1>3, <1>4, <3>1
  <2>. HIDE DEF new, late
  <2>2. QED BY <1>4, <2>1, FlattenSingles DEF Covered
<1>6. Shaped(history) /\ Rising(old) /\ ToSet(old) = (1 .. pushed) \ excused /\ excused \subseteq 1 .. pushed
  BY DEF HistoryInv, Tells
<1>7. Shaped(history') /\ Covered(history') = all
  <2>. HIDE DEF new, late
  <2>1. QED BY <1>2, <1>3, <1>5, <1>6, PushedShaped
<1>8. old \in Seq(Nat) /\ m \in Nat /\ DOMAIN old = 1 .. m
  <2>1. history \in Seq(Msg)
    BY <1>6, FitsLevels DEF Shaped
  <2>2. old \in Seq(Nat)
    BY <2>1, CoveredType
  <2>. HIDE DEF old
  <2>3. QED BY <2>2, LenProperties
<1>. HIDE DEF old, late, new, n
<1>9. /\ Len(all) = m + n /\ DOMAIN all = 1 .. m + n
      /\ \A i \in 1 .. m + n : all[i] = IF i <= m THEN old[i] ELSE late[i - m]
  <2>1. /\ all \in Seq(Nat) /\ Len(all) = Len(old) + Len(late)
        /\ \A i \in 1 .. Len(old) + Len(late) :
             all[i] = IF i <= Len(old) THEN old[i] ELSE late[i - Len(old)]
    BY <1>4, <1>8, ConcatProperties
  <2>. HIDE DEF all
  <2>2. DOMAIN all = 1 .. Len(all)
    BY <2>1, LenProperties
  <2>3. QED BY <1>4, <2>1, <2>2
<1>. HIDE DEF m, all
<1>10. \A i \in 1 .. m : all[i] = old[i] /\ old[i] \in 1 .. pushed
  <2>1. \A i \in 1 .. m : old[i] \in ToSet(old)
    BY <1>8 DEF ToSet
  <2>2. QED BY <1>1, <1>6, <1>8, <1>9, <2>1
<1>11. \A i \in 1 .. n : m + i \in 1 .. m + n /\ all[m + i] = pushed + i
  <2>. SUFFICES ASSUME NEW i \in 1 .. n
                PROVE  m + i \in 1 .. m + n /\ all[m + i] = pushed + i
    OBVIOUS
  <2>1. m + i \in 1 .. m + n /\ ~(m + i <= m) /\ (m + i) - m = i
    BY <1>1, <1>8
  <2>2. QED BY <1>4, <1>9, <2>1
<1>12. \A i \in 1 .. m + n : i \in 1 .. m \/ (i - m \in 1 .. n /\ m + (i - m) = i)
  BY <1>1, <1>8
<1>13. Rising(all)
  <2>. SUFFICES ASSUME NEW i \in 1 .. m + n, NEW j \in 1 .. m + n, i < j
                PROVE  all[i] < all[j]
    BY <1>9 DEF Rising
  <2>1. CASE j \in 1 .. m
    <3>1. i \in 1 .. m
      BY <1>1, <1>8, <2>1
    <3>2. QED BY <1>6, <1>8, <1>10, <2>1, <3>1 DEF Rising
  <2>2. CASE j - m \in 1 .. n /\ m + (j - m) = j
    <3>1. all[j] = pushed + (j - m)
      BY <1>11, <2>2
    <3>2. CASE i \in 1 .. m
      <4>1. all[i] \in 1 .. pushed
        BY <1>10, <3>2
      <4>2. QED BY <1>2, <2>2, <3>1, <4>1
    <3>3. CASE i - m \in 1 .. n /\ m + (i - m) = i
      <4>1. all[i] = pushed + (i - m)
        BY <1>11, <3>3
      <4>2. i - m < j - m
        BY <1>8
      <4>3. QED BY <1>2, <2>2, <3>1, <3>3, <4>1, <4>2
    <3>4. QED BY <1>12, <3>2, <3>3
  <2>3. QED BY <1>12, <2>1, <2>2
<1>14. ToSet(all) = ToSet(old) \cup (pushed + 1 .. pushed + n)
  <2>1. ASSUME NEW x \in ToSet(all)  PROVE x \in ToSet(old) \cup (pushed + 1 .. pushed + n)
    <3>1. PICK i \in 1 .. m + n : x = all[i]
      BY <1>9 DEF ToSet
    <3>2. CASE i \in 1 .. m
      BY <1>8, <1>10, <3>1, <3>2 DEF ToSet
    <3>3. CASE i - m \in 1 .. n /\ m + (i - m) = i
      <4>1. x = pushed + (i - m)
        BY <1>11, <3>1, <3>3
      <4>2. QED BY <1>1, <1>2, <3>3, <4>1
    <3>4. QED BY <1>12, <3>2, <3>3
  <2>2. ASSUME NEW x \in ToSet(old)  PROVE x \in ToSet(all)
    <3>1. PICK i \in 1 .. m : x = old[i]
      BY <1>8 DEF ToSet
    <3>2. i \in 1 .. m + n
      BY <1>1, <1>8
    <3>3. QED BY <1>9, <1>10, <3>1, <3>2 DEF ToSet
  <2>3. ASSUME NEW x \in pushed + 1 .. pushed + n  PROVE x \in ToSet(all)
    <3>1. x - pushed \in 1 .. n /\ pushed + (x - pushed) = x
      BY <1>1, <1>2
    <3>2. m + (x - pushed) \in 1 .. m + n /\ all[m + (x - pushed)] = x
      BY <1>11, <3>1
    <3>3. QED BY <1>9, <3>2 DEF ToSet
  <2>4. QED BY <2>1, <2>2, <2>3
<1>15. ToSet(all) = (1 .. pushed') \ excused
  BY <1>1, <1>2, <1>6, <1>14
<1>16. pushed' \in Nat /\ 1 .. pushed \subseteq 1 .. pushed'
  BY <1>1, <1>2
<1>17. QED BY <1>7, <1>13, <1>15, <1>16 DEF Tells

LEMMA HistoryInit == Init => HistoryInv
<1>. SUFFICES ASSUME Init  PROVE HistoryInv
  OBVIOUS
<1>. DEFINE h == <<Opening>>
            none == [k \in 0 .. MaxLevels |-> <<>>]
<1>1. Opening \in Guarded
  <2>1. <<>> \in Seq(Nat)
    BY EmptySeq
  <2>2. QED BY <2>1 DEF Opening, Message, Guarded, OnLevel, Msg, Roles
<1>2. h \in Seq(Guarded)
  BY <1>1
<1>3. Shaped(h)
  <2>1. Levels(none)
    BY EmptySeq DEF Levels
  <2>. DEFINE n == MaxLevels + 1
              rows == [i \in 1 .. n |-> none[n - i]]
  <2>2. Rows(rows, n, Msg) /\ Stack(none) = FlattenSeq(rows)
    <3>. HIDE DEF none
    <3>1. QED BY <2>1, StackRows
  <2>3. \A i \in 1 .. n : rows[i] = <<>>
    BY Places
  <2>4. n \in Nat
    BY Places
  <2>5. Stack(none) = <<>>
    <3>. HIDE DEF rows, n, none
    <3>1. QED BY <2>2, <2>3, <2>4, FlattenNothing
  <2>. HIDE DEF h, none
  <2>6. h = h \o <<>>
    BY <1>2, ConcatEmptySeq
  <2>7. QED BY <1>2, <2>1, <2>5, <2>6 DEF Fits, Shaped
<1>. HIDE DEF h
<1>4. Covered(h) = <<>>
  BY <1>2, GuardedCover
<1>5. history = h /\ pushed = 0 /\ excused = {} /\ at = "loop"
  BY DEF Init, h
<1>6. Rising(<<>>) /\ ToSet(<<>>) = {}
  BY DEF Rising, ToSet
<1>7. QED BY <1>3, <1>4, <1>5, <1>6 DEF HistoryInv, Tells

\* A step that leaves the chat alone, and takes no copy of it.
LEMMA ChatLeftAlone ==
  ASSUME HistoryInv, history' = history, pushed' = pushed, excused' = excused,
         working_history' = working_history, at' # "pass" \/ at' = at
  PROVE  HistoryInv'
<1>1. QED BY DEF HistoryInv

\* A step that pushes, and takes no copy.
LEMMA ChatGrows ==
  ASSUME HistoryInv, NEW roles \in Seq(Roles), Push(roles), excused' = excused,
         working_history' = working_history, at' # "pass" \/ at' = at
  PROVE  HistoryInv'
<1>1. /\ pushed' \in Nat /\ 1 .. pushed \subseteq 1 .. pushed'
      /\ Tells(history', (1 .. pushed') \ excused)
  BY TellsPushed
<1>2. excused' \subseteq 1 .. pushed'
  BY <1>1 DEF HistoryInv
<1>3. ASSUME at' = "pass"
      PROVE  \E numbers : /\ Tells(working_history, numbers)
                          /\ numbers \subseteq (1 .. pushed') \ excused
  <2>1. PICK numbers : Tells(working_history, numbers) /\ numbers \subseteq (1 .. pushed) \ excused
    BY <1>3 DEF HistoryInv
  <2>2. numbers \subseteq (1 .. pushed') \ excused
    BY <1>1, <2>1
  <2>3. QED BY <2>1, <2>2
<1>4. QED BY <1>1, <1>2, <1>3 DEF HistoryInv

LEMMA ChatWiped ==
  ASSUME HistoryInv, Wipe, pushed' = pushed, at' # "pass"
  PROVE  HistoryInv'
<1>1. Shaped(history) /\ pushed \in Nat
  BY DEF HistoryInv, Tells
<1>2. Tells(history', {}) /\ excused' = 1 .. pushed
  BY <1>1, TellsNothing DEF Wipe
<1>3. (1 .. pushed') \ excused' = {}
  BY <1>2
<1>4. QED BY <1>1, <1>2, <1>3 DEF HistoryInv

LEMMA PassBegins ==
  ASSUME HistoryInv, BeginPass
  PROVE  HistoryInv'
<1>1. /\ history' = history /\ pushed' = pushed /\ excused' = excused
      /\ working_history' = history
  BY DEF BeginPass, talk
<1>2. Tells(history, (1 .. pushed) \ excused)
  BY DEF HistoryInv
<1>3. QED BY <1>1, <1>2 DEF HistoryInv

LEMMA PassEnds ==
  ASSUME HistoryInv, EndPass
  PROVE  HistoryInv'
<1>1. PICK numbers : Tells(working_history, numbers) /\ numbers \subseteq (1 .. pushed) \ excused
  BY DEF HistoryInv, EndPass
<1>2. PICK asked : history' = Consolidated(working_history, asked)
  BY DEF EndPass
<1>3. Tells(history', numbers)
  BY <1>1, <1>2, TellsConsolidated
<1>4. /\ excused' = excused \cup ((1 .. pushed) \ numbers) /\ pushed' = pushed /\ at' = "clear"
  BY <1>1 DEF EndPass, Tells
<1>5. numbers = (1 .. pushed') \ excused' /\ excused' \subseteq 1 .. pushed'
  BY <1>1, <1>4 DEF HistoryInv
<1>6. pushed \in Nat
  BY DEF HistoryInv
<1>7. QED BY <1>3, <1>4, <1>5, <1>6 DEF HistoryInv

\* The roles the chat pushes.
LEMMA RolesPushed ==
  /\ <<"user">> \in Seq(Roles) /\ <<"assistant">> \in Seq(Roles)
  /\ <<"tool", "system", "assistant">> \in Seq(Roles)
BY DEF Roles

LEMMA HistoryNext == HistoryInv /\ [Next]_vars => HistoryInv'
<1>. SUFFICES ASSUME HistoryInv, [Next]_vars  PROVE HistoryInv'
  OBVIOUS
<1>1. CASE SubmitLine
  BY <1>1, ChatGrows, RolesPushed DEF SubmitLine
<1>2. CASE ChatReplies
  BY <1>2, ChatGrows, ChatLeftAlone, RolesPushed DEF ChatReplies
<1>3. CASE Narrate
  BY <1>3, ChatGrows, RolesPushed DEF Narrate
<1>4. CASE Interrupt
  BY <1>4, ChatLeftAlone DEF Interrupt, talk
<1>5. CASE Shutdown
  BY <1>5, ChatLeftAlone DEF Shutdown, talk
<1>6. CASE Joined
  BY <1>6, ChatLeftAlone DEF Joined, talk
<1>7. CASE CheckActivity
  BY <1>7, ChatLeftAlone DEF CheckActivity, talk
<1>8. CASE PersistentTimeChecks
  BY <1>8, ChatLeftAlone, ChatWiped DEF PersistentTimeChecks
<1>9. CASE ConsolidationWaits
  BY <1>9, ChatLeftAlone DEF ConsolidationWaits, talk
<1>10. CASE BeginPass
  BY <1>10, PassBegins
<1>11. CASE EndPass
  BY <1>11, PassEnds
<1>12. CASE ClearContext
  BY <1>12, ChatLeftAlone, ChatWiped DEF ClearContext
<1>13. CASE NoticeReply
  BY <1>13, ChatLeftAlone DEF NoticeReply, talk
<1>14. CASE NoteSize
  BY <1>14, ChatLeftAlone DEF NoteSize, talk
<1>15. CASE AbortReview
  BY <1>15, ChatLeftAlone DEF AbortReview, Apart
<1>16. CASE ReviewWaits
  BY <1>16, ChatLeftAlone DEF ReviewWaits, Apart
<1>17. CASE BeginReview
  BY <1>17, ChatLeftAlone DEF BeginReview, Apart
<1>18. CASE CaptureActions
  BY <1>18, ChatLeftAlone DEF CaptureActions, Apart
<1>19. CASE PollCall
  BY <1>19, ChatLeftAlone DEF PollCall, Apart
<1>20. CASE Decide
  BY <1>20, ChatGrows, ChatLeftAlone, RolesPushed DEF Decide, Commit, Apart
<1>21. CASE CommitAnswer
  BY <1>21, ChatGrows, ChatLeftAlone, RolesPushed DEF CommitAnswer, Commit, Apart
<1>22. CASE EndCheck
  BY <1>22, ChatLeftAlone DEF EndCheck, talk
<1>23. CASE ScratchReplies
  BY <1>23, ChatLeftAlone DEF ScratchReplies, talk
<1>24. CASE ScratchEnds
  BY <1>24, ChatLeftAlone DEF ScratchEnds, talk
<1>25. CASE UNCHANGED vars
  BY <1>25, ChatLeftAlone DEF vars, talk
<1>26. QED
  BY <1>1, <1>2, <1>3, <1>4, <1>5, <1>6, <1>7, <1>8, <1>9, <1>10, <1>11, <1>12, <1>13,
     <1>14, <1>15, <1>16, <1>17, <1>18, <1>19, <1>20, <1>21, <1>22, <1>23, <1>24, <1>25
  DEF Next, Check

\* Whatever passes, wipes and reviews do between two messages of the chat, every
\* message is in the history, once and in order, unless it was wiped or arrived
\* during a pass (run_consolidation and run_clear_context).
THEOREM HistoryTold == Spec => []Remembered
<1>1. HistoryInv => Remembered
  BY DEF HistoryInv, Tells, Remembered
<1>2. QED BY <1>1, HistoryInit, HistoryNext, PTL DEF Spec

=============================================================================
