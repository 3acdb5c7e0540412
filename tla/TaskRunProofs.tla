---------------------------- MODULE TaskRunProofs ----------------------------
(* Proofs about TaskRun and the scans of TaskScript.                          *)
EXTENDS TaskRun, SeqLemmas, SequenceTheorems, FiniteSetTheorems, FunctionTheorems, TLAPS

-----------------------------------------------------------------------------
(* The scans over the lines of a script.                                      *)

Lines == Seq([op : Op, name : STRING])

\* A scan returns the first of the places it stops at.
LEMMA FirstIsFirst ==
  ASSUME NEW s, NEW P \in SUBSET Nat, P # {}
  PROVE  FirstOf(s, P) \in P /\ \A j \in P : FirstOf(s, P) <= j
BY LeastOne DEF FirstOf

\* Lines a to b - 1 open and close no definition: a and b are in one or neither is.
LEMMA Straight ==
  ASSUME NEW s \in Lines, NEW a \in Nat \ {0}, NEW b \in Nat, a <= b,
         \A m \in a .. b - 1 : s[m].op \notin {"sub", "endsub"}
  PROVE  InDefinition(s, a) <=> InDefinition(s, b)
<1>1. ASSUME InDefinition(s, a) PROVE InDefinition(s, b)
  <2>1. PICK j \in 1 .. a - 1 : s[j].op = "sub" /\ \A m \in j + 1 .. a - 1 : s[m].op # "endsub"
    BY <1>1 DEF InDefinition
  <2>2. j \in 1 .. b - 1
    OBVIOUS
  <2>3. \A m \in j + 1 .. b - 1 : m \in j + 1 .. a - 1 \/ m \in a .. b - 1
    OBVIOUS
  <2>4. \A m \in j + 1 .. b - 1 : s[m].op # "endsub"
    BY <2>1, <2>3
  <2>5. QED BY <2>1, <2>2, <2>4 DEF InDefinition
<1>2. ASSUME InDefinition(s, b) PROVE InDefinition(s, a)
  <2>1. PICK j \in 1 .. b - 1 : s[j].op = "sub" /\ \A m \in j + 1 .. b - 1 : s[m].op # "endsub"
    BY <1>2 DEF InDefinition
  <2>2. j \in 1 .. a - 1
    BY <2>1
  <2>3. \A m \in j + 1 .. a - 1 : m \in j + 1 .. b - 1
    OBVIOUS
  <2>4. QED BY <2>1, <2>2, <2>3 DEF InDefinition
<1>3. QED BY <1>1, <1>2

LEMMA OneLine ==
  ASSUME NEW s \in Lines, NEW a \in Nat \ {0}, s[a].op \notin {"sub", "endsub"}
  PROVE  InDefinition(s, a) <=> InDefinition(s, a + 1)
<1>1. \A m \in a .. (a + 1) - 1 : m = a
  OBVIOUS
<1>2. QED BY <1>1, Straight

\* A scan within one level that finds its line has passed no line of a definition.
LEMMA AtLevel ==
  ASSUME NEW s \in Lines, NEW from \in Nat \ {0}, NEW ops
  PROVE  LET k == FirstAtLevel(s, from, ops)
         IN  /\ k \in Nat \ {0} /\ k <= Len(s) + 1
             /\ k <= Len(s) => /\ from <= k /\ s[k].op \in ops
                               /\ \A m \in from .. k - 1 : s[m].op \notin {"sub", "endsub"}
<1>. DEFINE places == {k \in from .. Len(s) : \/ s[k].op \in {"sub", "endsub"}
                                              \/ Depth(s, from, k) = 0 /\ s[k].op \in ops \cup {"endif"}}
            k == FirstOf(s, places)
<1>1. Len(s) \in Nat
  BY LenProperties DEF Lines
<1>2. FirstAtLevel(s, from, ops) =
        IF places = {} THEN Past(s) ELSE IF s[k].op \in ops THEN k ELSE Past(s)
  BY DEF FirstAtLevel
<1>3. CASE places # {}
  <2>1. places \in SUBSET Nat
    BY <1>1
  <2>2. k \in places /\ \A j \in places : k <= j
    BY <1>3, <2>1, FirstIsFirst
  <2>3. places \subseteq from .. Len(s)
    OBVIOUS
  <2>4. k \in Nat \ {0} /\ from <= k /\ k <= Len(s)
    <3>. HIDE DEF places, k
    <3>1. QED BY <1>1, <2>2, <2>3
  <2>5. \A m \in from .. k - 1 : m \notin places /\ m \in from .. Len(s)
    <3>. HIDE DEF places, k
    <3>1. QED BY <1>1, <2>2, <2>4
  <2>6. \A m \in from .. k - 1 : s[m].op \notin {"sub", "endsub"}
    BY <2>5
  <2>. HIDE DEF places, k
  <2>7. QED BY <1>1, <1>2, <1>3, <2>4, <2>6 DEF Past
<1>4. CASE places = {}
  <2>. HIDE DEF places, k
  <2>1. QED BY <1>1, <1>2, <1>4 DEF Past
<1>5. QED BY <1>3, <1>4

\* The [ENDIF] of a block, when it is closed, is reached without passing a definition.
LEMMA EndifAhead ==
  ASSUME NEW s \in Lines, NEW from \in Nat \ {0}
  PROVE  LET k == FindEndif(s, from)
         IN  /\ k \in Nat \ {0} /\ k <= Len(s) + 1
             /\ k <= Len(s) => /\ from <= k /\ s[k].op = "endif"
                               /\ \A m \in from .. k - 1 : s[m].op \notin {"sub", "endsub"}
BY AtLevel DEF FindEndif

\* The branch an answer selects lies in the same definition as its [IF], or in none.
LEMMA BranchStays ==
  ASSUME NEW s \in Lines, NEW i \in 1 .. Len(s), s[i].op \notin {"sub", "endsub"},
         NEW answer \in {"yes", "no", "maybe"}
  PROVE  LET k == Branch(s, i, answer)
         IN  /\ k \in Nat \ {0} /\ k <= Len(s) + 1
             /\ k <= Len(s) => (InDefinition(s, i) <=> InDefinition(s, k))
<1>1. Len(s) \in Nat
  BY LenProperties DEF Lines
<1>2. InDefinition(s, i) <=> InDefinition(s, i + 1)
  BY <1>1, Straight
<1>3. ASSUME NEW wanted \in {"else", "maybe"}
      PROVE  LET k == FindBranchStart(s, i + 1, wanted)
             IN  /\ k \in Nat \ {0} /\ k <= Len(s) + 1
                 /\ k <= Len(s) => (InDefinition(s, i) <=> InDefinition(s, k))
  <2>. DEFINE k == FirstAtLevel(s, i + 1, {wanted, "endif"})
  <2>1. /\ k \in Nat \ {0} /\ k <= Len(s) + 1
        /\ k <= Len(s) => /\ i + 1 <= k /\ s[k].op \in {wanted, "endif"}
                          /\ \A m \in i + 1 .. k - 1 : s[m].op \notin {"sub", "endsub"}
    <3>1. i + 1 \in Nat \ {0}
      BY <1>1
    <3>2. QED BY <3>1, AtLevel
  <2>. HIDE DEF k
  <2>2. ASSUME k <= Len(s)
        PROVE  (InDefinition(s, i) <=> InDefinition(s, k)) /\ (InDefinition(s, i) <=> InDefinition(s, k + 1))
    <3>1. InDefinition(s, i + 1) <=> InDefinition(s, k)
      BY <1>1, <2>1, <2>2, Straight
    <3>2. s[k].op \notin {"sub", "endsub"}
      BY <2>1, <2>2, <1>3
    <3>3. InDefinition(s, k) <=> InDefinition(s, k + 1)
      BY <1>1, <2>1, <3>2, Straight
    <3>4. QED BY <1>2, <3>1, <3>3
  <2>3. FindBranchStart(s, i + 1, wanted) = IF k <= Len(s) /\ s[k].op = wanted THEN k + 1 ELSE k
    BY DEF FindBranchStart, k
  <2>4. CASE k <= Len(s) /\ s[k].op = wanted
    BY <1>1, <2>1, <2>2, <2>3, <2>4
  <2>5. CASE ~(k <= Len(s) /\ s[k].op = wanted)
    BY <1>1, <2>1, <2>2, <2>3, <2>5
  <2>6. QED BY <2>4, <2>5
<1>4. CASE answer = "yes"
  BY <1>1, <1>2, <1>4 DEF Branch
<1>5. CASE answer = "no"
  BY <1>3, <1>5 DEF Branch
<1>6. CASE answer = "maybe"
  BY <1>3, <1>6 DEF Branch
<1>7. QED BY <1>4, <1>5, <1>6

\* A call enters the definition it names.
LEMMA SubEntered ==
  ASSUME NEW s \in Lines, NEW name, FindSub(s, name) <= Len(s)
  PROVE  FindSub(s, name) \in 1 .. Len(s) /\ InDefinition(s, FindSub(s, name) + 1)
<1>. DEFINE places == {k \in 1 .. Len(s) : s[k].op = "sub" /\ s[k].name = name}
            k == FirstOf(s, places)
<1>1. Len(s) \in Nat
  BY LenProperties DEF Lines
<1>2. places # {}
  BY <1>1 DEF FindSub, FirstOf, Past
<1>3. k \in places
  <2>1. places \in SUBSET Nat
    BY <1>1
  <2>. HIDE DEF places
  <2>2. QED BY <1>2, <2>1, FirstIsFirst
<1>4. k \in 1 .. Len(s) /\ s[k].op = "sub"
  BY <1>3
<1>5. FindSub(s, name) = k
  BY DEF FindSub
<1>. HIDE DEF k
<1>6. InDefinition(s, k + 1)
  BY <1>1, <1>4 DEF InDefinition
<1>7. QED BY <1>4, <1>5, <1>6

\* Behind a definition the main flow ran into there is none open.
LEMMA DefinitionSkipped ==
  ASSUME NEW s \in Lines, NEW i \in 1 .. Len(s), s[i].op = "sub"
  PROVE  LET k == AfterDefinition(s, i)
         IN  k \in Nat /\ k <= Len(s) + 1 /\ (k # 0 => ~InDefinition(s, k))
<1>. DEFINE places == {j \in i + 1 .. Len(s) : s[j].op = "endsub"}
            k == FirstOf(s, places)
<1>1. Len(s) \in Nat
  BY LenProperties DEF Lines
<1>2. AfterDefinition(s, i) = IF k > Len(s) THEN 0 ELSE k + 1
  BY DEF AfterDefinition
<1>3. CASE places = {}
  <2>1. k = Len(s) + 1
    BY <1>3 DEF FirstOf, Past
  <2>2. QED BY <1>1, <1>2, <2>1
<1>4. CASE places # {}
  <2>1. k \in places
    <3>1. places \in SUBSET Nat
      BY <1>1
    <3>. HIDE DEF places
    <3>2. QED BY <1>4, <3>1, FirstIsFirst
  <2>2. k \in i + 1 .. Len(s) /\ s[k].op = "endsub"
    BY <2>1
  <2>. HIDE DEF places, k
  <2>3. ~InDefinition(s, k + 1)
    <3>1. SUFFICES ASSUME NEW j \in 1 .. k, s[j].op = "sub",
                          \A m \in j + 1 .. k : s[m].op # "endsub"
                   PROVE  FALSE
      BY <1>1, <2>2 DEF InDefinition
    <3>2. j # k /\ j \in Nat /\ k \in Nat
      BY <1>1, <2>2, <3>1
    <3>3. k \in j + 1 .. k
      BY <3>1, <3>2
    <3>4. QED BY <2>2, <3>1, <3>3
  <2>4. QED BY <1>1, <1>2, <2>2, <2>3
<1>5. QED BY <1>3, <1>4

\* A call made because a question ran out of time comes back within the same lines.
LEMMA ResumeStays ==
  ASSUME NEW s \in Lines, NEW i \in 1 .. Len(s), s[i].op \notin {"sub", "endsub"}
  PROVE  LET k == ResumeAfterAsk(s, i)
         IN  k \in Nat /\ (k # 0 => (InDefinition(s, i) <=> InDefinition(s, k)))
<1>1. Len(s) \in Nat
  BY LenProperties DEF Lines
<1>2. InDefinition(s, i) <=> InDefinition(s, i + 1)
  BY <1>1, Straight
<1>3. CASE ~(i + 1 <= Len(s) /\ s[i + 1].op = "if")
  BY <1>2, <1>3 DEF ResumeAfterAsk
<1>4. CASE i + 1 <= Len(s) /\ s[i + 1].op = "if"
  <2>. DEFINE k == FindEndif(s, i + 2)
  <2>1. /\ k \in Nat \ {0}
        /\ k <= Len(s) => /\ i + 2 <= k /\ s[k].op = "endif"
                          /\ \A m \in i + 2 .. k - 1 : s[m].op \notin {"sub", "endsub"}
    BY <1>1, EndifAhead
  <2>2. ResumeAfterAsk(s, i) = IF k > Len(s) THEN 0 ELSE k + 1
    BY <1>4 DEF ResumeAfterAsk
  <2>. HIDE DEF k
  <2>3. CASE k > Len(s)
    BY <2>2, <2>3
  <2>4. CASE k <= Len(s)
    <3>1. InDefinition(s, i + 1) <=> InDefinition(s, i + 2)
      <4>1. i + 1 \in Nat \ {0} /\ i + 2 \in Nat /\ \A m \in i + 1 .. (i + 2) - 1 : m = i + 1
        BY <1>1
      <4>2. \A m \in i + 1 .. (i + 2) - 1 : s[m].op \notin {"sub", "endsub"}
        BY <1>4, <4>1
      <4>3. QED BY <4>1, <4>2, Straight
    <3>2. InDefinition(s, i + 2) <=> InDefinition(s, k)
      BY <2>1, <2>4, Straight
    <3>3. InDefinition(s, k) <=> InDefinition(s, k + 1)
      <4>1. \A m \in k .. (k + 1) - 1 : s[m].op \notin {"sub", "endsub"}
        BY <2>1, <2>4
      <4>2. QED BY <2>1, <4>1, Straight
    <3>4. QED BY <1>1, <1>2, <2>1, <2>2, <2>4, <3>1, <3>2, <3>3
  <2>5. QED BY <1>1, <2>1, <2>3, <2>4
<1>5. QED BY <1>3, <1>4

-----------------------------------------------------------------------------
(* Frames.                                                                    *)

Places == {"idle", "drain", "process", "dispatch", "advance", "exchange", "close"}
States == {"GET_COMMAND", "EXECUTE_COMMAND", "EXECUTE_IF", "WAIT_RESPONSE", "WAIT_IF_RESPONSE",
           "WAIT_ENTER", "WAIT_ASK", "WAIT_TOOL_RESULT", "RUN_TASK", "DONE"}

\* The provers do not know that "remote" is a string.
Word == STRING \cup {"remote"}

Frame ==
  [ task : Task \cup {""}, by : {"user", "call", "run"}, pc : Places,
    state : States, i : Nat \ {0}, call_stack : Seq(Nat \ {0}),
    keyboard : BOOLEAN, keyboard_was : BOOLEAN, scripted : BOOLEAN,
    ask_limit : BOOLEAN, late : BOOLEAN, enter : BOOLEAN,
    is_processing : BOOLEAN, complete : BOOLEAN,
    tool_calls : Seq(Word), todo : Seq(Word),
    pending_tool_calls : Nat, outstanding : SUBSET Calls, held : Seq(Calls), held_events : Nat,
    baseline : Nat, waiting : BOOLEAN, leaving : SUBSET Calls, orphans : SUBSET Calls ]

Waits == {"WAIT_ENTER", "WAIT_ASK"}

\* The keyboard, and what a wait has put by.
KeyboardOK(f) ==
  IF f.state \in Waits THEN f.keyboard /\ f.keyboard_was = f.scripted
  ELSE f.state # "DONE" => f.keyboard = f.scripted

\* The line, the line of each call that is open, and the lines of definitions.
LineOK(f) ==
  LET s == Commands[f.task]
  IN  /\ f.state # "DONE" /\ f.i <= Len(s) => (f.call_stack # <<>> <=> InDefinition(s, f.i))
      /\ f.state \notin {"GET_COMMAND", "DONE"} => f.i <= Len(s) /\ s[f.i].op \notin {"sub", "endsub"}
      /\ \A d \in DOMAIN f.call_stack :
           f.call_stack[d] <= Len(s) => (d # 1 <=> InDefinition(s, f.call_stack[d]))

ScriptOK(f) == f.task \in Task /\ KeyboardOK(f) /\ LineOK(f)

\* A script waits at its [RUN] line for the run it has started.
FramesOK ==
  /\ frames \in Seq(Frame) /\ frames # <<>>
  /\ \A n \in 2 .. Len(frames) :
       /\ ScriptOK(frames[n])
       /\ frames[n].by = "run" => n # 2 /\ frames[n - 1].state = "RUN_TASK"

\* What becomes of the frame on top leaves the others alone.
LEMMA TopChanges ==
  ASSUME FramesOK, NEW g \in Frame, SetTop(g)
  PROVE  /\ frames' \in Seq(Frame) /\ frames' # <<>> /\ Len(frames') = Len(frames)
         /\ Len(frames) \in Nat \ {0} /\ Top \in Frame
         /\ frames'[Len(frames)] = g
         /\ \A n \in 1 .. Len(frames) - 1 : frames'[n] = frames[n]
<1>1. Len(frames) \in Nat \ {0} /\ DOMAIN frames = 1 .. Len(frames)
  BY EmptySeq, LenProperties DEF FramesOK
<1>2. frames' = [frames EXCEPT ![Len(frames)] = g]
  BY DEF SetTop
<1>3. frames' \in Seq(Frame) /\ Len(frames') = Len(frames)
  BY <1>1, <1>2, ExceptSeq DEF FramesOK
<1>4. frames'[Len(frames)] = g /\ \A n \in 1 .. Len(frames) - 1 : frames'[n] = frames[n]
  <2>1. Len(frames) \in DOMAIN frames
    BY <1>1
  <2>2. \A n \in 1 .. Len(frames) - 1 : n \in DOMAIN frames /\ n # Len(frames)
    <3>1. \A m \in Nat : \A n \in 1 .. m - 1 : n \in 1 .. m /\ n # m
      OBVIOUS
    <3>2. QED BY <1>1, <3>1
  <2>3. QED BY <1>2, <2>1, <2>2
<1>5. Top \in Frame
  BY <1>1, ElementOfSeq DEF Top, FramesOK
<1>6. frames' # <<>>
  BY <1>1, <1>3, EmptySeq
<1>7. QED BY <1>1, <1>3, <1>4, <1>5, <1>6

\* The frame on top is as it must be, and so is what it becomes.
LEMMA TopKeeps ==
  ASSUME FramesOK, NEW g \in Frame, SetTop(g), g.by = Top.by,
         Running => ScriptOK(g)
  PROVE  FramesOK'
<1>1. /\ frames' \in Seq(Frame) /\ frames' # <<>> /\ Len(frames') = Len(frames)
      /\ Len(frames) \in Nat \ {0}
      /\ frames'[Len(frames)] = g
      /\ \A n \in 1 .. Len(frames) - 1 : frames'[n] = frames[n]
  BY TopChanges
<1>2. ASSUME NEW n \in 2 .. Len(frames)
      PROVE  ScriptOK(frames'[n]) /\ (frames'[n].by = "run" => n # 2 /\ frames'[n - 1].state = "RUN_TASK")
  <2>1. ScriptOK(frames[n]) /\ (frames[n].by = "run" => n # 2 /\ frames[n - 1].state = "RUN_TASK")
    BY DEF FramesOK
  <2>2. n - 1 \in 1 .. Len(frames) - 1
    BY <1>1
  <2>3. CASE n = Len(frames)
    BY <1>1, <2>1, <2>2, <2>3 DEF Top, Running
  <2>4. CASE n # Len(frames)
    <3>1. n \in 1 .. Len(frames) - 1
      BY <1>1, <2>4
    <3>2. QED BY <1>1, <2>1, <2>2, <3>1
  <2>5. QED BY <2>3, <2>4
<1>3. (FramesOK)' <=> /\ frames' \in Seq(Frame) /\ frames' # <<>>
                      /\ \A n \in 2 .. Len(frames') :
                           /\ ScriptOK(frames'[n])
                           /\ frames'[n].by = "run" => n # 2 /\ frames'[n - 1].state = "RUN_TASK"
  BY DEF FramesOK
<1>4. QED BY <1>1, <1>2, <1>3

\* What of a frame the script is about.
SameScript(f, g) ==
  /\ g.task = f.task /\ g.by = f.by /\ g.state = f.state /\ g.i = f.i /\ g.call_stack = f.call_stack
  /\ g.keyboard = f.keyboard /\ g.keyboard_was = f.keyboard_was /\ g.scripted = f.scripted

LEMMA OtherChange ==
  ASSUME FramesOK, NEW g \in Frame, SetTop(g), SameScript(Top, g)
  PROVE  FramesOK'
<1>1. Len(frames) \in Nat \ {0}
  BY EmptySeq, LenProperties DEF FramesOK
<1>2. Running => ScriptOK(Top)
  BY <1>1 DEF FramesOK, Running, Top
<1>3. Running => ScriptOK(g)
  BY <1>2 DEF ScriptOK, SameScript, KeyboardOK, LineOK
<1>4. g.by = Top.by
  BY DEF SameScript
<1>5. QED BY <1>3, <1>4, TopKeeps

\* The calls a reply carries.
LEMMA ReplyWords ==
  ASSUME TaskRunAssumption
  PROVE  ChatReplies \cup TaskReplies \subseteq Seq(Word)
<1>1. STRING \subseteq Word
  BY DEF Word
<1>2. ASSUME NEW r \in Seq(STRING) PROVE r \in Seq(Word)
  BY <1>1, SeqMonotonic
<1>3. QED BY <1>2 DEF TaskRunAssumption

\* A narration leaves a frame of the same kind, but for the reply.
LEMMA Narration ==
  ASSUME TaskRunAssumption, NEW f \in Frame, NEW g \in Narrating(f)
  PROVE  /\ g \in Frame /\ SameScript(f, g)
         /\ g.outstanding = f.outstanding /\ g.held = f.held
         /\ g.leaving = f.leaving /\ g.orphans = f.orphans
<1>1. ASSUME NEW r \in Seq(Word), NEW c \in BOOLEAN,
             g = [f EXCEPT !.complete = c, !.tool_calls = r]
      PROVE  /\ g \in Frame /\ SameScript(f, g)
             /\ g.outstanding = f.outstanding /\ g.held = f.held
             /\ g.leaving = f.leaving /\ g.orphans = f.orphans
  <2>1. g \in Frame
    BY <1>1 DEF Frame
  <2>2. QED BY <1>1 DEF Frame, SameScript
<1>2. <<>> \in Seq(Word)
  OBVIOUS
<1>3. \E r \in Seq(Word), c \in BOOLEAN : g = [f EXCEPT !.complete = c, !.tool_calls = r]
  BY <1>2, ReplyWords DEF Narrating
<1>4. QED BY <1>1, <1>3

\* The worker's numbers, and the results in the order of the calls.
WorkerOK == /\ next_id \in 1 .. MaxCalls + 1
            /\ ready \subseteq Calls /\ abandoned \subseteq Calls
            /\ landed \in Nat /\ events \in Nat

LEMMA OrderedIds ==
  ASSUME TaskRunAssumption, NEW got \in SUBSET Calls, NEW q \in InOrder(got)
  PROVE  q \in Seq(Calls) /\ Distinct(q) /\ \A c : InSeq(q, c) <=> c \in got
<1>. DEFINE n == Cardinality(got)
<1>1. IsFiniteSet(got) /\ n \in Nat
  <2>1. IsFiniteSet(Calls)
    BY FS_Interval DEF Calls, TaskRunAssumption
  <2>2. QED BY <2>1, FS_Subset, FS_CardinalityType
<1>2. q \in [1 .. n -> got] /\ \A j, k \in 1 .. n : j # k => q[j] # q[k]
  BY DEF InOrder, SetToSeqs
<1>. HIDE DEF n
<1>3. q \in Seq(got) /\ Len(q) = n /\ DOMAIN q = 1 .. n
  BY <1>1, <1>2, IsASeq
<1>4. Distinct(q)
  BY <1>2, <1>3 DEF Distinct
<1>5. q \in Injection(1 .. n, got)
  BY <1>2, Fun_IsInj
<1>6. q \in Surjection(1 .. n, got)
  <2>1. Cardinality(1 .. n) = n
    <3>1. Cardinality(1 .. n) = IF 1 > n THEN 0 ELSE n - 1 + 1
      BY <1>1, FS_Interval
    <3>2. QED BY <1>1, <3>1
  <2>2. QED BY <1>1, <1>5, <2>1, FS_Injection DEF n
<1>7. \A c : InSeq(q, c) <=> c \in got
  BY <1>2, <1>3, <1>6, Fun_SurjectionProperties DEF InSeq, Surjection
<1>8. q \in Seq(Calls)
  BY <1>3, SeqMonotonic
<1>9. QED BY <1>4, <1>7, <1>8

-----------------------------------------------------------------------------
(* The steps that leave the script alone.                                     *)

\* Where the results of calls that are waited for are taken.
LEMMA DrainFrames ==
  ASSUME TaskRunAssumption, FramesOK, WorkerOK, Drain
  PROVE  FramesOK'
<1>1. Top \in Frame
  BY EmptySeq, LenProperties, ElementOfSeq DEF FramesOK, Top
<1>2. PICK got \in SUBSET (Top.outstanding \cap ready), happened \in 0 .. landed :
        LET f == [Top EXCEPT !.pc = "process",
                    !.baseline = IF Top.state = "EXECUTE_COMMAND" THEN Len(Top.held) ELSE @]
        IN  \/ \E results \in InOrder(got) :
                 SetTop([f EXCEPT !.held = @ \o results, !.outstanding = @ \ got,
                                  !.held_events = @ + happened])
            \/ SetTop(f)
  BY DEF Drain
<1>. DEFINE base == IF Top.state = "EXECUTE_COMMAND" THEN Len(Top.held) ELSE Top.baseline
            f == [Top EXCEPT !.pc = "process", !.baseline = base]
<1>3. base \in Nat
  BY <1>1, LenProperties DEF Frame
<1>. HIDE DEF base
<1>4. f \in Frame /\ SameScript(Top, f) /\ f.held = Top.held /\ f.outstanding = Top.outstanding /\ f.held_events = Top.held_events
  <2>1. f \in Frame
    BY <1>1, <1>3 DEF Frame, Places
  <2>2. QED BY <1>1, <2>1 DEF Frame, SameScript
<1>. HIDE DEF f
<1>5. CASE SetTop(f)
  BY <1>4, <1>5, OtherChange
<1>6. ASSUME NEW results \in InOrder(got),
             SetTop([f EXCEPT !.held = @ \o results, !.outstanding = @ \ got,
                              !.held_events = @ + happened])
      PROVE  FramesOK'
  <2>1. got \in SUBSET Calls /\ happened \in Nat
    <3>1. Top.outstanding \in SUBSET Calls /\ landed \in Nat
      BY <1>1 DEF WorkerOK, Frame
    <3>2. got \subseteq Top.outstanding /\ happened \in 0 .. landed
      BY <1>2
    <3>3. QED BY <3>1, <3>2
  <2>2. results \in Seq(Calls)
    BY <2>1, OrderedIds
  <2>. DEFINE h == f.held \o results
              o == f.outstanding \ got
              e == f.held_events + happened
              g == [f EXCEPT !.held = h, !.outstanding = o, !.held_events = e]
  <2>3. h \in Seq(Calls) /\ o \in SUBSET Calls /\ e \in Nat
    <3>1. f.held \in Seq(Calls) /\ f.outstanding \in SUBSET Calls /\ f.held_events \in Nat
      BY <1>4 DEF Frame
    <3>2. f.held \o results \in Seq(Calls)
      BY <2>2, <3>1, ConcatProperties
    <3>3. QED BY <2>1, <3>1, <3>2
  <2>4. SetTop(g)
    BY <1>4, <1>6 DEF Frame
  <2>. HIDE DEF h, o, e
  <2>5. g \in Frame
    BY <1>4, <2>3 DEF Frame
  <2>6. SameScript(Top, g)
    BY <1>4 DEF Frame, SameScript
  <2>. HIDE DEF g
  <2>7. QED BY <2>4, <2>5, <2>6, OtherChange
<1>7. QED BY <1>2, <1>5, <1>6 DEF f, base

LEMMA TakeCallsFrames ==
  ASSUME TaskRunAssumption, FramesOK, WorkerOK, TakeCalls
  PROVE  FramesOK'
<1>1. Top \in Frame
  BY EmptySeq, LenProperties, ElementOfSeq DEF FramesOK, Top
<1>. DEFINE actions == IF Top.is_processing THEN 0 ELSE Top.pending_tool_calls
            ours    == IF Top.is_processing \/ ~Top.complete THEN <<>> ELSE Top.tool_calls
            made    == [n \in 1 .. actions |-> "remote"]
            todo    == made \o ours
            left    == Top.pending_tool_calls - actions
            calls   == IF ours = <<>> THEN Top.tool_calls ELSE <<>>
            g == [Top EXCEPT !.pc = "dispatch", !.todo = todo,
                             !.pending_tool_calls = left, !.tool_calls = calls]
<1>2. actions \in Nat /\ left \in Nat /\ ours \in Seq(Word) /\ calls \in Seq(Word)
  <2>1. Top.pending_tool_calls \in Nat /\ Top.tool_calls \in Seq(Word)
    BY <1>1 DEF Frame
  <2>2. <<>> \in Seq(Word)
    OBVIOUS
  <2>3. QED BY <2>1, <2>2
<1>3. SetTop(g)
  BY DEF TakeCalls
<1>. HIDE DEF actions, ours, left, calls
<1>4. made \in Seq(Word)
  <2>1. made \in [1 .. actions -> Word]
    BY DEF Word
  <2>. HIDE DEF made
  <2>2. QED BY <1>2, <2>1
<1>. HIDE DEF made
<1>5. todo \in Seq(Word)
  BY <1>2, <1>4, ConcatProperties
<1>. HIDE DEF todo
<1>6. g \in Frame
  BY <1>1, <1>2, <1>5 DEF Frame, Places
<1>7. SameScript(Top, g)
  BY <1>1 DEF Frame, SameScript
<1>. HIDE DEF g
<1>8. QED BY <1>3, <1>6, <1>7, OtherChange

\* What is left of the calls to dispatch.
LEMMA OneLess ==
  ASSUME FramesOK, Top.todo # <<>>
  PROVE  /\ Top \in Frame
         /\ [Top EXCEPT !.todo = Tail(@)] \in Frame
         /\ SameScript(Top, [Top EXCEPT !.todo = Tail(@)])
<1>1. Top \in Frame
  BY EmptySeq, LenProperties, ElementOfSeq DEF FramesOK, Top
<1>2. Tail(Top.todo) \in Seq(Word)
  BY <1>1, HeadTailProperties DEF Frame
<1>3. [Top EXCEPT !.todo = Tail(@)] \in Frame
  BY <1>1, <1>2 DEF Frame
<1>4. QED BY <1>1, <1>3 DEF Frame, SameScript

LEMMA DispatchRemoteFrames ==
  ASSUME TaskRunAssumption, FramesOK, WorkerOK, DispatchRemote
  PROVE  FramesOK'
<1>1. Top.todo # <<>>
  BY DEF DispatchRemote
<1>. DEFINE f == [Top EXCEPT !.todo = Tail(@)]
            g == [Top EXCEPT !.todo = Tail(@), !.outstanding = @ \cup {next_id}]
<1>2. Top \in Frame /\ f \in Frame /\ SameScript(Top, f)
  BY <1>1, OneLess
<1>3. CASE SetTop(f)
  <2>. HIDE DEF f
  <2>1. QED BY <1>2, <1>3, OtherChange
<1>4. CASE next_id <= MaxCalls /\ SetTop(g)
  <2>1. next_id \in Calls
    BY <1>4 DEF WorkerOK, Calls, TaskRunAssumption
  <2>2. f.outstanding = Top.outstanding
    BY <1>2 DEF Frame
  <2>. DEFINE o == f.outstanding \cup {next_id}
              h == [f EXCEPT !.outstanding = o]
  <2>3. g = h
    BY <1>2 DEF Frame
  <2>4. o \in SUBSET Calls
    BY <1>2, <2>1 DEF Frame
  <2>. HIDE DEF f, g, o
  <2>5. h \in Frame
    BY <1>2, <2>4 DEF Frame
  <2>6. SameScript(Top, h)
    BY <1>2 DEF Frame, SameScript
  <2>. HIDE DEF h
  <2>7. QED BY <1>4, <2>3, <2>5, <2>6, OtherChange
<1>5. QED BY <1>3, <1>4 DEF DispatchRemote

LEMMA DispatchUnknownFrames ==
  ASSUME TaskRunAssumption, FramesOK, DispatchUnknown
  PROVE  FramesOK'
<1>1. Top.todo # <<>>
  BY DEF DispatchUnknown
<1>. DEFINE f == [Top EXCEPT !.todo = Tail(@)]
<1>2. Top \in Frame /\ f \in Frame /\ SameScript(Top, f)
  BY <1>1, OneLess
<1>3. PICK g \in Narrating(f) : SetTop(g)
  BY DEF DispatchUnknown
<1>. HIDE DEF f
<1>4. g \in Frame /\ SameScript(f, g)
  BY <1>2, Narration
<1>5. SameScript(Top, g)
  BY <1>2, <1>4 DEF SameScript
<1>6. QED BY <1>3, <1>4, <1>5, OtherChange

LEMMA ClaimFrames ==
  ASSUME TaskRunAssumption, FramesOK, WorkerOK, Claim
  PROVE  FramesOK'
<1>1. Top \in Frame
  BY EmptySeq, LenProperties, ElementOfSeq DEF FramesOK, Top
<1>2. PICK got \in SUBSET (Top.outstanding \cap ready), happened \in 0 .. landed :
        \E f \in NarratingIf(got # {} \/ happened > 0, Top) :
            SetTop([f EXCEPT !.pc = IF Running THEN "advance" ELSE "idle",
                      !.outstanding = @ \ got,
                      !.pending_tool_calls = @ + happened,
                      !.leaving = {}])
  BY DEF Claim
<1>3. PICK f \in NarratingIf(got # {} \/ happened > 0, Top) :
            SetTop([f EXCEPT !.pc = IF Running THEN "advance" ELSE "idle",
                      !.outstanding = @ \ got,
                      !.pending_tool_calls = @ + happened,
                      !.leaving = {}])
  BY <1>2
<1>4. f \in Frame /\ SameScript(Top, f)
  <2>1. SameScript(Top, Top)
    BY DEF SameScript
  <2>2. QED BY <1>1, <2>1, Narration DEF NarratingIf
<1>. DEFINE p == IF Running THEN "advance" ELSE "idle"
            o == f.outstanding \ got
            w == f.pending_tool_calls + happened
            g == [f EXCEPT !.pc = p, !.outstanding = o, !.pending_tool_calls = w, !.leaving = {}]
<1>5. p \in Places /\ o \in SUBSET Calls /\ w \in Nat
  <2>1. f.outstanding \in SUBSET Calls /\ f.pending_tool_calls \in Nat /\ landed \in Nat
    BY <1>4 DEF Frame, WorkerOK
  <2>2. p \in Places
    BY DEF Places
  <2>3. QED BY <2>1, <2>2, <1>2
<1>6. SetTop(g)
  BY <1>3, <1>4 DEF Frame
<1>. HIDE DEF p, o, w
<1>7. g \in Frame
  BY <1>4, <1>5 DEF Frame
<1>8. SameScript(Top, g)
  BY <1>4 DEF Frame, SameScript
<1>. HIDE DEF g
<1>9. QED BY <1>6, <1>7, <1>8, OtherChange

LEMMA ReplyFrames ==
  ASSUME TaskRunAssumption, FramesOK, ReplyEnds \/ ChatReply \/ TimeIsUp
  PROVE  FramesOK'
<1>1. Top \in Frame /\ <<>> \in Seq(Word)
  BY EmptySeq, LenProperties, ElementOfSeq DEF FramesOK, Top
<1>2. ASSUME NEW r \in Seq(Word), NEW c \in BOOLEAN, NEW b \in BOOLEAN,
             SetTop([Top EXCEPT !.is_processing = b, !.complete = c, !.tool_calls = r])
      PROVE  FramesOK'
  <2>. DEFINE g == [Top EXCEPT !.is_processing = b, !.complete = c, !.tool_calls = r]
  <2>1. g \in Frame
    BY <1>1 DEF Frame
  <2>2. SameScript(Top, g)
    BY <1>1 DEF Frame, SameScript
  <2>. HIDE DEF g
  <2>3. QED BY <1>2, <2>1, <2>2, OtherChange DEF g
<1>3. CASE ReplyEnds
  <2>1. PICK r \in TaskReplies, c \in BOOLEAN :
          SetTop([Top EXCEPT !.is_processing = FALSE, !.complete = c, !.tool_calls = IF c THEN r ELSE <<>>])
    BY <1>3 DEF ReplyEnds
  <2>2. (IF c THEN r ELSE <<>>) \in Seq(Word)
    BY <1>1, ReplyWords
  <2>3. QED BY <1>2, <2>1, <2>2
<1>4. CASE ChatReply
  <2>1. PICK r \in ChatReplies : SetTop([Top EXCEPT !.complete = TRUE, !.tool_calls = r])
    BY <1>4 DEF ChatReply
  <2>2. r \in Seq(Word)
    BY ReplyWords
  <2>. DEFINE g == [Top EXCEPT !.complete = TRUE, !.tool_calls = r]
  <2>3. g \in Frame
    BY <1>1, <2>2 DEF Frame
  <2>4. SameScript(Top, g)
    BY <1>1 DEF Frame, SameScript
  <2>. HIDE DEF g
  <2>5. QED BY <2>1, <2>3, <2>4, OtherChange DEF g
<1>5. CASE TimeIsUp
  <2>. DEFINE g == [Top EXCEPT !.late = TRUE]
  <2>1. g \in Frame
    BY <1>1 DEF Frame
  <2>2. SameScript(Top, g)
    BY <1>1 DEF Frame, SameScript
  <2>3. SetTop(g)
    BY <1>5 DEF TimeIsUp
  <2>. HIDE DEF g
  <2>4. QED BY <2>1, <2>2, <2>3, OtherChange
<1>6. QED BY <1>3, <1>4, <1>5

-----------------------------------------------------------------------------
(* The steps of the script.                                                   *)

LEMMA TopScript ==
  ASSUME TaskRunAssumption, FramesOK, Running
  PROVE  Top \in Frame /\ ScriptOK(Top) /\ Script \in Lines /\ Len(Script) \in Nat
<1>1. Len(frames) \in Nat \ {0}
  BY EmptySeq, LenProperties DEF FramesOK
<1>2. Top \in Frame
  BY <1>1, ElementOfSeq DEF FramesOK, Top
<1>3. ScriptOK(Top)
  BY <1>1 DEF FramesOK, Top, Running
<1>4. Script \in Lines
  BY <1>3 DEF ScriptOK, Script, Lines, TaskRunAssumption
<1>5. QED BY <1>2, <1>3, <1>4, LenProperties DEF Lines

\* What the frame on top may become.
Good(f) == f \in Frame /\ f.by = Top.by /\ ScriptOK(f)

LEMMA StepKeeps ==
  ASSUME FramesOK, Running, NEW f, Good(f), Step(f)
  PROVE  FramesOK'
<1>. DEFINE g == [f EXCEPT !.pc = "exchange"]
<1>1. SetTop(g)
  BY DEF Step
<1>2. g \in Frame
  BY DEF Good, Frame, Places
<1>3. SameScript(f, g)
  BY DEF Good, Frame, SameScript
<1>. HIDE DEF g
<1>4. ScriptOK(g) /\ g.by = Top.by
  BY <1>3 DEF Good, SameScript, ScriptOK, KeyboardOK, LineOK
<1>5. QED BY <1>1, <1>2, <1>4, TopKeeps

LEMMA TopGood ==
  ASSUME TaskRunAssumption, FramesOK, Running
  PROVE  Good(Top)
BY TopScript DEF Good

\* A script that is stopped keeps the lines of its open calls.
LEMMA StoppedGood ==
  ASSUME TaskRunAssumption, FramesOK, Running
  PROVE  Good(Stopped)
<1>1. Top \in Frame /\ ScriptOK(Top)
  BY TopScript
<1>2. Stopped \in Frame
  BY <1>1 DEF Stopped, Frame, States
<1>3. /\ Stopped.by = Top.by /\ Stopped.task = Top.task /\ Stopped.state = "DONE"
      /\ Stopped.call_stack = Top.call_stack
  BY <1>1 DEF Stopped, Frame
<1>4. KeyboardOK(Stopped)
  BY <1>3 DEF KeyboardOK, Waits
<1>5. LineOK(Stopped)
  BY <1>1, <1>3 DEF LineOK, ScriptOK
<1>6. QED BY <1>1, <1>2, <1>3, <1>4, <1>5 DEF Good, ScriptOK

\* Where the script goes on.
LEMMA ContinueGood ==
  ASSUME TaskRunAssumption, FramesOK, Running, Top.state \notin Waits \cup {"DONE"},
         NEW j \in Nat \ {0},
         j <= Len(Script) => (Top.call_stack # <<>> <=> InDefinition(Script, j))
  PROVE  Good(Continue(j))
<1>1. Top \in Frame /\ ScriptOK(Top)
  BY TopScript
<1>. DEFINE g == Continue(j)
<1>2. g \in Frame
  BY <1>1 DEF Continue, Frame, States
<1>3. /\ g.by = Top.by /\ g.task = Top.task /\ g.state = "GET_COMMAND"
      /\ g.call_stack = Top.call_stack /\ g.i = j
      /\ g.keyboard = Top.keyboard /\ g.scripted = Top.scripted
  BY <1>1 DEF Continue, Frame
<1>. HIDE DEF g
<1>4. KeyboardOK(g)
  BY <1>1, <1>3 DEF KeyboardOK, ScriptOK, Waits
<1>5. LineOK(g)
  BY <1>1, <1>3 DEF LineOK, ScriptOK, Script
<1>6. Good(g)
  BY <1>1, <1>2, <1>3, <1>4, <1>5 DEF Good, ScriptOK
<1>7. QED BY <1>6 DEF g

\* The line after one that opens and closes no definition is where that one is.
LEMMA NextLine ==
  ASSUME TaskRunAssumption, FramesOK, Running, Top.state # "DONE",
         Top.i <= Len(Script), Line.op \notin {"sub", "endsub"}
  PROVE  /\ Top.i \in 1 .. Len(Script) /\ Top.i + 1 \in Nat \ {0}
         /\ Top.call_stack # <<>> <=> InDefinition(Script, Top.i)
         /\ Top.call_stack # <<>> <=> InDefinition(Script, Top.i + 1)
<1>1. Top \in Frame /\ ScriptOK(Top) /\ Script \in Lines /\ Len(Script) \in Nat
  BY TopScript
<1>2. Top.i \in Nat \ {0}
  BY <1>1 DEF Frame
<1>3. Top.call_stack # <<>> <=> InDefinition(Script, Top.i)
  BY <1>1 DEF ScriptOK, LineOK, Script
<1>4. InDefinition(Script, Top.i) <=> InDefinition(Script, Top.i + 1)
  BY <1>1, <1>2, OneLine DEF Line
<1>5. QED BY <1>1, <1>2, <1>3, <1>4

\* A wait begins: the keyboard's setting is put by.
LEMMA AwaitGood ==
  ASSUME TaskRunAssumption, FramesOK, Running, Top.state = "GET_COMMAND",
         Top.i <= Len(Script), Line.op \notin {"sub", "endsub"},
         NEW state \in Waits, NEW limited \in BOOLEAN
  PROVE  Good(Await(state, limited))
<1>1. Top \in Frame /\ ScriptOK(Top)
  BY TopScript
<1>. DEFINE g == Await(state, limited)
<1>2. state \in States /\ Top.keyboard \in BOOLEAN
  BY <1>1 DEF Waits, States, Frame
<1>3. g \in Frame
  BY <1>1, <1>2 DEF Await, Frame
<1>4. /\ g.by = Top.by /\ g.task = Top.task /\ g.state = state
      /\ g.call_stack = Top.call_stack /\ g.i = Top.i
      /\ g.keyboard = TRUE /\ g.scripted = Top.scripted /\ g.keyboard_was = Top.keyboard
  BY <1>1 DEF Await, Frame
<1>. HIDE DEF g
<1>5. Top.keyboard = Top.scripted
  BY <1>1 DEF ScriptOK, KeyboardOK, Waits
<1>6. KeyboardOK(g)
  BY <1>4, <1>5 DEF KeyboardOK
<1>7. LineOK(g)
  BY <1>1, <1>4 DEF LineOK, ScriptOK, Script, Line
<1>8. Good(g)
  BY <1>1, <1>3, <1>4, <1>6, <1>7 DEF Good, ScriptOK
<1>9. QED BY <1>8 DEF g

\* A state that keeps the line and the keyboard, and does not wait.
LEMMA StateGood ==
  ASSUME TaskRunAssumption, FramesOK, Running, Top.state \notin Waits \cup {"DONE"},
         Top.i <= Len(Script), Line.op \notin {"sub", "endsub"},
         NEW state \in States \ (Waits \cup {"DONE"})
  PROVE  Good([Top EXCEPT !.state = state])
<1>1. Top \in Frame /\ ScriptOK(Top)
  BY TopScript
<1>. DEFINE g == [Top EXCEPT !.state = state]
<1>2. g \in Frame
  BY <1>1 DEF Frame
<1>3. /\ g.by = Top.by /\ g.task = Top.task /\ g.state = state
      /\ g.call_stack = Top.call_stack /\ g.i = Top.i
      /\ g.keyboard = Top.keyboard /\ g.scripted = Top.scripted
  BY <1>1 DEF Frame
<1>. HIDE DEF g
<1>4. KeyboardOK(g)
  BY <1>1, <1>3 DEF KeyboardOK, ScriptOK
<1>5. LineOK(g)
  BY <1>1, <1>3 DEF LineOK, ScriptOK, Script, Line
<1>6. Good(g)
  BY <1>1, <1>2, <1>3, <1>4, <1>5 DEF Good, ScriptOK
<1>7. QED BY <1>6 DEF g

\* A call puts its return line on the stack, which is where the caller is, and enters
\* a definition.
LEMMA CallLines ==
  ASSUME TaskRunAssumption, FramesOK, Running, NEW name, NEW resume \in Nat,
         Top.state # "DONE",
         resume # 0 /\ resume <= Len(Script) => (Top.call_stack # <<>> <=> InDefinition(Script, resume))
  PROVE  LET g == Call(name, resume)
         IN  \/ g = Stopped
             \/ /\ g \in Frame /\ g.by = Top.by /\ g.task = Top.task
                /\ g.state = "GET_COMMAND" /\ LineOK(g)
                /\ g.keyboard = Top.keyboard /\ g.keyboard_was = Top.keyboard_was
                /\ g.scripted = Top.scripted
<1>. DEFINE sub == FindSub(Script, name)
            stack == Append(Top.call_stack, resume)
            g == [Top EXCEPT !.call_stack = stack, !.i = sub + 1, !.state = "GET_COMMAND"]
<1>1. Top \in Frame /\ ScriptOK(Top) /\ Script \in Lines /\ Len(Script) \in Nat
  BY TopScript
<1>2. SUFFICES ASSUME sub <= Len(Script), resume # 0, Call(name, resume) = g
               PROVE  /\ g \in Frame /\ g.by = Top.by /\ g.task = Top.task
                      /\ g.state = "GET_COMMAND" /\ LineOK(g)
                      /\ g.keyboard = Top.keyboard /\ g.keyboard_was = Top.keyboard_was
                      /\ g.scripted = Top.scripted
  <2>1. Call(name, resume) = IF sub > Len(Script) \/ resume = 0 \/ Len(Top.call_stack) >= MAX_GOSUB_DEPTH
                             THEN Stopped ELSE g
    BY DEF Call
  <2>2. FindSub(Script, name) \in Nat
    <3>. DEFINE P == {k \in 1 .. Len(Script) : Script[k].op = "sub" /\ Script[k].name = name}
    <3>1. P \in SUBSET Nat /\ (P # {} => FirstOf(Script, P) \in P)
      <4>1. P \in SUBSET Nat
        BY <1>1
      <4>. HIDE DEF P
      <4>2. QED BY <4>1, FirstIsFirst
    <3>2. P = {} => FirstOf(Script, P) = Len(Script) + 1
      BY DEF FirstOf, Past
    <3>3. FindSub(Script, name) = FirstOf(Script, P)
      BY DEF FindSub
    <3>. HIDE DEF P
    <3>4. QED BY <1>1, <3>1, <3>2, <3>3
  <2>. HIDE DEF sub, g
  <2>3. QED BY <1>1, <2>1, <2>2 DEF sub
<1>3. sub \in 1 .. Len(Script) /\ InDefinition(Script, sub + 1)
  BY <1>1, <1>2, SubEntered
<1>. HIDE DEF sub
<1>4. Top.call_stack \in Seq(Nat \ {0})
  BY <1>1 DEF Frame
<1>5. /\ stack \in Seq(Nat \ {0}) /\ Len(stack) = Len(Top.call_stack) + 1
      /\ \A d \in 1 .. Len(Top.call_stack) : stack[d] = Top.call_stack[d]
      /\ stack[Len(Top.call_stack) + 1] = resume
  BY <1>2, <1>4, AppendProperties
<1>. HIDE DEF stack
<1>6. g \in Frame
  <2>1. sub + 1 \in Nat \ {0}
    BY <1>3
  <2>2. QED BY <1>1, <1>5, <2>1 DEF Frame, States
<1>7. /\ g.by = Top.by /\ g.task = Top.task /\ g.state = "GET_COMMAND"
      /\ g.call_stack = stack /\ g.i = sub + 1
      /\ g.keyboard = Top.keyboard /\ g.keyboard_was = Top.keyboard_was /\ g.scripted = Top.scripted
  BY <1>1 DEF Frame
<1>. HIDE DEF g
<1>8. LineOK(g)
  <2>1. Len(Top.call_stack) \in Nat /\ DOMAIN Top.call_stack = 1 .. Len(Top.call_stack)
        /\ DOMAIN stack = 1 .. Len(Top.call_stack) + 1
    BY <1>4, <1>5, LenProperties
  <2>2. stack # <<>>
    BY <1>5, <2>1, EmptySeq
  <2>3. Top.call_stack # <<>> <=> Len(Top.call_stack) # 0
    BY <1>4, EmptySeq
  <2>4. ASSUME NEW d \in DOMAIN stack, stack[d] <= Len(Script)
        PROVE  d # 1 <=> InDefinition(Script, stack[d])
    <3>1. CASE d = Len(Top.call_stack) + 1
      BY <1>2, <1>5, <2>1, <2>3, <2>4, <3>1
    <3>2. CASE d # Len(Top.call_stack) + 1
      <4>1. d \in DOMAIN Top.call_stack /\ stack[d] = Top.call_stack[d]
        <5>1. \A m \in Nat : \A k \in 1 .. m + 1 : k # m + 1 => k \in 1 .. m
          OBVIOUS
        <5>2. d \in 1 .. Len(Top.call_stack)
          BY <2>1, <2>4, <3>2, <5>1
        <5>3. QED BY <1>5, <2>1, <5>2
      <4>2. QED BY <1>1, <2>4, <4>1 DEF ScriptOK, LineOK, Script
    <3>3. QED BY <3>1, <3>2
  <2>5. QED BY <1>3, <1>7, <2>2, <2>4 DEF LineOK, Script
<1>9. QED BY <1>6, <1>7, <1>8

LEMMA SameGood ==
  ASSUME NEW f, Good(f), NEW g \in Frame, SameScript(f, g)
  PROVE  Good(g)
BY DEF Good, SameScript, ScriptOK, KeyboardOK, LineOK

\* The end of a block, or past it.
LEMMA EndifGood ==
  ASSUME TaskRunAssumption, FramesOK, Running, Top.state = "GET_COMMAND",
         Top.i <= Len(Script), Line.op \notin {"sub", "endsub"}
  PROVE  Good(ContinueOrStop(IF FindEndif(Script, Top.i + 1) > Len(Script)
                             THEN 0 ELSE FindEndif(Script, Top.i + 1)))
<1>. DEFINE k == FindEndif(Script, Top.i + 1)
<1>1. Script \in Lines /\ Len(Script) \in Nat
  BY TopScript
<1>2. /\ Top.i + 1 \in Nat \ {0}
      /\ Top.call_stack # <<>> <=> InDefinition(Script, Top.i + 1)
  BY NextLine
<1>3. /\ k \in Nat \ {0}
      /\ k <= Len(Script) => /\ Top.i + 1 <= k
                             /\ \A m \in Top.i + 1 .. k - 1 : Script[m].op \notin {"sub", "endsub"}
  BY <1>1, <1>2, EndifAhead
<1>. HIDE DEF k
<1>4. k <= Len(Script) => (Top.call_stack # <<>> <=> InDefinition(Script, k))
  BY <1>1, <1>2, <1>3, Straight
<1>5. Top.state \notin Waits \cup {"DONE"}
  BY DEF Waits
<1>6. Good(Stopped) /\ Good(Continue(k))
  BY <1>3, <1>4, <1>5, StoppedGood, ContinueGood
<1>7. QED BY <1>6 DEF ContinueOrStop, k

\* The main flow goes around a definition it runs into.
LEMMA SkipGood ==
  ASSUME TaskRunAssumption, FramesOK, Running, Top.state = "GET_COMMAND",
         Top.i <= Len(Script), Line.op = "sub"
  PROVE  Good(SkipDefinition)
<1>. DEFINE k == AfterDefinition(Script, Top.i)
<1>1. Top \in Frame /\ Script \in Lines /\ Len(Script) \in Nat
  BY TopScript
<1>2. Top.i \in 1 .. Len(Script)
  <2>1. Top.i \in Nat \ {0}
    BY <1>1 DEF Frame
  <2>2. QED BY <1>1, <2>1
<1>3. k \in Nat /\ k <= Len(Script) + 1 /\ (k # 0 => ~InDefinition(Script, k))
  BY <1>1, <1>2, DefinitionSkipped DEF Line
<1>. HIDE DEF k
<1>4. Top.state \notin Waits \cup {"DONE"}
  BY DEF Waits
<1>5. Good(Stopped)
  BY StoppedGood
<1>6. ASSUME Top.call_stack = <<>>, k # 0 PROVE Good(Continue(k))
  BY <1>3, <1>4, <1>6, ContinueGood
<1>7. k \in 1 .. Past(Script) => k # 0
  OBVIOUS
<1>8. QED BY <1>5, <1>6, <1>7 DEF SkipDefinition, ContinueOrStop, k

\* A call returns to where it was made.
LEMMA ReturnGood ==
  ASSUME TaskRunAssumption, FramesOK, Running, Top.state = "GET_COMMAND"
  PROVE  Good(Return)
<1>1. Top \in Frame /\ ScriptOK(Top)
  BY TopScript
<1>2. CASE Top.call_stack = <<>>
  BY <1>2, StoppedGood DEF Return
<1>3. CASE Top.call_stack # <<>>
  <2>. DEFINE n == Len(Top.call_stack)
              line == Top.call_stack[n]
              stack == Front(Top.call_stack)
              g == [Top EXCEPT !.i = line, !.call_stack = stack]
  <2>1. Top.call_stack \in Seq(Nat \ {0})
    BY <1>1 DEF Frame
  <2>2. n \in Nat \ {0} /\ DOMAIN Top.call_stack = 1 .. n
    BY <1>3, <2>1, EmptySeq, LenProperties
  <2>3. line \in Nat \ {0}
    BY <2>1, <2>2, ElementOfSeq
  <2>4. /\ stack \in Seq(Nat \ {0}) /\ DOMAIN stack = 1 .. n - 1 /\ Len(stack) = n - 1
        /\ \A d \in 1 .. n - 1 : stack[d] = Top.call_stack[d]
    <3>1. n - 1 \in Nat /\ n - 1 <= n
      BY <2>2
    <3>2. stack = SubSeq(Top.call_stack, 1, n - 1)
      BY DEF Front
    <3>3. ASSUME NEW s \in Seq(Nat \ {0}), NEW l \in Nat, l <= Len(s), NEW t, t = SubSeq(s, 1, l)
          PROVE  /\ t \in Seq(Nat \ {0}) /\ DOMAIN t = 1 .. l /\ Len(t) = l
                 /\ \A d \in 1 .. l : t[d] = s[d]
      <4>1. /\ SubSeq(s, 1, l) \in Seq(Nat \ {0}) /\ Len(SubSeq(s, 1, l)) = l
            /\ DOMAIN SubSeq(s, 1, l) = 1 .. l
            /\ \A k \in 1 .. l : SubSeq(s, 1, l)[k] = s[k]
        BY <3>3, FirstElements
      <4>2. QED BY <3>3, <4>1
    <3>4. n - 1 <= Len(Top.call_stack)
      BY <3>1
    <3>. HIDE DEF n, stack
    <3>5. QED BY <2>1, <3>1, <3>2, <3>3, <3>4
  <2>5. stack = <<>> <=> n = 1
    <3>1. stack = <<>> <=> Len(stack) = 0
      BY <2>4, EmptySeq
    <3>2. \A m \in Nat : m - 1 = 0 <=> m = 1
      OBVIOUS
    <3>. HIDE DEF n, stack
    <3>3. QED BY <2>2, <2>4, <3>1, <3>2
  <2>. HIDE DEF stack, line
  <2>6. g \in Frame
    BY <1>1, <2>3, <2>4 DEF Frame
  <2>7. /\ g.by = Top.by /\ g.task = Top.task /\ g.state = "GET_COMMAND"
        /\ g.call_stack = stack /\ g.i = line
        /\ g.keyboard = Top.keyboard /\ g.scripted = Top.scripted
    BY <1>1 DEF Frame
  <2>8. Return = g
    BY <1>3 DEF Return, line, stack
  <2>. HIDE DEF g
  <2>9. KeyboardOK(g)
    BY <1>1, <2>7 DEF KeyboardOK, ScriptOK, Waits
  <2>10. \A d \in 1 .. n : Top.call_stack[d] <= Len(Script) => (d # 1 <=> InDefinition(Script, Top.call_stack[d]))
    BY <1>1, <2>2 DEF ScriptOK, LineOK, Script
  <2>11. line <= Len(Script) => (n # 1 <=> InDefinition(Script, line))
    <3>1. n \in 1 .. n
      BY <2>2
    <3>. HIDE DEF n
    <3>2. QED BY <2>10, <3>1 DEF line
  <2>12. \A d \in 1 .. n - 1 : stack[d] <= Len(Script) => (d # 1 <=> InDefinition(Script, stack[d]))
    <3>1. \A d \in 1 .. n - 1 : d \in 1 .. n
      BY <2>2
    <3>. HIDE DEF n
    <3>2. QED BY <2>4, <2>10, <3>1
  <2>13. LineOK(g)
    <3>. HIDE DEF n
    <3>1. QED BY <2>4, <2>5, <2>7, <2>11, <2>12 DEF LineOK, Script
  <2>14. Good(g)
    BY <1>1, <2>6, <2>7, <2>9, <2>13 DEF Good, ScriptOK
  <2>15. QED BY <2>8, <2>14
<1>4. QED BY <1>2, <1>3

\* A sub called by the main flow or by another sub.
LEMMA GosubGood ==
  ASSUME TaskRunAssumption, FramesOK, Running, Top.state = "GET_COMMAND",
         Top.i <= Len(Script), Line.op \notin {"sub", "endsub"}, NEW name
  PROVE  Good(Call(name, Top.i + 1))
<1>. DEFINE g == Call(name, Top.i + 1)
<1>1. ScriptOK(Top)
  BY TopScript
<1>2. Top.i + 1 \in Nat /\ (Top.call_stack # <<>> <=> InDefinition(Script, Top.i + 1))
  BY NextLine
<1>3. \/ g = Stopped
      \/ /\ g \in Frame /\ g.by = Top.by /\ g.task = Top.task
         /\ g.state = "GET_COMMAND" /\ LineOK(g)
         /\ g.keyboard = Top.keyboard /\ g.keyboard_was = Top.keyboard_was
         /\ g.scripted = Top.scripted
  BY <1>2, CallLines
<1>. HIDE DEF g
<1>4. ASSUME g = Stopped PROVE Good(g)
  BY <1>4, StoppedGood
<1>5. ASSUME g # Stopped PROVE Good(g)
  <2>1. KeyboardOK(g)
    BY <1>1, <1>3, <1>5 DEF KeyboardOK, ScriptOK, Waits
  <2>2. QED BY <1>1, <1>3, <1>5, <2>1 DEF Good, ScriptOK
<1>6. Good(g)
  BY <1>4, <1>5
<1>7. QED BY <1>6 DEF g

\* The answer of a model selects a branch.
LEMMA BranchGood ==
  ASSUME TaskRunAssumption, FramesOK, Running, Top.state = "WAIT_IF_RESPONSE",
         NEW answer \in {"yes", "no", "maybe"}
  PROVE  Good([Continue(Branch(Script, Top.i, answer)) EXCEPT !.complete = FALSE])
<1>. DEFINE k == Branch(Script, Top.i, answer)
            f == Continue(k)
            g == [f EXCEPT !.complete = FALSE]
<1>1. Top \in Frame /\ ScriptOK(Top) /\ Script \in Lines /\ Len(Script) \in Nat
  BY TopScript
<1>2. Top.i <= Len(Script) /\ Line.op \notin {"sub", "endsub"} /\ Top.state \notin Waits \cup {"DONE"}
  BY <1>1 DEF ScriptOK, LineOK, Script, Line, Waits
<1>3. /\ Top.i \in 1 .. Len(Script)
      /\ Top.call_stack # <<>> <=> InDefinition(Script, Top.i)
  BY <1>2, NextLine
<1>4. /\ k \in Nat \ {0}
      /\ k <= Len(Script) => (InDefinition(Script, Top.i) <=> InDefinition(Script, k))
  BY <1>1, <1>2, <1>3, BranchStays DEF Line
<1>. HIDE DEF k
<1>5. Good(f)
  BY <1>2, <1>3, <1>4, ContinueGood
<1>. HIDE DEF f
<1>6. g \in Frame /\ SameScript(f, g)
  <2>1. f \in Frame
    BY <1>5 DEF Good
  <2>2. g \in Frame
    BY <2>1 DEF Frame
  <2>3. QED BY <2>1, <2>2 DEF Frame, SameScript
<1>. HIDE DEF g
<1>7. Good(g)
  BY <1>5, <1>6, SameGood
<1>8. QED BY <1>7 DEF g, f, k

\* The line of a script that waits.
LEMMA WaitLine ==
  ASSUME TaskRunAssumption, FramesOK, Running, Top.state \notin {"GET_COMMAND", "DONE"}
  PROVE  Top.i <= Len(Script) /\ Line.op \notin {"sub", "endsub"}
BY TopScript DEF ScriptOK, LineOK, Script, Line

\* A person pressed Enter: the keyboard goes back to what it was.
LEMMA EnterGood ==
  ASSUME TaskRunAssumption, FramesOK, Running, Top.state \in Waits,
         NEW limit \in BOOLEAN, NEW j \in Nat \ {0}, NEW state \in States \ Waits,
         state # "DONE" /\ j <= Len(Script) => (Top.call_stack # <<>> <=> InDefinition(Script, j)),
         state \notin {"GET_COMMAND", "DONE"} => j <= Len(Script) /\ Script[j].op \notin {"sub", "endsub"}
  PROVE  Good([Top EXCEPT !.enter = FALSE, !.keyboard = Top.keyboard_was,
                          !.ask_limit = limit, !.i = j, !.state = state])
<1>. DEFINE was == Top.keyboard_was
            g == [Top EXCEPT !.enter = FALSE, !.keyboard = was,
                             !.ask_limit = limit, !.i = j, !.state = state]
<1>1. Top \in Frame /\ ScriptOK(Top) /\ Script \in Lines /\ Len(Script) \in Nat
  BY TopScript
<1>2. was \in BOOLEAN
  BY <1>1 DEF Frame
<1>3. was = Top.scripted
  BY <1>1 DEF ScriptOK, KeyboardOK
<1>. HIDE DEF was
<1>4. g \in Frame
  BY <1>1, <1>2 DEF Frame
<1>5. /\ g.by = Top.by /\ g.task = Top.task /\ g.state = state
      /\ g.call_stack = Top.call_stack /\ g.i = j
      /\ g.keyboard = was /\ g.scripted = Top.scripted
  BY <1>1 DEF Frame
<1>. HIDE DEF g
<1>6. KeyboardOK(g)
  BY <1>3, <1>5 DEF KeyboardOK
<1>7. LineOK(g)
  BY <1>1, <1>5 DEF LineOK, ScriptOK, Script
<1>8. Good(g)
  BY <1>1, <1>4, <1>5, <1>6, <1>7 DEF Good, ScriptOK
<1>9. QED BY <1>8 DEF g, was

LEMMA WaitEnterFrames ==
  ASSUME TaskRunAssumption, FramesOK, WaitEnter
  PROVE  FramesOK'
<1>1. Running /\ Top.state = "WAIT_ENTER"
  BY DEF WaitEnter, Advancing
<1>2. Top \in Frame
  BY <1>1, TopScript
<1>3. Top.state \in Waits
  BY <1>1 DEF Waits
<1>4. Top.i <= Len(Script) /\ Line.op \notin {"sub", "endsub"}
  BY <1>1, WaitLine
<1>5. Top.i + 1 \in Nat \ {0} /\ (Top.call_stack # <<>> <=> InDefinition(Script, Top.i + 1))
  BY <1>1, <1>4, NextLine
<1>6. Good([Top EXCEPT !.enter = FALSE, !.keyboard = Top.keyboard_was,
                       !.ask_limit = Top.ask_limit, !.i = Top.i + 1, !.state = "GET_COMMAND"])
  <2>. DEFINE j == Top.i + 1
              limit == Top.ask_limit
  <2>1. limit \in BOOLEAN /\ "GET_COMMAND" \in States \ Waits
    BY <1>2 DEF Frame, States, Waits
  <2>2. j \in Nat \ {0} /\ (Top.call_stack # <<>> <=> InDefinition(Script, j))
    BY <1>5
  <2>. HIDE DEF j, limit
  <2>3. Good([Top EXCEPT !.enter = FALSE, !.keyboard = Top.keyboard_was,
                         !.ask_limit = limit, !.i = j, !.state = "GET_COMMAND"])
    BY <1>1, <1>3, <2>1, <2>2, EnterGood
  <2>4. QED BY <2>3 DEF j, limit
<1>7. [Entered EXCEPT !.i = @ + 1, !.state = "GET_COMMAND"]
        = [Top EXCEPT !.enter = FALSE, !.keyboard = Top.keyboard_was,
                      !.ask_limit = Top.ask_limit, !.i = Top.i + 1, !.state = "GET_COMMAND"]
  BY <1>2 DEF Entered, Frame
<1>8. Good(Top)
  BY <1>1, TopGood
<1>9. Step(Top) \/ Step([Entered EXCEPT !.i = @ + 1, !.state = "GET_COMMAND"])
  BY DEF WaitEnter
<1>10. QED BY <1>1, <1>6, <1>7, <1>8, <1>9, StepKeeps

\* A typed line is the next input, or what the [IF] behind the [ASK] judges.
LEMMA AnsweredGood ==
  ASSUME TaskRunAssumption, FramesOK, Running, Top.state = "WAIT_ASK"
  PROVE  Good(Answered)
<1>. DEFINE judged == Top.i + 1 <= Len(Script) /\ Script[Top.i + 1].op = "if"
            j == IF judged THEN Top.i + 1 ELSE Top.i
            state == IF ~judged THEN "EXECUTE_COMMAND"
                     ELSE IF FindEndif(Script, Top.i + 2) > Len(Script) THEN "DONE"
                     ELSE "EXECUTE_IF"
            g == [Top EXCEPT !.enter = FALSE, !.keyboard = Top.keyboard_was,
                             !.ask_limit = FALSE, !.i = j, !.state = state]
<1>1. Top \in Frame
  BY TopScript
<1>2. Answered = g
  BY <1>1 DEF Answered, Entered, Frame
<1>3. Top.i <= Len(Script) /\ Line.op \notin {"sub", "endsub"}
  BY WaitLine
<1>4. /\ Top.i \in 1 .. Len(Script) /\ Top.i + 1 \in Nat \ {0}
      /\ Top.call_stack # <<>> <=> InDefinition(Script, Top.i)
      /\ Top.call_stack # <<>> <=> InDefinition(Script, Top.i + 1)
  BY <1>3, NextLine
<1>5. j \in Nat \ {0} /\ (Top.call_stack # <<>> <=> InDefinition(Script, j))
  BY <1>4
<1>6. state \in States \ Waits
  BY DEF States, Waits
<1>7. j <= Len(Script) /\ Script[j].op \notin {"sub", "endsub"}
  BY <1>3, <1>4 DEF Line
<1>8. Top.state \in Waits /\ FALSE \in BOOLEAN
  BY DEF Waits
<1>. HIDE DEF j, state, g
<1>9. Good(g)
  <2>1. Good([Top EXCEPT !.enter = FALSE, !.keyboard = Top.keyboard_was,
                         !.ask_limit = FALSE, !.i = j, !.state = state])
    BY <1>5, <1>6, <1>7, <1>8, EnterGood
  <2>2. QED BY <2>1 DEF g
<1>10. QED BY <1>2, <1>9

\* The time of a question is over: its sub is called, or the script stops.
LEMMA AskTimedOutGood ==
  ASSUME TaskRunAssumption, FramesOK, Running, Top.state = "WAIT_ASK"
  PROVE  Good(AskTimedOut)
<1>. DEFINE resume == ResumeAfterAsk(Script, Top.i)
            h == IF Line.op = "ask_sub" THEN Call(Line.name, resume) ELSE Stopped
            was == Top.keyboard_was
            g == [h EXCEPT !.ask_limit = FALSE, !.keyboard = was]
<1>1. Top \in Frame /\ ScriptOK(Top) /\ Script \in Lines
  BY TopScript
<1>2. AskTimedOut = g
  BY DEF AskTimedOut
<1>3. Top.i <= Len(Script) /\ Line.op \notin {"sub", "endsub"}
  BY WaitLine
<1>4. /\ Top.i \in 1 .. Len(Script)
      /\ Top.call_stack # <<>> <=> InDefinition(Script, Top.i)
  BY <1>3, NextLine
<1>5. resume \in Nat /\ (resume # 0 => (InDefinition(Script, Top.i) <=> InDefinition(Script, resume)))
  BY <1>1, <1>3, <1>4, ResumeStays DEF Line
<1>6. was \in BOOLEAN /\ was = Top.scripted
  BY <1>1 DEF Frame, ScriptOK, KeyboardOK, Waits
<1>. HIDE DEF resume, was
<1>7. \/ h = Stopped
      \/ /\ h \in Frame /\ h.by = Top.by /\ h.task = Top.task
         /\ h.state = "GET_COMMAND" /\ LineOK(h)
         /\ h.scripted = Top.scripted
  <2>1. CASE Line.op = "ask_sub"
    <3>. DEFINE called == Call(Line.name, resume)
    <3>1. \/ called = Stopped
          \/ /\ called \in Frame /\ called.by = Top.by /\ called.task = Top.task
             /\ called.state = "GET_COMMAND" /\ LineOK(called)
             /\ called.scripted = Top.scripted
      BY <1>4, <1>5, CallLines
    <3>2. h = called
      BY <2>1
    <3>. HIDE DEF called, h
    <3>3. QED BY <3>1, <3>2
  <2>2. CASE Line.op # "ask_sub"
    BY <2>2
  <2>3. QED BY <2>1, <2>2
<1>8. /\ h \in Frame /\ h.by = Top.by /\ h.task = Top.task /\ LineOK(h)
      /\ h.state = "DONE" \/ (h.state = "GET_COMMAND" /\ h.scripted = Top.scripted)
  <2>1. Good(Stopped) /\ Stopped.state = "DONE"
    BY <1>1, StoppedGood DEF Stopped, Frame
  <2>2. Stopped.task = Top.task
    BY <1>1 DEF Stopped, Frame
  <2>. HIDE DEF h
  <2>3. QED BY <1>7, <2>1, <2>2 DEF Good, ScriptOK
<1>. HIDE DEF h
<1>9. g \in Frame /\ g.by = h.by /\ g.task = h.task /\ g.state = h.state /\ g.i = h.i
      /\ g.call_stack = h.call_stack /\ g.keyboard = was /\ g.scripted = h.scripted
  <2>1. g \in Frame
    BY <1>6, <1>8, ZenonT(60) DEF Frame
  <2>2. h \in Frame
    BY <1>8
  <2>3. QED BY <2>1, <2>2 DEF Frame
<1>. HIDE DEF g
<1>10. KeyboardOK(g) /\ LineOK(g)
  BY <1>6, <1>8, <1>9 DEF KeyboardOK, LineOK, Waits
<1>11. Good(g)
  BY <1>1, <1>8, <1>9, <1>10 DEF Good, ScriptOK
<1>12. QED BY <1>2, <1>11

LEMMA WaitAskFrames ==
  ASSUME TaskRunAssumption, FramesOK, WaitAsk
  PROVE  FramesOK'
<1>1. Running /\ Top.state = "WAIT_ASK"
  BY DEF WaitAsk, Advancing
<1>2. Good(Answered) /\ Good(AskTimedOut) /\ Good(Top)
  BY <1>1, AnsweredGood, AskTimedOutGood, TopGood
<1>3. Step(Answered) \/ Step(AskTimedOut) \/ Step(Top)
  BY DEF WaitAsk
<1>4. QED BY <1>1, <1>2, <1>3, StepKeeps

\* A line goes to the model, and the reply comes.
LEMMA ExecuteFrames ==
  ASSUME TaskRunAssumption, FramesOK, Execute
  PROVE  FramesOK'
<1>1. PICK s \in {"EXECUTE_COMMAND", "EXECUTE_IF"} :
        /\ Advancing(s)
        /\ Step([Top EXCEPT !.state = IF s = "EXECUTE_IF" THEN "WAIT_IF_RESPONSE" ELSE "WAIT_RESPONSE",
                            !.is_processing = TRUE, !.complete = FALSE, !.tool_calls = <<>>])
  BY DEF Execute
<1>. DEFINE state == IF s = "EXECUTE_IF" THEN "WAIT_IF_RESPONSE" ELSE "WAIT_RESPONSE"
            f == [Top EXCEPT !.state = state]
            g == [f EXCEPT !.is_processing = TRUE, !.complete = FALSE, !.tool_calls = <<>>]
<1>2. Running /\ Top.state = s
  BY <1>1 DEF Advancing
<1>3. Top \in Frame
  BY <1>2, TopScript
<1>4. /\ Top.i <= Len(Script) /\ Line.op \notin {"sub", "endsub"}
      /\ Top.state \notin Waits \cup {"DONE"}
  BY <1>2, WaitLine DEF Waits
<1>5. state \in States \ (Waits \cup {"DONE"})
  BY DEF States, Waits
<1>6. Step(g)
  BY <1>1, <1>3 DEF Frame
<1>. HIDE DEF state
<1>7. Good(f)
  BY <1>2, <1>4, <1>5, StateGood
<1>. HIDE DEF f
<1>8. g \in Frame /\ SameScript(f, g)
  <2>1. f \in Frame /\ <<>> \in Seq(Word)
    BY <1>7 DEF Good
  <2>2. g \in Frame
    BY <2>1 DEF Frame
  <2>3. QED BY <2>1, <2>2 DEF Frame, SameScript
<1>. HIDE DEF g
<1>9. Good(g)
  BY <1>7, <1>8, SameGood
<1>10. QED BY <1>2, <1>6, <1>9, StepKeeps

LEMMA WaitResponseFrames ==
  ASSUME TaskRunAssumption, FramesOK, WaitResponse
  PROVE  FramesOK'
<1>1. Running /\ Top.state = "WAIT_RESPONSE"
  BY DEF WaitResponse, Advancing
<1>2. /\ Top.i <= Len(Script) /\ Line.op \notin {"sub", "endsub"}
      /\ Top.state \notin Waits \cup {"DONE"}
  BY <1>1, WaitLine DEF Waits
<1>3. Top.i + 1 \in Nat \ {0} /\ (Top.call_stack # <<>> <=> InDefinition(Script, Top.i + 1))
  BY <1>1, <1>2, NextLine
<1>. DEFINE f == Continue(Top.i + 1)
            g == [f EXCEPT !.complete = FALSE]
<1>4. Good(f)
  BY <1>1, <1>2, <1>3, ContinueGood
<1>5. Step(g) \/ Step(Top)
  BY DEF WaitResponse
<1>. HIDE DEF f
<1>6. g \in Frame /\ SameScript(f, g)
  <2>1. f \in Frame
    BY <1>4 DEF Good
  <2>2. g \in Frame
    BY <2>1 DEF Frame
  <2>3. QED BY <2>1, <2>2 DEF Frame, SameScript
<1>. HIDE DEF g
<1>7. Good(g) /\ Good(Top)
  BY <1>1, <1>4, <1>6, SameGood, TopGood
<1>8. QED BY <1>1, <1>5, <1>7, StepKeeps

LEMMA WaitIfResponseFrames ==
  ASSUME TaskRunAssumption, FramesOK, WaitIfResponse
  PROVE  FramesOK'
<1>1. Running /\ Top.state = "WAIT_IF_RESPONSE"
  BY DEF WaitIfResponse, Advancing
<1>2. \/ \E answer \in {"yes", "no", "maybe"} :
            Step([Continue(Branch(Script, Top.i, answer)) EXCEPT !.complete = FALSE])
      \/ Step(Top)
  BY DEF WaitIfResponse
<1>3. Good(Top)
  BY <1>1, TopGood
<1>4. \A answer \in {"yes", "no", "maybe"} :
        Good([Continue(Branch(Script, Top.i, answer)) EXCEPT !.complete = FALSE])
  BY <1>1, BranchGood
<1>5. QED BY <1>1, <1>2, <1>3, <1>4, StepKeeps

\* The keyboard line and the line that is done within its tick.
LEMMA LineDone ==
  ASSUME TaskRunAssumption, FramesOK, Running, Top.state = "GET_COMMAND",
         Top.i <= Len(Script), Line.op \notin {"sub", "endsub"}
  PROVE  /\ Good(Continue(Top.i + 1))
         /\ \A on \in BOOLEAN :
              Good([Continue(Top.i + 1) EXCEPT !.keyboard = on, !.scripted = on])
<1>1. Top.state \notin Waits \cup {"DONE"}
  BY DEF Waits
<1>2. Top.i + 1 \in Nat \ {0} /\ (Top.call_stack # <<>> <=> InDefinition(Script, Top.i + 1))
  BY NextLine
<1>. DEFINE f == Continue(Top.i + 1)
<1>3. Good(f) /\ f.state = "GET_COMMAND"
  <2>1. Top \in Frame
    BY TopScript
  <2>2. f.state = "GET_COMMAND"
    BY <2>1 DEF Continue, Frame
  <2>. HIDE DEF f
  <2>3. Good(f)
    BY <1>1, <1>2, ContinueGood DEF f
  <2>4. QED BY <2>2, <2>3
<1>. HIDE DEF f
<1>4. ASSUME NEW on \in BOOLEAN PROVE Good([f EXCEPT !.keyboard = on, !.scripted = on])
  <2>. DEFINE g == [f EXCEPT !.keyboard = on, !.scripted = on]
  <2>1. f \in Frame
    BY <1>3 DEF Good
  <2>2. g \in Frame
    BY <2>1 DEF Frame
  <2>3. /\ g.by = f.by /\ g.task = f.task /\ g.state = f.state /\ g.i = f.i
        /\ g.call_stack = f.call_stack /\ g.keyboard = on /\ g.scripted = on
    BY <2>1 DEF Frame
  <2>. HIDE DEF g
  <2>4. KeyboardOK(g) /\ LineOK(g)
    BY <1>3, <2>3 DEF KeyboardOK, LineOK, Waits, Good, ScriptOK
  <2>5. Good(g)
    BY <1>3, <2>2, <2>3, <2>4 DEF Good, ScriptOK
  <2>6. QED BY <2>5 DEF g
<1>5. QED BY <1>3, <1>4 DEF f

\* Whatever line is read, the script is as it must be.
LEMMA ReadGood ==
  ASSUME TaskRunAssumption, FramesOK, Running, Top.state = "GET_COMMAND",
         Top.i <= Len(Script), NEW f \in Read(Line)
  PROVE  Good(f)
<1>1. Top \in Frame /\ Script \in Lines /\ Len(Script) \in Nat
  BY TopScript
<1>2. Line \in [op : Op, name : STRING]
  <2>1. Top.i \in Nat \ {0}
    BY <1>1 DEF Frame
  <2>2. Top.i \in 1 .. Len(Script)
    BY <1>1, <2>1
  <2>3. QED BY <1>1, <2>2, ElementOfSeq DEF Line, Lines
<1>3. Line.op \in Op
  BY <1>2
<1>4. Top.state \notin Waits \cup {"DONE"} /\ Good(Stopped)
  BY StoppedGood DEF Waits
<1>5. ASSUME Line.op \in {"plain", "wait", "run", "if"}
      PROVE  \A state \in {"EXECUTE_COMMAND", "WAIT_TOOL_RESULT", "RUN_TASK", "EXECUTE_IF"} :
               Good([Top EXCEPT !.state = state])
  <2>1. Line.op \notin {"sub", "endsub"}
    BY <1>5
  <2>2. {"EXECUTE_COMMAND", "WAIT_TOOL_RESULT", "RUN_TASK", "EXECUTE_IF"} \subseteq States \ (Waits \cup {"DONE"})
    BY DEF States, Waits
  <2>3. QED BY <1>4, <2>1, <2>2, StateGood
<1>6. ASSUME Line.op \in {"pause", "ask", "ask_end", "ask_sub", "file_in"}
      PROVE  \A state \in Waits, limited \in BOOLEAN : Good(Await(state, limited))
  <2>1. Line.op \notin {"sub", "endsub"}
    BY <1>6
  <2>2. QED BY <2>1, AwaitGood
<1>7. CASE Line.op = "plain"
  BY <1>5, <1>7 DEF Read, Instant
<1>8. CASE Line.op = "wait"
  BY <1>5, <1>8 DEF Read, Instant
<1>9. CASE Line.op = "run"
  BY <1>5, <1>9 DEF Read, Instant
<1>10. CASE Line.op = "if"
  <2>1. f = AskIf
    BY <1>10 DEF Read, Instant
  <2>2. QED BY <1>4, <1>5, <1>10, <2>1 DEF AskIf
<1>11. CASE Line.op = "pause"
  BY <1>6, <1>11 DEF Read, Instant, Waits
<1>12. CASE Line.op \in {"ask", "ask_end", "ask_sub"}
  <2>1. Top.ask_limit \in BOOLEAN /\ "WAIT_ASK" \in Waits
    BY <1>1 DEF Frame, Waits
  <2>2. f \in {Await("WAIT_ASK", Top.ask_limit), Await("WAIT_ASK", TRUE)}
    BY <1>12 DEF Read, Instant
  <2>3. QED BY <1>6, <1>12, <2>1, <2>2
<1>13. CASE Line.op = "file_in"
  <2>1. Top.ask_limit \in BOOLEAN /\ "WAIT_ASK" \in Waits
    BY <1>1 DEF Frame, Waits
  <2>2. f \in {[Top EXCEPT !.state = "EXECUTE_COMMAND"], Await("WAIT_ASK", Top.ask_limit)}
    BY <1>13 DEF Read, Instant
  <2>3. Good([Top EXCEPT !.state = "EXECUTE_COMMAND"])
    BY <1>4, <1>13, StateGood DEF States, Waits
  <2>4. QED BY <1>6, <1>13, <2>1, <2>2, <2>3
<1>14. CASE Line.op \in {"ask_bad", "end"}
  BY <1>4, <1>14 DEF Read, Instant
<1>15. CASE Line.op = "keyboard_on"
  BY <1>15, LineDone DEF Read, Instant
<1>16. CASE Line.op = "keyboard_off"
  BY <1>16, LineDone DEF Read, Instant
<1>17. CASE Line.op \in {"else", "maybe"}
  <2>1. f = ContinueOrStop(IF FindEndif(Script, Top.i + 1) > Len(Script)
                           THEN 0 ELSE FindEndif(Script, Top.i + 1))
    BY <1>17 DEF Read, Instant
  <2>2. QED BY <1>17, <2>1, EndifGood
<1>18. CASE Line.op = "sub"
  BY <1>18, SkipGood DEF Read, Instant
<1>19. CASE Line.op = "gosub"
  BY <1>19, GosubGood DEF Read, Instant
<1>20. CASE Line.op \in {"return", "endsub"}
  <2>1. f = Return
    BY <1>20 DEF Read, Instant
  <2>2. QED BY <2>1, ReturnGood
<1>21. CASE Line.op \in {"print", "endif"}
  <2>1. f = Continue(Top.i + 1)
    BY <1>21 DEF Read, Instant
  <2>2. QED BY <1>21, <2>1, LineDone
<1>22. QED BY <1>3, <1>7, <1>8, <1>9, <1>10, <1>11, <1>12, <1>13, <1>14, <1>15, <1>16,
              <1>17, <1>18, <1>19, <1>20, <1>21 DEF Op, Instant, Asks

LEMMA GetCommandFrames ==
  ASSUME TaskRunAssumption, FramesOK, GetCommand
  PROVE  FramesOK'
<1>1. Running /\ Top.state = "GET_COMMAND"
  BY DEF GetCommand, Advancing
<1>2. Top.i \in Nat /\ Len(Script) \in Nat
  BY <1>1, TopScript DEF Frame
<1>3. CASE Top.i > Len(Script)
  BY <1>1, <1>3, StoppedGood, StepKeeps DEF GetCommand
<1>4. CASE Top.i <= Len(Script)
  <2>1. PICK f \in Read(Line) : Step(f)
    <3>1. ~(Top.i > Len(Script))
      BY <1>2, <1>4
    <3>2. QED BY <3>1 DEF GetCommand
  <2>2. Good(f)
    BY <1>1, <1>4, ReadGood
  <2>3. QED BY <1>1, <2>1, <2>2, StepKeeps
<1>5. QED BY <1>2, <1>3, <1>4

\* The first held result since the last plain line is told, or the wait gives up.
LEMMA WaitToolResultFrames ==
  ASSUME TaskRunAssumption, FramesOK, WaitToolResult
  PROVE  FramesOK'
<1>1. Running /\ Top.state = "WAIT_TOOL_RESULT"
  BY DEF WaitToolResult, Advancing
<1>2. Top \in Frame
  BY <1>1, TopScript
<1>3. /\ Top.i <= Len(Script) /\ Line.op \notin {"sub", "endsub"}
      /\ Top.state \notin Waits \cup {"DONE"}
  BY <1>1, WaitLine DEF Waits
<1>. DEFINE n    == Top.baseline + 1
            next == Continue(Top.i + 1)
            done == [next EXCEPT !.pc = "exchange", !.waiting = FALSE]
<1>4. Good(next)
  <2>1. Top.i + 1 \in Nat \ {0} /\ (Top.call_stack # <<>> <=> InDefinition(Script, Top.i + 1))
    BY <1>1, <1>3, NextLine
  <2>2. QED BY <1>1, <1>3, <2>1, ContinueGood
<1>5. next.held = Top.held
  BY <1>2 DEF Continue, Frame
<1>6. \/ Len(Top.held) >= n /\ \E f \in Narrating(TakeHeld(done, n)) : SetTop(f)
      \/ \E f \in Narrating(done) : SetTop(f)
      \/ SetTop([Top EXCEPT !.pc = "exchange", !.waiting = TRUE,
                            !.late = IF Top.waiting THEN @ ELSE FALSE])
  BY DEF WaitToolResult
<1>. HIDE DEF next
<1>7. done \in Frame /\ SameScript(next, done) /\ done.held = Top.held
  <2>1. next \in Frame
    BY <1>4 DEF Good
  <2>2. done \in Frame
    BY <2>1 DEF Frame, Places
  <2>3. QED BY <1>5, <2>1, <2>2 DEF Frame, SameScript
<1>. HIDE DEF done
<1>8. Good(done)
  BY <1>4, <1>7, SameGood
<1>9. ASSUME NEW f, Good(f), NEW g \in Narrating(f), SetTop(g) PROVE FramesOK'
  <2>1. g \in Frame /\ SameScript(f, g)
    BY <1>9, Narration DEF Good
  <2>2. Good(g)
    BY <1>9, <2>1, SameGood
  <2>3. QED BY <1>1, <1>9, <2>2, TopKeeps DEF Good
<1>10. CASE Len(Top.held) >= n /\ \E f \in Narrating(TakeHeld(done, n)) : SetTop(f)
  <2>. DEFINE h == SubSeq(Top.held, 1, n - 1) \o SubSeq(Top.held, n + 1, Len(Top.held))
              g == [done EXCEPT !.held = h]
  <2>1. h \in Seq(Calls)
    <3>1. Top.held \in Seq(Calls) /\ Top.baseline \in Nat
      BY <1>2 DEF Frame
    <3>2. n \in 1 .. Len(Top.held)
      BY <1>10, <3>1, LenProperties
    <3>. HIDE DEF n
    <3>3. QED BY <3>1, <3>2, LeftOut
  <2>2. TakeHeld(done, n) = g
    BY <1>7 DEF TakeHeld
  <2>. HIDE DEF h
  <2>3. g \in Frame
    BY <1>7, <2>1 DEF Frame
  <2>4. SameScript(done, g)
    BY <1>7 DEF Frame, SameScript
  <2>. HIDE DEF g
  <2>5. Good(g)
    BY <1>8, <2>3, <2>4, SameGood
  <2>6. QED BY <1>9, <1>10, <2>2, <2>5
<1>11. CASE \E f \in Narrating(done) : SetTop(f)
  BY <1>8, <1>9, <1>11
<1>12. CASE SetTop([Top EXCEPT !.pc = "exchange", !.waiting = TRUE,
                              !.late = IF Top.waiting THEN @ ELSE FALSE])
  <2>. DEFINE late == IF Top.waiting THEN Top.late ELSE FALSE
              g == [Top EXCEPT !.pc = "exchange", !.waiting = TRUE, !.late = late]
  <2>1. late \in BOOLEAN
    BY <1>2 DEF Frame
  <2>2. SetTop(g)
    BY <1>2, <1>12 DEF Frame
  <2>. HIDE DEF late
  <2>3. g \in Frame
    BY <1>2, <2>1 DEF Frame, Places
  <2>4. SameScript(Top, g)
    BY <1>2 DEF Frame, SameScript
  <2>. HIDE DEF g
  <2>5. QED BY <2>2, <2>3, <2>4, OtherChange
<1>13. QED BY <1>6, <1>10, <1>11, <1>12

\* A fresh run starts at the first line of its script, in no definition.
LEMMA NewFrameGood ==
  ASSUME TaskRunAssumption, NEW task \in Task, NEW by \in {"call", "run"}
  PROVE  LET f == NewFrame(task, by) IN f \in Frame /\ f.by = by /\ ScriptOK(f)
<1>. DEFINE f == NewFrame(task, by)
<1>1. <<>> \in Seq(Word) /\ <<>> \in Seq(Nat \ {0}) /\ <<>> \in Seq(Calls)
  OBVIOUS
<1>2. f \in Frame
  <2>1. task \in Task \cup {""} /\ by \in {"user", "call", "run"}
    OBVIOUS
  <2>2. {} \in SUBSET Calls /\ 0 \in Nat /\ 1 \in Nat \ {0}
    OBVIOUS
  <2>3. "drain" \in Places /\ "GET_COMMAND" \in States
    BY DEF Places, States
  <2>4. QED BY <1>1, <2>1, <2>2, <2>3 DEF NewFrame, Frame
<1>3. /\ f.by = by /\ f.task = task /\ f.state = "GET_COMMAND" /\ f.i = 1
      /\ f.call_stack = <<>> /\ f.keyboard = TRUE /\ f.scripted = TRUE
  BY DEF NewFrame
<1>. HIDE DEF f
<1>4. ~InDefinition(Commands[task], 1)
  BY DEF InDefinition
<1>5. KeyboardOK(f)
  BY <1>3 DEF KeyboardOK, Waits
<1>6. LineOK(f)
  BY <1>3, <1>4 DEF LineOK
<1>7. QED BY <1>2, <1>3, <1>5, <1>6 DEF f, ScriptOK

\* A run is opened inside the one on top.
LEMMA PushKeeps ==
  ASSUME TaskRunAssumption, FramesOK, NEW g \in Frame, SameScript(Top, g),
         NEW task \in Task, NEW by \in {"call", "run"},
         by = "run" => Running /\ g.state = "RUN_TASK",
         frames' = Append([frames EXCEPT ![Len(frames)] = g], NewFrame(task, by))
  PROVE  FramesOK'
<1>. DEFINE fs == [frames EXCEPT ![Len(frames)] = g]
            f == NewFrame(task, by)
            m == Len(frames)
<1>1. m \in Nat \ {0} /\ DOMAIN frames = 1 .. m
  BY EmptySeq, LenProperties DEF FramesOK
<1>2. fs \in Seq(Frame) /\ Len(fs) = m /\ fs[m] = g /\ \A n \in 1 .. m : n # m => fs[n] = frames[n]
  <2>1. m \in DOMAIN frames
    BY <1>1
  <2>2. \A n \in 1 .. m : n \in DOMAIN frames
    BY <1>1
  <2>3. fs \in Seq(Frame) /\ Len(fs) = Len(frames)
    BY <2>1, ExceptSeq DEF FramesOK
  <2>4. QED BY <2>1, <2>2, <2>3
<1>3. f \in Frame /\ f.by = by /\ ScriptOK(f)
  BY NewFrameGood
<1>. HIDE DEF fs, f
<1>4. /\ frames' \in Seq(Frame) /\ Len(frames') = m + 1
      /\ \A n \in 1 .. m : frames'[n] = fs[n]
      /\ frames'[m + 1] = f
  <2>1. frames' = Append(fs, f)
    BY DEF fs, f
  <2>. HIDE DEF m
  <2>2. /\ Append(fs, f) \in Seq(Frame) /\ Len(Append(fs, f)) = Len(fs) + 1
        /\ \A n \in 1 .. Len(fs) : Append(fs, f)[n] = fs[n]
        /\ Append(fs, f)[Len(fs) + 1] = f
    BY <1>2, <1>3, AppendProperties
  <2>3. Len(fs) = m
    BY <1>2
  <2>4. QED BY <2>1, <2>2, <2>3
<1>5. Running => ScriptOK(Top) /\ (Top.by = "run" => m # 2 /\ frames[m - 1].state = "RUN_TASK")
  BY <1>1 DEF FramesOK, Running, Top
<1>6. Running => ScriptOK(g) /\ g.by = Top.by
  BY <1>5 DEF ScriptOK, SameScript, KeyboardOK, LineOK
<1>. HIDE DEF m
<1>7. frames' # <<>>
  <2>1. m + 1 # 0
    BY <1>1
  <2>2. QED BY <1>4, <2>1, EmptySeq
<1>8. Running <=> m # 1
  BY <1>1 DEF Running, m
<1>9. ASSUME NEW n \in 2 .. m + 1
      PROVE  ScriptOK(frames'[n]) /\ (frames'[n].by = "run" => n # 2 /\ frames'[n - 1].state = "RUN_TASK")
  <2>1. \A k \in Nat \ {0} : \A j \in 2 .. k + 1 :
           j = k + 1 \/ (j = k /\ j # 1 /\ j - 1 \in 1 .. k /\ j - 1 # k)
             \/ (j \in 2 .. k /\ j # k /\ j \in 1 .. k /\ j - 1 \in 1 .. k /\ j - 1 # k)
    OBVIOUS
  <2>2. \/ n = m + 1
        \/ n = m /\ n # 1 /\ n - 1 \in 1 .. m /\ n - 1 # m
        \/ n \in 2 .. m /\ n # m /\ n \in 1 .. m /\ n - 1 \in 1 .. m /\ n - 1 # m
    BY <1>1, <1>9, <2>1
  <2>3. CASE n = m + 1
    <3>1. n - 1 = m /\ m \in 1 .. m /\ (n # 2 <=> m # 1)
      BY <1>1, <2>3
    <3>2. frames'[n] = f /\ frames'[n - 1] = g
      BY <1>2, <1>4, <2>3, <3>1
    <3>3. QED BY <1>3, <1>8, <3>1, <3>2
  <2>4. CASE n = m /\ n # 1 /\ n - 1 \in 1 .. m /\ n - 1 # m
    <3>1. m \in 1 .. m
      BY <1>1
    <3>2. frames'[n] = g /\ frames'[n - 1] = frames[n - 1]
      BY <1>2, <1>4, <2>4, <3>1
    <3>3. QED BY <1>5, <1>6, <1>8, <2>4, <3>2
  <2>5. CASE n \in 2 .. m /\ n # m /\ n \in 1 .. m /\ n - 1 \in 1 .. m /\ n - 1 # m
    <3>1. frames'[n] = frames[n] /\ frames'[n - 1] = frames[n - 1]
      BY <1>2, <1>4, <2>5
    <3>2. QED BY <2>5, <3>1 DEF FramesOK, m
  <2>6. QED BY <2>2, <2>3, <2>4, <2>5
<1>10. (FramesOK)' <=> /\ frames' \in Seq(Frame) /\ frames' # <<>>
                       /\ \A n \in 2 .. Len(frames') :
                            /\ ScriptOK(frames'[n])
                            /\ frames'[n].by = "run" => n # 2 /\ frames'[n - 1].state = "RUN_TASK"
  BY DEF FramesOK
<1>11. QED BY <1>4, <1>7, <1>9, <1>10

LEMMA OpenFrames ==
  ASSUME TaskRunAssumption, FramesOK, DispatchTask \/ RunTask
  PROVE  FramesOK'
<1>1. CASE DispatchTask
  <2>. DEFINE g == [Top EXCEPT !.todo = Tail(@)]
  <2>1. Top.todo # <<>> /\ Head(Top.todo) \in Task
    BY <1>1 DEF DispatchTask
  <2>2. Top \in Frame /\ g \in Frame /\ SameScript(Top, g)
    BY <2>1, OneLess
  <2>3. frames' = Append([frames EXCEPT ![Len(frames)] = g], NewFrame(Head(Top.todo), "call"))
    BY <1>1 DEF DispatchTask, Top
  <2>. HIDE DEF g
  <2>4. QED BY <2>1, <2>2, <2>3, PushKeeps
<1>2. CASE RunTask
  <2>1. Running /\ Top.state = "RUN_TASK"
    BY <1>2 DEF RunTask, Advancing
  <2>2. CASE Step(Stopped)
    BY <2>1, <2>2, StoppedGood, StepKeeps
  <2>3. CASE Line.name \in Task /\ frames' = Append(frames, NewFrame(Line.name, "run"))
    <3>1. Top \in Frame
      BY <2>1, TopScript
    <3>2. frames = [frames EXCEPT ![Len(frames)] = Top]
      <4>1. Len(frames) \in Nat \ {0} /\ DOMAIN frames = 1 .. Len(frames)
        BY EmptySeq, LenProperties DEF FramesOK
      <4>2. QED BY <4>1 DEF Top, FramesOK
    <3>3. SameScript(Top, Top)
      BY DEF SameScript
    <3>4. frames' = Append([frames EXCEPT ![Len(frames)] = Top], NewFrame(Line.name, "run"))
      BY <2>3, <3>2
    <3>5. QED BY <2>1, <2>3, <3>1, <3>3, <3>4, PushKeeps
  <2>4. QED BY <1>2, <2>2, <2>3 DEF RunTask
<1>3. QED BY <1>1, <1>2

\* The terminal's lines and Ctrl+C change what the script waits with, or stop it.
LEMMA ExchangeFrames ==
  ASSUME TaskRunAssumption, FramesOK, Exchange
  PROVE  FramesOK'
<1>1. Running
  BY DEF Exchange
<1>2. Top \in Frame
  BY <1>1, TopScript
<1>3. PICK typed \in BOOLEAN, stop \in BOOLEAN :
        SetTop([Top EXCEPT !.enter = @ \/ typed,
                           !.state = IF stop THEN "DONE" ELSE @,
                           !.pc = IF stop \/ Top.state = "DONE" THEN "close" ELSE "drain"])
  BY DEF Exchange
<1>. DEFINE p == IF stop \/ Top.state = "DONE" THEN "close" ELSE "drain"
            e == Top.enter \/ typed
            f == IF stop THEN Stopped ELSE Top
            g == [f EXCEPT !.enter = e, !.pc = p]
<1>4. p \in Places /\ e \in BOOLEAN
  BY <1>2 DEF Places, Frame
<1>5. SetTop(g)
  <2>1. CASE stop
    BY <1>2, <1>3, <2>1 DEF Stopped, Frame
  <2>2. CASE ~stop
    BY <1>2, <1>3, <2>2 DEF Frame
  <2>3. QED BY <2>1, <2>2
<1>6. Good(f)
  BY <1>1, StoppedGood, TopGood
<1>. HIDE DEF p, e, f
<1>7. g \in Frame
  BY <1>4, <1>6 DEF Good, Frame
<1>8. SameScript(f, g)
  BY <1>6 DEF Good, Frame, SameScript
<1>. HIDE DEF g
<1>9. Good(g)
  BY <1>6, <1>7, <1>8, SameGood
<1>10. QED BY <1>1, <1>5, <1>9, TopKeeps DEF Good

\* A run closes; a script that ran it goes on behind its [RUN] line.
LEMMA CloseFrames ==
  ASSUME TaskRunAssumption, FramesOK, Close
  PROVE  FramesOK'
<1>. DEFINE m == Len(frames)
            caller == frames[m - 1]
            run == Top.by = "run"
            w == caller.pending_tool_calls + Top.held_events
            l == caller.leaving \cup Top.outstanding
            o == caller.orphans \cup Top.leaving \cup Top.orphans
            i == IF run THEN caller.i + 1 ELSE caller.i
            state == IF run THEN "GET_COMMAND" ELSE caller.state
            p == IF run THEN "exchange" ELSE caller.pc
            back == [caller EXCEPT !.pending_tool_calls = w, !.leaving = l, !.orphans = o,
                                   !.i = i, !.state = state, !.pc = p]
            rest == SubSeq(frames, 1, m - 2)
<1>1. Running /\ Top \in Frame
  BY TopScript DEF Close
<1>2. /\ m \in Nat /\ m # 0 /\ m # 1 /\ DOMAIN frames = 1 .. m /\ m - 1 \in 1 .. m
      /\ m - 2 \in Nat /\ m - 2 <= m
  <2>1. m \in Nat /\ DOMAIN frames = 1 .. m
    BY LenProperties DEF FramesOK
  <2>2. m > 1
    BY <1>1 DEF Running
  <2>. HIDE DEF m
  <2>3. QED BY <2>1, <2>2
<1>3. caller \in Frame
  BY <1>2, ElementOfSeq DEF FramesOK
<1>4. PICK f \in Narrating(back) : frames' = Append(rest, f)
  <2>1. back = [caller EXCEPT
                  !.pending_tool_calls = @ + Top.held_events,
                  !.leaving = @ \cup Top.outstanding,
                  !.orphans = @ \cup Top.leaving \cup Top.orphans,
                  !.i     = IF Top.by = "run" THEN @ + 1 ELSE @,
                  !.state = IF Top.by = "run" THEN "GET_COMMAND" ELSE @,
                  !.pc    = IF Top.by = "run" THEN "exchange" ELSE @]
    BY <1>3 DEF Frame
  <2>2. QED BY <2>1 DEF Close
<1>5. run => m # 2 /\ caller.state = "RUN_TASK"
  <2>1. m \in 2 .. m
    <3>. HIDE DEF m
    <3>1. QED BY <1>2
  <2>2. frames[m].by = "run" => m # 2 /\ frames[m - 1].state = "RUN_TASK"
    BY <2>1 DEF FramesOK
  <2>3. QED BY <2>2 DEF Top
<1>6. /\ rest \in Seq(Frame) /\ Len(rest) = m - 2
      /\ \A n \in 1 .. m - 2 : rest[n] = frames[n]
  <2>1. \A k \in Nat : k <= Len(frames) =>
          /\ SubSeq(frames, 1, k) \in Seq(Frame) /\ Len(SubSeq(frames, 1, k)) = k
          /\ \A n \in 1 .. k : SubSeq(frames, 1, k)[n] = frames[n]
    BY FirstElements DEF FramesOK
  <2>2. m - 2 \in Nat /\ m - 2 <= Len(frames)
    BY <1>2
  <2>3. QED BY <2>1, <2>2
<1>7. m - 1 # 1 => /\ ScriptOK(caller)
                   /\ caller.by = "run" => m - 1 # 2 /\ frames[m - 2].state = "RUN_TASK"
  <2>1. m - 1 # 1 => m - 1 \in 2 .. m /\ (m - 1) - 1 = m - 2
    BY <1>2
  <2>2. QED BY <2>1 DEF FramesOK
<1>8. w \in Nat /\ l \in SUBSET Calls /\ o \in SUBSET Calls /\ i \in Nat \ {0}
      /\ state \in States /\ p \in Places
  <2>1. w \in Nat
    <3>1. caller.pending_tool_calls \in Nat /\ Top.held_events \in Nat
      BY <1>1, <1>3 DEF Frame
    <3>. HIDE DEF caller
    <3>2. QED BY <3>1
  <2>2. l \in SUBSET Calls
    BY <1>1, <1>3 DEF Frame
  <2>3. o \in SUBSET Calls
    BY <1>1, <1>3 DEF Frame
  <2>4. i \in Nat \ {0}
    <3>1. caller.i \in Nat \ {0}
      BY <1>3 DEF Frame
    <3>. HIDE DEF caller, run
    <3>2. QED BY <3>1
  <2>5. state \in States /\ p \in Places
    BY <1>3 DEF Frame, States, Places
  <2>. HIDE DEF w, l, o, i, state, p
  <2>6. QED BY <2>1, <2>2, <2>3, <2>4, <2>5
<1>9. m - 1 # 1 /\ caller.state # "DONE" /\ i <= Len(Commands[caller.task])
        => (caller.call_stack # <<>> <=> InDefinition(Commands[caller.task], i))
  <2>. DEFINE s == Commands[caller.task]
  <2>1. SUFFICES ASSUME m - 1 # 1, i <= Len(s), caller.state # "DONE"
                 PROVE  caller.call_stack # <<>> <=> InDefinition(s, i)
    OBVIOUS
  <2>2. ScriptOK(caller) /\ s \in Lines /\ Len(s) \in Nat
    BY <1>7, <2>1, LenProperties DEF ScriptOK, Lines, TaskRunAssumption
  <2>3. CASE ~run
    BY <2>1, <2>2, <2>3 DEF ScriptOK, LineOK
  <2>4. CASE run
    <3>1. caller.state = "RUN_TASK"
      BY <1>5, <2>4
    <3>2. caller.i <= Len(s) /\ s[caller.i].op \notin {"sub", "endsub"}
          /\ (caller.call_stack # <<>> <=> InDefinition(s, caller.i))
      BY <2>2, <3>1 DEF ScriptOK, LineOK
    <3>3. caller.i \in Nat \ {0}
      BY <1>3 DEF Frame
    <3>. HIDE DEF caller, s
    <3>4. InDefinition(s, caller.i) <=> InDefinition(s, caller.i + 1)
      BY <2>2, <3>2, <3>3, OneLine
    <3>5. QED BY <2>4, <3>2, <3>4
  <2>5. QED BY <2>3, <2>4
<1>. HIDE DEF w, l, o, i, state, p, rest
<1>10. back \in Frame /\ back.task = caller.task /\ back.by = caller.by /\ back.i = i
       /\ back.state = state /\ back.call_stack = caller.call_stack
       /\ back.keyboard = caller.keyboard /\ back.keyboard_was = caller.keyboard_was
       /\ back.scripted = caller.scripted
  <2>1. back \in Frame
    BY <1>3, <1>8 DEF Frame
  <2>2. QED BY <1>3, <2>1 DEF Frame
<1>. HIDE DEF back
<1>11. f \in Frame /\ SameScript(back, f)
  BY <1>4, <1>10, Narration
<1>12. m - 1 # 1 => ScriptOK(f)
  <2>1. SUFFICES ASSUME m - 1 # 1 PROVE ScriptOK(f)
    OBVIOUS
  <2>2. f.task = caller.task /\ f.i = i /\ f.state = state /\ f.call_stack = caller.call_stack
        /\ f.keyboard = caller.keyboard /\ f.keyboard_was = caller.keyboard_was
        /\ f.scripted = caller.scripted
    BY <1>10, <1>11 DEF SameScript
  <2>3. ScriptOK(caller)
    BY <1>7, <2>1
  <2>. HIDE DEF caller
  <2>4. CASE run
    <3>1. state = "GET_COMMAND" /\ caller.state = "RUN_TASK"
      BY <1>5, <2>4 DEF state
    <3>2. KeyboardOK(f)
      BY <2>2, <2>3, <3>1 DEF ScriptOK, KeyboardOK, Waits
    <3>3. LineOK(f)
      BY <1>9, <2>1, <2>2, <2>3, <3>1 DEF ScriptOK, LineOK
    <3>4. QED BY <2>2, <2>3, <3>2, <3>3 DEF ScriptOK
  <2>5. CASE ~run
    <3>1. state = caller.state /\ i = caller.i
      BY <2>5 DEF state, i
    <3>2. QED BY <2>2, <2>3, <3>1 DEF ScriptOK, KeyboardOK, LineOK
  <2>6. QED BY <2>4, <2>5
<1>13. f.by = caller.by
  BY <1>10, <1>11 DEF SameScript
<1>. HIDE DEF caller
<1>14. /\ frames' \in Seq(Frame) /\ frames' # <<>> /\ Len(frames') = m - 1
       /\ \A n \in 1 .. m - 2 : frames'[n] = frames[n]
       /\ frames'[m - 1] = f
  <2>1. /\ Append(rest, f) \in Seq(Frame) /\ Append(rest, f) # <<>>
        /\ Len(Append(rest, f)) = Len(rest) + 1
        /\ \A n \in 1 .. Len(rest) : Append(rest, f)[n] = rest[n]
        /\ Append(rest, f)[Len(rest) + 1] = f
    BY <1>6, <1>11, AppendProperties
  <2>2. Len(rest) + 1 = m - 1
    BY <1>2, <1>6
  <2>. HIDE DEF m
  <2>3. QED BY <1>4, <1>6, <2>1, <2>2
<1>15. ASSUME NEW n \in 2 .. m - 1
       PROVE  ScriptOK(frames'[n]) /\ (frames'[n].by = "run" => n # 2 /\ frames'[n - 1].state = "RUN_TASK")
  <2>1. \/ n = m - 1 /\ m - 1 # 1 /\ n - 1 = m - 2 /\ (n = 2 \/ n - 1 \in 1 .. m - 2)
        \/ n \in 1 .. m - 2 /\ n \in 2 .. m /\ n - 1 \in 1 .. m - 2
    <3>1. \A k \in Nat : k # 0 => \A j \in 2 .. k - 1 :
            \/ j = k - 1 /\ k - 1 # 1 /\ j - 1 = k - 2 /\ (j = 2 \/ j - 1 \in 1 .. k - 2)
            \/ j \in 1 .. k - 2 /\ j \in 2 .. k /\ j - 1 \in 1 .. k - 2
      OBVIOUS
    <3>. HIDE DEF m
    <3>2. QED BY <1>2, <1>15, <3>1
  <2>2. CASE n = m - 1 /\ m - 1 # 1 /\ n - 1 = m - 2 /\ (n = 2 \/ n - 1 \in 1 .. m - 2)
    BY <1>7, <1>12, <1>13, <1>14, <2>2
  <2>3. CASE n \in 1 .. m - 2 /\ n \in 2 .. m /\ n - 1 \in 1 .. m - 2
    BY <1>14, <2>3 DEF FramesOK
  <2>4. QED BY <2>1, <2>2, <2>3
<1>16. (FramesOK)' <=> /\ frames' \in Seq(Frame) /\ frames' # <<>>
                       /\ \A n \in 2 .. Len(frames') :
                            /\ ScriptOK(frames'[n])
                            /\ frames'[n].by = "run" => n # 2 /\ frames'[n - 1].state = "RUN_TASK"
  BY DEF FramesOK
<1>17. QED BY <1>14, <1>15, <1>16

-----------------------------------------------------------------------------
(* The two properties of scripts.                                             *)

\* The steps that leave the frames alone: the worker's thread and the tools.
LEMMA FramesKept ==
  ASSUME TaskRunAssumption, FramesOK, WorkerOK, [Next]_vars
  PROVE  FramesOK'
<1>1. CASE Drain
  BY <1>1, DrainFrames
<1>2. CASE TakeCalls
  BY <1>2, TakeCallsFrames
<1>3. CASE DispatchRemote
  BY <1>3, DispatchRemoteFrames
<1>4. CASE DispatchTask \/ RunTask
  BY <1>4, OpenFrames
<1>5. CASE DispatchUnknown
  BY <1>5, DispatchUnknownFrames
<1>6. CASE Claim
  BY <1>6, ClaimFrames
<1>7. CASE GetCommand
  BY <1>7, GetCommandFrames
<1>8. CASE Execute
  BY <1>8, ExecuteFrames
<1>9. CASE WaitResponse
  BY <1>9, WaitResponseFrames
<1>10. CASE WaitIfResponse
  BY <1>10, WaitIfResponseFrames
<1>11. CASE WaitEnter
  BY <1>11, WaitEnterFrames
<1>12. CASE WaitAsk
  BY <1>12, WaitAskFrames
<1>13. CASE WaitToolResult
  BY <1>13, WaitToolResultFrames
<1>14. CASE Exchange
  BY <1>14, ExchangeFrames
<1>15. CASE Close
  BY <1>15, CloseFrames
<1>16. CASE ReplyEnds \/ ChatReply \/ TimeIsUp
  BY <1>16, ReplyFrames
<1>17. CASE ResultLands \/ EventLands \/ UNCHANGED vars
  <2>1. frames' = frames
    BY <1>17 DEF ResultLands, EventLands, vars
  <2>2. QED BY <2>1 DEF FramesOK
<1>18. QED BY <1>1, <1>2, <1>3, <1>4, <1>5, <1>6, <1>7, <1>8, <1>9, <1>10, <1>11,
              <1>12, <1>13, <1>14, <1>15, <1>16, <1>17 DEF Next, Loop

\* The worker's part: a call has a number below the next one.
LEMMA WorkerKept ==
  ASSUME TaskRunAssumption, FramesOK, WorkerOK, [Next]_vars
  PROVE  WorkerOK'
<1>1. MaxCalls \in Nat
  BY DEF TaskRunAssumption
<1>2. Top \in Frame
  BY EmptySeq, LenProperties, ElementOfSeq DEF FramesOK, Top
<1>3. CASE UNCHANGED workerVars
  BY <1>3 DEF WorkerOK, workerVars
<1>4. CASE Drain
  <2>1. PICK got \in SUBSET (Top.outstanding \cap ready), happened \in 0 .. landed :
          /\ ready' = ready \ got \/ ready' = ready
          /\ landed' = landed - happened \/ landed' = landed
          /\ UNCHANGED <<next_id, abandoned, events>>
    BY <1>4 DEF Drain
  <2>2. QED BY <2>1 DEF WorkerOK
<1>5. CASE DispatchRemote
  BY <1>1, <1>5 DEF DispatchRemote, WorkerOK
<1>6. CASE Claim
  <2>1. PICK got \in SUBSET (Top.outstanding \cap ready), happened \in 0 .. landed :
          /\ ready' = ready \ (got \cup Top.leaving)
          /\ landed' = landed - happened
          /\ abandoned' = abandoned \cup Top.leaving
          /\ UNCHANGED <<next_id, events>>
    BY <1>6 DEF Claim
  <2>2. Top.leaving \in SUBSET Calls
    BY <1>2 DEF Frame
  <2>3. QED BY <2>1, <2>2 DEF WorkerOK
<1>7. CASE WaitToolResult \/ Close
  BY <1>7 DEF WaitToolResult, Close, WorkerOK
<1>8. CASE ResultLands
  <2>1. PICK n \in DOMAIN frames : \E c \in Awaited(frames[n]) \ (ready \cup abandoned) :
          ready' = ready \cup {c}
    BY <1>8 DEF ResultLands
  <2>2. frames[n] \in Frame
    BY ElementOfSeq, LenProperties DEF FramesOK
  <2>3. Awaited(frames[n]) \subseteq Calls
    BY <2>2 DEF Awaited, Frame
  <2>4. UNCHANGED <<next_id, abandoned, landed, events>>
    BY <1>8 DEF ResultLands
  <2>5. QED BY <2>1, <2>3, <2>4 DEF WorkerOK
<1>9. CASE EventLands
  BY <1>9 DEF EventLands, WorkerOK
<1>10. CASE UNCHANGED vars
  BY <1>10 DEF vars, WorkerOK
<1>11. CASE Exchange \/ GetCommand \/ Execute \/ WaitResponse \/ WaitIfResponse \/ WaitEnter \/ WaitAsk \/ RunTask
  BY <1>3, <1>11 DEF Exchange, GetCommand, Execute, WaitResponse, WaitIfResponse, WaitEnter,
                     WaitAsk, RunTask, Step
<1>12. CASE TakeCalls \/ DispatchTask \/ DispatchUnknown \/ ReplyEnds \/ ChatReply \/ TimeIsUp
  BY <1>3, <1>12 DEF TakeCalls, DispatchTask, DispatchUnknown, ReplyEnds, ChatReply, TimeIsUp
<1>13. QED BY <1>4, <1>5, <1>6, <1>7, <1>8, <1>9, <1>10, <1>11, <1>12 DEF Next, Loop

LEMMA FramesAtInit ==
  ASSUME TaskRunAssumption, Init
  PROVE  FramesOK /\ WorkerOK
<1>1. <<>> \in Seq(Word) /\ <<>> \in Seq(Nat \ {0}) /\ <<>> \in Seq(Calls)
  OBVIOUS
<1>2. Chat \in Frame
  <2>1. "idle" \in Places /\ "drain" \in Places /\ "GET_COMMAND" \in States
    BY DEF Places, States
  <2>2. {} \in SUBSET Calls /\ 0 \in Nat /\ 1 \in Nat \ {0}
    OBVIOUS
  <2>3. QED BY <1>1, <2>1, <2>2 DEF Chat, NewFrame, Frame
<1>. DEFINE f == Chat
<1>. HIDE DEF f
<1>3. frames = <<f>> /\ f \in Frame
  BY <1>2 DEF Init, f
<1>4. frames \in Seq(Frame) /\ Len(frames) = 1 /\ frames # <<>>
  BY <1>3
<1>5. FramesOK
  BY <1>4 DEF FramesOK
<1>6. WorkerOK
  BY DEF Init, WorkerOK, TaskRunAssumption
<1>7. QED BY <1>5, <1>6

\* The inductive invariant: every frame is as it must be.
LEMMA FramesInvariant == ASSUME TaskRunAssumption PROVE Spec => [](FramesOK /\ WorkerOK)
<1>1. Init => FramesOK /\ WorkerOK
  BY FramesAtInit
<1>2. (FramesOK /\ WorkerOK) /\ [Next]_vars => (FramesOK /\ WorkerOK)'
  BY FramesKept, WorkerKept
<1>3. QED BY <1>1, <1>2, PTL DEF Spec

\* No scan of the lines, no branch, call, return or question that ran out of time
\* brings a script into the body of a definition nobody called, or out of one that
\* was (TASK_SCRIPT, tools_task_script.cpp).
THEOREM ScriptsStayInTheirLines == Spec => []BodyOnlyWhenCalled
<1>1. FramesOK => BodyOnlyWhenCalled
  BY DEF FramesOK, ScriptOK, LineOK, BodyOnlyWhenCalled
<1>2. QED BY <1>1, TaskRunAssumption, FramesInvariant, PTL

\* However a wait ended, the keyboard is as the script set it when it is over.
THEOREM KeyboardGivenBack == Spec => []KeyboardAsScripted
<1>1. FramesOK => KeyboardAsScripted
  <2>1. SUFFICES ASSUME FramesOK, NEW n \in 2 .. Len(frames), frames[n].state # "DONE"
                 PROVE  frames[n].keyboard = (frames[n].state \in {"WAIT_ENTER", "WAIT_ASK"} \/ frames[n].scripted)
    BY DEF KeyboardAsScripted
  <2>2. KeyboardOK(frames[n])
    BY <2>1 DEF FramesOK, ScriptOK
  <2>3. frames[n] \in Frame
    <3>1. n \in 1 .. Len(frames)
      BY <2>1
    <3>2. QED BY <2>1, <3>1, ElementOfSeq DEF FramesOK
  <2>4. frames[n].keyboard \in BOOLEAN /\ frames[n].scripted \in BOOLEAN
    BY <2>3 DEF Frame
  <2>5. QED BY <2>1, <2>2, <2>4 DEF KeyboardOK, Waits
<1>2. QED BY <1>1, TaskRunAssumption, FramesInvariant, PTL

-----------------------------------------------------------------------------
(* Every call is accounted for once.                                          *)

\* c is a matter of the run f.
Has(f, c) == c \in f.outstanding \/ InSeq(f.held, c) \/ c \in f.leaving \/ c \in f.orphans

OnceIn(f) ==
  /\ Distinct(f.held)
  /\ \A c \in Calls :
       /\ c \in f.outstanding => ~InSeq(f.held, c) /\ c \notin f.leaving /\ c \notin f.orphans
       /\ InSeq(f.held, c) => c \notin f.leaving /\ c \notin f.orphans
       /\ c \in f.leaving => c \notin f.orphans

\* A call that was made is told, given up, or a matter of some run: of ids.
Balance(c, ids) ==
  /\ c < next_id <=> narrated[c] = 1 \/ c \in abandoned \/ c \in ids
  /\ ~(narrated[c] = 1 /\ c \in abandoned)
  /\ ~(narrated[c] = 1 /\ c \in ids)
  /\ ~(c \in abandoned /\ c \in ids)

BalanceNext(c, ids) ==
  /\ c < next_id' <=> narrated'[c] = 1 \/ c \in abandoned' \/ c \in ids
  /\ ~(narrated'[c] = 1 /\ c \in abandoned')
  /\ ~(narrated'[c] = 1 /\ c \in ids)
  /\ ~(c \in abandoned' /\ c \in ids)

\* The calls that are a matter of one of the first n runs.
Ids(n) == {c \in Calls : \E k \in 1 .. n : Has(frames[k], c)}

CallsOK ==
  /\ narrated \in [Calls -> {0, 1}]
  /\ \A n \in 1 .. Len(frames) : OnceIn(frames[n])
  /\ \A n, k \in 1 .. Len(frames) :
       n # k => \A c \in Calls : ~(Has(frames[n], c) /\ Has(frames[k], c))
  /\ \A c \in Calls : Balance(c, Ids(Len(frames)))

\* The calls X of some runs, beside the calls R of the others, and those made in the
\* step are now told, given up, or Y of those runs.
Moved(R, X, Y, told, gone, made) ==
  /\ Told(told) /\ abandoned' = abandoned \cup gone
  /\ \A c \in Calls :
       /\ Balance(c, R \cup X) /\ ~(c \in R /\ c \in X)
       /\ c < next_id' <=> c < next_id \/ c \in made
       /\ c \in made => ~(c < next_id)
       /\ c \in X \/ c \in made <=> c \in Y \/ c \in told \/ c \in gone
       /\ ~(c \in Y /\ c \in told) /\ ~(c \in Y /\ c \in gone) /\ ~(c \in told /\ c \in gone)

\* The accounts are balanced again.
LEMMA Ledger ==
  ASSUME narrated \in [Calls -> {0, 1}],
         NEW R, NEW X, NEW Y, NEW told, NEW gone, NEW made, Moved(R, X, Y, told, gone, made)
  PROVE  /\ narrated' \in [Calls -> {0, 1}]
         /\ \A c \in Calls : ~(c \in R /\ c \in Y)
         /\ \A c \in Calls : BalanceNext(c, R \cup Y)
<1>. USE DEF Moved
<1>1. narrated' = [c \in Calls |-> IF c \in told THEN narrated[c] + 1 ELSE narrated[c]]
  BY DEF Told
<1>2. ASSUME NEW c \in Calls
      PROVE  /\ narrated[c] \in {0, 1} /\ c \in told => narrated[c] = 0
             /\ narrated'[c] = IF c \in told THEN 1 ELSE narrated[c]
             /\ ~(c \in R /\ c \in Y)
  <2>1. narrated[c] \in {0, 1} /\ Balance(c, R \cup X)
    OBVIOUS
  <2>2. c \in told => narrated[c] = 0
    BY <2>1 DEF Balance
  <2>3. narrated'[c] = IF c \in told THEN narrated[c] + 1 ELSE narrated[c]
    BY <1>1
  <2>4. ~(c \in R /\ c \in Y)
    BY <2>1 DEF Balance
  <2>5. QED BY <2>1, <2>2, <2>3, <2>4
<1>3. narrated' \in [Calls -> {0, 1}]
  BY <1>1, <1>2
<1>4. ASSUME NEW c \in Calls PROVE BalanceNext(c, R \cup Y)
  <2>1. Balance(c, R \cup X)
    OBVIOUS
  <2>2. narrated'[c] = 1 <=> c \in told \/ narrated[c] = 1
    BY <1>2
  <2>3. QED BY <1>2, <2>1, <2>2 DEF Balance, BalanceNext
<1>5. QED BY <1>2, <1>3, <1>4

\* The runs below the one on top, and that one.
LEMMA TopAndRest ==
  ASSUME FramesOK, CallsOK
  PROVE  LET m == Len(frames)
             X == {c \in Calls : Has(Top, c)}
         IN  /\ m \in Nat \ {0} /\ OnceIn(Top)
             /\ Ids(m) = Ids(m - 1) \cup X
             /\ \A c \in Calls : ~(c \in Ids(m - 1) /\ c \in X)
<1>. DEFINE m == Len(frames)
            X == {c \in Calls : Has(Top, c)}
<1>1. m \in Nat \ {0}
  BY EmptySeq, LenProperties DEF FramesOK
<1>2. m \in 1 .. m /\ Top = frames[m]
  BY <1>1 DEF Top
<1>3. \A k \in 1 .. m - 1 : k \in 1 .. m /\ k # m
  <2>. HIDE DEF m
  <2>1. QED BY <1>1
<1>4. \A k \in 1 .. m : k = m \/ k \in 1 .. m - 1
  <2>. HIDE DEF m
  <2>1. QED BY <1>1
<1>5. OnceIn(Top)
  BY <1>2 DEF CallsOK
<1>6. Ids(m) = Ids(m - 1) \cup X
  <2>1. \A c \in Calls : (\E k \in 1 .. m : Has(frames[k], c))
                           <=> (\E k \in 1 .. m - 1 : Has(frames[k], c)) \/ Has(Top, c)
    <3>. HIDE DEF m
    <3>1. QED BY <1>2, <1>3, <1>4
  <2>. HIDE DEF m
  <2>2. QED BY <2>1 DEF Ids
<1>7. \A c \in Calls : ~(c \in Ids(m - 1) /\ c \in X)
  BY <1>2, <1>3 DEF CallsOK, Ids
<1>8. QED BY <1>1, <1>5, <1>6, <1>7

\* A step that changes the run on top alone: what was its matter, and what is made in
\* the step, is now told, given up, or its matter.
TopMoved(g, told, gone, made) ==
  /\ SetTop(g) /\ OnceIn(g) /\ Told(told) /\ abandoned' = abandoned \cup gone
  /\ \A c \in Calls :
       /\ c < next_id' <=> c < next_id \/ c \in made
       /\ c \in made => ~(c < next_id)
       /\ Has(Top, c) \/ c \in made <=> Has(g, c) \/ c \in told \/ c \in gone
       /\ ~(Has(g, c) /\ c \in told) /\ ~(Has(g, c) /\ c \in gone) /\ ~(c \in told /\ c \in gone)

LEMMA TopMoves ==
  ASSUME FramesOK, CallsOK, NEW g, NEW told, NEW gone, NEW made, TopMoved(g, told, gone, made)
  PROVE  CallsOK'
<1>. USE DEF TopMoved
<1>. DEFINE m == Len(frames)
            R == Ids(m - 1)
            X == {c \in Calls : Has(Top, c)}
            Y == {c \in Calls : Has(g, c)}
<1>1. m \in Nat \ {0} /\ Ids(m) = R \cup X /\ \A c \in Calls : ~(c \in R /\ c \in X)
  BY TopAndRest
<1>2. /\ narrated \in [Calls -> {0, 1}]
      /\ \A c \in Calls : Balance(c, Ids(m))
      /\ \A n \in 1 .. m : OnceIn(frames[n])
      /\ \A n, k \in 1 .. m : n # k => \A c \in Calls : ~(Has(frames[n], c) /\ Has(frames[k], c))
  BY DEF CallsOK
<1>3. \A c \in Calls : (c \in X <=> Has(Top, c)) /\ (c \in Y <=> Has(g, c))
  OBVIOUS
<1>4. /\ Len(frames') = m /\ frames'[m] = g
      /\ \A n \in 1 .. m - 1 : frames'[n] = frames[n]
  <2>1. m \in DOMAIN frames /\ DOMAIN frames = 1 .. m
    BY <1>1, LenProperties DEF FramesOK
  <2>2. frames' = [frames EXCEPT ![m] = g]
    BY DEF SetTop
  <2>3. DOMAIN frames' = 1 .. m /\ frames' = [n \in 1 .. m |-> frames'[n]]
    BY <2>1, <2>2
  <2>4. \A n \in 1 .. m - 1 : n \in 1 .. m /\ n # m
    <3>. HIDE DEF m
    <3>1. QED BY <1>1
  <2>. HIDE DEF m
  <2>5. Len(frames') = m
    BY <1>1, <2>3
  <2>6. QED BY <2>1, <2>2, <2>4, <2>5
<1>. HIDE DEF m, R, X, Y
<1>5. /\ narrated' \in [Calls -> {0, 1}]
      /\ \A c \in Calls : ~(c \in R /\ c \in Y)
      /\ \A c \in Calls : BalanceNext(c, R \cup Y)
  <2>1. \A c \in Calls : Balance(c, R \cup X)
    BY <1>1, <1>2
  <2>2. \A c \in Calls : c \in X \/ c \in made <=> c \in Y \/ c \in told \/ c \in gone
    BY <1>3
  <2>3. \A c \in Calls : /\ ~(c \in Y /\ c \in told) /\ ~(c \in Y /\ c \in gone)
                         /\ ~(c \in told /\ c \in gone)
    BY <1>3
  <2>4. Moved(R, X, Y, told, gone, made)
    BY <1>1, <2>1, <2>2, <2>3 DEF Moved
  <2>5. QED BY <1>2, <2>4, Ledger
<1>6. /\ \A k \in 1 .. m - 1 : k \in 1 .. m /\ k # m
      /\ \A k \in 1 .. m : k = m \/ k \in 1 .. m - 1
      /\ m \in 1 .. m
  BY <1>1
<1>7. \A n \in 1 .. m : OnceIn(frames'[n])
  BY <1>2, <1>4, <1>6
<1>8. \A n \in 1 .. m - 1 : \A c \in Calls : ~(Has(frames[n], c) /\ Has(g, c))
  BY <1>3, <1>5 DEF R, Ids
<1>9. \A n, k \in 1 .. m : n # k => \A c \in Calls : ~(Has(frames'[n], c) /\ Has(frames'[k], c))
  BY <1>2, <1>4, <1>6, <1>8
<1>10. ASSUME NEW c \in Calls
       PROVE  (\E k \in 1 .. m : Has(frames'[k], c)) <=> c \in R \cup Y
  <2>1. c \in R <=> \E k \in 1 .. m - 1 : Has(frames[k], c)
    BY DEF R, Ids
  <2>2. QED BY <1>3, <1>4, <1>6, <2>1
<1>11. \A c \in Calls : BalanceNext(c, {d \in Calls : \E k \in 1 .. m : Has(frames'[k], d)})
  BY <1>5, <1>10 DEF BalanceNext
<1>12. (CallsOK)' <=>
         /\ narrated' \in [Calls -> {0, 1}]
         /\ \A n \in 1 .. Len(frames') : OnceIn(frames'[n])
         /\ \A n, k \in 1 .. Len(frames') :
              n # k => \A c \in Calls : ~(Has(frames'[n], c) /\ Has(frames'[k], c))
         /\ \A c \in Calls : BalanceNext(c, {d \in Calls : \E k \in 1 .. Len(frames') : Has(frames'[k], d)})
  BY DEF CallsOK, Balance, BalanceNext, Ids
<1>13. QED BY <1>4, <1>5, <1>7, <1>9, <1>11, <1>12

\* What of a run the calls are about.
SameCalls(f, g) ==
  /\ g.outstanding = f.outstanding /\ g.held = f.held
  /\ g.leaving = f.leaving /\ g.orphans = f.orphans

LEMMA SameHas ==
  ASSUME NEW f, NEW g, SameCalls(f, g)
  PROVE  (OnceIn(g) <=> OnceIn(f)) /\ \A c : Has(g, c) <=> Has(f, c)
BY DEF SameCalls, OnceIn, Has

LEMMA NothingTold ==
  ASSUME CallsOK, UNCHANGED narrated
  PROVE  Told({})
BY DEF CallsOK, Told

LEMMA SameCallsKept ==
  ASSUME FramesOK, CallsOK, NEW g, SetTop(g), SameCalls(Top, g),
         UNCHANGED <<next_id, abandoned, narrated>>
  PROVE  CallsOK'
<1>1. Told({}) /\ abandoned' = abandoned \cup {}
  BY NothingTold
<1>2. OnceIn(g) /\ \A c : Has(g, c) <=> Has(Top, c)
  BY TopAndRest, SameHas
<1>3. TopMoved(g, {}, {}, {})
  BY <1>1, <1>2 DEF TopMoved
<1>4. QED BY <1>3, TopMoves

\* The script's own steps leave the calls alone.
LEMMA StepCalls ==
  ASSUME FramesOK, CallsOK, NEW f \in Frame, SameCalls(Top, f), Step(f)
  PROVE  CallsOK'
<1>. DEFINE g == [f EXCEPT !.pc = "exchange"]
<1>1. SetTop(g) /\ UNCHANGED <<next_id, abandoned, narrated>>
  BY DEF Step, workerVars
<1>2. SameCalls(Top, g)
  BY DEF SameCalls, Frame
<1>. HIDE DEF g
<1>3. QED BY <1>1, <1>2, SameCallsKept

LEMMA ScriptCalls ==
  ASSUME TaskRunAssumption, FramesOK, CallsOK,
         GetCommand \/ Execute \/ WaitResponse \/ WaitIfResponse \/ WaitEnter \/ WaitAsk
  PROVE  CallsOK'
<1>1. Running
  BY DEF GetCommand, Execute, WaitResponse, WaitIfResponse, WaitEnter, WaitAsk, Advancing
<1>2. Top \in Frame
  BY <1>1, TopScript
<1>3. SameCalls(Top, Top) /\ SameCalls(Top, Stopped) /\ \A i : SameCalls(Top, Continue(i))
  BY <1>2 DEF SameCalls, Stopped, Continue, Frame
<1>4. \A name, i : SameCalls(Top, Call(name, i))
  BY <1>2 DEF SameCalls, Stopped, Call, Frame
<1>5. CASE GetCommand
  <2>1. CASE Step(Stopped)
    BY <1>1, <1>3, <2>1, StoppedGood, StepCalls DEF Good
  <2>2. CASE Top.i <= Len(Script) /\ \E f \in Read(Line) : Step(f)
    <3>1. PICK f \in Read(Line) : Step(f)
      BY <2>2
    <3>2. Good(f)
      BY <1>1, <1>5, <2>2, ReadGood DEF GetCommand, Advancing
    <3>3. SameCalls(Top, f)
      <4>1. \A state, limited : SameCalls(Top, Await(state, limited))
        BY <1>2 DEF SameCalls, Await, Frame
      <4>2. \A state : SameCalls(Top, [Top EXCEPT !.state = state])
        BY <1>2 DEF SameCalls, Frame
      <4>3. \A on : SameCalls(Top, [Continue(Top.i + 1) EXCEPT !.keyboard = on, !.scripted = on])
        BY <1>2 DEF SameCalls, Continue, Frame
      <4>4. \A i : SameCalls(Top, ContinueOrStop(i))
        BY <1>3 DEF ContinueOrStop
      <4>5. SameCalls(Top, AskIf)
        BY <1>3, <4>2 DEF AskIf
      <4>6. SameCalls(Top, SkipDefinition)
        BY <1>3, <4>4 DEF SkipDefinition
      <4>7. SameCalls(Top, Return)
        BY <1>2, <1>3 DEF Return, SameCalls, Frame
      <4>8. Line.op \in Op
        <5>1. Top.i \in Nat \ {0}
          BY <1>2 DEF Frame
        <5>2. Script \in Lines /\ Len(Script) \in Nat
          BY <1>1, TopScript
        <5>3. Top.i \in 1 .. Len(Script)
          BY <2>2, <5>1, <5>2
        <5>4. Line \in [op : Op, name : STRING]
          BY <5>2, <5>3, ElementOfSeq DEF Line, Lines
        <5>5. QED BY <5>4
      <4>9. CASE Line.op \in {"plain", "wait", "run", "pause", "ask", "ask_end", "ask_sub", "file_in"}
        BY <3>1, <4>1, <4>2, <4>9 DEF Read, Instant
      <4>10. CASE Line.op \in {"ask_bad", "end", "keyboard_on", "keyboard_off", "if", "else", "maybe"}
        BY <1>3, <3>1, <4>3, <4>4, <4>5, <4>10 DEF Read, Instant
      <4>11. CASE Line.op \in {"sub", "gosub", "return", "endsub", "print", "endif"}
        BY <1>3, <1>4, <3>1, <4>6, <4>7, <4>11 DEF Read, Instant
      <4>12. QED BY <4>8, <4>9, <4>10, <4>11 DEF Op, Instant, Asks
    <3>4. QED BY <3>1, <3>2, <3>3, StepCalls DEF Good
  <2>3. QED
    <3>1. Top.i \in Nat /\ Len(Script) \in Nat
      BY <1>1, <1>2, TopScript DEF Frame
    <3>2. Top.i > Len(Script) \/ Top.i <= Len(Script)
      BY <3>1
    <3>3. ~(Top.i > Len(Script) /\ Top.i <= Len(Script))
      BY <3>1
    <3>4. QED BY <1>5, <2>1, <2>2, <3>2, <3>3 DEF GetCommand
<1>6. CASE Execute
  <2>1. PICK state \in States :
          Step([Top EXCEPT !.state = state, !.is_processing = TRUE, !.complete = FALSE, !.tool_calls = <<>>])
    BY <1>6 DEF Execute, States
  <2>. DEFINE g == [Top EXCEPT !.state = state, !.is_processing = TRUE, !.complete = FALSE, !.tool_calls = <<>>]
  <2>2. g \in Frame
    <3>1. <<>> \in Seq(Word)
      OBVIOUS
    <3>2. QED BY <1>2, <3>1 DEF Frame
  <2>3. SameCalls(Top, g)
    BY <1>2 DEF SameCalls, Frame
  <2>4. Step(g)
    BY <2>1
  <2>. HIDE DEF g
  <2>5. QED BY <2>2, <2>3, <2>4, StepCalls
<1>7. CASE WaitResponse
  <2>. DEFINE g == [Continue(Top.i + 1) EXCEPT !.complete = FALSE]
  <2>1. Step(g) \/ Step(Top)
    BY <1>7 DEF WaitResponse
  <2>2. g \in Frame
    <3>1. Top.i \in Nat \ {0}
      BY <1>2 DEF Frame
    <3>2. Top.i + 1 \in Nat \ {0}
      BY <3>1
    <3>3. QED BY <1>2, <3>2 DEF Continue, Frame, States
  <2>3. SameCalls(Top, g)
    BY <1>2 DEF SameCalls, Continue, Frame
  <2>. HIDE DEF g
  <2>4. QED BY <1>2, <1>3, <2>1, <2>2, <2>3, StepCalls
<1>8. CASE WaitIfResponse
  <2>1. \/ \E answer \in {"yes", "no", "maybe"} :
              Step([Continue(Branch(Script, Top.i, answer)) EXCEPT !.complete = FALSE])
        \/ Step(Top)
    BY <1>8 DEF WaitIfResponse
  <2>2. ASSUME NEW answer \in {"yes", "no", "maybe"}
        PROVE  LET g == [Continue(Branch(Script, Top.i, answer)) EXCEPT !.complete = FALSE]
               IN  g \in Frame /\ SameCalls(Top, g)
    <3>1. Top.state = "WAIT_IF_RESPONSE"
      BY <1>8 DEF WaitIfResponse, Advancing
    <3>2. Good([Continue(Branch(Script, Top.i, answer)) EXCEPT !.complete = FALSE])
      BY <1>1, <3>1, BranchGood
    <3>3. QED BY <1>2, <3>2 DEF Good, SameCalls, Continue, Frame
  <2>3. QED BY <1>2, <1>3, <2>1, <2>2, StepCalls
<1>9. CASE WaitEnter
  <2>. DEFINE g == [Entered EXCEPT !.i = @ + 1, !.state = "GET_COMMAND"]
  <2>1. Step(g) \/ Step(Top)
    BY <1>9 DEF WaitEnter
  <2>2. g \in Frame
    <3>1. Top.i \in Nat \ {0} /\ Entered.i = Top.i
      BY <1>2 DEF Frame, Entered
    <3>2. Entered \in Frame
      BY <1>2 DEF Entered, Frame
    <3>3. "GET_COMMAND" \in States
      BY DEF States
    <3>4. Entered.i + 1 \in Nat \ {0}
      BY <3>1
    <3>5. QED BY <3>2, <3>3, <3>4 DEF Frame
  <2>3. SameCalls(Top, g)
    BY <1>2 DEF SameCalls, Entered, Frame
  <2>. HIDE DEF g
  <2>4. QED BY <1>2, <1>3, <2>1, <2>2, <2>3, StepCalls
<1>10. CASE WaitAsk
  <2>1. Top.state = "WAIT_ASK" /\ (Step(Answered) \/ Step(AskTimedOut) \/ Step(Top))
    BY <1>10 DEF WaitAsk, Advancing
  <2>2. Good(Answered) /\ Good(AskTimedOut)
    BY <1>1, <2>1, AnsweredGood, AskTimedOutGood
  <2>3. SameCalls(Top, Answered)
    BY <1>2 DEF SameCalls, Answered, Entered, Frame
  <2>4. SameCalls(Top, AskTimedOut)
    <3>. DEFINE h == IF Line.op = "ask_sub" THEN Call(Line.name, ResumeAfterAsk(Script, Top.i)) ELSE Stopped
    <3>1. SameCalls(Top, h)
      BY <1>3, <1>4
    <3>2. AskTimedOut = [h EXCEPT !.ask_limit = FALSE, !.keyboard = Top.keyboard_was]
      BY DEF AskTimedOut
    <3>3. DOMAIN h = DOMAIN Top
      BY <1>2 DEF Call, Stopped, Frame
    <3>. HIDE DEF h
    <3>4. QED BY <1>2, <3>1, <3>2, <3>3 DEF SameCalls, Frame
  <2>5. QED BY <1>2, <1>3, <2>1, <2>2, <2>3, <2>4, StepCalls DEF Good
<1>11. QED BY <1>5, <1>6, <1>7, <1>8, <1>9, <1>10

\* The instance's own calls: held, told, or new.
LEMMA DrainCalls ==
  ASSUME TaskRunAssumption, FramesOK, WorkerOK, CallsOK, Drain
  PROVE  CallsOK'
<1>1. Top \in Frame
  BY EmptySeq, LenProperties, ElementOfSeq DEF FramesOK, Top
<1>2. PICK got \in SUBSET (Top.outstanding \cap ready), happened \in 0 .. landed :
        LET f == [Top EXCEPT !.pc = "process",
                    !.baseline = IF Top.state = "EXECUTE_COMMAND" THEN Len(Top.held) ELSE @]
        IN  \/ \E results \in InOrder(got) :
                 SetTop([f EXCEPT !.held = @ \o results, !.outstanding = @ \ got,
                                  !.held_events = @ + happened])
            \/ SetTop(f)
  BY DEF Drain
<1>3. UNCHANGED <<next_id, abandoned, narrated>>
  BY DEF Drain
<1>. DEFINE base == IF Top.state = "EXECUTE_COMMAND" THEN Len(Top.held) ELSE Top.baseline
            f == [Top EXCEPT !.pc = "process", !.baseline = base]
<1>4. SameCalls(Top, f) /\ DOMAIN f = DOMAIN Top
  BY <1>1 DEF SameCalls, Frame
<1>5. \/ \E results \in InOrder(got) :
           SetTop([f EXCEPT !.held = @ \o results, !.outstanding = @ \ got,
                            !.held_events = @ + happened])
      \/ SetTop(f)
  BY <1>1, <1>2 DEF Frame
<1>. HIDE DEF f
<1>6. CASE SetTop(f)
  BY <1>3, <1>4, <1>6, SameCallsKept
<1>7. ASSUME NEW results \in InOrder(got),
             SetTop([f EXCEPT !.held = @ \o results, !.outstanding = @ \ got,
                              !.held_events = @ + happened])
      PROVE  CallsOK'
  <2>. DEFINE g == [f EXCEPT !.held = @ \o results, !.outstanding = @ \ got,
                             !.held_events = @ + happened]
  <2>1. /\ g.held = Top.held \o results /\ g.outstanding = Top.outstanding \ got
        /\ g.leaving = Top.leaving /\ g.orphans = Top.orphans
    BY <1>1, <1>4 DEF SameCalls, Frame
  <2>2. got \in SUBSET Calls /\ got \subseteq Top.outstanding /\ Top.held \in Seq(Calls)
    <3>1. got \subseteq Top.outstanding
      BY <1>2
    <3>2. QED BY <1>1, <3>1 DEF Frame
  <2>3. results \in Seq(Calls) /\ Distinct(results) /\ \A c : InSeq(results, c) <=> c \in got
    BY <2>2, OrderedIds
  <2>4. OnceIn(Top)
    BY TopAndRest
  <2>5. \A c \in Calls : ~(InSeq(Top.held, c) /\ InSeq(results, c))
    BY <2>2, <2>3, <2>4 DEF OnceIn
  <2>6. /\ \A c : InSeq(g.held, c) <=> InSeq(Top.held, c) \/ InSeq(results, c)
        /\ Distinct(g.held)
    <3>1. Distinct(Top.held)
      BY <2>4 DEF OnceIn
    <3>. DEFINE h == Top.held
    <3>2. h \in Seq(Calls) /\ Distinct(h) /\ \A c \in Calls : ~(InSeq(h, c) /\ InSeq(results, c))
      BY <2>2, <2>5, <3>1
    <3>. HIDE DEF h
    <3>3. /\ \A c : InSeq(h \o results, c) <=> InSeq(h, c) \/ InSeq(results, c)
          /\ Distinct(h \o results)
      BY <2>3, <3>2, InConcat
    <3>4. g.held = h \o results
      BY <2>1 DEF h
    <3>5. QED BY <3>3, <3>4 DEF h
  <2>7. SetTop(g)
    BY <1>7
  <2>. HIDE DEF g
  <2>8. OnceIn(g)
    BY <2>1, <2>2, <2>3, <2>4, <2>6 DEF OnceIn
  <2>9. \A c : Has(g, c) <=> Has(Top, c)
    BY <2>1, <2>2, <2>3, <2>6 DEF Has
  <2>10. Told({}) /\ abandoned' = abandoned \cup {}
    BY <1>3, NothingTold
  <2>11. TopMoved(g, {}, {}, {})
    BY <1>3, <2>7, <2>8, <2>9, <2>10 DEF TopMoved
  <2>12. QED BY <2>11, TopMoves
<1>8. QED BY <1>5, <1>6, <1>7

LEMMA DispatchRemoteCalls ==
  ASSUME TaskRunAssumption, FramesOK, WorkerOK, CallsOK, DispatchRemote
  PROVE  CallsOK'
<1>1. Top \in Frame
  BY EmptySeq, LenProperties, ElementOfSeq DEF FramesOK, Top
<1>2. UNCHANGED <<abandoned, narrated>>
  BY DEF DispatchRemote
<1>. DEFINE f == [Top EXCEPT !.todo = Tail(@)]
            g == [Top EXCEPT !.todo = Tail(@), !.outstanding = @ \cup {next_id}]
<1>3. SameCalls(Top, f)
  BY <1>1 DEF SameCalls, Frame
<1>4. /\ g.held = Top.held /\ g.outstanding = Top.outstanding \cup {next_id}
      /\ g.leaving = Top.leaving /\ g.orphans = Top.orphans
  BY <1>1 DEF Frame
<1>5. \/ next_id <= MaxCalls /\ SetTop(g) /\ next_id' = next_id + 1
      \/ SetTop(f) /\ UNCHANGED next_id
  BY DEF DispatchRemote
<1>. HIDE DEF f, g
<1>6. CASE SetTop(f) /\ UNCHANGED next_id
  BY <1>2, <1>3, <1>6, SameCallsKept
<1>7. CASE next_id <= MaxCalls /\ SetTop(g) /\ next_id' = next_id + 1
  <2>1. next_id \in Calls
    BY <1>7 DEF WorkerOK, Calls, TaskRunAssumption
  <2>2. OnceIn(Top) /\ ~Has(Top, next_id)
    <3>1. OnceIn(Top)
      BY TopAndRest
    <3>2. Balance(next_id, Ids(Len(frames)))
      BY <2>1 DEF CallsOK
    <3>3. next_id \notin Ids(Len(frames))
      BY <2>1, <3>2 DEF Balance, Calls
    <3>4. Len(frames) \in 1 .. Len(frames)
      BY TopAndRest
    <3>5. QED BY <2>1, <3>1, <3>3, <3>4 DEF Ids, Top
  <2>3. OnceIn(g)
    BY <1>4, <2>2 DEF OnceIn, Has
  <2>4. \A c : Has(g, c) <=> Has(Top, c) \/ c = next_id
    BY <1>4 DEF Has
  <2>5. \A c \in Calls : (c < next_id + 1 <=> c < next_id \/ c = next_id) /\ (c = next_id => ~(c < next_id))
    BY <2>1 DEF Calls
  <2>6. Told({}) /\ abandoned' = abandoned \cup {}
    BY <1>2, NothingTold
  <2>7. TopMoved(g, {}, {}, {next_id})
    BY <1>7, <2>3, <2>4, <2>5, <2>6 DEF TopMoved
  <2>8. QED BY <2>7, TopMoves
<1>8. QED BY <1>5, <1>6, <1>7

LEMMA ClaimCalls ==
  ASSUME TaskRunAssumption, FramesOK, WorkerOK, CallsOK, Claim
  PROVE  CallsOK'
<1>1. Top \in Frame
  BY EmptySeq, LenProperties, ElementOfSeq DEF FramesOK, Top
<1>2. PICK got \in SUBSET (Top.outstanding \cap ready), happened \in 0 .. landed :
        /\ \E f \in NarratingIf(got # {} \/ happened > 0, Top) :
            SetTop([f EXCEPT !.pc = IF Running THEN "advance" ELSE "idle",
                      !.outstanding = @ \ got,
                      !.pending_tool_calls = @ + happened,
                      !.leaving = {}])
        /\ Told(got)
  BY DEF Claim
<1>3. PICK f \in NarratingIf(got # {} \/ happened > 0, Top) :
            SetTop([f EXCEPT !.pc = IF Running THEN "advance" ELSE "idle",
                      !.outstanding = @ \ got,
                      !.pending_tool_calls = @ + happened,
                      !.leaving = {}])
  BY <1>2
<1>4. f \in Frame /\ SameCalls(Top, f)
  BY <1>1, Narration DEF NarratingIf, SameCalls
<1>. DEFINE g == [f EXCEPT !.pc = IF Running THEN "advance" ELSE "idle",
                      !.outstanding = @ \ got,
                      !.pending_tool_calls = @ + happened,
                      !.leaving = {}]
            gone == Top.leaving
<1>5. /\ g.held = Top.held /\ g.outstanding = Top.outstanding \ got
      /\ g.leaving = {} /\ g.orphans = Top.orphans
  BY <1>4 DEF SameCalls, Frame
<1>6. SetTop(g) /\ Told(got) /\ abandoned' = abandoned \cup gone /\ next_id' = next_id
  BY <1>2, <1>3 DEF Claim
<1>. HIDE DEF g
<1>7. OnceIn(Top) /\ got \subseteq Top.outstanding
  BY <1>2, TopAndRest
<1>8. OnceIn(g)
  BY <1>5, <1>7 DEF OnceIn
<1>9. \A c \in Calls : /\ Has(Top, c) <=> Has(g, c) \/ c \in got \/ c \in gone
                       /\ ~(Has(g, c) /\ c \in got) /\ ~(Has(g, c) /\ c \in gone)
                       /\ ~(c \in got /\ c \in gone)
  BY <1>5, <1>7 DEF OnceIn, Has
<1>. HIDE DEF gone
<1>10. TopMoved(g, got, gone, {})
  BY <1>6, <1>8, <1>9 DEF TopMoved
<1>11. QED BY <1>10, TopMoves

LEMMA WaitToolResultCalls ==
  ASSUME TaskRunAssumption, FramesOK, WorkerOK, CallsOK, WaitToolResult
  PROVE  CallsOK'
<1>1. Running /\ UNCHANGED <<next_id, abandoned>>
  BY DEF WaitToolResult, Advancing
<1>2. Top \in Frame
  BY <1>1, TopScript
<1>. DEFINE n    == Top.baseline + 1
            done == [Continue(Top.i + 1) EXCEPT !.pc = "exchange", !.waiting = FALSE]
            late == IF Top.waiting THEN Top.late ELSE FALSE
            stay == [Top EXCEPT !.pc = "exchange", !.waiting = TRUE, !.late = late]
<1>3. SameCalls(Top, done) /\ done \in Frame /\ SameCalls(Top, stay)
  <2>1. Top.i \in Nat \ {0}
    BY <1>2 DEF Frame
  <2>2. Top.i + 1 \in Nat \ {0}
    BY <2>1
  <2>3. Continue(Top.i + 1) \in Frame
    BY <1>2, <2>2 DEF Continue, Frame, States
  <2>4. done \in Frame
    BY <2>3 DEF Frame, Places
  <2>5. QED BY <1>2, <2>4 DEF SameCalls, Continue, Frame
<1>4. \/ Len(Top.held) >= n /\ (\E f \in Narrating(TakeHeld(done, n)) : SetTop(f)) /\ Told({Top.held[n]})
      \/ (\E f \in Narrating(done) : SetTop(f)) /\ UNCHANGED narrated
      \/ SetTop(stay) /\ UNCHANGED narrated
  <2>1. stay = [Top EXCEPT !.pc = "exchange", !.waiting = TRUE,
                           !.late = IF Top.waiting THEN @ ELSE FALSE]
    BY <1>2 DEF Frame
  <2>2. QED BY <2>1 DEF WaitToolResult
<1>. HIDE DEF done, stay
<1>5. CASE SetTop(stay) /\ UNCHANGED narrated
  BY <1>1, <1>3, <1>5, SameCallsKept
<1>6. CASE (\E f \in Narrating(done) : SetTop(f)) /\ UNCHANGED narrated
  <2>1. PICK f \in Narrating(done) : SetTop(f)
    BY <1>6
  <2>2. SameCalls(Top, f)
    BY <1>3, Narration DEF SameCalls
  <2>3. QED BY <1>1, <1>6, <2>1, <2>2, SameCallsKept
<1>7. CASE Len(Top.held) >= n /\ (\E f \in Narrating(TakeHeld(done, n)) : SetTop(f)) /\ Told({Top.held[n]})
  <2>1. Top.held \in Seq(Calls) /\ Top.baseline \in Nat
    BY <1>2 DEF Frame
  <2>2. n \in 1 .. Len(Top.held)
    BY <1>7, <2>1, LenProperties
  <2>3. OnceIn(Top)
    BY TopAndRest
  <2>. DEFINE h == SubSeq(Top.held, 1, n - 1) \o SubSeq(Top.held, n + 1, Len(Top.held))
              b == [done EXCEPT !.held = h]
              c1 == Top.held[n]
  <2>4. TakeHeld(done, n) = b
    BY <1>3 DEF TakeHeld, SameCalls
  <2>. HIDE DEF n
  <2>5. h \in Seq(Calls) /\ Distinct(h) /\ \A x : InSeq(h, x) <=> InSeq(Top.held, x) /\ x # c1
    BY <2>1, <2>2, <2>3, LeftOut DEF OnceIn
  <2>6. c1 \in Calls /\ InSeq(Top.held, c1)
    BY <2>1, <2>2, ElementOfSeq, LenProperties DEF InSeq
  <2>. HIDE DEF h
  <2>7. /\ b \in Frame /\ b.held = h /\ b.outstanding = Top.outstanding
        /\ b.leaving = Top.leaving /\ b.orphans = Top.orphans
    <3>1. b \in Frame
      BY <1>3, <2>5 DEF Frame
    <3>2. QED BY <1>3, <3>1 DEF Frame, SameCalls
  <2>8. PICK g \in Narrating(b) : SetTop(g)
    BY <1>7, <2>4
  <2>. HIDE DEF b
  <2>9. /\ g.held = h /\ g.outstanding = Top.outstanding
        /\ g.leaving = Top.leaving /\ g.orphans = Top.orphans
    BY <2>7, Narration
  <2>10. OnceIn(g)
    BY <2>3, <2>5, <2>9 DEF OnceIn
  <2>11. \A c \in Calls : (Has(Top, c) <=> Has(g, c) \/ c = c1) /\ ~(Has(g, c) /\ c = c1)
    BY <2>3, <2>5, <2>6, <2>9 DEF OnceIn, Has
  <2>12. Told({c1})
    BY <1>7 DEF n
  <2>. HIDE DEF c1
  <2>13. TopMoved(g, {c1}, {}, {})
    BY <1>1, <2>8, <2>10, <2>11, <2>12 DEF TopMoved
  <2>14. QED BY <2>13, TopMoves
<1>8. QED BY <1>4, <1>5, <1>6, <1>7

\* The steps that change other parts of the run on top.
LEMMA OtherCalls ==
  ASSUME TaskRunAssumption, FramesOK, CallsOK,
         TakeCalls \/ DispatchUnknown \/ Exchange \/ ReplyEnds \/ ChatReply \/ TimeIsUp
  PROVE  CallsOK'
<1>1. Top \in Frame
  BY EmptySeq, LenProperties, ElementOfSeq DEF FramesOK, Top
<1>2. UNCHANGED <<next_id, abandoned, narrated>>
  BY DEF TakeCalls, DispatchUnknown, Exchange, ReplyEnds, ChatReply, TimeIsUp, workerVars
<1>3. ASSUME NEW g, SetTop(g), SameCalls(Top, g) PROVE CallsOK'
  BY <1>2, <1>3, SameCallsKept
<1>4. CASE TakeCalls
  <2>1. PICK todo, left, calls :
          SetTop([Top EXCEPT !.pc = "dispatch", !.todo = todo, !.pending_tool_calls = left, !.tool_calls = calls])
    BY <1>4 DEF TakeCalls
  <2>2. SameCalls(Top, [Top EXCEPT !.pc = "dispatch", !.todo = todo, !.pending_tool_calls = left, !.tool_calls = calls])
    BY <1>1 DEF SameCalls, Frame
  <2>3. QED BY <1>3, <2>1, <2>2
<1>5. CASE DispatchUnknown
  <2>. DEFINE f == [Top EXCEPT !.todo = Tail(@)]
  <2>1. Top.todo # <<>>
    BY <1>5 DEF DispatchUnknown
  <2>2. f \in Frame /\ SameCalls(Top, f)
    BY <1>1, <2>1, OneLess DEF SameCalls, Frame
  <2>3. PICK g \in Narrating(f) : SetTop(g)
    BY <1>5 DEF DispatchUnknown
  <2>. HIDE DEF f
  <2>4. SameCalls(Top, g)
    BY <2>2, Narration DEF SameCalls
  <2>5. QED BY <1>3, <2>3, <2>4
<1>6. CASE Exchange
  <2>1. PICK enter, state, p : SetTop([Top EXCEPT !.enter = enter, !.state = state, !.pc = p])
    BY <1>6 DEF Exchange
  <2>2. SameCalls(Top, [Top EXCEPT !.enter = enter, !.state = state, !.pc = p])
    BY <1>1 DEF SameCalls, Frame
  <2>3. QED BY <1>3, <2>1, <2>2
<1>7. CASE ReplyEnds
  <2>1. PICK c, r : SetTop([Top EXCEPT !.is_processing = FALSE, !.complete = c, !.tool_calls = r])
    BY <1>7 DEF ReplyEnds
  <2>2. SameCalls(Top, [Top EXCEPT !.is_processing = FALSE, !.complete = c, !.tool_calls = r])
    BY <1>1 DEF SameCalls, Frame
  <2>3. QED BY <1>3, <2>1, <2>2
<1>8. CASE ChatReply
  <2>1. PICK r : SetTop([Top EXCEPT !.complete = TRUE, !.tool_calls = r])
    BY <1>8 DEF ChatReply
  <2>2. SameCalls(Top, [Top EXCEPT !.complete = TRUE, !.tool_calls = r])
    BY <1>1 DEF SameCalls, Frame
  <2>3. QED BY <1>3, <2>1, <2>2
<1>9. CASE TimeIsUp
  <2>1. SetTop([Top EXCEPT !.late = TRUE])
    BY <1>9 DEF TimeIsUp
  <2>2. SameCalls(Top, [Top EXCEPT !.late = TRUE])
    BY <1>1 DEF SameCalls, Frame
  <2>3. QED BY <1>3, <2>1, <2>2
<1>10. QED BY <1>4, <1>5, <1>6, <1>7, <1>8, <1>9

\* A fresh run has no calls.
LEMMA NewFrameCalls ==
  ASSUME NEW task, NEW by
  PROVE  OnceIn(NewFrame(task, by)) /\ \A c : ~Has(NewFrame(task, by), c)
<1>. DEFINE f == NewFrame(task, by)
<1>1. f.outstanding = {} /\ f.held = <<>> /\ f.leaving = {} /\ f.orphans = {}
  BY DEF NewFrame
<1>. HIDE DEF f
<1>2. Distinct(<<>>) /\ \A c : ~InSeq(<<>>, c)
  BY NoElement
<1>3. OnceIn(f) /\ \A c : ~Has(f, c)
  BY <1>1, <1>2 DEF OnceIn, Has
<1>4. QED BY <1>3 DEF f

LEMMA PushCalls ==
  ASSUME FramesOK, CallsOK, NEW g, SameCalls(Top, g), NEW f, OnceIn(f), \A c : ~Has(f, c),
         frames' = Append([frames EXCEPT ![Len(frames)] = g], f),
         UNCHANGED <<next_id, abandoned, narrated>>
  PROVE  CallsOK'
<1>. DEFINE m == Len(frames)
            fs == [frames EXCEPT ![m] = g]
<1>1. m \in Nat \ {0} /\ DOMAIN frames = 1 .. m
  BY EmptySeq, LenProperties DEF FramesOK
<1>2. OnceIn(g) /\ \A c : Has(g, c) <=> Has(Top, c)
  BY TopAndRest, SameHas
<1>3. fs = [n \in 1 .. m |-> IF n = m THEN g ELSE frames[n]]
  BY <1>1
<1>. HIDE DEF fs
<1>4. /\ Len(frames') = m + 1 /\ frames'[m + 1] = f
      /\ \A n \in 1 .. m : frames'[n] = IF n = m THEN g ELSE frames[n]
  <2>. DEFINE S == {fs[n] : n \in 1 .. m} \cup {f}
  <2>1. fs \in [1 .. m -> S] /\ f \in S
    BY <1>3
  <2>. HIDE DEF S
  <2>. HIDE DEF m
  <2>2. fs \in Seq(S) /\ Len(fs) = m
    BY <1>1, <1>3, <2>1
  <2>3. /\ Len(Append(fs, f)) = m + 1 /\ Append(fs, f)[m + 1] = f
        /\ \A n \in 1 .. m : Append(fs, f)[n] = fs[n]
    BY <2>1, <2>2, AppendProperties
  <2>4. frames' = Append(fs, f)
    BY DEF fs, m
  <2>5. QED BY <1>3, <2>3, <2>4
<1>5. \A n \in 1 .. m : /\ OnceIn(frames'[n])
                        /\ \A c : Has(frames'[n], c) <=> Has(frames[n], c)
  BY <1>2, <1>4 DEF CallsOK, Top
<1>6. /\ narrated \in [Calls -> {0, 1}]
      /\ \A c \in Calls : Balance(c, Ids(m))
      /\ \A n, k \in 1 .. m : n # k => \A c \in Calls : ~(Has(frames[n], c) /\ Has(frames[k], c))
  BY DEF CallsOK
<1>. HIDE DEF m
<1>7. \A n \in 1 .. m + 1 : n \in 1 .. m \/ n = m + 1
  BY <1>1
<1>8. \A n \in 1 .. m : n \in 1 .. m + 1
  BY <1>1
<1>9. \A n \in 1 .. m + 1 : OnceIn(frames'[n])
  BY <1>4, <1>5, <1>7
<1>10. \A n, k \in 1 .. m + 1 : n # k => \A c \in Calls : ~(Has(frames'[n], c) /\ Has(frames'[k], c))
  <2>. SUFFICES ASSUME NEW n \in 1 .. m + 1, NEW k \in 1 .. m + 1, n # k, NEW c \in Calls,
                       Has(frames'[n], c), Has(frames'[k], c)
                PROVE  FALSE
    OBVIOUS
  <2>1. ~Has(frames'[m + 1], c)
    BY <1>4
  <2>2. n \in 1 .. m /\ k \in 1 .. m
    BY <1>7, <2>1
  <2>3. Has(frames[n], c) /\ Has(frames[k], c)
    BY <1>5, <2>2
  <2>4. QED BY <1>6, <2>2, <2>3
<1>11. \A c \in Calls : (\E k \in 1 .. m + 1 : Has(frames'[k], c)) <=> c \in Ids(m)
  BY <1>4, <1>5, <1>7, <1>8 DEF Ids
<1>12. \A c \in Calls : BalanceNext(c, {d \in Calls : \E k \in 1 .. m + 1 : Has(frames'[k], d)})
  BY <1>6, <1>11 DEF Balance, BalanceNext
<1>13. (CallsOK)' <=>
         /\ narrated' \in [Calls -> {0, 1}]
         /\ \A n \in 1 .. Len(frames') : OnceIn(frames'[n])
         /\ \A n, k \in 1 .. Len(frames') :
              n # k => \A c \in Calls : ~(Has(frames'[n], c) /\ Has(frames'[k], c))
         /\ \A c \in Calls : BalanceNext(c, {d \in Calls : \E k \in 1 .. Len(frames') : Has(frames'[k], d)})
  BY DEF CallsOK, Balance, BalanceNext, Ids
<1>14. QED BY <1>4, <1>6, <1>9, <1>10, <1>12, <1>13

LEMMA OpenCalls ==
  ASSUME TaskRunAssumption, FramesOK, CallsOK, DispatchTask \/ RunTask
  PROVE  CallsOK'
<1>1. UNCHANGED <<next_id, abandoned, narrated>>
  BY DEF DispatchTask, RunTask, Step, workerVars
<1>2. Top \in Frame
  BY EmptySeq, LenProperties, ElementOfSeq DEF FramesOK, Top
<1>3. CASE DispatchTask
  <2>. DEFINE g == [Top EXCEPT !.todo = Tail(@)]
              f == NewFrame(Head(Top.todo), "call")
  <2>1. SameCalls(Top, g)
    BY <1>2 DEF SameCalls, Frame
  <2>2. frames' = Append([frames EXCEPT ![Len(frames)] = g], f)
    BY <1>3 DEF DispatchTask, Top
  <2>3. OnceIn(f) /\ \A c : ~Has(f, c)
    BY NewFrameCalls
  <2>. HIDE DEF g, f
  <2>4. QED BY <1>1, <2>1, <2>2, <2>3, PushCalls
<1>4. CASE RunTask
  <2>1. Running
    BY <1>4 DEF RunTask, Advancing
  <2>2. CASE Step(Stopped)
    <3>1. SameCalls(Top, Stopped)
      BY <1>2 DEF SameCalls, Stopped, Frame
    <3>2. QED BY <2>1, <2>2, <3>1, StoppedGood, StepCalls DEF Good
  <2>3. CASE frames' = Append(frames, NewFrame(Line.name, "run"))
    <3>. DEFINE f == NewFrame(Line.name, "run")
    <3>1. frames = [frames EXCEPT ![Len(frames)] = Top]
      <4>1. Len(frames) \in Nat \ {0} /\ DOMAIN frames = 1 .. Len(frames)
        BY EmptySeq, LenProperties DEF FramesOK
      <4>2. QED BY <4>1 DEF Top, FramesOK
    <3>2. frames' = Append([frames EXCEPT ![Len(frames)] = Top], f)
      BY <2>3, <3>1
    <3>3. OnceIn(f) /\ (\A c : ~Has(f, c)) /\ SameCalls(Top, Top)
      BY NewFrameCalls DEF SameCalls
    <3>. HIDE DEF f
    <3>4. QED BY <1>1, <3>2, <3>3, PushCalls
  <2>4. QED BY <1>4, <2>2, <2>3 DEF RunTask
<1>5. QED BY <1>3, <1>4

\* What a finished run held is told, what it waited for is its caller's.
LEMMA CloseCalls ==
  ASSUME TaskRunAssumption, FramesOK, WorkerOK, CallsOK, Close
  PROVE  CallsOK'
<1>. DEFINE m == Len(frames)
            caller == frames[m - 1]
            back == [caller EXCEPT
                      !.pending_tool_calls = @ + Top.held_events,
                      !.leaving = @ \cup Top.outstanding,
                      !.orphans = @ \cup Top.leaving \cup Top.orphans,
                      !.i     = IF Top.by = "run" THEN @ + 1 ELSE @,
                      !.state = IF Top.by = "run" THEN "GET_COMMAND" ELSE @,
                      !.pc    = IF Top.by = "run" THEN "exchange" ELSE @]
            rest == SubSeq(frames, 1, m - 2)
            told == Range(Top.held)
<1>1. Running /\ Top \in Frame
  BY TopScript DEF Close
<1>2. /\ m \in Nat /\ m # 0 /\ m # 1 /\ DOMAIN frames = 1 .. m /\ m - 1 \in 1 .. m
      /\ m - 2 \in Nat /\ m - 2 <= m /\ m \in 1 .. m /\ m - 1 # m
  <2>1. m \in Nat /\ DOMAIN frames = 1 .. m
    BY LenProperties DEF FramesOK
  <2>2. m > 1
    BY <1>1 DEF Running
  <2>. HIDE DEF m
  <2>3. QED BY <2>1, <2>2
<1>3. caller \in Frame
  BY <1>2, ElementOfSeq DEF FramesOK
<1>4. PICK f \in Narrating(back) : frames' = Append(rest, f)
  BY DEF Close
<1>5. Told(told) /\ UNCHANGED <<next_id, abandoned>>
  BY DEF Close
<1>6. f.outstanding = caller.outstanding /\ f.held = caller.held
      /\ f.leaving = caller.leaving \cup Top.outstanding
      /\ f.orphans = caller.orphans \cup Top.leaving \cup Top.orphans
  <2>1. PICK c, r : f = [back EXCEPT !.complete = c, !.tool_calls = r]
    BY <1>4 DEF Narrating
  <2>2. QED BY <1>3, <2>1 DEF Frame
<1>. HIDE DEF back
<1>7. \A n \in 1 .. m - 2 : n \in 1 .. m /\ n # m /\ n # m - 1
  <2>. HIDE DEF m
  <2>1. QED BY <1>2
<1>8. \A n \in 1 .. m : n = m \/ n = m - 1 \/ n \in 1 .. m - 2
  <2>. HIDE DEF m
  <2>1. QED BY <1>2
<1>9. /\ Len(frames') = m - 1 /\ frames'[m - 1] = f
      /\ \A n \in 1 .. m - 2 : frames'[n] = frames[n]
  <2>1. frames \in Seq(Frame \cup {f})
    <3>1. Frame \subseteq Frame \cup {f}
      OBVIOUS
    <3>2. QED BY <3>1, SeqMonotonic DEF FramesOK
  <2>2. rest \in Seq(Frame \cup {f}) /\ Len(rest) = m - 2 /\ \A n \in 1 .. m - 2 : rest[n] = frames[n]
    <3>1. \A k \in Nat : k <= Len(frames) =>
            /\ SubSeq(frames, 1, k) \in Seq(Frame \cup {f}) /\ Len(SubSeq(frames, 1, k)) = k
            /\ \A n \in 1 .. k : SubSeq(frames, 1, k)[n] = frames[n]
      BY <2>1, FirstElements
    <3>2. QED BY <1>2, <3>1
  <2>. HIDE DEF rest
  <2>3. /\ Len(Append(rest, f)) = Len(rest) + 1
        /\ \A n \in 1 .. Len(rest) : Append(rest, f)[n] = rest[n]
        /\ Append(rest, f)[Len(rest) + 1] = f
    BY <2>2, AppendProperties
  <2>. HIDE DEF m
  <2>4. Len(rest) + 1 = m - 1
    BY <1>2, <2>2
  <2>5. QED BY <1>4, <2>2, <2>3, <2>4
<1>. HIDE DEF rest
<1>10. /\ narrated \in [Calls -> {0, 1}]
       /\ \A c \in Calls : Balance(c, Ids(m))
       /\ \A n \in 1 .. m : OnceIn(frames[n])
       /\ \A n, k \in 1 .. m : n # k => \A c \in Calls : ~(Has(frames[n], c) /\ Has(frames[k], c))
  BY DEF CallsOK
<1>. DEFINE R == Ids(m - 2)
            X == {c \in Calls : Has(caller, c) \/ Has(Top, c)}
            Y == {c \in Calls : Has(f, c)}
<1>11. \A c \in Calls : c \in told <=> InSeq(Top.held, c)
  BY DEF Range, InSeq
<1>12. OnceIn(caller) /\ OnceIn(Top) /\ \A c \in Calls : ~(Has(caller, c) /\ Has(Top, c))
  BY <1>2, <1>10 DEF Top
<1>. HIDE DEF told
<1>13. OnceIn(f)
  BY <1>6, <1>12 DEF OnceIn, Has
<1>14. \A c \in Calls : (Has(caller, c) \/ Has(Top, c) <=> Has(f, c) \/ c \in told) /\ ~(Has(f, c) /\ c \in told)
  BY <1>6, <1>11, <1>12 DEF OnceIn, Has
<1>15. Ids(m) = R \cup X
  <2>1. \A c \in Calls : (\E k \in 1 .. m : Has(frames[k], c))
                           <=> (\E k \in 1 .. m - 2 : Has(frames[k], c)) \/ Has(caller, c) \/ Has(Top, c)
    <3>1. Top = frames[m]
      BY DEF Top
    <3>. HIDE DEF m
    <3>2. QED BY <1>2, <1>7, <1>8, <3>1
  <2>. HIDE DEF m, caller
  <2>2. QED BY <2>1 DEF Ids
<1>16. \A c \in Calls : ~(c \in R /\ c \in X)
  BY <1>2, <1>7, <1>10 DEF Ids, Top
<1>17. \A c \in Calls : (c \in X <=> Has(caller, c) \/ Has(Top, c)) /\ (c \in Y <=> Has(f, c))
  OBVIOUS
<1>. HIDE DEF R, X, Y, caller
<1>18. Moved(R, X, Y, told, {}, {})
  BY <1>5, <1>10, <1>14, <1>15, <1>16, <1>17 DEF Moved
<1>19. /\ narrated' \in [Calls -> {0, 1}]
       /\ \A c \in Calls : ~(c \in R /\ c \in Y)
       /\ \A c \in Calls : BalanceNext(c, R \cup Y)
  BY <1>10, <1>18, Ledger
<1>. HIDE DEF m
<1>20. /\ \A k \in 1 .. m - 1 : k = m - 1 \/ k \in 1 .. m - 2
       /\ \A k \in 1 .. m - 2 : k \in 1 .. m - 1
       /\ m - 1 \in 1 .. m - 1
  BY <1>2
<1>21. \A n \in 1 .. m - 1 : OnceIn(frames'[n])
  BY <1>7, <1>9, <1>10, <1>13, <1>20
<1>22. \A n \in 1 .. m - 2 : \A c \in Calls : ~(Has(frames[n], c) /\ Has(f, c))
  BY <1>17, <1>19 DEF R, Ids
<1>23. \A n, k \in 1 .. m - 1 : n # k => \A c \in Calls : ~(Has(frames'[n], c) /\ Has(frames'[k], c))
  BY <1>7, <1>9, <1>10, <1>20, <1>22
<1>24. ASSUME NEW c \in Calls
       PROVE  (\E k \in 1 .. m - 1 : Has(frames'[k], c)) <=> c \in R \cup Y
  <2>1. c \in R <=> \E k \in 1 .. m - 2 : Has(frames[k], c)
    BY DEF R, Ids
  <2>2. QED BY <1>9, <1>17, <1>20, <2>1
<1>25. \A c \in Calls : BalanceNext(c, {d \in Calls : \E k \in 1 .. m - 1 : Has(frames'[k], d)})
  BY <1>19, <1>24 DEF BalanceNext
<1>26. (CallsOK)' <=>
         /\ narrated' \in [Calls -> {0, 1}]
         /\ \A n \in 1 .. Len(frames') : OnceIn(frames'[n])
         /\ \A n, k \in 1 .. Len(frames') :
              n # k => \A c \in Calls : ~(Has(frames'[n], c) /\ Has(frames'[k], c))
         /\ \A c \in Calls : BalanceNext(c, {d \in Calls : \E k \in 1 .. Len(frames') : Has(frames'[k], d)})
  BY DEF CallsOK, Balance, BalanceNext, Ids
<1>27. QED BY <1>9, <1>19, <1>21, <1>23, <1>25, <1>26

LEMMA CallsKept ==
  ASSUME TaskRunAssumption, FramesOK, WorkerOK, CallsOK, [Next]_vars
  PROVE  CallsOK'
<1>1. CASE Drain
  BY <1>1, DrainCalls
<1>2. CASE DispatchRemote
  BY <1>2, DispatchRemoteCalls
<1>3. CASE Claim
  BY <1>3, ClaimCalls
<1>4. CASE WaitToolResult
  BY <1>4, WaitToolResultCalls
<1>5. CASE Close
  BY <1>5, CloseCalls
<1>6. CASE DispatchTask \/ RunTask
  BY <1>6, OpenCalls
<1>7. CASE GetCommand \/ Execute \/ WaitResponse \/ WaitIfResponse \/ WaitEnter \/ WaitAsk
  BY <1>7, ScriptCalls
<1>8. CASE TakeCalls \/ DispatchUnknown \/ Exchange \/ ReplyEnds \/ ChatReply \/ TimeIsUp
  BY <1>8, OtherCalls
<1>9. CASE ResultLands \/ EventLands \/ UNCHANGED vars
  <2>1. UNCHANGED <<frames, next_id, abandoned, narrated>>
    BY <1>9 DEF ResultLands, EventLands, vars
  <2>2. QED BY <2>1 DEF CallsOK, Balance, Ids
<1>10. QED BY <1>1, <1>2, <1>3, <1>4, <1>5, <1>6, <1>7, <1>8, <1>9 DEF Next, Loop

LEMMA CallsAtInit ==
  ASSUME TaskRunAssumption, Init
  PROVE  CallsOK
<1>. DEFINE f == Chat
<1>1. f.outstanding = {} /\ f.held = <<>> /\ f.leaving = {} /\ f.orphans = {}
  BY DEF Chat, NewFrame
<1>. HIDE DEF f
<1>2. OnceIn(f) /\ \A c : ~Has(f, c)
  BY <1>1, NoElement DEF OnceIn, Has
<1>3. frames = <<f>>
  BY DEF Init, f
<1>4. Len(frames) = 1 /\ frames[1] = f /\ \A n \in 1 .. 1 : n = 1
  BY <1>3
<1>5. narrated \in [Calls -> {0, 1}] /\ (\A c \in Calls : narrated[c] = 0) /\ abandoned = {} /\ next_id = 1
  BY DEF Init
<1>6. \A c \in Calls : Balance(c, Ids(1))
  <2>1. \A c \in Calls : ~(c < 1)
    BY DEF Calls
  <2>2. \A c \in Calls : c \notin Ids(1)
    BY <1>2, <1>4 DEF Ids
  <2>3. QED BY <1>5, <2>1, <2>2 DEF Balance
<1>7. QED BY <1>2, <1>4, <1>5, <1>6 DEF CallsOK

\* No script holds more results than there are calls.
LEMMA HeldBound ==
  ASSUME TaskRunAssumption, NEW h \in Seq(Calls), Distinct(h)
  PROVE  DOMAIN h \subseteq Calls
<1>1. Len(h) \in Nat /\ DOMAIN h = 1 .. Len(h) /\ MaxCalls \in Nat
  BY LenProperties DEF TaskRunAssumption
<1>2. h \in [1 .. Len(h) -> 1 .. MaxCalls]
  <2>1. \A k \in 1 .. Len(h) : h[k] \in 1 .. MaxCalls
    BY ElementOfSeq DEF Calls
  <2>2. h = [k \in 1 .. Len(h) |-> h[k]]
    BY <1>1
  <2>3. QED BY <2>1, <2>2
<1>3. \A i, j \in 1 .. Len(h) : h[i] = h[j] => i = j
  BY <1>1 DEF Distinct
<1>4. ExistsInjection(1 .. Len(h), 1 .. MaxCalls)
  BY <1>2, <1>3, Fun_IsInj, Fun_ExistsInj
<1>5. Len(h) <= MaxCalls
  BY <1>1, <1>4, Fun_NatInjLeq
<1>6. QED BY <1>1, <1>5 DEF Calls

\* One element, or none.
LEMMA NoneOrOne ==
  ASSUME NEW S
  PROVE  (S = {} => Cardinality(S) = 0) /\ \A x : S = {x} => Cardinality(S) = 1
BY FS_EmptySet, FS_Singleton

\* The accounts are what the property adds up.
LEMMA AccountsAddUp ==
  ASSUME TaskRunAssumption, FramesOK, WorkerOK, CallsOK
  PROVE  CallsAccounted
<1>. DEFINE D == DOMAIN frames
            Out(c) == {n \in D : c \in frames[n].outstanding}
            Held(c) == {at \in D \X Calls : at[2] \in DOMAIN frames[at[1]].held /\ frames[at[1]].held[at[2]] = c}
            Left(c) == {n \in D : c \in frames[n].leaving}
            Orphaned(c) == {n \in D : c \in frames[n].orphans}
            Gone(c) == abandoned \cap {c}
<1>1. SUFFICES ASSUME NEW c \in 1 .. next_id - 1
               PROVE  narrated[c] + Cardinality(Out(c)) + Cardinality(Held(c)) + Cardinality(Left(c))
                        + Cardinality(Orphaned(c)) + Cardinality(Gone(c)) = 1
  BY DEF CallsAccounted
<1>2. c \in Calls /\ c < next_id
  BY DEF WorkerOK, Calls, TaskRunAssumption
<1>3. D = 1 .. Len(frames)
  BY LenProperties DEF FramesOK
<1>4. \A n \in D : /\ frames[n].held \in Seq(Calls) /\ Distinct(frames[n].held) /\ OnceIn(frames[n])
                   /\ DOMAIN frames[n].held \subseteq Calls
  <2>1. \A n \in D : frames[n] \in Frame
    BY <1>3, ElementOfSeq DEF FramesOK
  <2>2. \A n \in D : frames[n].held \in Seq(Calls)
    BY <2>1 DEF Frame
  <2>3. \A n \in D : OnceIn(frames[n])
    BY <1>3 DEF CallsOK
  <2>4. \A n \in D : Distinct(frames[n].held)
    BY <2>3 DEF OnceIn
  <2>. HIDE DEF D
  <2>5. QED BY <2>2, <2>3, <2>4, HeldBound
<1>5. Balance(c, Ids(Len(frames))) /\ narrated[c] \in {0, 1}
  BY <1>2 DEF CallsOK
<1>6. c \in Ids(Len(frames)) <=> \E n \in D : Has(frames[n], c)
  BY <1>2, <1>3 DEF Ids
<1>7. \A n, k \in D : Has(frames[n], c) /\ Has(frames[k], c) => n = k
  BY <1>2, <1>3 DEF CallsOK
<1>. HIDE DEF D
<1>8. \A n \in D : (c \in frames[n].outstanding => Has(frames[n], c))
                  /\ (c \in frames[n].leaving => Has(frames[n], c))
                  /\ (c \in frames[n].orphans => Has(frames[n], c))
                  /\ \A k \in DOMAIN frames[n].held : frames[n].held[k] = c => Has(frames[n], c)
  BY DEF Has, InSeq
<1>9. CASE \A n \in D : ~Has(frames[n], c)
  <2>1. Out(c) = {} /\ Left(c) = {} /\ Orphaned(c) = {}
    BY <1>8, <1>9
  <2>2. Held(c) = {}
    BY <1>8, <1>9
  <2>3. \/ narrated[c] = 1 /\ Gone(c) = {}
        \/ narrated[c] = 0 /\ Gone(c) = {c}
    BY <1>2, <1>5, <1>6, <1>9 DEF Balance
  <2>. HIDE DEF Out, Held, Left, Orphaned, Gone
  <2>4. /\ Cardinality(Out(c)) = 0 /\ Cardinality(Held(c)) = 0
        /\ Cardinality(Left(c)) = 0 /\ Cardinality(Orphaned(c)) = 0
    BY <2>1, <2>2, NoneOrOne
  <2>5. (narrated[c] = 1 /\ Cardinality(Gone(c)) = 0) \/ (narrated[c] = 0 /\ Cardinality(Gone(c)) = 1)
    BY <2>3, NoneOrOne
  <2>6. QED BY <2>4, <2>5
<1>10. ASSUME NEW n \in D, Has(frames[n], c)
       PROVE  narrated[c] + Cardinality(Out(c)) + Cardinality(Held(c)) + Cardinality(Left(c))
                + Cardinality(Orphaned(c)) + Cardinality(Gone(c)) = 1
  <2>1. narrated[c] = 0 /\ Gone(c) = {}
    BY <1>5, <1>6, <1>10 DEF Balance
  <2>2. \A k \in D : Has(frames[k], c) => k = n
    BY <1>7, <1>10
  <2>3. /\ Out(c) = IF c \in frames[n].outstanding THEN {n} ELSE {}
        /\ Left(c) = IF c \in frames[n].leaving THEN {n} ELSE {}
        /\ Orphaned(c) = IF c \in frames[n].orphans THEN {n} ELSE {}
    BY <1>8, <2>2
  <2>4. ~InSeq(frames[n].held, c) => Held(c) = {}
    <3>1. SUFFICES ASSUME NEW at \in Held(c) PROVE InSeq(frames[n].held, c)
      OBVIOUS
    <3>2. at[1] \in D /\ at[2] \in DOMAIN frames[at[1]].held /\ frames[at[1]].held[at[2]] = c
      OBVIOUS
    <3>3. at[1] = n
      BY <1>8, <2>2, <3>2
    <3>4. QED BY <3>2, <3>3 DEF InSeq
  <2>5. ASSUME InSeq(frames[n].held, c) PROVE \E at : Held(c) = {at}
    <3>1. PICK k \in DOMAIN frames[n].held : frames[n].held[k] = c
      BY <2>5 DEF InSeq
    <3>2. <<n, k>> \in Held(c)
      BY <1>4, <3>1
    <3>3. ASSUME NEW at \in Held(c) PROVE at = <<n, k>>
      <4>1. at \in D \X Calls /\ at[1] \in D /\ at[2] \in DOMAIN frames[at[1]].held /\ frames[at[1]].held[at[2]] = c
        OBVIOUS
      <4>2. at[1] = n
        BY <1>8, <2>2, <4>1
      <4>3. at[2] = k
        BY <1>4, <3>1, <4>1, <4>2 DEF Distinct
      <4>4. QED BY <4>1, <4>2, <4>3
    <3>. HIDE DEF Held
    <3>4. Held(c) = {<<n, k>>}
      BY <3>2, <3>3
    <3>5. QED BY <3>4
  <2>. HIDE DEF Out, Held, Left, Orphaned, Gone
  <2>6. OnceIn(frames[n])
    BY <1>4
  <2>7. CASE c \in frames[n].outstanding
    <3>1. Out(c) = {n} /\ Held(c) = {} /\ Left(c) = {} /\ Orphaned(c) = {}
      BY <1>2, <2>3, <2>4, <2>6, <2>7 DEF OnceIn
    <3>2. /\ Cardinality(Out(c)) = 1 /\ Cardinality(Held(c)) = 0
          /\ Cardinality(Left(c)) = 0 /\ Cardinality(Orphaned(c)) = 0 /\ Cardinality(Gone(c)) = 0
      BY <2>1, <3>1, NoneOrOne
    <3>3. QED BY <2>1, <3>2
  <2>8. CASE InSeq(frames[n].held, c)
    <3>1. Out(c) = {} /\ (\E at : Held(c) = {at}) /\ Left(c) = {} /\ Orphaned(c) = {}
      BY <1>2, <2>3, <2>5, <2>6, <2>8 DEF OnceIn
    <3>2. /\ Cardinality(Out(c)) = 0 /\ Cardinality(Held(c)) = 1
          /\ Cardinality(Left(c)) = 0 /\ Cardinality(Orphaned(c)) = 0 /\ Cardinality(Gone(c)) = 0
      BY <2>1, <3>1, NoneOrOne
    <3>3. QED BY <2>1, <3>2
  <2>9. CASE c \in frames[n].leaving
    <3>1. Out(c) = {} /\ Held(c) = {} /\ Left(c) = {n} /\ Orphaned(c) = {}
      BY <1>2, <2>3, <2>4, <2>6, <2>9 DEF OnceIn
    <3>2. /\ Cardinality(Out(c)) = 0 /\ Cardinality(Held(c)) = 0
          /\ Cardinality(Left(c)) = 1 /\ Cardinality(Orphaned(c)) = 0 /\ Cardinality(Gone(c)) = 0
      BY <2>1, <3>1, NoneOrOne
    <3>3. QED BY <2>1, <3>2
  <2>10. CASE c \in frames[n].orphans
    <3>1. Out(c) = {} /\ Held(c) = {} /\ Left(c) = {} /\ Orphaned(c) = {n}
      BY <1>2, <2>3, <2>4, <2>6, <2>10 DEF OnceIn
    <3>2. /\ Cardinality(Out(c)) = 0 /\ Cardinality(Held(c)) = 0
          /\ Cardinality(Left(c)) = 0 /\ Cardinality(Orphaned(c)) = 1 /\ Cardinality(Gone(c)) = 0
      BY <2>1, <3>1, NoneOrOne
    <3>3. QED BY <2>1, <3>2
  <2>11. QED BY <1>10, <2>7, <2>8, <2>9, <2>10 DEF Has
<1>. HIDE DEF Out, Held, Left, Orphaned, Gone
<1>11. QED BY <1>9, <1>10

\* No result of a remote call is told twice or lost with the run that asked for it:
\* every call that was made is waited for by one instance, held by one script, told
\* once, left behind, or given up (TOOL_TASK_RUNNER::handle_tool, tools.cpp).
THEOREM EveryCallAccounted == Spec => []CallsAccounted
<1>1. Init => FramesOK /\ WorkerOK /\ CallsOK
  BY TaskRunAssumption, FramesAtInit, CallsAtInit
<1>2. (FramesOK /\ WorkerOK /\ CallsOK) /\ [Next]_vars => (FramesOK /\ WorkerOK /\ CallsOK)'
  BY TaskRunAssumption, FramesKept, WorkerKept, CallsKept
<1>3. FramesOK /\ WorkerOK /\ CallsOK => CallsAccounted
  BY TaskRunAssumption, AccountsAddUp
<1>4. QED BY <1>1, <1>2, <1>3, PTL DEF Spec

==============================================================================
