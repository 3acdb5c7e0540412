----------------------------- MODULE TaskScript -----------------------------
(***************************************************************************)
(* The lines of a .task script and where they lead (src/source/            *)
(* tools_task_script.cpp).  A script is a sequence of lines [op, name]:    *)
(* the marker the line starts with and the name it mentions.  The scans    *)
(* over the lines are pure functions of the script.                        *)
(***************************************************************************)
EXTENDS Naturals, Sequences, FiniteSets

\* Lines that are done within the tick they are read in: [PRINT],
\* [FILE_APPEND], [TTS_OUTPUT], [ECHO_INPUT].
Instant == {"print"}

\* An [ASK] line with no time limit, with one that ends the script, with one
\* that calls a sub, and with a header that is not a number of seconds.
Asks == {"ask", "ask_end", "ask_sub", "ask_bad"}

Op == Instant \cup Asks \cup
      { "plain", "pause", "file_in", "wait", "run", "end", "keyboard_on", "keyboard_off",
        "if", "else", "maybe", "endif", "sub", "gosub", "return", "endsub" }

\* The C++ commands.size(): nothing found, or past the last line.
Past(s) == Len(s) + 1

\* The first of the lines a scan stops at.
FirstOf(s, places) ==
  IF places = {} THEN Past(s) ELSE CHOOSE k \in places : \A j \in places : k <= j

-----------------------------------------------------------------------------
(* [IF] blocks.                                                            *)

\* How many inner blocks are open at line k, counting from line from.
Depth(s, from, k) ==
  Cardinality({j \in from .. k - 1 : s[j].op = "if"})
    - Cardinality({j \in from .. k - 1 : s[j].op = "endif"})

\* The first line of this nesting level that starts with one of ops.  The
\* search ends at a line of a [SUB] definition, and at the block's [ENDIF].
FirstAtLevel(s, from, ops) ==
  LET stops == {k \in from .. Len(s) : \/ s[k].op \in {"sub", "endsub"}
                                       \/ Depth(s, from, k) = 0 /\ s[k].op \in ops \cup {"endif"}}
  IN  IF stops = {} THEN Past(s)
      ELSE LET k == FirstOf(s, stops)
           IN  IF s[k].op \in ops THEN k ELSE Past(s)

FindEndif(s, from) == FirstAtLevel(s, from, {"endif"})

\* The line after the wanted marker, or the [ENDIF] when there is no such branch.
FindBranchStart(s, from, wanted) ==
  LET k == FirstAtLevel(s, from, {wanted, "endif"})
  IN  IF k <= Len(s) /\ s[k].op = wanted THEN k + 1 ELSE k

\* The branch an answer selects; the lines after the [IF] are the yes branch.
Branch(s, i, answer) ==
  CASE answer = "yes"   -> i + 1
    [] answer = "no"    -> FindBranchStart(s, i + 1, "else")
    [] answer = "maybe" -> FindBranchStart(s, i + 1, "maybe")

-----------------------------------------------------------------------------
(* [SUB] definitions.                                                      *)

FindSub(s, name) == FirstOf(s, {k \in 1 .. Len(s) : s[k].op = "sub" /\ s[k].name = name})

\* Where the main flow goes on after a definition it runs into; 0 when the
\* definition is never closed.
AfterDefinition(s, i) ==
  LET k == FirstOf(s, {j \in i + 1 .. Len(s) : s[j].op = "endsub"})
  IN  IF k > Len(s) THEN 0 ELSE k + 1

\* Where a sub called by an [ASK] that ran out of time comes back to: behind
\* the [ASK], and behind the [IF] block that would have judged its answer; 0
\* when that block is never closed.
ResumeAfterAsk(s, i) ==
  IF i + 1 <= Len(s) /\ s[i + 1].op = "if"
  THEN LET k == FindEndif(s, i + 2) IN IF k > Len(s) THEN 0 ELSE k + 1
  ELSE i + 1

\* A line of a definition: a [SUB] opened above it is not closed before it.
InDefinition(s, k) ==
  \E j \in 1 .. k - 1 :
    /\ s[j].op = "sub"
    /\ \A m \in j + 1 .. k - 1 : s[m].op # "endsub"
=============================================================================
