-------------------------- MODULE CallbackService --------------------------
(***************************************************************************)
(* What SUBCON_TOOL_SERVER promises the think cycles that use it           *)
(* (src/tools/subcon/tool_server.hpp): a call that was handed in completes *)
(* its callback once, unless it is abandoned first, and never after that;  *)
(* what it completed with stays so.  And what the cycles promise in turn:  *)
(* a callback runs in the cycle that asked, and a cycle does not end       *)
(* before each of its calls has completed or was abandoned.                *)
(***************************************************************************)
EXTENDS Naturals, Sequences

VARIABLES cycle,  \* the number of the present cycle
          calls   \* calls[c]: who handed c in, for which cycle, and its state:
                  \* "open", "ran" or "abandoned"
vars == <<cycle, calls>>

Init == cycle = 0 /\ calls = <<>>

Open(c)    == calls[c].state = "open"
OfCycle(c) == calls[c].kind = "slot"

\* A cycle has calls that are neither completed nor abandoned.
Waits == \E c \in DOMAIN calls : Open(c) /\ OfCycle(c)

\* The cycle goes on, or it ends.
Turns == \/ cycle' = cycle
         \/ cycle' = cycle + 1 /\ ~Waits'

\* The calls there are become old, and others were handed in after them.
Follow(old) ==
  /\ Len(calls') >= Len(calls)
  /\ \A c \in DOMAIN calls : calls'[c] = old[c]
  /\ \A c \in DOMAIN calls' \ DOMAIN calls :
       Open(c)' /\ (OfCycle(c)' => calls'[c].token = cycle)

\* Calls are handed in, any number of them; and with none a cycle may end.
HandIn == Follow(calls) /\ Turns

\* The callback of a call runs, in the cycle that handed it in.
Complete(c) ==
  /\ Open(c) /\ (OfCycle(c) => calls[c].token = cycle)
  /\ calls' = [calls EXCEPT ![c].state = "ran"]
  /\ Turns

\* The cycle is given up, and its calls with it.
Abandon ==
  /\ Follow([c \in DOMAIN calls |->
               IF Open(c) /\ OfCycle(c) THEN [calls[c] EXCEPT !.state = "abandoned"] ELSE calls[c]])
  /\ ~Waits'
  /\ cycle' \in {cycle, cycle + 1}

\* The process is killed and starts again.
Restart == cycle' = 0 /\ calls' = <<>>

Next == HandIn \/ (\E c \in DOMAIN calls : Complete(c)) \/ Abandon \/ Restart

Spec == Init /\ [][Next]_vars

=============================================================================
