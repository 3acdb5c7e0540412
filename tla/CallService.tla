---------------------------- MODULE CallService ----------------------------
(***************************************************************************)
(* What TOOL_WORKER_CLASS promises the ai_root instances that use it       *)
(* (source/tool_worker.h): a call gets exactly one verdict, the first that *)
(* arrives; the dispatcher gets that verdict at most once; a call whose    *)
(* dispatcher is gone is forgotten once it has its verdict.                *)
(***************************************************************************)
EXTENDS Naturals

CONSTANTS Calls,    \* call ids
          Verdict,  \* what a call can end with: an answer or a timeout
          Timeout,  \* the verdict the service itself gives
          None      \* no verdict yet; not a verdict

VARIABLES phase,    \* "new", "waiting", "claimed", "abandoned" or "dropped"
          verdict,  \* the verdict, once there is one
          given     \* the verdict handed to the dispatcher
vars == <<phase, verdict, given>>

Init == /\ phase = [c \in Calls |-> "new"]
        /\ verdict = [c \in Calls |-> None]
        /\ given = [c \in Calls |-> None]

Open(c) == phase[c] \in {"waiting", "abandoned"} /\ verdict[c] = None

Submit(c) == /\ phase[c] = "new"
             /\ phase' = [phase EXCEPT ![c] = "waiting"]
             /\ UNCHANGED <<verdict, given>>

\* The tool answers.
Resolve(c) == /\ Open(c)
              /\ \E v \in Verdict : verdict' = [verdict EXCEPT ![c] = v]
              /\ UNCHANGED <<phase, given>>

Claim(c) == /\ phase[c] = "waiting"
            /\ verdict[c] # None
            /\ phase' = [phase EXCEPT ![c] = "claimed"]
            /\ given' = [given EXCEPT ![c] = verdict[c]]
            /\ UNCHANGED verdict

Abandon(c) == /\ phase[c] = "waiting"
              /\ phase' = [phase EXCEPT ![c] = "abandoned"]
              /\ UNCHANGED <<verdict, given>>

\* The service gives up on the calls in late and forgets those in forgotten,
\* which are abandoned and have a verdict by then.
Housekeep(late, forgotten) ==
  /\ \A c \in late : Open(c)
  /\ verdict' = [c \in Calls |-> IF c \in late THEN Timeout ELSE verdict[c]]
  /\ \A c \in forgotten : phase[c] = "abandoned" /\ verdict'[c] # None
  /\ phase' = [c \in Calls |-> IF c \in forgotten THEN "dropped" ELSE phase[c]]
  /\ UNCHANGED given

Next == \/ \E c \in Calls : Submit(c) \/ Resolve(c) \/ Claim(c) \/ Abandon(c)
        \/ \E late, forgotten \in SUBSET Calls : Housekeep(late, forgotten)

Spec == Init /\ [][Next]_vars

=============================================================================
