-------------------------------- MODULE Clock --------------------------------
(* The timers of tools/clock/clock.cpp, a program of one thread: each turn of *)
(* its loop services both links, answers what they brought and reports the    *)
(* timers that have run out, each on the link its set_timer came from.        *)
EXTENDS OlliLink

CONSTANTS
  Labels,      \* the labels of timers, up to the case of their letters
  MaxSeconds,  \* bound: the longest timer, in heartbeats
  MaxCalls,    \* bound: calls the servers make
  UserNames,   \* the names the servers may give
  None

ASSUME ClockAssumption == MaxSeconds \in Nat /\ MaxCalls \in Nat /\ None \notin UserNames

VARIABLES
  active_timers,  \* label -> a timer, or None
  current_user,   \* the name of the last identity, or None
  clock_pc,       \* where the turn is: "service" or "drain"
  calls,          \* number of calls made so far: a call's id is its number
  asked,          \* the set_timer calls: id -> the link it arrived on
  void,           \* ids of timers cancelled, as their caller was told, or replaced unreported
  reports         \* the expiry events sent, in order: a link and an id

clockVars == <<active_timers, current_user, clock_pc, calls, asked, void, reports>>

ClockInit ==
  /\ active_timers = [x \in Labels |-> None]
  /\ current_user = None /\ clock_pc = "service" /\ calls = 0
  /\ asked = <<>> /\ void = {} /\ reports = <<>>

Set(x)     == active_timers[x] # None
Expired(t) == t.left = 0

-----------------------------------------------------------------------------
(* One turn of the loop *)

ClockService ==
  /\ clock_pc = "service" /\ clock_pc' = "drain"
  /\ ServiceLinks
  /\ current_user' = IF all_links_dropped THEN None ELSE current_user
  /\ UNCHANGED <<active_timers, calls, asked, void, reports>>

ActiveTimer(l, m) ==
  [left |-> m.seconds, cancelled |-> FALSE, event_sent |-> FALSE,
   origin_call_id |-> m.id, origin_link |-> l]

\* A set_timer replaces whatever its label named, running or finished.
set_timer(l, m) ==
  /\ active_timers' = [active_timers EXCEPT ![m.label] = ActiveTimer(l, m)]
  /\ asked' = [i \in DOMAIN asked \union {m.id} |-> IF i = m.id THEN l ELSE asked[i]]
  /\ void' = IF Set(m.label) /\ ~active_timers[m.label].event_sent THEN void \union {active_timers[m.label].origin_call_id} ELSE void

Cancellable(x) == Set(x) /\ ~active_timers[x].cancelled /\ ~Expired(active_timers[x])

cancel_timer(m) ==
  /\ IF Cancellable(m.label)
       THEN /\ active_timers' = [active_timers EXCEPT ![m.label].cancelled = TRUE]
            /\ void' = void \union {active_timers[m.label].origin_call_id}
       ELSE UNCHANGED <<active_timers, void>>
  /\ UNCHANGED asked

\* handle_call: the other tools only read.
handle_call(l, m) ==
  \/ m.name = "set_timer" /\ set_timer(l, m)
  \/ m.name = "cancel_timer" /\ cancel_timer(m)
  \/ m.name = "check_timer" /\ UNCHANGED <<active_timers, asked, void>>

ClockMessage(l) ==
  /\ clock_pc = "drain" /\ HasMessage(l)
  /\ LET m == Message(l)
     IN  \/ /\ m.type = "call" /\ handle_call(l, m) /\ Answered(l)
            /\ UNCHANGED current_user
         \/ /\ m.type = "identity" /\ current_user' = m.name
            /\ link' = [link EXCEPT ![l].incoming = Tail(@)]
            /\ UNCHANGED <<active_timers, asked, void>>
  /\ UNCHANGED <<far, drops, clock_pc, calls, reports>>

ReportsCancelled(t) == Expired(t) /\ ~t.event_sent /\ Sends(t.origin_link)
ReportsToOlli(t) == /\ ~t.cancelled /\ Expired(t) /\ ~t.event_sent
                    /\ t.origin_link = "olli" /\ Sends("olli")
\* A timer is reported once, and waits for its own link to be there.
Reportable(t) == ~t.cancelled /\ Expired(t) /\ ~t.event_sent /\ Sends(t.origin_link)
Due == {x \in Labels : Set(x) /\ Reportable(active_timers[x])}

\* handle_expired_timers, one timer at a time, and the end of the turn.
Report(x) ==
  /\ clock_pc = "drain" /\ Drained /\ x \in Due
  /\ LET t == active_timers[x]
     IN  /\ reports' = Append(reports, [link |-> t.origin_link, id |-> t.origin_call_id])
         /\ active_timers' = [active_timers EXCEPT ![x].event_sent = TRUE]
         /\ link' = [link EXCEPT ![t.origin_link].idle = 0]
  /\ UNCHANGED <<far, drops, current_user, clock_pc, calls, asked, void>>

ClockTurn ==
  /\ clock_pc = "drain" /\ Drained /\ Due = {} /\ clock_pc' = "service"
  /\ UNCHANGED <<linkVars, active_timers, current_user, calls, asked, void, reports>>

-----------------------------------------------------------------------------
(* The world; but for the links, what it does is seen at the top of a turn *)

ClockCall(l) ==
  /\ clock_pc = "service" /\ calls < MaxCalls /\ CanSay(l) /\ calls' = calls + 1
  /\ \E x \in Labels, s \in 0 .. MaxSeconds, n \in {"set_timer", "cancel_timer", "check_timer"} :
       /\ n # "set_timer" => s = 0
       /\ Says(l, [type |-> "call", id |-> calls + 1, name |-> n, label |-> x, seconds |-> s])
  /\ UNCHANGED <<drops, active_timers, current_user, clock_pc, asked, void, reports>>

ClockTime ==
  /\ clock_pc = "service" /\ TimePasses
  /\ active_timers' = [x \in Labels |->
       IF Set(x) /\ ~Expired(active_timers[x])
         THEN [active_timers[x] EXCEPT !.left = @ - 1] ELSE active_timers[x]]
  /\ UNCHANGED <<current_user, clock_pc, calls, asked, void, reports>>

ClockStep == ClockService \/ (\E l \in Links : ClockMessage(l)) \/ (\E x \in Labels : Report(x)) \/ ClockTurn
ClockServer(l) == clock_pc = "service" /\ (Stops(l) \/ Starts(l)) /\ UNCHANGED clockVars
ClockGreets(l) == clock_pc = "service" /\ (\E n \in UserNames : Welcome(l, n)) /\ UNCHANGED <<drops, clockVars>>

ClockNext == \/ ClockStep \/ ClockTime
             \/ \E l \in Links : ClockCall(l) \/ ClockServer(l) \/ ClockGreets(l)

ClockSpec == LinkInit /\ ClockInit /\
  [][ClockNext \/ (LinkFault /\ UNCHANGED clockVars)]_<<linkVars, clockVars>>

-----------------------------------------------------------------------------
(* Properties *)

\* "The expiry event goes out on this link only" (clock.cpp:101): a timer is
\* reported once, to the server that set it, whatever is cut and set up again
\* in between; a timer its caller was told is canceled, or that a new one has
\* replaced, never is.
ReportsHonest ==
  /\ \A i \in DOMAIN reports :
       /\ reports[i].link = asked[reports[i].id]
       /\ reports[i].id \notin void
       /\ \A j \in DOMAIN reports : reports[i].id = reports[j].id => i = j
  /\ \A x \in Labels : Set(x) /\ active_timers[x].event_sent => Expired(active_timers[x])

\* "deferred, not skipped, if disconnected right now" (clock.cpp:164): a timer
\* that has run out is reported, if it is not replaced before its link is back.
Owed(x) == Set(x) /\ ~active_timers[x].cancelled /\ Expired(active_timers[x])
             /\ ~active_timers[x].event_sent
ExpiryReported == \A x \in Labels : Owed(x) ~> ~Owed(x)
=============================================================================
