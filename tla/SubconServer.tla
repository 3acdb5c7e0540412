---------------------------- MODULE SubconServer ----------------------------
(***************************************************************************)
(* SUBCON_TOOL_SERVER (src/tools/subcon/tool_server.cpp): the server the   *)
(* remote tools register with.  It runs on the main loop's thread: lines   *)
(* are read, then one sweep times calls out, pings and retires dead        *)
(* connections, then the callbacks of the calls that were completed run.   *)
(* One call per connection is in flight, the others wait behind it.        *)
(*                                                                         *)
(* A call is its number.  The clock raises late when the call in flight has*)
(* outlived call_timeout_seconds; which connections have been silent for   *)
(* the register or the dead timeout is left open at every sweep.           *)
(* What was written to a tool and not answered is kept in told: the tools  *)
(* are single-threaded and answer in order, so an answer to a call that    *)
(* was timed out or abandoned still comes, late.                           *)
(***************************************************************************)
EXTENDS Naturals, Sequences, SequencesExt, Filter

CONSTANTS
  Peer,             \* the tools that may connect
  Name,             \* tool names
  Offers,           \* Offers[p] is the list of names p registers
  MAX_CONNECTIONS   \* accepted connections at once

ASSUME ServerAssumption ==
  /\ Offers \in [Peer -> SUBSET Name]
  /\ MAX_CONNECTIONS \in Nat \ {0}

VARIABLES
  connections,  \* the connected peers, in the order they were accepted
  conn,         \* the state of each connection
  completions,  \* calls completed since the last sweep
  to_run,       \* service()'s copy of them, whose callbacks run now
  next_call_number

serverVars == <<connections, conn, completions, to_run, next_call_number>>

NoConn == [registered |-> FALSE, dead |-> FALSE, inflight |-> 0, late |-> FALSE,
           queued |-> <<>>, told |-> <<>>]

Connected(p) == \E i \in DOMAIN connections : connections[i] = p
Live(p)      == Connected(p) /\ ~conn[p].dead

ServerInit ==
  /\ connections = <<>>
  /\ conn = [p \in Peer |-> NoConn]
  /\ completions = <<>> /\ to_run = <<>>
  /\ next_call_number = 1

ServerRestart ==
  /\ connections' = <<>>
  /\ conn' = [p \in Peer |-> NoConn]
  /\ completions' = <<>> /\ to_run' = <<>>
  /\ next_call_number' = 1

-----------------------------------------------------------------------------
(* Calls.                                                                  *)

\* pump_calls(): the next call goes out when none is in flight.
Pumped(c) ==
  IF c.dead \/ ~c.registered \/ c.inflight # 0 \/ c.queued = <<>> THEN c
  ELSE [c EXCEPT !.inflight = Head(c.queued), !.queued = Tail(c.queued),
                 !.late = FALSE, !.told = Append(@, Head(c.queued))]

Provides(p, name) == conn[p].registered /\ ~conn[p].dead /\ name \in Offers[p]

has_tool(name) == \E i \in DOMAIN connections : Provides(connections[i], name)
tool_names     == {n \in Name : has_tool(n)}

FirstProvider(name) ==
  connections[CHOOSE i \in DOMAIN connections :
                /\ Provides(connections[i], name)
                /\ \A j \in 1 .. i - 1 : ~Provides(connections[j], name)]

Queued(c, id) == [c EXCEPT !.queued = Append(@, id)]

\* call(): queued at the first provider, and sent when that one is free.
Placed(cs, name, id) == [cs EXCEPT ![FirstProvider(name)] = Pumped(Queued(@, id))]

\* A mutant: only the call in flight is looked at.
AbandonedInFlightOnly(c, id) ==
  IF c.inflight = id THEN Pumped([c EXCEPT !.inflight = 0, !.late = FALSE]) ELSE c

\* abandon(): in flight, it is forgotten and the next one goes out; waiting,
\* it is taken off the queue; completed already, nothing is done.
AbandonedAt(c, id) ==
  IF c.inflight = id THEN Pumped([c EXCEPT !.inflight = 0, !.late = FALSE])
  ELSE [c EXCEPT !.queued = Only(@, ToSet(@) \ {id})]

\* One id after the other.
AbandonedAll(c, ids) ==
  LET after[i \in 0 .. Len(ids)] == IF i = 0 THEN c ELSE AbandonedAt(after[i - 1], ids[i])
  IN  after[Len(ids)]

Abandoned(cs, ids) == [p \in Peer |-> AbandonedAll(cs[p], ids)]

Completion(id, ok) == [id |-> id, ok |-> ok]

-----------------------------------------------------------------------------
(* Reading: any number of lines from any connection, before the sweep.     *)

Accept(p) ==
  /\ ~Connected(p)
  /\ Len(connections) < MAX_CONNECTIONS
  /\ connections' = Append(connections, p)
  /\ conn' = [conn EXCEPT ![p] = NoConn]
  /\ UNCHANGED <<completions, to_run, next_call_number>>

\* The first register line, or a later one with a new list.
ReadRegister(p) ==
  /\ Live(p)
  /\ conn' = [conn EXCEPT ![p].registered = TRUE]
  /\ UNCHANGED <<connections, completions, to_run, next_call_number>>

\* A line that is no register from a tool that has not registered, or a
\* field of the wrong type from one that has: the connection is given up.
ReadNonsense(p) ==
  /\ Live(p)
  /\ conn' = [conn EXCEPT ![p].dead = TRUE]
  /\ UNCHANGED <<connections, completions, to_run, next_call_number>>

\* The peer closed, or a read or a send failed.
ReadClosed(p) ==
  /\ Live(p)
  /\ conn' = [conn EXCEPT ![p].dead = TRUE]
  /\ UNCHANGED <<connections, completions, to_run, next_call_number>>

\* A mutant: any result is taken for the call it names.
ReadAnyResult(p, ok) ==
  /\ Live(p) /\ conn[p].registered /\ conn[p].told # <<>>
  /\ conn' = [conn EXCEPT ![p] = Pumped([@ EXCEPT !.told = Tail(@), !.inflight = 0, !.late = FALSE])]
  /\ completions' = Append(completions, Completion(Head(conn[p].told), ok))
  /\ UNCHANGED <<connections, to_run, next_call_number>>

\* A result counts only for the call in flight; the next call then goes out.
ReadResult(p, ok) ==
  /\ Live(p) /\ conn[p].registered /\ conn[p].told # <<>>
  /\ LET c  == [conn[p] EXCEPT !.told = Tail(@)]
         id == Head(conn[p].told)
     IN  IF c.inflight # id
         THEN /\ conn' = [conn EXCEPT ![p] = c]
              /\ UNCHANGED completions
         ELSE /\ conn' = [conn EXCEPT ![p] = Pumped([c EXCEPT !.inflight = 0, !.late = FALSE])]
              /\ completions' = Append(completions, Completion(id, ok))
  /\ UNCHANGED <<connections, to_run, next_call_number>>

-----------------------------------------------------------------------------
(* The sweep.                                                              *)

\* A mutant: a call waits for its tool for ever.
NeverTimedOut(c) == FALSE

TimedOut(c) == c.inflight # 0 /\ c.late

\* One connection through the second loop of service().  Silence is not held
\* against a tool while a call is in time.
SweptConn(c, silent) ==
  IF c.dead THEN c
  ELSE IF ~c.registered THEN [c EXCEPT !.dead = silent]
  ELSE LET pumped       == Pumped(IF TimedOut(c) THEN [c EXCEPT !.inflight = 0, !.late = FALSE] ELSE c)
           call_in_time == pumped.inflight # 0 /\ ~pumped.late
       IN  [pumped EXCEPT !.dead = ~call_in_time /\ silent]

\* The calls a retired connection takes with it complete as failed.
LostWith(c) == (IF c.inflight # 0 THEN <<c.inflight>> ELSE <<>>) \o c.queued

Sweep(silent) ==
  LET swept   == [p \in Peer |-> IF Connected(p) THEN SweptConn(conn[p], p \in silent) ELSE conn[p]]
      late    == Only(connections, {p \in Peer : ~conn[p].dead /\ TimedOut(conn[p])})
      gone    == Only(connections, {p \in Peer : swept[p].dead})
      expired == [i \in DOMAIN late |-> conn[late[i]].inflight]
      lost    == FlattenSeq([i \in DOMAIN gone |-> LostWith(swept[gone[i]])])
      failed  == expired \o lost
  IN  /\ to_run' = completions \o [i \in DOMAIN failed |-> Completion(failed[i], FALSE)]
      /\ completions' = <<>>
      /\ connections' = Only(connections, {p \in Peer : ~swept[p].dead})
      /\ conn' = [p \in Peer |-> IF swept[p].dead THEN NoConn ELSE swept[p]]
      /\ UNCHANGED next_call_number

-----------------------------------------------------------------------------
(* The clock.                                                              *)

CallGoesLate(p) ==
  /\ Live(p) /\ conn[p].inflight # 0 /\ ~conn[p].late
  /\ conn' = [conn EXCEPT ![p].late = TRUE]
  /\ UNCHANGED <<connections, completions, to_run, next_call_number>>
=============================================================================
