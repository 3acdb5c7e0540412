------------------------------- MODULE OlliLink -------------------------------
(* The client side of the tool protocol (tools/olli_link): a tool program    *)
(* holds one OLLI_LINK to olli and one to subcon and services both on every  *)
(* turn of its main loop.  link[l] is the object; far[l] is the rest of the  *)
(* world: the server's process, its end of the connection and what waits to  *)
(* be read there: messages, in order, and pings and pongs, whose order among *)
(* them tells nothing.  Time runs in heartbeats of PING_INTERVAL_SECONDS.    *)
EXTENDS Integers, Sequences

CONSTANTS
  PING,      \* PING_INTERVAL_SECONDS, in heartbeats
  DEAD,      \* DEAD_TIMEOUT_SECONDS, in heartbeats
  MaxDrops   \* bound: connections cut, servers stopped and whatever else upsets a tool

ASSUME OlliLinkAssumption == PING \in Nat \ {0} /\ DEAD \in Nat \ {0} /\ MaxDrops \in Nat

Links == {"olli", "subcon"}

VARIABLES link, far, drops
linkVars == <<link, far, drops>>

LinkInit ==
  /\ link = [l \in Links |-> [sock |-> FALSE, disconnected_flag |-> FALSE, incoming |-> <<>>,
                              silence |-> 0, idle |-> 0, due |-> TRUE]]
  /\ far = [l \in Links |-> [up |-> TRUE, peer |-> "none", unread |-> <<>>, beats |-> {}, eof |-> FALSE]]
  /\ drops = 0

-----------------------------------------------------------------------------
(* service(): what one turn makes of a link, as a pair of records *)

Now(l) == [k |-> link[l], f |-> far[l]]

handle_disconnect(x) ==
  [k |-> [x.k EXCEPT !.sock = FALSE, !.disconnected_flag = TRUE, !.silence = 0, !.idle = 0],
   f |-> [x.f EXCEPT !.peer = "none", !.unread = <<>>, !.beats = {}, !.eof = FALSE]]

\* A connection is tried once per RECONNECT_INTERVAL_SECONDS; register goes out at once.
try_connect(x) ==
  IF ~x.k.due THEN x
  ELSE IF ~x.f.up THEN [x EXCEPT !.k.due = FALSE]
  ELSE [k |-> [x.k EXCEPT !.sock = TRUE, !.due = FALSE, !.silence = 0, !.idle = 0],
        f |-> [x.f EXCEPT !.peer = "new", !.unread = <<>>, !.beats = {}, !.eof = FALSE]]

NothingToRead(f) == f.unread = <<>> /\ f.beats = {}

\* One read takes what is there, a ping being answered and messages queued; the
\* end of the stream is seen by a later one.
read_lines(x) ==
  IF ~NothingToRead(x.f)
    THEN [k |-> [x.k EXCEPT !.silence = 0, !.incoming = @ \o x.f.unread,
                            !.idle = IF "ping" \in x.f.beats THEN 0 ELSE @],
          f |-> [x.f EXCEPT !.unread = <<>>, !.beats = {}]]
  ELSE IF x.f.eof THEN handle_disconnect(x) ELSE x

\* No ping while a call read in this turn waits for its answer.  A server that
\* holds the connection answers a ping; one too busy to is as good as gone.
heartbeat(x) ==
  LET pinged == x.k.incoming = <<>> /\ x.k.idle >= PING
      y == IF ~pinged THEN x
           ELSE [k |-> [x.k EXCEPT !.idle = 0],
                 f |-> IF x.f.peer # "none"
                         THEN [x.f EXCEPT !.beats = @ \union {"pong"}] ELSE x.f]
  IN  IF ~x.k.sock THEN x
      ELSE IF y.k.silence >= DEAD THEN handle_disconnect(y) ELSE y

service(l) ==
  heartbeat(IF link[l].sock THEN read_lines(Now(l)) ELSE try_connect(Now(l)))

\* The service of both links at the top of a turn.
Serviced == [l \in Links |-> service(l)]

ServiceLinks ==
  /\ link' = [l \in Links |-> [Serviced[l].k EXCEPT !.disconnected_flag = FALSE]]
  /\ far' = [l \in Links |-> Serviced[l].f]
  /\ UNCHANGED drops

\* Both flags are consumed, whatever the first link says: the tool's per-profile
\* state has to go when a link has just dropped and neither is left.
all_links_dropped ==
  /\ \E l \in Links : Serviced[l].k.disconnected_flag
  /\ \A l \in Links : ~Serviced[l].k.sock

\* next_message(): olli's messages are drained before subcon's.
HasMessage(l) == link[l].incoming # <<>> /\ (l = "olli" \/ link["olli"].incoming = <<>>)
Drained       == \A l \in Links : link[l].incoming = <<>>
Message(l)    == Head(link[l].incoming)

\* next_message() and the answer sent on the same link.
Answered(l) == link' = [link EXCEPT ![l].incoming = Tail(@), ![l].idle = 0]

\* send_event(): nothing without a connection; a write into one whose other end
\* is gone is lost and not noticed.
Sends(l) == link[l].sock
Heard(l) == link[l].sock /\ far[l].peer # "none"

-----------------------------------------------------------------------------
(* The world *)

\* A server says something on the connection it holds.
Says(l, m) == far' = [far EXCEPT ![l].unread = Append(@, m)] /\ UNCHANGED link

CanSay(l) == far[l].peer = "ready" /\ NothingToRead(far[l]) /\ link[l].incoming = <<>>

\* A server has taken the registration in and tells the tool who its user is.
Welcome(l, name) ==
  /\ far[l].peer = "new"
  /\ far' = [far EXCEPT ![l].peer = "ready",
                        ![l].unread = Append(@, [type |-> "identity", name |-> name])]
  /\ UNCHANGED link

Upset == drops < MaxDrops /\ drops' = drops + 1
Cut(l, f) == Upset /\ far' = [far EXCEPT ![l] = f] /\ UNCHANGED link

\* The server closes the connection, or its process ends: what it wrote is still read.
Closes(l) == far[l].peer # "none" /\ Cut(l, [far[l] EXCEPT !.peer = "none", !.eof = TRUE])
Stops(l)  == far[l].up /\ Cut(l, [far[l] EXCEPT !.up = FALSE, !.peer = "none",
                                                !.eof = far[l].peer # "none"])
\* The network goes: no end of stream ever arrives.
Vanishes(l) == far[l].peer # "none" /\ Cut(l, [far[l] EXCEPT !.peer = "none"])

\* What may happen to the connection of any tool at any time.
LinkFault == \E l \in Links : Closes(l) \/ Vanishes(l)

Starts(l) == ~far[l].up /\ far' = [far EXCEPT ![l].up = TRUE] /\ UNCHANGED <<link, drops>>

\* A heartbeat of time, at the end of which a server may ping.  The loop turns
\* every 200 ms: what waits is read before.
Least(a, b) == IF a < b THEN a ELSE b
TimePasses ==
  /\ \A l \in Links : link[l].sock => NothingToRead(far[l])
  /\ link' = [l \in Links |-> [link[l] EXCEPT !.silence = IF link[l].sock THEN Least(@ + 1, DEAD) ELSE 0,
                                              !.idle = IF link[l].sock THEN Least(@ + 1, PING) ELSE 0,
                                              !.due = TRUE]]
  /\ \E pinging \in SUBSET {l \in Links : CanSay(l)} :
       far' = [l \in Links |-> IF l \in pinging
                               THEN [far[l] EXCEPT !.beats = {"ping"}] ELSE far[l]]
  /\ UNCHANGED drops

\* A tool that keeps no time of its own needs it only while a link is down, or
\* dead and not noticed yet: heartbeats on links that stand change nothing else.
LinksWanting == \E l \in Links : ~Heard(l)
=============================================================================
