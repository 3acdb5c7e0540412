------------------------------ MODULE ToolProofs ------------------------------
(* Proofs about the tool programs: what each does with two links that are cut *)
(* at any moment, servers that stop and start, and calls in any order; and     *)
(* about the document database and its two programs.                          *)
EXTENDS Clock, Presence, Hue, Mail, Rag, SeqLemmas, SequenceTheorems, FiniteSetTheorems, TLAPS

USE OlliLinkAssumption
USE DEF linkVars

-----------------------------------------------------------------------------
(* The links.  M is the set of messages the servers send.  At most one message *)
(* is under way on a link, and none is queued at the top of a turn.            *)

Ends(M)  == [sock : BOOLEAN, disconnected_flag : BOOLEAN, incoming : Seq(M),
             silence : Nat, idle : Nat, due : BOOLEAN]
Peers(M) == [up : BOOLEAN, peer : {"none", "new", "ready"}, unread : Seq(M),
             beats : SUBSET {"ping", "pong"}, eof : BOOLEAN]

\* One message at most, and nothing unread behind a queued one or on a connection
\* whose registration has not been taken in; who is connected has a socket here.
EndOK(M, k, f) ==
  /\ k \in Ends(M) /\ f \in Peers(M)
  /\ k.incoming = <<>> \/ \E m \in M : k.incoming = <<m>>
  /\ f.unread = <<>> \/ \E m \in M : f.unread = <<m>>
  /\ k.incoming # <<>> => f.unread = <<>> /\ f.peer # "new" /\ k.sock
  /\ f.peer = "new" => f.unread = <<>>
  /\ f.peer # "none" \/ f.unread # <<>> => k.sock

LinkOK(M) == /\ link \in [Links -> Ends(M)] /\ far \in [Links -> Peers(M)]
             /\ drops \in Nat
             /\ \A l \in Links : EndOK(M, link[l], far[l])

\* A call that has not been answered yet.
Pending(l, m) == m.type = "call" /\ (far[l].unread = <<m>> \/ link[l].incoming = <<m>>)

\* What a service makes of one end.
ServedOK(M, k, f, y) ==
  /\ EndOK(M, y.k, y.f) /\ y.f.unread = <<>>
  /\ y.k.incoming \in {<<>>, f.unread}
  /\ y.k.incoming # <<>> => k.sock
  /\ k.sock /\ y.k.sock => y.f.peer = f.peer /\ y.k.incoming = f.unread
  /\ ~k.sock /\ y.k.sock => y.f.peer = "new"

LEMMA DisconnectKeeps ==
  ASSUME NEW M, NEW k, NEW f, EndOK(M, k, f), k.incoming = <<>>
  PROVE  LET y == handle_disconnect([k |-> k, f |-> f])
         IN  EndOK(M, y.k, y.f) /\ ~y.k.sock /\ y.k.incoming = <<>> /\ y.f.unread = <<>>
             /\ y.f.peer = "none"
<1>1. <<>> \in Seq(M)
  BY EmptySeq
<1>2. QED BY <1>1 DEF handle_disconnect, EndOK, Ends, Peers

LEMMA ReadKeeps ==
  ASSUME NEW M, NEW k, NEW f, EndOK(M, k, f), k.incoming = <<>>, k.sock
  PROVE  LET y == read_lines([k |-> k, f |-> f])
         IN  /\ ServedOK(M, k, f, y)
             /\ y.k.incoming # <<>> => y.k.silence = 0
<1>. DEFINE x == [k |-> k, f |-> f]
<1>1. /\ x.k = k /\ x.f = f /\ k \in Ends(M) /\ f \in Peers(M)
      /\ f.unread \in Seq(M) /\ <<>> \in Seq(M)
  BY EmptySeq DEF EndOK, Peers
<1>2. CASE NothingToRead(f)
  <2>1. f.unread = <<>>
    BY <1>2 DEF NothingToRead
  <2>2. read_lines(x) \in {x, handle_disconnect(x)}
    BY <1>1, <1>2 DEF read_lines
  <2>3. ServedOK(M, k, f, x)
    BY <1>1, <2>1 DEF ServedOK, EndOK
  <2>4. ServedOK(M, k, f, handle_disconnect(x)) /\ handle_disconnect(x).k.incoming = <<>>
    BY <2>1, DisconnectKeeps DEF ServedOK
  <2>5. QED BY <1>1, <2>2, <2>3, <2>4
<1>3. CASE ~NothingToRead(f)
  <2>. DEFINE K == [k EXCEPT !.silence = 0, !.incoming = f.unread,
                             !.idle = IF "ping" \in f.beats THEN 0 ELSE @]
              F == [f EXCEPT !.unread = <<>>, !.beats = {}]
  <2>1. k.incoming \o f.unread = f.unread
    BY <1>1, ConcatEmptySeq
  <2>2. read_lines(x) = [k |-> K, f |-> F]
    BY <1>1, <1>3, <2>1 DEF read_lines
  <2>3. K \in Ends(M) /\ K.incoming = f.unread /\ K.sock = k.sock /\ K.silence = 0
    BY <1>1 DEF Ends
  <2>4. F \in Peers(M) /\ F.unread = <<>> /\ F.peer = f.peer
    BY <1>1 DEF Peers
  <2>. HIDE DEF K, F
  <2>5. EndOK(M, K, F)
    BY <2>3, <2>4 DEF EndOK
  <2>6. [k |-> K, f |-> F].k = K /\ [k |-> K, f |-> F].f = F
    OBVIOUS
  <2>7. QED BY <1>1, <2>2, <2>3, <2>4, <2>5, <2>6 DEF ServedOK
<1>4. QED BY <1>2, <1>3

LEMMA ConnectKeeps ==
  ASSUME NEW M, NEW k, NEW f, EndOK(M, k, f), k.incoming = <<>>, ~k.sock
  PROVE  LET y == try_connect([k |-> k, f |-> f])
         IN  ServedOK(M, k, f, y) /\ y.k.incoming = <<>>
<1>. DEFINE x == [k |-> k, f |-> f]
            K == [k EXCEPT !.sock = TRUE, !.due = FALSE, !.silence = 0, !.idle = 0]
            D == [k EXCEPT !.due = FALSE]
            F == [f EXCEPT !.peer = "new", !.unread = <<>>, !.beats = {}, !.eof = FALSE]
<1>1. /\ x.k = k /\ x.f = f /\ k \in Ends(M) /\ f \in Peers(M)
      /\ f.unread = <<>> /\ <<>> \in Seq(M)
  BY EmptySeq DEF EndOK
<1>2. try_connect(x) \in {x, [k |-> D, f |-> f], [k |-> K, f |-> F]}
  BY <1>1 DEF try_connect
<1>3. K \in Ends(M) /\ K.incoming = <<>> /\ K.sock /\ D \in Ends(M) /\ D.incoming = <<>> /\ ~D.sock
  BY <1>1 DEF Ends
<1>4. F \in Peers(M) /\ F.unread = <<>> /\ F.peer = "new"
  BY <1>1 DEF Peers
<1>. HIDE DEF K, D, F
<1>5. EndOK(M, K, F) /\ EndOK(M, D, f)
  BY <1>1, <1>3, <1>4 DEF EndOK
<1>6. /\ [k |-> K, f |-> F].k = K /\ [k |-> K, f |-> F].f = F
      /\ [k |-> D, f |-> f].k = D /\ [k |-> D, f |-> f].f = f
  OBVIOUS
<1>7. QED BY <1>1, <1>2, <1>3, <1>4, <1>5, <1>6 DEF ServedOK

LEMMA HeartbeatKeeps ==
  ASSUME NEW M, NEW k, NEW f, EndOK(M, k, f), f.unread = <<>>,
         k.incoming # <<>> => k.silence = 0
  PROVE  LET y == heartbeat([k |-> k, f |-> f])
         IN  /\ EndOK(M, y.k, y.f) /\ y.f.unread = <<>> /\ y.k.incoming = k.incoming
             /\ y.k.sock => y.f.peer = f.peer /\ k.sock
<1>. DEFINE x == [k |-> k, f |-> f]
            pinged == x.k.incoming = <<>> /\ x.k.idle >= PING
            K == [k EXCEPT !.idle = 0]
            F == [f EXCEPT !.beats = @ \union {"pong"}]
            y == IF ~pinged THEN x
                 ELSE [k |-> [x.k EXCEPT !.idle = 0],
                       f |-> IF x.f.peer # "none"
                               THEN [x.f EXCEPT !.beats = @ \union {"pong"}] ELSE x.f]
<1>1. x.k = k /\ x.f = f /\ k \in Ends(M) /\ f \in Peers(M)
  BY DEF EndOK
<1>2. heartbeat(x) = IF ~k.sock THEN x
                     ELSE IF y.k.silence >= DEAD THEN handle_disconnect(y) ELSE y
  BY <1>1 DEF heartbeat
<1>3. /\ K \in Ends(M) /\ K.incoming = k.incoming /\ K.sock = k.sock /\ K.silence = k.silence
      /\ F \in Peers(M) /\ F.unread = f.unread /\ F.peer = f.peer
  BY <1>1 DEF Ends, Peers
<1>4. y \in {x, [k |-> K, f |-> F], [k |-> K, f |-> f]}
  BY <1>1
<1>5. /\ [k |-> K, f |-> F].k = K /\ [k |-> K, f |-> F].f = F
      /\ [k |-> K, f |-> f].k = K /\ [k |-> K, f |-> f].f = f
  OBVIOUS
<1>. HIDE DEF K, F, y
<1>6. /\ EndOK(M, y.k, y.f) /\ y.f.unread = <<>> /\ y.k.incoming = k.incoming
      /\ y.k.sock = k.sock /\ y.f.peer = f.peer /\ y.k.silence = k.silence
      /\ y = [k |-> y.k, f |-> y.f]
  BY <1>1, <1>3, <1>4, <1>5 DEF EndOK
<1>7. CASE k.incoming # <<>>
  <2>1. ~(y.k.silence >= DEAD)
    BY <1>6, <1>7 DEF OlliLinkAssumption
  <2>2. QED BY <1>1, <1>2, <1>6, <2>1
<1>8. CASE k.incoming = <<>>
  <2>1. /\ EndOK(M, handle_disconnect(y).k, handle_disconnect(y).f)
        /\ ~handle_disconnect(y).k.sock /\ handle_disconnect(y).k.incoming = <<>>
        /\ handle_disconnect(y).f.unread = <<>>
    BY <1>6, <1>8, DisconnectKeeps
  <2>2. QED BY <1>1, <1>2, <1>6, <1>8, <2>1
<1>9. QED BY <1>7, <1>8

LEMMA ServiceOne ==
  ASSUME NEW M, NEW l \in Links, LinkOK(M), link[l].incoming = <<>>
  PROVE  ServedOK(M, link[l], far[l], service(l))
<1>. DEFINE k == link[l]
            f == far[l]
            x == IF k.sock THEN read_lines([k |-> k, f |-> f]) ELSE try_connect([k |-> k, f |-> f])
<1>1. EndOK(M, k, f) /\ k.incoming = <<>>
  BY DEF LinkOK
<1>2. service(l) = heartbeat(x)
  BY DEF service, Now
<1>. HIDE DEF k, f
<1>3. ServedOK(M, k, f, x) /\ (x.k.incoming # <<>> => x.k.silence = 0)
  BY <1>1, ReadKeeps, ConnectKeeps
<1>4. x = [k |-> x.k, f |-> x.f]
  BY DEF read_lines, try_connect, handle_disconnect
<1>. HIDE DEF x
<1>5. /\ EndOK(M, heartbeat(x).k, heartbeat(x).f) /\ heartbeat(x).f.unread = <<>>
      /\ heartbeat(x).k.incoming = x.k.incoming
      /\ heartbeat(x).k.sock => heartbeat(x).f.peer = x.f.peer /\ x.k.sock
  BY <1>3, <1>4, HeartbeatKeeps DEF ServedOK
<1>6. ServedOK(M, k, f, heartbeat(x))
  BY <1>3, <1>5 DEF ServedOK
<1>7. QED BY <1>2, <1>6 DEF k, f

LEMMA StartOK ==
  ASSUME NEW M, LinkInit
  PROVE  LinkOK(M) /\ Drained /\ \A l \in Links : far[l].unread = <<>> /\ far[l].peer = "none" /\ ~link[l].sock
<1>1. <<>> \in Seq(M)
  BY EmptySeq
<1>2. QED BY <1>1 DEF LinkInit, LinkOK, EndOK, Ends, Peers, Drained

\* What was waiting to be read is queued, or lost with its connection.
LEMMA ServiceKeeps ==
  ASSUME NEW M, LinkOK(M), Drained, ServiceLinks
  PROVE  /\ LinkOK(M)'
         /\ \A l \in Links : /\ far'[l].unread = <<>>
                             /\ link'[l].incoming \in {<<>>, far[l].unread}
                             /\ link'[l].incoming # <<>> => link[l].sock /\ link'[l].sock
                             /\ link[l].sock /\ link'[l].sock =>
                                  far'[l].peer = far[l].peer /\ link'[l].incoming = far[l].unread
                             /\ ~link[l].sock /\ link'[l].sock => far'[l].peer = "new"
<1>1. \A l \in Links : ServedOK(M, link[l], far[l], service(l))
  BY ServiceOne DEF Drained
<1>2. ASSUME NEW l \in Links
      PROVE  /\ EndOK(M, link'[l], far'[l])
             /\ link'[l].incoming = service(l).k.incoming
             /\ link'[l].sock = service(l).k.sock
             /\ far'[l] = service(l).f
  <2>1. service(l).k \in Ends(M) /\ EndOK(M, service(l).k, service(l).f)
    BY <1>1 DEF ServedOK, EndOK
  <2>2. /\ link'[l] = [service(l).k EXCEPT !.disconnected_flag = FALSE]
        /\ far'[l] = service(l).f
    BY DEF ServiceLinks, Serviced
  <2>. DEFINE k == service(l).k
              f == service(l).f
  <2>. HIDE DEF k, f
  <2>3. /\ [k EXCEPT !.disconnected_flag = FALSE] \in Ends(M)
        /\ [k EXCEPT !.disconnected_flag = FALSE].incoming = k.incoming
        /\ [k EXCEPT !.disconnected_flag = FALSE].sock = k.sock
    BY <2>1 DEF Ends, k
  <2>4. EndOK(M, k, f)
    BY <2>1 DEF k, f
  <2>5. EndOK(M, [k EXCEPT !.disconnected_flag = FALSE], f)
    BY <2>3, <2>4 DEF EndOK
  <2>6. QED BY <2>2, <2>3, <2>5 DEF k, f
<1>3. LinkOK(M)'
  <2>1. link' \in [Links -> Ends(M)] /\ far' \in [Links -> Peers(M)]
    BY <1>2 DEF ServiceLinks, EndOK
  <2>2. drops' \in Nat
    BY DEF ServiceLinks, LinkOK
  <2>3. QED BY <1>2, <2>1, <2>2 DEF LinkOK
<1>4. QED BY <1>1, <1>2, <1>3 DEF ServedOK, EndOK

LEMMA TakeKeeps ==
  ASSUME NEW M, LinkOK(M), NEW l \in Links, link[l].incoming # <<>>,
         \/ link' = [link EXCEPT ![l].incoming = Tail(@)]
         \/ Answered(l),
         UNCHANGED <<far, drops>>
  PROVE  /\ LinkOK(M)'
         /\ Message(l) \in M /\ link[l].incoming = <<Message(l)>> /\ link'[l].incoming = <<>>
         /\ \A o \in Links : link'[o].sock = link[o].sock /\ (o # l => link'[o] = link[o])
<1>. DEFINE k == link[l]
<1>1. PICK m \in M : k.incoming = <<m>>
  BY DEF LinkOK, EndOK
<1>2. Head(<<m>>) = m /\ Tail(<<m>>) = <<>> /\ <<>> \in Seq(M)
  BY EmptySeq
<1>3. k \in Ends(M) /\ EndOK(M, k, far[l])
  BY DEF LinkOK
<1>4. link'[l] \in {[k EXCEPT !.incoming = <<>>], [k EXCEPT !.incoming = <<>>, !.idle = 0]}
      /\ link' = [link EXCEPT ![l] = link'[l]]
  BY <1>1, <1>2 DEF LinkOK, Answered
<1>. DEFINE a == [k EXCEPT !.incoming = <<>>]
            b == [k EXCEPT !.incoming = <<>>, !.idle = 0]
<1>5. link'[l] \in Ends(M) /\ link'[l].incoming = <<>> /\ link'[l].sock = k.sock
  <2>1. a \in Ends(M) /\ a.incoming = <<>> /\ a.sock = k.sock
    BY <1>2, <1>3 DEF Ends
  <2>2. b \in Ends(M) /\ b.incoming = <<>> /\ b.sock = k.sock
    BY <1>2, <1>3 DEF Ends
  <2>. HIDE DEF a, b
  <2>3. QED BY <1>4, <2>1, <2>2 DEF a, b
<1>6. EndOK(M, link'[l], far[l])
  BY <1>3, <1>5 DEF EndOK
<1>7. QED BY <1>1, <1>2, <1>4, <1>5, <1>6 DEF LinkOK, Message

LEMMA IdleKeeps ==
  ASSUME NEW M, LinkOK(M), NEW l \in Links, link' = [link EXCEPT ![l].idle = 0],
         UNCHANGED <<far, drops>>
  PROVE  /\ LinkOK(M)'
         /\ \A o \in Links : link'[o].sock = link[o].sock /\ link'[o].incoming = link[o].incoming
<1>. DEFINE k == link[l]
<1>1. k \in Ends(M) /\ EndOK(M, k, far[l]) /\ link' = [link EXCEPT ![l] = [k EXCEPT !.idle = 0]]
  BY DEF LinkOK
<1>2. /\ [k EXCEPT !.idle = 0] \in Ends(M) /\ [k EXCEPT !.idle = 0].incoming = k.incoming
      /\ [k EXCEPT !.idle = 0].sock = k.sock
  BY <1>1 DEF Ends
<1>3. EndOK(M, [k EXCEPT !.idle = 0], far[l])
  BY <1>1, <1>2 DEF EndOK
<1>4. QED BY <1>1, <1>2, <1>3 DEF LinkOK

\* The world touches the far end of one link.
LEMMA FarKeeps ==
  ASSUME NEW M, LinkOK(M), NEW l \in Links, NEW g, far' = [far EXCEPT ![l] = g],
         EndOK(M, link[l], g), link' = link, drops' \in Nat
  PROVE  LinkOK(M)' /\ far'[l] = g
BY DEF LinkOK, EndOK

LEMMA SaysKeeps ==
  ASSUME NEW M, LinkOK(M), NEW l \in Links, NEW m \in M, CanSay(l), Says(l, m), drops' \in Nat
  PROVE  /\ LinkOK(M)' /\ UNCHANGED link /\ far'[l].unread = <<m>> /\ far[l].unread = <<>>
         /\ link[l].incoming = <<>> /\ far[l].peer = "ready"
         /\ \A o \in Links : far'[o].peer = far[o].peer /\ (o # l => far'[o] = far[o])
<1>. DEFINE f == far[l]
            g == [f EXCEPT !.unread = <<m>>]
<1>1. EndOK(M, link[l], f) /\ f \in Peers(M) /\ f.unread = <<>> /\ f.peer = "ready" /\ link[l].incoming = <<>>
  BY DEF LinkOK, EndOK, CanSay, NothingToRead
<1>2. Append(<<>>, m) = <<m>> /\ <<m>> \in Seq(M)
  OBVIOUS
<1>3. far' = [far EXCEPT ![l] = g] /\ link' = link
  BY <1>1, <1>2 DEF Says, LinkOK
<1>4. g \in Peers(M) /\ g.unread = <<m>> /\ g.peer = "ready"
  BY <1>1, <1>2 DEF Peers
<1>. HIDE DEF g
<1>5. EndOK(M, link[l], g)
  BY <1>1, <1>4 DEF EndOK
<1>6. LinkOK(M)' /\ far'[l] = g
  BY <1>3, <1>5, FarKeeps
<1>7. QED BY <1>1, <1>3, <1>4, <1>6 DEF LinkOK

LEMMA WelcomeKeeps ==
  ASSUME NEW M, LinkOK(M), NEW l \in Links, NEW n, [type |-> "identity", name |-> n] \in M,
         Welcome(l, n), drops' \in Nat
  PROVE  /\ LinkOK(M)' /\ UNCHANGED link
         /\ far'[l].unread = <<[type |-> "identity", name |-> n]>>
         /\ link[l].incoming = <<>>
         /\ far[l].peer = "new" /\ \A o \in Links : o # l => far'[o] = far[o]
<1>. DEFINE f == far[l]
            m == [type |-> "identity", name |-> n]
            g == [f EXCEPT !.peer = "ready", !.unread = <<m>>]
<1>1. EndOK(M, link[l], f) /\ f \in Peers(M) /\ f.unread = <<>> /\ f.peer = "new" /\ link[l].incoming = <<>>
  BY DEF LinkOK, EndOK, Welcome
<1>2. Append(<<>>, m) = <<m>> /\ <<m>> \in Seq(M)
  OBVIOUS
<1>3. far' = [far EXCEPT ![l] = g] /\ link' = link
  BY <1>1, <1>2 DEF Welcome, LinkOK
<1>4. g \in Peers(M) /\ g.unread = <<m>> /\ g.peer = "ready"
  BY <1>1, <1>2 DEF Peers
<1>. HIDE DEF g
<1>5. EndOK(M, link[l], g)
  BY <1>1, <1>4 DEF EndOK
<1>6. LinkOK(M)' /\ far'[l] = g
  BY <1>3, <1>5, FarKeeps
<1>7. QED BY <1>1, <1>3, <1>4, <1>6 DEF LinkOK

\* A fault takes a connection, never a message that waits to be read.
LEMMA FaultKeeps ==
  ASSUME NEW M, LinkOK(M), LinkFault \/ \E l \in Links : Stops(l) \/ Starts(l)
  PROVE  /\ LinkOK(M)' /\ UNCHANGED link
         /\ \A l \in Links : /\ far'[l].unread = far[l].unread
                             /\ far'[l].peer \in {far[l].peer, "none"}
<1>1. PICK l \in Links : Closes(l) \/ Vanishes(l) \/ Stops(l) \/ Starts(l)
  BY DEF LinkFault
<1>. DEFINE f == far[l]
<1>2. EndOK(M, link[l], f) /\ f \in Peers(M) /\ drops' \in Nat /\ link' = link
  <2>1. EndOK(M, link[l], f) /\ f \in Peers(M) /\ drops \in Nat
    BY DEF LinkOK
  <2>2. drops' \in {drops, drops + 1} /\ link' = link
    BY <1>1 DEF Closes, Vanishes, Stops, Starts, Cut, Upset
  <2>3. QED BY <2>1, <2>2
<1>3. PICK g : /\ far' = [far EXCEPT ![l] = g]
               /\ g \in {[f EXCEPT !.peer = "none", !.eof = TRUE], [f EXCEPT !.peer = "none"],
                         [f EXCEPT !.up = FALSE, !.peer = "none", !.eof = f.peer # "none"],
                         [f EXCEPT !.up = TRUE]}
  <2>1. CASE Closes(l)
    BY <2>1 DEF Closes, Cut
  <2>2. CASE Vanishes(l)
    BY <2>2 DEF Vanishes, Cut
  <2>3. CASE Stops(l)
    BY <2>3 DEF Stops, Cut
  <2>4. CASE Starts(l)
    BY <2>4 DEF Starts, LinkOK
  <2>5. QED BY <1>1, <2>1, <2>2, <2>3, <2>4
<1>4. g \in Peers(M) /\ g.unread = f.unread /\ g.peer \in {f.peer, "none"}
  BY <1>2, <1>3 DEF Peers
<1>5. EndOK(M, link[l], g)
  BY <1>2, <1>4 DEF EndOK
<1>6. LinkOK(M)' /\ far'[l] = g
  BY <1>2, <1>3, <1>5, FarKeeps
<1>7. QED BY <1>2, <1>3, <1>4, <1>6 DEF LinkOK

LEMMA TimeKeeps ==
  ASSUME NEW M, LinkOK(M), TimePasses
  PROVE  /\ LinkOK(M)'
         /\ \A l \in Links : /\ link'[l].sock = link[l].sock /\ link'[l].incoming = link[l].incoming
                             /\ far'[l].unread = far[l].unread /\ far'[l].peer = far[l].peer
<1>1. ASSUME NEW l \in Links
      PROVE  /\ link'[l] \in Ends(M) /\ link'[l].sock = link[l].sock
             /\ link'[l].incoming = link[l].incoming
  <2>. DEFINE k == link[l]
  <2>1. PICK u \in Nat, v \in Nat : link'[l] = [k EXCEPT !.silence = u, !.idle = v, !.due = TRUE]
    <3>1. k \in Ends(M)
      BY DEF LinkOK
    <3>2. k.silence \in Nat /\ k.idle \in Nat
      BY <3>1 DEF Ends
    <3>3. /\ (IF k.sock THEN Least(k.silence + 1, DEAD) ELSE 0) \in Nat
          /\ (IF k.sock THEN Least(k.idle + 1, PING) ELSE 0) \in Nat
      BY <3>2 DEF Least, OlliLinkAssumption
    <3>4. link'[l] = [k EXCEPT !.silence = IF k.sock THEN Least(k.silence + 1, DEAD) ELSE 0,
                               !.idle = IF k.sock THEN Least(k.idle + 1, PING) ELSE 0, !.due = TRUE]
      BY <3>1 DEF TimePasses, Ends
    <3>5. QED BY <3>3, <3>4
  <2>2. k \in Ends(M)
    BY DEF LinkOK
  <2>3. QED BY <2>1, <2>2 DEF Ends
<1>2. ASSUME NEW l \in Links
      PROVE  far'[l] \in Peers(M) /\ far'[l].unread = far[l].unread /\ far'[l].peer = far[l].peer
  <2>. DEFINE f == far[l]
  <2>1. f \in Peers(M)
    BY DEF LinkOK
  <2>2. far'[l] \in {f, [f EXCEPT !.beats = {"ping"}]}
    BY DEF TimePasses
  <2>3. QED BY <2>1, <2>2 DEF Peers
<1>3. link' \in [Links -> Ends(M)] /\ far' \in [Links -> Peers(M)]
  <2>1. \E a, b : link' = [l \in Links |-> [link[l] EXCEPT !.silence = IF link[l].sock THEN Least(@ + 1, DEAD) ELSE 0,
                                              !.idle = IF link[l].sock THEN Least(@ + 1, PING) ELSE 0,
                                              !.due = TRUE]]
    BY DEF TimePasses
  <2>2. PICK pinging : far' = [l \in Links |-> IF l \in pinging
                               THEN [far[l] EXCEPT !.beats = {"ping"}] ELSE far[l]]
    BY DEF TimePasses
  <2>3. QED BY <1>1, <1>2, <2>1, <2>2
<1>4. drops' \in Nat
  BY DEF TimePasses, LinkOK
<1>5. \A l \in Links : EndOK(M, link'[l], far'[l])
  BY <1>1, <1>2 DEF LinkOK, EndOK
<1>6. QED BY <1>1, <1>2, <1>3, <1>4, <1>5 DEF LinkOK

-----------------------------------------------------------------------------
(* Mail *)

MailMessages == [type : {"identity"}, name : MailProfiles]
                  \union [type : {"call"}, name : {"set_mail_action"}, want : {"show", "set", "clear"}]
MailStates == [have_baseline : BOOLEAN, uidvalidity : Nat, uidnext : Nat, pending : BOOLEAN]

\* A turn ends with every message taken.
MailLinks == /\ LinkOK(MailMessages)
             /\ mail_pc \in {"service", "drain", "tell", "sent"}
             /\ mail_pc # "drain" => Drained
             /\ mail_owner \in [Links -> MailProfiles]

MailTyped == /\ profile_name \in MailProfiles \union {NoMailProfile}
             /\ state \in MailStates /\ rule \in BOOLEAN
             /\ check \in [of : MailProfiles \union {NoMailProfile}, ready : BOOLEAN,
                           uidvalidity : Nat, uidnext : Nat]
             /\ inbox \in [MailProfiles -> [uidvalidity : Nat, uidnext : Nat]]
             /\ mail_files \in [MailProfiles -> [state : MailStates, rule : BOOLEAN]]
             /\ owed \subseteq MailProfiles

\* What is in memory is what the loaded profile has on disk; an event that has
\* gone out is owed no more, whether that has been noted or not.
MailSaved == /\ Told => state = mail_files[profile_name].state
             /\ mail_pc \in {"tell", "sent"} => Told
             /\ mail_pc = "sent" => profile_name \notin owed

MailIInv == MailLinks /\ MailTyped /\ MailSaved /\ MailKept

MailAll == MailNext \/ (LinkFault /\ UNCHANGED mailVars)

LEMMA MailInitial == ASSUME LinkInit, MailInit PROVE MailIInv
<1>1. LinkOK(MailMessages) /\ Drained
  BY StartOK
<1>2. MailState \in MailStates
  BY DEF MailState, MailStates
<1>3. MailLinks
  BY <1>1 DEF MailLinks, MailInit
<1>4. MailTyped
  <2>1. inbox \in [MailProfiles -> [uidvalidity : Nat, uidnext : Nat]]
    BY DEF MailInit
  <2>2. mail_files \in [MailProfiles -> [state : MailStates, rule : BOOLEAN]]
    BY <1>2 DEF MailInit
  <2>3. check \in [of : MailProfiles \union {NoMailProfile}, ready : BOOLEAN,
                   uidvalidity : Nat, uidnext : Nat]
    BY DEF MailInit, NoCheck
  <2>4. QED BY <1>2, <2>1, <2>2, <2>3 DEF MailTyped, MailInit
<1>5. MailSaved /\ MailKept
  BY DEF MailSaved, MailKept, MailInit, Told
<1>6. QED BY <1>3, <1>4, <1>5 DEF MailIInv

LEMMA MailLinksKept ==
  ASSUME MailLinks, MailAll
  PROVE  MailLinks'
<1>. USE DEF MailLinks, Drained
<1>1. CASE MailService
  BY <1>1, ServiceKeeps DEF MailService
<1>2. ASSUME NEW l \in Links, MailMessage(l) PROVE MailLinks'
  <2>1. \/ link' = [link EXCEPT ![l].incoming = Tail(@)]
        \/ Answered(l)
    BY <1>2 DEF MailMessage, handle_mail_identity, handle_set_mail_action
  <2>2. link[l].incoming # <<>> /\ UNCHANGED <<far, drops, mail_pc, mail_owner>> /\ mail_pc = "drain"
    BY <1>2 DEF MailMessage, HasMessage
  <2>3. LinkOK(MailMessages)'
    BY <2>1, <2>2, TakeKeeps
  <2>4. QED BY <2>2, <2>3
<1>3. CASE MailCheck
  BY <1>3 DEF MailCheck, LinkOK
<1>4. CASE MailTell
  <2>1. mail_pc = "tell" /\ mail_pc' \in {"sent", "service"} /\ UNCHANGED <<far, drops, mail_owner>>
        /\ (link' = [link EXCEPT !["olli"].idle = 0] \/ link' = link)
    BY <1>4 DEF MailTell, send_rule_event, DropEvent, WaitForOlli
  <2>2. "olli" \in Links
    BY DEF Links
  <2>3. CASE link' = [link EXCEPT !["olli"].idle = 0]
    BY <2>1, <2>2, <2>3, IdleKeeps
  <2>4. CASE link' = link
    BY <2>1, <2>4 DEF LinkOK
  <2>5. QED BY <2>1, <2>3, <2>4
<1>5. CASE MailSent \/ check_inbox
  BY <1>5 DEF MailSent, check_inbox, LinkOK
<1>6. CASE MailTime
  BY <1>6, TimeKeeps DEF MailTime, mailVars
<1>7. CASE MailKilled
  <2>1. drops' \in Nat
    <3>1. drops' = drops + 1 /\ drops \in Nat
      BY <1>7 DEF MailKilled, Upset, LinkOK
    <3>2. QED BY <3>1
  <2>2. <<>> \in Seq(MailMessages)
    BY EmptySeq
  <2>3. ASSUME NEW l \in Links PROVE EndOK(MailMessages, link'[l], far'[l]) /\ link'[l].incoming = <<>>
    <3>1. link'[l] = [sock |-> FALSE, disconnected_flag |-> FALSE, incoming |-> <<>>,
                      silence |-> 0, idle |-> 0, due |-> TRUE]
      BY <1>7 DEF MailKilled
    <3>2. /\ far'[l] = [far[l] EXCEPT !.peer = "none", !.unread = <<>>, !.beats = {}, !.eof = FALSE]
          /\ far[l] \in Peers(MailMessages)
      BY <1>7 DEF MailKilled, LinkOK
    <3>3. far'[l] \in Peers(MailMessages) /\ far'[l].unread = <<>> /\ far'[l].peer = "none"
      BY <2>2, <3>2 DEF Peers
    <3>4. link'[l] \in Ends(MailMessages) /\ link'[l].incoming = <<>>
      BY <2>2, <3>1 DEF Ends
    <3>5. QED BY <3>3, <3>4 DEF EndOK
  <2>4. link' \in [Links -> Ends(MailMessages)] /\ far' \in [Links -> Peers(MailMessages)]
    BY <1>7, <2>3 DEF MailKilled, EndOK
  <2>5. LinkOK(MailMessages)'
    BY <2>1, <2>3, <2>4 DEF LinkOK
  <2>6. QED BY <1>7, <2>3, <2>5 DEF MailKilled
<1>8. ASSUME NEW l \in Links, MailCall(l) PROVE MailLinks'
  <2>1. PICK w \in {"show", "set", "clear"} :
               Says(l, [type |-> "call", name |-> "set_mail_action", want |-> w])
    BY <1>8 DEF MailCall
  <2>2. [type |-> "call", name |-> "set_mail_action", want |-> w] \in MailMessages
    BY DEF MailMessages
  <2>3. drops' \in Nat /\ CanSay(l) /\ UNCHANGED mailVars
    BY <1>8 DEF MailCall, Upset, LinkOK
  <2>4. LinkOK(MailMessages)' /\ UNCHANGED link
    BY <2>1, <2>2, <2>3, SaysKeeps
  <2>5. QED BY <2>3, <2>4 DEF mailVars
<1>9. ASSUME NEW l \in Links, MailGreets(l) PROVE MailLinks'
  <2>1. [type |-> "identity", name |-> mail_owner[l]] \in MailMessages
    BY DEF MailMessages
  <2>2. drops' \in Nat /\ Welcome(l, mail_owner[l]) /\ UNCHANGED mailVars
    BY <1>9 DEF MailGreets, LinkOK
  <2>3. LinkOK(MailMessages)' /\ UNCHANGED link
    BY <2>1, <2>2, WelcomeKeeps
  <2>4. QED BY <2>2, <2>3 DEF mailVars
<1>10. CASE (\E l \in Links : MailServer(l)) \/ (LinkFault /\ UNCHANGED mailVars)
  <2>1. UNCHANGED mailVars
    BY <1>10 DEF MailServer
  <2>2. LinkOK(MailMessages)' /\ UNCHANGED link
    BY <1>10, FaultKeeps DEF MailServer
  <2>3. QED BY <2>1, <2>2 DEF mailVars
<1>11. CASE \E n \in MailProfiles : NewMail(n) \/ Renumbered(n)
  BY <1>11 DEF NewMail, Renumbered, Upset, worldOfMail, LinkOK
<1>12. QED BY <1>1, <1>2, <1>3, <1>4, <1>5, <1>6, <1>7, <1>8, <1>9, <1>10, <1>11
       DEF MailAll, MailNext, MailStep

\* What a check makes of the state: mail that is pending stays so until the
\* numbering starts over, and numbering that has moved makes it so.
LEMMA CheckedKeeps ==
  ASSUME NEW r, state \in MailStates, r.uidvalidity \in Nat, r.uidnext \in Nat
  PROVE  /\ Checked(r) \in MailStates
         /\ Fresh(r) => Checked(r).pending
         /\ ~Baseline(r) /\ state.pending => Checked(r).pending
BY DEF Checked, Baseline, Fresh, MailStates

LEMMA SaveKeeps ==
  ASSUME MailTyped, Told, NEW s \in MailStates, save_state(s)
  PROVE  /\ state' \in MailStates /\ mail_files' \in [MailProfiles -> [state : MailStates, rule : BOOLEAN]]
         /\ mail_files'[profile_name].state = s
         /\ \A n \in MailProfiles : n # profile_name => mail_files'[n] = mail_files[n]
<1>1. profile_name \in MailProfiles
  BY DEF MailTyped, Told
<1>2. /\ mail_files' = [mail_files EXCEPT ![profile_name] = [mail_files[profile_name] EXCEPT !.state = s]]
      /\ state' = s
  BY DEF save_state
<1>3. mail_files[profile_name] \in [state : MailStates, rule : BOOLEAN]
  BY <1>1 DEF MailTyped
<1>4. /\ [mail_files[profile_name] EXCEPT !.state = s] \in [state : MailStates, rule : BOOLEAN]
      /\ [mail_files[profile_name] EXCEPT !.state = s].state = s
  BY <1>3
<1>5. QED BY <1>1, <1>2, <1>4 DEF MailTyped

LEMMA MailInductive ==
  ASSUME MailIInv, MailAll
  PROVE  MailIInv'
<1>. USE MailAssumption
<1>1. MailLinks'
  BY MailLinksKept DEF MailIInv
<1>2. SUFFICES (MailTyped /\ MailSaved /\ MailKept)'
  BY <1>1 DEF MailIInv
<1>. DEFINE Body == MailTyped /\ MailSaved /\ MailKept
<1>3. Body
  BY DEF MailIInv
<1>. USE DEF MailTyped, MailSaved, MailKept, Told
<1>4. CASE MailService
  BY <1>3, <1>4 DEF MailService
<1>5. ASSUME NEW l \in Links, MailMessage(l) PROVE Body'
  <2>1. /\ mail_pc = "drain" /\ UNCHANGED <<check, mail_pc, inbox, owed>>
        /\ link[l].incoming # <<>>
    BY <1>5 DEF MailMessage, HasMessage
  <2>2. Message(l) \in MailMessages
    <3>1. PICK m \in MailMessages : link[l].incoming = <<m>>
      BY <2>1 DEF MailIInv, MailLinks, LinkOK, EndOK
    <3>2. QED BY <3>1 DEF Message
  <2>3. CASE Message(l).type = "identity" /\ handle_mail_identity(l, Message(l).name)
    <3>1. Message(l).name \in MailProfiles
      BY <2>2, <2>3 DEF MailMessages
    <3>2. QED BY <1>3, <2>1, <2>3, <3>1 DEF handle_mail_identity
  <2>4. CASE Message(l).type = "call" /\ handle_set_mail_action(l, Message(l).want)
    <3>1. CASE UNCHANGED <<rule, mail_files>>
      BY <1>3, <2>1, <2>4, <3>1 DEF handle_set_mail_action
    <3>2. CASE Told /\ rule' = (Message(l).want = "set") /\ mail_files' = [mail_files EXCEPT ![profile_name].rule = rule']
      <4>1. profile_name \in MailProfiles /\ rule' \in BOOLEAN /\ UNCHANGED <<profile_name, state>>
        BY <1>3, <2>4, <3>2 DEF handle_set_mail_action
      <4>2. mail_files[profile_name] \in [state : MailStates, rule : BOOLEAN]
        BY <1>3, <4>1
      <4>3. /\ [mail_files[profile_name] EXCEPT !.rule = rule'] \in [state : MailStates, rule : BOOLEAN]
            /\ [mail_files[profile_name] EXCEPT !.rule = rule'].state = mail_files[profile_name].state
        BY <4>1, <4>2
      <4>4. /\ mail_files' \in [MailProfiles -> [state : MailStates, rule : BOOLEAN]]
            /\ \A n \in MailProfiles : mail_files'[n].state = mail_files[n].state
        BY <1>3, <3>2, <4>1, <4>3
      <4>5. QED BY <1>3, <2>1, <4>1, <4>4
    <3>3. QED BY <2>4, <3>1, <3>2 DEF handle_set_mail_action
  <2>5. QED BY <1>5, <2>3, <2>4 DEF MailMessage
<1>6. CASE MailCheck
  <2>. USE DEF MailCheck
  <2>1. CASE ~Told
    BY <1>3, <1>6, <2>1
  <2>2. CASE Told /\ Failed /\ check' \in {check, NoCheck, [NoCheck EXCEPT !.of = profile_name]}
    <3>1. check' \in [of : MailProfiles \union {NoMailProfile}, ready : BOOLEAN,
                      uidvalidity : Nat, uidnext : Nat]
      <4>1. /\ check \in [of : MailProfiles \union {NoMailProfile}, ready : BOOLEAN,
                          uidvalidity : Nat, uidnext : Nat]
            /\ profile_name \in MailProfiles
        BY <1>3, <2>2
      <4>2. NoCheck \in [of : MailProfiles \union {NoMailProfile}, ready : BOOLEAN,
                         uidvalidity : Nat, uidnext : Nat]
        BY DEF NoCheck
      <4>. HIDE DEF MailTyped
      <4>3. [NoCheck EXCEPT !.of = profile_name] \in [of : MailProfiles \union {NoMailProfile},
                         ready : BOOLEAN, uidvalidity : Nat, uidnext : Nat]
        BY <4>1, <4>2
      <4>4. QED BY <2>2, <4>1, <4>2, <4>3
    <3>2. QED BY <1>3, <1>6, <2>2, <3>1 DEF Failed
  <2>3. CASE Told /\ check' = NoCheck /\ on_check_result
    <3>1. check.uidvalidity \in Nat /\ check.uidnext \in Nat /\ profile_name \in MailProfiles
      BY <1>3, <2>3
    <3>2. /\ Checked(check) \in MailStates
          /\ Fresh(check) => Checked(check).pending
          /\ ~Baseline(check) /\ state.pending => Checked(check).pending
      BY <1>3, <3>1, CheckedKeeps
    <3>3. save_state(Checked(check)) /\ state' = Checked(check)
      BY <2>3 DEF on_check_result, save_state
    <3>4. /\ mail_files' \in [MailProfiles -> [state : MailStates, rule : BOOLEAN]]
          /\ mail_files'[profile_name].state = Checked(check)
          /\ \A n \in MailProfiles : n # profile_name => mail_files'[n] = mail_files[n]
      BY <1>3, <2>3, <3>2, <3>3, SaveKeeps
    <3>5. NoCheck \in [of : MailProfiles \union {NoMailProfile}, ready : BOOLEAN,
                       uidvalidity : Nat, uidnext : Nat]
      BY DEF NoCheck
    <3>6. MailKept'
      <4>1. \A n \in owed : n # profile_name => mail_files'[n].state.pending
        BY <1>3, <3>4
      <4>2. profile_name \in owed' => Checked(check).pending
        <5>1. CASE Fresh(check)
          BY <3>2, <5>1
        <5>2. CASE ~Fresh(check) /\ Baseline(check)
          BY <2>3, <5>2 DEF on_check_result
        <5>3. CASE ~Fresh(check) /\ ~Baseline(check)
          BY <1>3, <2>3, <3>2, <5>3 DEF on_check_result
        <5>4. QED BY <5>1, <5>2, <5>3
      <4>3. owed' \subseteq owed \union {profile_name}
        BY <2>3 DEF on_check_result
      <4>4. QED BY <3>4, <4>1, <4>2, <4>3
    <3>7. owed' \subseteq MailProfiles
      BY <1>3, <2>3, <3>1 DEF on_check_result
    <3>8. QED BY <1>3, <1>6, <2>3, <3>2, <3>3, <3>4, <3>5, <3>6, <3>7
  <2>4. QED BY <1>6, <2>1, <2>2, <2>3 DEF Collect, Start, Wait
<1>7. CASE MailTell
  <2>1. UNCHANGED <<profile_name, rule, check, inbox>> /\ mail_pc = "tell" /\ profile_name \in MailProfiles
    BY <1>3, <1>7 DEF MailTell
  <2>2. CASE send_rule_event \/ WaitForOlli
    BY <1>3, <2>1, <2>2 DEF send_rule_event, WaitForOlli
  <2>3. CASE DropEvent
    <3>1. [state EXCEPT !.pending = FALSE] \in MailStates
      BY <1>3 DEF MailStates
    <3>2. save_state([state EXCEPT !.pending = FALSE]) /\ owed' = owed \ {profile_name} /\ mail_pc' = "service"
      BY <2>3 DEF DropEvent
    <3>3. /\ state' \in MailStates /\ mail_files' \in [MailProfiles -> [state : MailStates, rule : BOOLEAN]]
          /\ mail_files'[profile_name].state = [state EXCEPT !.pending = FALSE]
          /\ \A n \in MailProfiles : n # profile_name => mail_files'[n] = mail_files[n]
      BY <1>3, <2>1, <3>1, <3>2, SaveKeeps
    <3>4. state' = [state EXCEPT !.pending = FALSE]
      BY <3>2 DEF save_state
    <3>5. QED BY <1>3, <2>1, <3>2, <3>3, <3>4
  <2>4. QED BY <1>7, <2>2, <2>3 DEF MailTell
<1>8. CASE MailSent
  <2>1. [state EXCEPT !.pending = FALSE] \in MailStates
    BY <1>3 DEF MailStates
  <2>2. /\ save_state([state EXCEPT !.pending = FALSE]) /\ UNCHANGED <<profile_name, rule, check, inbox, owed>>
        /\ mail_pc = "sent" /\ mail_pc' = "service" /\ profile_name \in MailProfiles /\ profile_name \notin owed
    BY <1>3, <1>8 DEF MailSent
  <2>3. /\ state' \in MailStates /\ mail_files' \in [MailProfiles -> [state : MailStates, rule : BOOLEAN]]
        /\ mail_files'[profile_name].state = [state EXCEPT !.pending = FALSE]
        /\ \A n \in MailProfiles : n # profile_name => mail_files'[n] = mail_files[n]
    BY <1>3, <2>1, <2>2, SaveKeeps
  <2>4. state' = [state EXCEPT !.pending = FALSE]
    BY <2>2 DEF save_state
  <2>5. QED BY <1>3, <2>2, <2>3, <2>4
<1>9. CASE check_inbox
  <2>1. check.of \in MailProfiles /\ inbox[check.of] \in [uidvalidity : Nat, uidnext : Nat]
    BY <1>3, <1>9 DEF check_inbox
  <2>2. check' \in [of : MailProfiles \union {NoMailProfile}, ready : BOOLEAN,
                    uidvalidity : Nat, uidnext : Nat]
    BY <1>9, <2>1 DEF check_inbox
  <2>3. QED BY <1>3, <1>9, <2>2 DEF check_inbox
<1>10. CASE MailTime \/ (\E l \in Links : MailCall(l) \/ MailGreets(l) \/ MailServer(l))
            \/ (LinkFault /\ UNCHANGED mailVars)
  BY <1>3, <1>10 DEF MailTime, MailCall, MailGreets, MailServer, mailVars
<1>11. CASE MailKilled
  <2>1. MailState \in MailStates
    BY DEF MailState, MailStates
  <2>2. NoCheck \in [of : MailProfiles \union {NoMailProfile}, ready : BOOLEAN,
                     uidvalidity : Nat, uidnext : Nat]
    BY DEF NoCheck
  <2>3. QED BY <1>3, <1>11, <2>1, <2>2 DEF MailKilled
<1>12. ASSUME NEW n \in MailProfiles, NewMail(n) \/ Renumbered(n) PROVE Body'
  <2>1. inbox[n] \in [uidvalidity : Nat, uidnext : Nat]
    BY <1>3
  <2>2. inbox' \in [MailProfiles -> [uidvalidity : Nat, uidnext : Nat]]
    <3>1. CASE NewMail(n)
      <4>1. [inbox[n] EXCEPT !.uidnext = @ + 1] \in [uidvalidity : Nat, uidnext : Nat]
        BY <2>1
      <4>2. inbox' = [inbox EXCEPT ![n] = [inbox[n] EXCEPT !.uidnext = @ + 1]]
        BY <3>1 DEF NewMail
      <4>3. QED BY <1>3, <4>1, <4>2
    <3>2. CASE Renumbered(n)
      BY <1>3, <2>1, <3>2 DEF Renumbered
    <3>3. QED BY <1>12, <3>1, <3>2
  <2>3. UNCHANGED worldOfMail
    BY <1>12 DEF NewMail, Renumbered
  <2>4. QED BY <1>3, <2>2, <2>3 DEF worldOfMail
<1>13. QED BY <1>4, <1>5, <1>6, <1>7, <1>8, <1>9, <1>10, <1>11, <1>12
       DEF MailAll, MailNext, MailStep

\* Mail that a check saw is pending on disk until the event has been written, the
\* rule is gone or the numbering starts over, wherever the process is killed:
\* whatever the profiles, their inboxes and the number of calls and faults.
THEOREM MailNeverLost == MailSpec => []MailKept
<1>1. LinkInit /\ MailInit => MailIInv
  BY MailInitial
<1>2. MailIInv /\ [MailAll]_<<linkVars, mailVars>> => MailIInv'
  <2>1. CASE UNCHANGED <<linkVars, mailVars>>
    BY <2>1 DEF mailVars, MailIInv, MailLinks, LinkOK, Drained, MailTyped, MailSaved, MailKept, Told
  <2>2. QED BY <2>1, MailInductive
<1>3. MailIInv => MailKept
  BY DEF MailIInv
<1>4. QED BY <1>1, <1>2, <1>3, PTL DEF MailSpec, MailAll

-----------------------------------------------------------------------------
(* Clock *)

ClockMessages == [type : {"identity"}, name : UserNames]
                   \union [type : {"call"}, id : Nat, name : {"set_timer", "cancel_timer", "check_timer"},
                           label : Labels, seconds : Nat]
Timers == [left : Nat, cancelled : BOOLEAN, event_sent : BOOLEAN, origin_call_id : Nat, origin_link : Links]

ClockLinks == /\ LinkOK(ClockMessages)
              /\ clock_pc \in {"service", "drain"}
              /\ clock_pc = "service" => Drained

\* No two calls have the same id, and those under way have set no timer.
CallsApart ==
  /\ \A l \in Links, m \in ClockMessages : Pending(l, m) => m.id \in 1 .. calls /\ m.id \notin DOMAIN asked
  /\ \A l, o \in Links, m, n \in ClockMessages :
       l # o /\ Pending(l, m) /\ Pending(o, n) => m.id # n.id

\* A timer remembers the call that set it, and no two have the same.
TimersKnown ==
  /\ calls \in Nat
  /\ asked \in [DOMAIN asked -> Links] /\ DOMAIN asked \subseteq 1 .. calls
  /\ active_timers \in [Labels -> Timers \union {None}]
  /\ \A x \in Labels : Set(x) =>
       LET t == active_timers[x]
       IN  /\ t \in Timers /\ t.origin_call_id \in DOMAIN asked
           /\ asked[t.origin_call_id] = t.origin_link
           /\ t.event_sent => Expired(t)
           /\ \A y \in Labels : Set(y) /\ y # x => active_timers[y].origin_call_id # t.origin_call_id

\* A void timer that is still there is one that was cancelled; a reported one says so.
ReportsKnown ==
  /\ void \subseteq DOMAIN asked
  /\ \A x \in Labels : Set(x) /\ active_timers[x].origin_call_id \in void => active_timers[x].cancelled
  /\ reports \in Seq([link : Links, id : Nat])
  /\ \A i \in DOMAIN reports :
       /\ reports[i].id \in DOMAIN asked /\ reports[i].link = asked[reports[i].id]
       /\ reports[i].id \notin void
       /\ \A j \in DOMAIN reports : reports[i].id = reports[j].id => i = j
       /\ \A x \in Labels : Set(x) /\ active_timers[x].origin_call_id = reports[i].id => active_timers[x].event_sent

ClockIInv == ClockLinks /\ CallsApart /\ TimersKnown /\ ReportsKnown

ClockAll == ClockNext \/ (LinkFault /\ UNCHANGED clockVars)

\* What leaves the calls under way and the books alone.
Quiet == UNCHANGED <<calls, asked, void, reports>>
         /\ \A l \in Links, m \in ClockMessages : Pending(l, m)' => Pending(l, m)

LEMMA ClockInitial == ASSUME LinkInit, ClockInit PROVE ClockIInv
<1>1. /\ LinkOK(ClockMessages) /\ Drained
      /\ \A l \in Links : far[l].unread = <<>> /\ link[l].incoming = <<>>
  BY StartOK DEF Drained
<1>2. ClockLinks /\ CallsApart
  <2>1. \A m : <<>> # <<m>>
    OBVIOUS
  <2>2. \A l \in Links : \A m : ~Pending(l, m)
    BY <1>1, <2>1 DEF Pending
  <2>3. QED BY <1>1, <2>2 DEF ClockLinks, CallsApart, ClockInit
<1>3. <<>> \in Seq([link : Links, id : Nat]) /\ DOMAIN <<>> = {}
  BY EmptySeq
<1>4. TimersKnown
  BY <1>3 DEF TimersKnown, ClockInit, Set
<1>5. ReportsKnown
  BY <1>3 DEF ReportsKnown, ClockInit, Set
<1>6. QED BY <1>2, <1>4, <1>5 DEF ClockIInv

\* A service queues what was to be read, or loses it.
LEMMA ClockServiceKeeps ==
  ASSUME ClockIInv, ClockService
  PROVE  ClockLinks' /\ Quiet
<1>1. LinkOK(ClockMessages) /\ Drained /\ ServiceLinks
  BY DEF ClockIInv, ClockLinks, ClockService
<1>2. /\ LinkOK(ClockMessages)'
      /\ \A l \in Links : far'[l].unread = <<>> /\ link'[l].incoming \in {<<>>, far[l].unread}
  BY <1>1, ServiceKeeps
<1>3. \A l \in Links, m \in ClockMessages : Pending(l, m)' => Pending(l, m)
  <2>1. \A m : <<>> # <<m>>
    OBVIOUS
  <2>2. QED BY <1>2, <2>1 DEF Pending
<1>4. QED BY <1>2, <1>3 DEF ClockLinks, ClockService, Quiet

LEMMA ClockTakes ==
  ASSUME ClockIInv, NEW l \in Links, ClockMessage(l)
  PROVE  /\ ClockLinks' /\ Message(l) \in ClockMessages
         /\ link[l].incoming = <<Message(l)>>
         /\ \A m : ~Pending(l, m)'
         /\ \A o \in Links : \A m : o # l /\ Pending(o, m)' => Pending(o, m)
<1>1. /\ \/ link' = [link EXCEPT ![l].incoming = Tail(@)]
         \/ Answered(l)
      /\ link[l].incoming # <<>> /\ UNCHANGED <<far, drops, clock_pc>> /\ clock_pc = "drain"
  BY DEF ClockMessage, HasMessage
<1>2. LinkOK(ClockMessages)
  BY DEF ClockIInv, ClockLinks
<1>3. /\ LinkOK(ClockMessages)'
      /\ Message(l) \in ClockMessages /\ link[l].incoming = <<Message(l)>> /\ link'[l].incoming = <<>>
      /\ \A o \in Links : o # l => link'[o] = link[o]
  BY <1>1, <1>2, TakeKeeps
<1>4. far'[l].unread = <<>>
  BY <1>1, <1>2 DEF LinkOK, EndOK
<1>5. QED BY <1>1, <1>3, <1>4 DEF ClockLinks, Pending

LEMMA QuietKeeps ==
  ASSUME ClockIInv, Quiet
  PROVE  CallsApart'
BY DEF ClockIInv, CallsApart, Quiet

\* A call gets the next number.
LEMMA CallKeeps ==
  ASSUME ClockIInv, NEW l \in Links, ClockCall(l)
  PROVE  ClockIInv'
<1>1. PICK x \in Labels, s \in 0 .. MaxSeconds, n \in {"set_timer", "cancel_timer", "check_timer"} :
        Says(l, [type |-> "call", id |-> calls + 1, name |-> n, label |-> x, seconds |-> s])
  BY DEF ClockCall
<1>. DEFINE c == [type |-> "call", id |-> calls + 1, name |-> n, label |-> x, seconds |-> s]
<1>2. calls \in Nat /\ calls' = calls + 1 /\ CanSay(l) /\ drops' \in Nat /\ LinkOK(ClockMessages)
      /\ UNCHANGED <<active_timers, clock_pc, asked, void, reports>>
  BY DEF ClockIInv, TimersKnown, ClockCall, ClockLinks, LinkOK
<1>3. c \in ClockMessages /\ c.type = "call" /\ c.id = calls + 1
  BY <1>2 DEF ClockMessages, ClockAssumption
<1>. HIDE DEF c
<1>4. /\ LinkOK(ClockMessages)' /\ UNCHANGED link /\ far'[l].unread = <<c>>
      /\ link[l].incoming = <<>>
      /\ \A o \in Links : o # l => far'[o] = far[o]
  BY <1>1, <1>2, <1>3, SaysKeeps DEF c
<1>5. ASSUME NEW o \in Links, NEW m, Pending(o, m)' PROVE (o = l /\ m = c) \/ (o # l /\ Pending(o, m))
  <2>1. CASE o = l
    <3>1. <<m>> = <<c>>
      BY <1>4, <1>5, <2>1 DEF Pending
    <3>2. m = c
      BY <3>1
    <3>3. QED BY <2>1, <3>2
  <2>2. CASE o # l
    BY <1>4, <1>5, <2>2 DEF Pending
  <2>3. QED BY <2>1, <2>2
<1>6. CallsApart'
  <2>1. \A o \in Links, m \in ClockMessages : Pending(o, m)' => m.id \in 1 .. calls + 1 /\ m.id \notin DOMAIN asked
    <3>1. ASSUME NEW o \in Links, NEW m \in ClockMessages, Pending(o, m)'
          PROVE  m.id \in 1 .. calls + 1 /\ m.id \notin DOMAIN asked
      <4>1. CASE o = l /\ m = c
        BY <1>2, <1>3, <4>1 DEF ClockIInv, TimersKnown
      <4>2. CASE Pending(o, m)
        BY <1>2, <4>2 DEF ClockIInv, CallsApart
      <4>3. QED BY <1>5, <3>1, <4>1, <4>2
    <3>2. QED BY <3>1
  <2>2. \A o, p \in Links, m, k \in ClockMessages :
          o # p /\ Pending(o, m)' /\ Pending(p, k)' => m.id # k.id
    <3>1. \A o \in Links, m \in ClockMessages : Pending(o, m) => m.id \in 1 .. calls
      BY DEF ClockIInv, CallsApart
    <3>2. QED BY <1>2, <1>3, <1>5, <3>1 DEF ClockIInv, CallsApart
  <2>3. QED BY <1>2, <2>1, <2>2 DEF CallsApart
<1>7. ClockLinks'
  BY <1>2, <1>4 DEF ClockIInv, ClockLinks, Drained
<1>8. TimersKnown' /\ ReportsKnown'
  BY <1>2 DEF ClockIInv, TimersKnown, ReportsKnown, Set
<1>9. QED BY <1>6, <1>7, <1>8 DEF ClockIInv

LEMMA SetKeeps ==
  ASSUME ClockIInv, NEW l \in Links, ClockMessage(l), Message(l).type = "call",
         Message(l).name = "set_timer", set_timer(l, Message(l))
  PROVE  ClockIInv'
<1>. DEFINE m == Message(l)
            i == m.id
            x == m.label
            new == ActiveTimer(l, m)
<1>1. /\ ClockLinks' /\ m \in ClockMessages /\ Pending(l, m)
      /\ \A k : ~Pending(l, k)'
      /\ \A o \in Links : \A k : o # l /\ Pending(o, k)' => Pending(o, k)
  BY ClockTakes DEF Pending
<1>2. /\ i \in Nat /\ x \in Labels /\ m.seconds \in Nat
      /\ i \in 1 .. calls /\ i \notin DOMAIN asked
  BY <1>1 DEF ClockMessages, ClockIInv, CallsApart
<1>3. /\ new \in Timers /\ new.origin_call_id = i /\ new.origin_link = l /\ ~new.event_sent
      /\ ~new.cancelled
  BY <1>2 DEF ActiveTimer, Timers
<1>4. /\ active_timers' = [active_timers EXCEPT ![x] = new]
      /\ asked' = [j \in DOMAIN asked \union {i} |-> IF j = i THEN l ELSE asked[j]]
      /\ void' = IF Set(x) /\ ~active_timers[x].event_sent
                   THEN void \union {active_timers[x].origin_call_id} ELSE void
      /\ UNCHANGED <<calls, reports>>
  BY DEF set_timer, ClockMessage
<1>. HIDE DEF m, i, x, new
<1>5. /\ DOMAIN asked' = DOMAIN asked \union {i} /\ asked'[i] = l
      /\ \A j \in DOMAIN asked : asked'[j] = asked[j]
  BY <1>2, <1>4 DEF ClockIInv, TimersKnown
<1>6. /\ \A y \in Labels : y # x => active_timers'[y] = active_timers[y]
      /\ active_timers'[x] = new
  BY <1>2, <1>4 DEF ClockIInv, TimersKnown
<1>7. CallsApart'
  <2>1. \A o \in Links, k \in ClockMessages : Pending(o, k)' => o # l /\ Pending(o, k) /\ k.id # i
    BY <1>1 DEF ClockIInv, CallsApart, i
  <2>2. QED BY <1>4, <1>5, <2>1 DEF ClockIInv, CallsApart
<1>8. TimersKnown'
  <2>1. /\ calls' \in Nat /\ asked' \in [DOMAIN asked' -> Links] /\ DOMAIN asked' \subseteq 1 .. calls'
        /\ active_timers' \in [Labels -> Timers \union {None}]
    BY <1>2, <1>3, <1>4, <1>5 DEF ClockIInv, TimersKnown
  <2>2. ASSUME NEW y \in Labels, Set(y)'
        PROVE  LET t == active_timers'[y]
               IN  /\ t \in Timers /\ t.origin_call_id \in DOMAIN asked'
                   /\ asked'[t.origin_call_id] = t.origin_link
                   /\ t.event_sent => Expired(t)
                   /\ \A z \in Labels : Set(z)' /\ z # y => active_timers'[z].origin_call_id # t.origin_call_id
    <3>1. \A z \in Labels : z # x /\ Set(z)' => Set(z)
      BY <1>6 DEF Set
    <3>2. \A z \in Labels : Set(z) => active_timers[z].origin_call_id \in DOMAIN asked
      BY DEF ClockIInv, TimersKnown
    <3>3. CASE y = x
      BY <1>2, <1>3, <1>5, <1>6, <2>2, <3>1, <3>2, <3>3
    <3>4. CASE y # x
      <4>1. LET t == active_timers[y]
            IN  /\ t \in Timers /\ t.origin_call_id \in DOMAIN asked
                /\ asked[t.origin_call_id] = t.origin_link
                /\ t.event_sent => Expired(t)
                /\ \A z \in Labels : Set(z) /\ z # y => active_timers[z].origin_call_id # t.origin_call_id
        BY <2>2, <3>1, <3>4 DEF ClockIInv, TimersKnown
      <4>2. QED BY <1>2, <1>3, <1>5, <1>6, <3>1, <3>4, <4>1
    <3>5. QED BY <3>3, <3>4
  <2>3. QED BY <2>1, <2>2 DEF TimersKnown
<1>9. ReportsKnown'
  <2>1. void' \subseteq void \union {active_timers[x].origin_call_id}
    BY <1>4
  <2>2. \A y \in Labels : Set(y) => active_timers[y].origin_call_id \in DOMAIN asked
    BY DEF ClockIInv, TimersKnown
  <2>3. void' \subseteq DOMAIN asked
    BY <1>2, <1>4, <2>2 DEF ClockIInv, ReportsKnown
  <2>4. ASSUME NEW y \in Labels, Set(y)', active_timers'[y].origin_call_id \in void'
        PROVE  active_timers'[y].cancelled
    <3>1. y # x
      BY <1>2, <1>3, <1>6, <2>3, <2>4
    <3>2. Set(y) /\ active_timers'[y] = active_timers[y]
      BY <1>6, <2>4, <3>1 DEF Set
    <3>3. CASE active_timers[y].origin_call_id \in void
      BY <3>2, <3>3 DEF ClockIInv, ReportsKnown
    <3>4. CASE Set(x) /\ active_timers[y].origin_call_id = active_timers[x].origin_call_id
      BY <1>2, <3>1, <3>2, <3>4 DEF ClockIInv, TimersKnown
    <3>5. QED BY <1>4, <2>4, <3>2, <3>3, <3>4
  <2>5. ASSUME NEW j \in DOMAIN reports
        PROVE  /\ reports[j].id \in DOMAIN asked /\ reports[j].link = asked[reports[j].id]
               /\ reports[j].id \notin void'
               /\ \A y \in Labels : Set(y)' /\ active_timers'[y].origin_call_id = reports[j].id => active_timers'[y].event_sent
    <3>1. /\ reports[j].id \in DOMAIN asked /\ reports[j].link = asked[reports[j].id]
          /\ reports[j].id \notin void
          /\ \A y \in Labels : Set(y) /\ active_timers[y].origin_call_id = reports[j].id => active_timers[y].event_sent
      BY DEF ClockIInv, ReportsKnown
    <3>2. reports[j].id \notin void'
      BY <1>2, <1>4, <3>1
    <3>3. QED BY <1>2, <1>3, <1>6, <3>1, <3>2 DEF Set
  <2>6. \A j, k \in DOMAIN reports : reports[j].id = reports[k].id => j = k
    BY DEF ClockIInv, ReportsKnown
  <2>7. reports \in Seq([link : Links, id : Nat])
    BY DEF ClockIInv, ReportsKnown
  <2>8. QED BY <1>4, <1>5, <2>3, <2>4, <2>5, <2>6, <2>7 DEF ReportsKnown
<1>10. QED BY <1>1, <1>7, <1>8, <1>9 DEF ClockIInv

\* What changes no timer's call, and adds to void only a cancelled timer that has not been reported.
LEMMA TimersChange ==
  ASSUME ClockIInv, UNCHANGED <<calls, asked>>,
         active_timers' \in [Labels -> Timers \union {None}],
         \A x \in Labels : Set(x)' =>
           /\ Set(x) /\ active_timers'[x] \in Timers
           /\ active_timers'[x].origin_call_id = active_timers[x].origin_call_id
           /\ active_timers'[x].origin_link = active_timers[x].origin_link
           /\ active_timers'[x].event_sent => Expired(active_timers'[x])
  PROVE  TimersKnown'
<1>1. /\ calls' \in Nat
      /\ asked' \in [DOMAIN asked' -> Links] /\ DOMAIN asked' \subseteq 1 .. calls'
  BY DEF ClockIInv, TimersKnown
<1>2. ASSUME NEW x \in Labels, Set(x)'
      PROVE  LET t == active_timers'[x]
             IN  /\ t \in Timers /\ t.origin_call_id \in DOMAIN asked'
                 /\ asked'[t.origin_call_id] = t.origin_link
                 /\ t.event_sent => Expired(t)
                 /\ \A y \in Labels : Set(y)' /\ y # x => active_timers'[y].origin_call_id # t.origin_call_id
  BY <1>2 DEF ClockIInv, TimersKnown
<1>3. QED BY <1>1, <1>2 DEF TimersKnown

LEMMA CancelKeeps ==
  ASSUME ClockIInv, NEW m, m.label \in Labels, Cancellable(m.label), cancel_timer(m),
         UNCHANGED <<calls, reports>>
  PROVE  TimersKnown' /\ ReportsKnown'
<1>. DEFINE x == m.label
            t == active_timers[x]
            u == [t EXCEPT !.cancelled = TRUE]
<1>1. /\ Set(x) /\ t \in Timers /\ ~t.cancelled /\ ~Expired(t) /\ ~t.event_sent
      /\ t.origin_call_id \in DOMAIN asked
  BY DEF Cancellable, ClockIInv, TimersKnown
<1>2. /\ active_timers' = [active_timers EXCEPT ![x] = u]
      /\ void' = void \union {t.origin_call_id} /\ UNCHANGED asked
  BY DEF cancel_timer, ClockIInv, TimersKnown
<1>3. /\ u \in Timers /\ u.origin_call_id = t.origin_call_id /\ u.origin_link = t.origin_link
      /\ u.event_sent = t.event_sent /\ u.cancelled /\ u.left = t.left
  BY <1>1 DEF Timers
<1>. HIDE DEF u
<1>4. /\ \A y \in Labels : y # x => active_timers'[y] = active_timers[y]
      /\ active_timers'[x] = u /\ active_timers' \in [Labels -> Timers \union {None}]
  BY <1>2, <1>3 DEF ClockIInv, TimersKnown
<1>5. ASSUME NEW y \in Labels, Set(y)'
      PROVE  /\ Set(y) /\ active_timers'[y] \in Timers
             /\ active_timers'[y].origin_call_id = active_timers[y].origin_call_id
             /\ active_timers'[y].origin_link = active_timers[y].origin_link
             /\ active_timers'[y].event_sent = active_timers[y].event_sent
             /\ active_timers'[y].event_sent => Expired(active_timers'[y])
             /\ active_timers[y].cancelled => active_timers'[y].cancelled
  <2>1. CASE y = x
    BY <1>1, <1>3, <1>4, <2>1
  <2>2. CASE y # x
    BY <1>4, <1>5, <2>2 DEF Set, ClockIInv, TimersKnown
  <2>3. QED BY <2>1, <2>2
<1>. HIDE DEF x, t
<1>6. TimersKnown'
  BY <1>2, <1>4, <1>5, TimersChange
<1>7. ReportsKnown'
  <2>1. void' \subseteq DOMAIN asked'
    BY <1>1, <1>2 DEF ClockIInv, ReportsKnown
  <2>2. ASSUME NEW y \in Labels, Set(y)', active_timers'[y].origin_call_id \in void'
        PROVE  active_timers'[y].cancelled
    <3>1. Set(y) /\ active_timers[y].origin_call_id \in void \union {t.origin_call_id}
      BY <1>2, <1>5, <2>2
    <3>2. CASE y = x
      BY <1>3, <1>4, <3>2
    <3>3. CASE y # x
      <4>1. active_timers[y].origin_call_id # t.origin_call_id
        BY <1>1, <3>1, <3>3 DEF ClockIInv, TimersKnown, t, x
      <4>2. QED BY <1>5, <2>2, <3>1, <4>1 DEF ClockIInv, ReportsKnown
    <3>4. QED BY <3>2, <3>3
  <2>3. \A i \in DOMAIN reports : reports[i].id \notin void'
    BY <1>1, <1>2 DEF ClockIInv, ReportsKnown, t, x
  <2>4. \A i \in DOMAIN reports, y \in Labels : Set(y)' /\ active_timers'[y].origin_call_id = reports[i].id
          => active_timers'[y].event_sent
    BY <1>5 DEF ClockIInv, ReportsKnown
  <2>5. QED BY <1>2, <2>1, <2>2, <2>3, <2>4 DEF ClockIInv, ReportsKnown
<1>8. QED BY <1>6, <1>7

LEMMA ReportKeeps ==
  ASSUME ClockIInv, NEW x \in Labels, Report(x)
  PROVE  ClockIInv'
<1>. DEFINE t == active_timers[x]
            u == [t EXCEPT !.event_sent = TRUE]
            r == [link |-> t.origin_link, id |-> t.origin_call_id]
<1>1. /\ Set(x) /\ t \in Timers /\ ~t.cancelled /\ Expired(t) /\ ~t.event_sent
      /\ t.origin_call_id \in DOMAIN asked /\ t.origin_link = asked[t.origin_call_id]
      /\ t.origin_link \in Links /\ t.origin_call_id \in Nat
  BY DEF Report, Due, Reportable, ClockIInv, TimersKnown, Timers
<1>2. /\ reports' = Append(reports, r) /\ active_timers' = [active_timers EXCEPT ![x] = u]
      /\ link' = [link EXCEPT ![t.origin_link].idle = 0]
      /\ UNCHANGED <<far, drops, clock_pc, calls, asked, void>> /\ clock_pc = "drain"
  BY DEF Report, ClockIInv, TimersKnown
<1>3. /\ u \in Timers /\ u.origin_call_id = t.origin_call_id /\ u.origin_link = t.origin_link
      /\ u.event_sent /\ u.cancelled = t.cancelled /\ u.left = t.left
  BY <1>1 DEF Timers
<1>4. r \in [link : Links, id : Nat] /\ r.link = t.origin_link /\ r.id = t.origin_call_id
  BY <1>1
<1>. HIDE DEF u, r
<1>5. /\ \A y \in Labels : y # x => active_timers'[y] = active_timers[y]
      /\ active_timers'[x] = u /\ active_timers' \in [Labels -> Timers \union {None}]
  BY <1>2, <1>3 DEF ClockIInv, TimersKnown
<1>6. ASSUME NEW y \in Labels, Set(y)'
      PROVE  /\ Set(y) /\ active_timers'[y] \in Timers
             /\ active_timers'[y].origin_call_id = active_timers[y].origin_call_id
             /\ active_timers'[y].origin_link = active_timers[y].origin_link
             /\ active_timers[y].event_sent => active_timers'[y].event_sent
             /\ active_timers'[y].event_sent => Expired(active_timers'[y])
             /\ active_timers[y].cancelled => active_timers'[y].cancelled
  <2>1. CASE y = x
    BY <1>1, <1>3, <1>5, <2>1 DEF Expired
  <2>2. CASE y # x
    BY <1>5, <1>6, <2>2 DEF Set, ClockIInv, TimersKnown
  <2>3. QED BY <2>1, <2>2
<1>7. TimersKnown'
  BY <1>2, <1>5, <1>6, TimersChange
<1>8. ReportsKnown'
  <2>1. t.origin_call_id \notin void
    BY <1>1 DEF ClockIInv, ReportsKnown
  <2>2. \A i \in DOMAIN reports : reports[i].id # t.origin_call_id
    BY <1>1 DEF ClockIInv, ReportsKnown
  <2>3. reports \in Seq([link : Links, id : Nat])
    BY DEF ClockIInv, ReportsKnown
  <2>4. /\ reports' \in Seq([link : Links, id : Nat])
        /\ DOMAIN reports' = DOMAIN reports \union {Len(reports) + 1}
        /\ \A i \in DOMAIN reports : reports'[i] = reports[i]
        /\ reports'[Len(reports) + 1] = r
        /\ Len(reports) + 1 \notin DOMAIN reports
    BY <1>2, <1>4, <2>3
  <2>5. void' \subseteq DOMAIN asked'
    BY <1>2 DEF ClockIInv, ReportsKnown
  <2>6. \A y \in Labels : Set(y)' /\ active_timers'[y].origin_call_id \in void' => active_timers'[y].cancelled
    BY <1>2, <1>6 DEF ClockIInv, ReportsKnown
  <2>7. ASSUME NEW i \in DOMAIN reports'
        PROVE  /\ reports'[i].id \in DOMAIN asked' /\ reports'[i].link = asked'[reports'[i].id]
               /\ reports'[i].id \notin void'
               /\ \A j \in DOMAIN reports' : reports'[i].id = reports'[j].id => i = j
               /\ \A y \in Labels : Set(y)' /\ active_timers'[y].origin_call_id = reports'[i].id => active_timers'[y].event_sent
    <3>1. CASE i \in DOMAIN reports
      BY <1>2, <1>4, <1>6, <2>2, <2>4, <3>1, SMTT(30) DEF ClockIInv, ReportsKnown
    <3>2. CASE i = Len(reports) + 1
      <4>1. \A y \in Labels : Set(y)' /\ active_timers'[y].origin_call_id = t.origin_call_id => y = x
        BY <1>1, <1>6 DEF ClockIInv, TimersKnown
      <4>2. QED BY <1>1, <1>2, <1>3, <1>4, <1>5, <2>1, <2>2, <2>4, <3>2, <4>1
    <3>3. QED BY <2>4, <3>1, <3>2
  <2>8. QED BY <2>4, <2>5, <2>6, <2>7 DEF ReportsKnown
<1>9. /\ LinkOK(ClockMessages)'
      /\ \A o \in Links : link'[o].sock = link[o].sock /\ link'[o].incoming = link[o].incoming
  BY <1>1, <1>2, IdleKeeps DEF ClockIInv, ClockLinks
<1>10. \A l \in Links, m \in ClockMessages : Pending(l, m)' => Pending(l, m)
  BY <1>2, <1>9 DEF Pending
<1>11. ClockLinks'
  BY <1>2, <1>9 DEF ClockLinks
<1>12. CallsApart'
  BY <1>2, <1>10 DEF ClockIInv, CallsApart
<1>13. QED BY <1>7, <1>8, <1>11, <1>12 DEF ClockIInv

LEMMA ClockTimeKeeps ==
  ASSUME ClockIInv, ClockTime
  PROVE  ClockIInv'
<1>1. /\ LinkOK(ClockMessages)'
      /\ \A l \in Links : link'[l].incoming = link[l].incoming /\ far'[l].unread = far[l].unread
  BY TimeKeeps DEF ClockIInv, ClockLinks, ClockTime
<1>2. ClockLinks' /\ Quiet
  BY <1>1 DEF ClockIInv, ClockLinks, ClockTime, Drained, Quiet, Pending
<1>3. ASSUME NEW x \in Labels, Set(x)
      PROVE  /\ active_timers'[x] \in Timers
             /\ active_timers'[x].origin_call_id = active_timers[x].origin_call_id
             /\ active_timers'[x].origin_link = active_timers[x].origin_link
             /\ active_timers'[x].event_sent = active_timers[x].event_sent
             /\ active_timers'[x].event_sent => Expired(active_timers'[x])
             /\ active_timers'[x].cancelled = active_timers[x].cancelled
  <2>. DEFINE t == active_timers[x]
  <2>1. t \in Timers /\ (t.event_sent => Expired(t))
    BY <1>3 DEF ClockIInv, TimersKnown
  <2>2. CASE Expired(t)
    BY <2>1, <2>2, <1>3 DEF ClockTime
  <2>3. CASE ~Expired(t)
    <3>1. t.left - 1 \in Nat
      BY <2>1, <2>3 DEF Expired, Timers
    <3>2. active_timers'[x] = [t EXCEPT !.left = t.left - 1]
      BY <2>3, <1>3 DEF ClockTime
    <3>3. QED BY <2>1, <2>3, <3>1, <3>2 DEF Timers
  <2>4. QED BY <2>2, <2>3
<1>4. \A x \in Labels : ~Set(x) => active_timers'[x] = active_timers[x]
  BY DEF ClockTime
<1>5. \A x \in Labels : Set(x)' => Set(x)
  BY <1>4 DEF Set
<1>6. active_timers' \in [Labels -> Timers \union {None}]
  BY <1>3, <1>4 DEF ClockTime, Set
<1>7. TimersKnown'
  BY <1>2, <1>3, <1>5, <1>6, TimersChange DEF Quiet
<1>8. ReportsKnown'
  BY <1>2, <1>3, <1>5 DEF ClockIInv, ReportsKnown, Quiet
<1>9. QED BY <1>2, <1>7, <1>8, QuietKeeps DEF ClockIInv

LEMMA ClockInductive ==
  ASSUME ClockIInv, ClockAll
  PROVE  ClockIInv'
<1>1. CASE ClockService
  <2>1. ClockLinks' /\ Quiet /\ CallsApart'
    BY <1>1, ClockServiceKeeps, QuietKeeps
  <2>2. QED BY <1>1, <2>1 DEF ClockService, ClockIInv, TimersKnown, ReportsKnown, Set
<1>2. ASSUME NEW l \in Links, ClockMessage(l) PROVE ClockIInv'
  <2>. DEFINE m == Message(l)
  <2>1. /\ ClockLinks' /\ m \in ClockMessages
        /\ \A k : ~Pending(l, k)'
        /\ \A o \in Links : \A k : o # l /\ Pending(o, k)' => Pending(o, k)
    BY <1>2, ClockTakes
  <2>2. UNCHANGED <<calls, reports>>
    BY <1>2 DEF ClockMessage
  <2>3. CASE m.type = "call" /\ m.name = "set_timer" /\ set_timer(l, m)
    BY <1>2, <2>3, SetKeeps
  <2>4. CASE m.type = "call" /\ m.name = "cancel_timer" /\ cancel_timer(m) /\ Cancellable(m.label)
    <3>1. m.label \in Labels
      BY <2>1, <2>4 DEF ClockMessages
    <3>2. TimersKnown' /\ ReportsKnown'
      BY <2>2, <2>4, <3>1, CancelKeeps
    <3>3. UNCHANGED asked
      BY <2>4 DEF cancel_timer
    <3>4. CallsApart'
      BY <2>1, <2>2, <3>3 DEF ClockIInv, CallsApart
    <3>5. QED BY <2>1, <3>2, <3>4 DEF ClockIInv
  <2>5. CASE UNCHANGED <<active_timers, asked, void>>
    BY <2>1, <2>2, <2>5 DEF ClockIInv, CallsApart, TimersKnown, ReportsKnown, Set
  <2>6. QED BY <1>2, <2>3, <2>4, <2>5 DEF ClockMessage, handle_call, cancel_timer
<1>3. CASE \E x \in Labels : Report(x)
  BY <1>3, ReportKeeps
<1>4. CASE ClockTurn
  BY <1>4 DEF ClockTurn, ClockIInv, ClockLinks, CallsApart, TimersKnown, ReportsKnown, Set, Pending,
              LinkOK, Drained
<1>5. CASE ClockTime
  BY <1>5, ClockTimeKeeps
<1>6. CASE \E l \in Links : ClockCall(l)
  BY <1>6, CallKeeps
<1>7. CASE (\E l \in Links : ClockServer(l)) \/ (LinkFault /\ UNCHANGED clockVars)
  <2>1. UNCHANGED clockVars
    BY <1>7 DEF ClockServer
  <2>2. /\ LinkOK(ClockMessages)' /\ UNCHANGED link
        /\ \A l \in Links : far'[l].unread = far[l].unread
    BY <1>7, FaultKeeps DEF ClockServer, ClockIInv, ClockLinks
  <2>3. \A l \in Links : \A m : Pending(l, m)' <=> Pending(l, m)
    BY <2>2 DEF Pending
  <2>4. ClockLinks' /\ CallsApart'
    BY <2>1, <2>2, <2>3 DEF clockVars, ClockIInv, ClockLinks, CallsApart, Drained
  <2>5. TimersKnown' /\ ReportsKnown'
    BY <2>1 DEF clockVars, ClockIInv, TimersKnown, ReportsKnown, Set
  <2>6. QED BY <2>4, <2>5 DEF ClockIInv
<1>8. ASSUME NEW l \in Links, ClockGreets(l) PROVE ClockIInv'
  <2>1. PICK n \in UserNames : Welcome(l, n)
    BY <1>8 DEF ClockGreets
  <2>. DEFINE m == [type |-> "identity", name |-> n]
  <2>2. m \in ClockMessages
    BY DEF ClockMessages
  <2>3. UNCHANGED <<drops, clockVars>> /\ LinkOK(ClockMessages) /\ drops' \in Nat
    BY <1>8 DEF ClockGreets, ClockIInv, ClockLinks, LinkOK
  <2>4. /\ LinkOK(ClockMessages)' /\ UNCHANGED link /\ far'[l].unread = <<m>>
        /\ link[l].incoming = <<>>
        /\ \A o \in Links : o # l => far'[o] = far[o]
    BY <2>1, <2>2, <2>3, WelcomeKeeps
  <2>5. ASSUME NEW o \in Links, NEW k, Pending(o, k)' PROVE Pending(o, k)
    <3>1. CASE o = l
      <4>1. <<k>> = <<m>> /\ k.type = "call"
        BY <2>4, <2>5, <3>1 DEF Pending
      <4>2. k = m
        BY <4>1
      <4>3. QED BY <4>1, <4>2
    <3>2. CASE o # l
      BY <2>4, <2>5, <3>2 DEF Pending
    <3>3. QED BY <3>1, <3>2
  <2>6. Quiet
    BY <2>3, <2>5 DEF Quiet, clockVars
  <2>7. QED BY <2>3, <2>4, <2>6, QuietKeeps DEF clockVars, ClockIInv, ClockLinks, TimersKnown, ReportsKnown,
                                            Set, Drained
<1>9. QED BY <1>1, <1>2, <1>3, <1>4, <1>5, <1>6, <1>7, <1>8 DEF ClockAll, ClockNext, ClockStep

\* A timer is reported once and to the server that set it, and a timer that was
\* cancelled or replaced never is: for any labels, any number of calls and faults.
THEOREM TimersHonest == ClockSpec => []ReportsHonest
<1>1. LinkInit /\ ClockInit => ClockIInv
  BY ClockInitial
<1>2. ClockIInv /\ [ClockAll]_<<linkVars, clockVars>> => ClockIInv'
  <2>1. CASE UNCHANGED <<linkVars, clockVars>>
    <3>. SUFFICES ASSUME ClockIInv  PROVE ClockIInv'
      OBVIOUS
    <3>1. ClockLinks' /\ CallsApart'
      BY <2>1 DEF clockVars, ClockIInv, ClockLinks, CallsApart, Pending, LinkOK, Drained
    <3>2. TimersKnown'
      BY <2>1 DEF clockVars, ClockIInv, TimersKnown, Set
    <3>3. ReportsKnown'
      BY <2>1 DEF clockVars, ClockIInv, ReportsKnown, Set
    <3>4. QED BY <3>1, <3>2, <3>3 DEF ClockIInv
  <2>2. QED BY <2>1, ClockInductive
<1>3. ClockIInv => ReportsHonest
  BY DEF ClockIInv, ReportsKnown, TimersKnown, ReportsHonest
<1>4. QED BY <1>1, <1>2, <1>3, PTL DEF ClockSpec, ClockAll

-----------------------------------------------------------------------------
(* Presence *)

PresenceMessages ==
  [type : {"identity"}, name : Profiles]
    \union [type : {"call"}, name : {"check_presence"}]
    \union [type : {"call"}, name : {"set_presence_action"}, person : Persons, trigger : Triggers,
            action : Actions]
    \union [type : {"call"}, name : {"register_presence_person"}, person : Persons]

ActionSets == [Triggers -> Actions \union {"none"}]
Settings(s) == DOMAIN s \subseteq Persons /\ s \in [DOMAIN s -> ActionSets]
People == [seen : [Backends -> {"away", "near", "searching"}], near : BOOLEAN,
           triggered : BOOLEAN, actions : ActionSets]

PresenceLinks == /\ LinkOK(PresenceMessages)
                 /\ presence_pc \in {"service", "drain", "tell"}
                 /\ presence_pc # "drain" => Drained

ServersTyped == /\ user \in [Links -> Profiles \union {Nobody}] /\ user["olli"] # Nobody
                /\ files \in [Profiles -> {files[n] : n \in Profiles}]
                /\ \A n \in Profiles : Settings(files[n])

\* Whose call can reach the tool has told it who the user is.
Identified == \A l \in Links :
  /\ far[l].peer = "ready" /\ far[l].unread = <<>> /\ link[l].incoming = <<>>
       => current_profile_name # Nobody
  /\ \A m : Pending(l, m) => current_profile_name # Nobody

\* The people are those of the settings, as long as there are any.
PeopleKnown == /\ current_profile_name \in Profiles \union {Nobody}
               /\ Settings(settings) /\ Tracked \subseteq Persons /\ people \in [Tracked -> People]
               /\ current_profile_name # Nobody => DOMAIN settings = Tracked
               /\ needs_sync \in [Links -> BOOLEAN]

\* What was announced is what is, but for those whose change is about to be told.
Announced ==
  /\ announced \in [Persons -> {"none", "near", "away"}]
  /\ \A p \in Persons \ Tracked : announced[p] # "near"
  /\ \A p \in Tracked : \/ presence_pc = "tell" /\ people[p].triggered
                        \/ people[p].near <=> announced[p] = "near"

\* Nobody's change is about to be told.
NoneTriggered == presence_pc = "tell" => \A p \in Tracked : ~people[p].triggered
Believed ==
  /\ belief \in [Links -> {"unknown", "near", "away"}]
  /\ \A l \in current : l \in Links /\ link[l].sock
  /\ Cardinality(Tracked) = 1 /\ NoneTriggered =>
       \A l \in current : far[l].peer # "none" /\ ~needs_sync[l] => belief[l] = Where(AnyNear)

PresenceIInv == PresenceLinks /\ ServersTyped /\ Identified /\ PeopleKnown /\ Announced /\ Believed

PresenceAll == PresenceNext \/ (LinkFault /\ UNCHANGED presenceVars)

LEMMA PresenceInitial == ASSUME LinkInit, PresenceInit PROVE PresenceIInv
<1>. USE PresenceAssumption
<1>1. /\ LinkOK(PresenceMessages) /\ Drained
      /\ \A l \in Links : far[l].peer = "none" /\ far[l].unread = <<>> /\ link[l].incoming = <<>>
  BY StartOK DEF Drained
<1>2. PresenceLinks
  BY <1>1 DEF PresenceLinks, PresenceInit
<1>3. NoAction \in ActionSets
  BY DEF NoAction, ActionSets
<1>4. \A S \in SUBSET Persons : Settings(NewSettings(S)) /\ DOMAIN NewSettings(S) = S
  BY <1>3 DEF Settings, NewSettings
<1>5. ServersTyped
  BY <1>4 DEF ServersTyped, PresenceInit
<1>6. Identified
  <2>1. \A m : <<>> # <<m>>
    OBVIOUS
  <2>2. QED BY <1>1, <2>1 DEF Identified, Pending
<1>7. Tracked = {}
  BY DEF Tracked, PresenceInit
<1>8. PeopleKnown
  BY <1>4, <1>7 DEF PeopleKnown, PresenceInit, Empty
<1>9. Announced /\ Believed
  BY <1>7 DEF Announced, Believed, PresenceInit
<1>10. QED BY <1>2, <1>5, <1>6, <1>8, <1>9 DEF PresenceIInv

LEMMA PresenceServiceKeeps == ASSUME PresenceIInv, PresenceService PROVE PresenceIInv'
<1>1. LinkOK(PresenceMessages) /\ Drained /\ ServiceLinks
  BY DEF PresenceIInv, PresenceLinks, PresenceService
<1>2. /\ LinkOK(PresenceMessages)'
      /\ \A l \in Links : /\ far'[l].unread = <<>>
                          /\ link'[l].incoming \in {<<>>, far[l].unread}
                          /\ link'[l].incoming # <<>> => link[l].sock /\ link'[l].sock
                          /\ link[l].sock /\ link'[l].sock =>
                               far'[l].peer = far[l].peer /\ link'[l].incoming = far[l].unread
                          /\ ~link[l].sock /\ link'[l].sock => far'[l].peer = "new"
  BY <1>1, ServiceKeeps
<1>3. UNCHANGED <<people, announced, belief, user, files>> /\ presence_pc = "service" /\ presence_pc' = "drain"
  BY DEF PresenceService, worldVars
<1>4. PresenceLinks' /\ ServersTyped'
  BY <1>2, <1>3 DEF PresenceIInv, PresenceLinks, ServersTyped
<1>5. \A l \in Links : link'[l].sock <=> Serviced[l].k.sock
  <2>1. ASSUME NEW l \in Links PROVE link'[l].sock <=> Serviced[l].k.sock
    <3>1. ServedOK(PresenceMessages, link[l], far[l], service(l))
      BY <1>1, ServiceOne DEF Drained
    <3>2. service(l).k \in Ends(PresenceMessages)
      BY <3>1 DEF ServedOK, EndOK
    <3>3. link'[l] = [service(l).k EXCEPT !.disconnected_flag = FALSE]
      BY <1>1 DEF ServiceLinks, Serviced
    <3>4. QED BY <3>2, <3>3 DEF Serviced, Ends
  <2>2. QED BY <2>1
<1>6. Identified'
  <2>1. CASE all_links_dropped
    <3>1. \A l \in Links : ~link'[l].sock
      BY <1>5, <2>1 DEF all_links_dropped
    <3>2. \A l \in Links : far'[l].peer = "none" /\ far'[l].unread = <<>> /\ link'[l].incoming = <<>>
      BY <1>2, <3>1 DEF LinkOK, EndOK
    <3>3. \A m : <<>> # <<m>>
      OBVIOUS
    <3>4. QED BY <3>2, <3>3 DEF Identified, Pending
  <2>2. CASE ~all_links_dropped
    <3>1. current_profile_name' = current_profile_name
      BY <2>2 DEF PresenceService
    <3>2. ASSUME NEW l \in Links, far'[l].peer = "ready", link'[l].incoming = <<>>
          PROVE  current_profile_name # Nobody
      <4>1. link'[l].sock
        BY <1>2, <3>2 DEF LinkOK, EndOK
      <4>2. link[l].sock
        BY <1>2, <3>2, <4>1
      <4>3. far[l].peer = "ready" /\ far[l].unread = <<>> /\ link[l].incoming = <<>>
        BY <1>1, <1>2, <3>2, <4>1, <4>2 DEF Drained
      <4>4. QED BY <4>3 DEF PresenceIInv, Identified
    <3>3. ASSUME NEW l \in Links, NEW m, Pending(l, m)' PROVE current_profile_name # Nobody
      <4>1. <<>> # <<m>>
        OBVIOUS
      <4>2. Pending(l, m)
        BY <1>2, <3>3, <4>1 DEF Pending
      <4>3. QED BY <4>2 DEF PresenceIInv, Identified
    <3>4. QED BY <3>1, <3>2, <3>3 DEF Identified
  <2>3. QED BY <2>1, <2>2
<1>7. PeopleKnown'
  <2>1. needs_sync' \in [Links -> BOOLEAN]
    <3>1. \A l \in Links : (needs_sync[l] /\ link'[l].sock) \in BOOLEAN
      OBVIOUS
    <3>2. QED BY <3>1 DEF PresenceService
  <2>2. Settings(Empty)
    BY DEF Settings, Empty, NewSettings
  <2>3. QED BY <1>3, <2>1, <2>2 DEF PresenceIInv, PeopleKnown, PresenceService, Tracked, Settings
<1>8. Announced'
  BY <1>3 DEF PresenceIInv, Announced, Tracked
<1>9. Believed'
  <2>1. NoneTriggered /\ Tracked' = Tracked /\ AnyNear' = AnyNear
    BY <1>3 DEF NoneTriggered, Tracked, AnyNear
  <2>2. \A l \in current' : l \in current /\ l \in Links /\ link[l].sock /\ link'[l].sock
    BY DEF PresenceService, PresenceIInv, Believed
  <2>3. ASSUME NEW l \in current', far'[l].peer # "none", ~needs_sync'[l]
        PROVE  far[l].peer # "none" /\ ~needs_sync[l]
    BY <1>2, <2>2, <2>3 DEF PresenceService
  <2>4. QED BY <1>3, <2>1, <2>2, <2>3 DEF PresenceIInv, Believed, Where
<1>10. QED BY <1>4, <1>6, <1>7, <1>8, <1>9 DEF PresenceIInv

\* What the world does between the steps of the tool.
LEMMA PresenceWorldKeeps ==
  ASSUME PresenceIInv,
         LinkOK(PresenceMessages)', ServersTyped', Identified', UNCHANGED toolState,
         \A l \in Links : /\ link'[l].sock = link[l].sock /\ link'[l].incoming = link[l].incoming
                          /\ far'[l].peer # "none" => far[l].peer # "none" /\ belief'[l] = belief[l],
         belief' \in [Links -> {"unknown", "near", "away"}]
  PROVE  PresenceIInv'
<1>1. PresenceLinks'
  BY DEF PresenceIInv, PresenceLinks, toolState, Drained
<1>2. PeopleKnown' /\ Announced'
  BY DEF PresenceIInv, PeopleKnown, Announced, toolState, Tracked, Settings
<1>3. Believed'
  BY DEF PresenceIInv, Believed, toolState, Tracked, NoneTriggered, AnyNear, Where
<1>4. QED BY <1>1, <1>2, <1>3 DEF PresenceIInv

LEMMA PresenceWorld ==
  ASSUME PresenceIInv,
         \/ PresenceTime \/ Forwarded \/ (LinkFault /\ UNCHANGED presenceVars)
         \/ \E l \in Links : PresenceCall(l) \/ ServerStops(l) \/ ServerStarts(l) \/ Greets(l)
         \/ \E n \in Profiles, p \in Persons : Edit(n, p)
  PROVE  PresenceIInv'
<1>. USE PresenceAssumption
<1>1. LinkOK(PresenceMessages) /\ ServersTyped /\ Identified /\ Believed
  BY DEF PresenceIInv, PresenceLinks
<1>2. CASE PresenceTime
  <2>1. /\ LinkOK(PresenceMessages)' /\ UNCHANGED presenceVars
        /\ \A l \in Links : /\ link'[l].sock = link[l].sock /\ link'[l].incoming = link[l].incoming
                            /\ far'[l].unread = far[l].unread /\ far'[l].peer = far[l].peer
    BY <1>1, <1>2, TimeKeeps DEF PresenceTime
  <2>2. Identified'
    BY <1>1, <2>1 DEF Identified, Pending, presenceVars
  <2>3. ServersTyped' /\ UNCHANGED <<toolState, belief>>
    BY <1>1, <2>1 DEF ServersTyped, presenceVars, worldVars, Settings, toolState
  <2>4. QED BY <1>1, <2>1, <2>2, <2>3, PresenceWorldKeeps DEF Believed
<1>3. CASE \/ (LinkFault /\ UNCHANGED presenceVars)
           \/ \E l \in Links : ServerStops(l) \/ ServerStarts(l)
  <2>1. /\ LinkOK(PresenceMessages)' /\ UNCHANGED link
        /\ \A l \in Links : /\ far'[l].unread = far[l].unread
                            /\ far'[l].peer \in {far[l].peer, "none"}
    BY <1>1, <1>3, FaultKeeps DEF ServerStops, ServerStarts
  <2>2. UNCHANGED toolState
    BY <1>3 DEF ServerStops, ServerStarts, toolState, presenceVars
  <2>3. Identified'
    BY <1>1, <2>1, <2>2 DEF Identified, Pending, toolState
  <2>4. /\ ServersTyped' /\ belief' \in [Links -> {"unknown", "near", "away"}]
        /\ \A l \in Links : far'[l].peer # "none" => belief'[l] = belief[l]
    <3>1. CASE (LinkFault /\ UNCHANGED presenceVars)
      BY <1>1, <3>1 DEF ServersTyped, presenceVars, worldVars, Settings, Believed
    <3>2. ASSUME NEW l \in Links, ServerStops(l)
          PROVE  /\ ServersTyped' /\ belief' \in [Links -> {"unknown", "near", "away"}]
                 /\ \A o \in Links : far'[o].peer # "none" => belief'[o] = belief[o]
      <4>1. far'[l].peer = "none"
        <5>1. far' = [far EXCEPT ![l] = [far[l] EXCEPT !.up = FALSE, !.peer = "none", !.eof = far[l].peer # "none"]]
          BY <3>2 DEF ServerStops, Stops, Cut
        <5>2. far[l] \in Peers(PresenceMessages) /\ far \in [Links -> Peers(PresenceMessages)]
          BY <1>1 DEF LinkOK
        <5>3. QED BY <5>1, <5>2 DEF Peers
      <4>2. ServersTyped'
        <5>1. user' = [user EXCEPT ![l] = IF l = "olli" THEN @ ELSE Nobody] /\ files' = files
          BY <3>2 DEF ServerStops
        <5>2. user' \in [Links -> Profiles \union {Nobody}] /\ user'["olli"] # Nobody
          BY <1>1, <5>1 DEF ServersTyped, Links
        <5>3. QED BY <1>1, <5>1, <5>2 DEF ServersTyped, Settings
      <4>3. QED BY <1>1, <3>2, <4>1, <4>2 DEF ServerStops, Believed
    <3>3. ASSUME NEW l \in Links, ServerStarts(l)
          PROVE  ServersTyped' /\ UNCHANGED belief
      <4>1. PICK n \in (IF l = "olli" THEN Profiles ELSE {user[l]}) : user' = [user EXCEPT ![l] = n]
        BY <3>3 DEF ServerStarts
      <4>2. files' = files /\ belief' = belief
        BY <3>3 DEF ServerStarts
      <4>3. user' \in [Links -> Profiles \union {Nobody}] /\ user'["olli"] # Nobody
        BY <1>1, <4>1 DEF ServersTyped, Links
      <4>4. QED BY <1>1, <4>2, <4>3 DEF ServersTyped, Settings
    <3>4. QED BY <1>1, <1>3, <3>1, <3>2, <3>3 DEF Believed
  <2>5. QED BY <2>1, <2>2, <2>3, <2>4, PresenceWorldKeeps
<1>4. ASSUME NEW l \in Links, PresenceCall(l) PROVE PresenceIInv'
  <2>1. PICK m \in PresenceMessages : m.type = "call" /\ Says(l, m)
    <3>1. [type |-> "call", name |-> "check_presence"] \in PresenceMessages
      BY DEF PresenceMessages
    <3>2. \A p \in Persons, t \in Triggers, a \in Actions :
            [type |-> "call", name |-> "set_presence_action", person |-> p, trigger |-> t,
             action |-> a] \in PresenceMessages
      BY DEF PresenceMessages
    <3>3. \A p \in Persons : [type |-> "call", name |-> "register_presence_person", person |-> p] \in PresenceMessages
      BY DEF PresenceMessages
    <3>4. QED BY <1>4, <3>1, <3>2, <3>3 DEF PresenceCall
  <2>2. CanSay(l) /\ drops' \in Nat /\ UNCHANGED <<toolState, files, user, belief>>
    <3>1. drops' = drops + 1 /\ drops \in Nat
      BY <1>1, <1>4 DEF PresenceCall, Upset, LinkOK
    <3>2. QED BY <1>4, <3>1 DEF PresenceCall
  <2>3. /\ LinkOK(PresenceMessages)' /\ UNCHANGED link /\ far'[l].unread = <<m>>
        /\ far[l].unread = <<>> /\ link[l].incoming = <<>> /\ far[l].peer = "ready"
        /\ \A o \in Links : far'[o].peer = far[o].peer /\ (o # l => far'[o] = far[o])
    BY <1>1, <2>1, <2>2, SaysKeeps
  <2>4. current_profile_name # Nobody
    BY <1>1, <2>3 DEF Identified
  <2>5. Identified'
    BY <2>2, <2>4 DEF Identified, toolState
  <2>6. ServersTyped'
    BY <1>1, <2>2 DEF ServersTyped, Settings
  <2>7. QED BY <1>1, <2>2, <2>3, <2>5, <2>6, PresenceWorldKeeps DEF Believed
<1>5. ASSUME NEW l \in Links, NEW n \in Profiles, NEW m, m = [type |-> "identity", name |-> n],
             LinkOK(PresenceMessages)', UNCHANGED <<link, toolState, files, belief>>, ServersTyped',
             far'[l].unread = <<m>>, link[l].incoming = <<>>, far[l].peer # "none",
             \A o \in Links : o # l => far'[o] = far[o]
      PROVE  PresenceIInv'
  <2>1. ASSUME NEW o \in Links, NEW k, Pending(o, k)' PROVE Pending(o, k)
    <3>1. CASE o = l
      <4>1. <<k>> = <<m>> /\ k.type = "call"
        BY <1>5, <2>1, <3>1 DEF Pending
      <4>2. k = m
        BY <4>1
      <4>3. QED BY <1>5, <4>1, <4>2
    <3>2. CASE o # l
      BY <1>5, <2>1, <3>2 DEF Pending
    <3>3. QED BY <3>1, <3>2
  <2>2. <<m>> # <<>>
    OBVIOUS
  <2>3. Identified'
    BY <1>1, <1>5, <2>1, <2>2 DEF Identified, toolState
  <2>4. QED BY <1>1, <1>5, <2>3, PresenceWorldKeeps DEF Believed
<1>6. ASSUME NEW l \in Links, Greets(l) PROVE PresenceIInv'
  <2>1. user[l] \in Profiles /\ Welcome(l, user[l]) /\ drops' \in Nat /\ UNCHANGED presenceVars
    BY <1>1, <1>6 DEF Greets, ServersTyped, LinkOK
  <2>2. [type |-> "identity", name |-> user[l]] \in PresenceMessages
    BY <2>1 DEF PresenceMessages
  <2>3. /\ LinkOK(PresenceMessages)' /\ UNCHANGED link
        /\ far'[l].unread = <<[type |-> "identity", name |-> user[l]]>>
        /\ link[l].incoming = <<>>
        /\ far[l].peer = "new" /\ \A o \in Links : o # l => far'[o] = far[o]
    BY <1>1, <2>1, <2>2, WelcomeKeeps
  <2>4. ServersTyped' /\ UNCHANGED <<toolState, files, belief>>
    BY <1>1, <2>1 DEF ServersTyped, presenceVars, worldVars, Settings, toolState
  <2>5. QED BY <1>5, <2>1, <2>3, <2>4
<1>7. CASE Forwarded
  <2>1. /\ "olli" \in Links /\ "subcon" \in Links /\ user["olli"] \in Profiles /\ drops' \in Nat
        /\ UNCHANGED <<toolState, files, belief>>
    BY <1>1, <1>7 DEF Forwarded, ServersTyped, LinkOK, Links
  <2>2. user' = [user EXCEPT !["subcon"] = user["olli"]]
    BY <1>7 DEF Forwarded
  <2>3. user' \in [Links -> Profiles \union {Nobody}] /\ user'["olli"] # Nobody
    BY <1>1, <2>1, <2>2 DEF ServersTyped
  <2>4. ServersTyped'
    BY <1>1, <2>1, <2>3 DEF ServersTyped, Settings
  <2>5. CASE UNCHANGED <<link, far>>
    BY <1>1, <1>7, <2>1, <2>4, <2>5, PresenceWorldKeeps DEF Forwarded, Identified, Pending, toolState, LinkOK, Believed
  <2>6. CASE CanSay("subcon") /\ Says("subcon", [type |-> "identity", name |-> user["olli"]])
    <3>. DEFINE m == [type |-> "identity", name |-> user["olli"]]
    <3>1. m \in PresenceMessages
      BY <2>1 DEF PresenceMessages
    <3>2. /\ LinkOK(PresenceMessages)' /\ UNCHANGED link /\ far'["subcon"].unread = <<m>>
          /\ link["subcon"].incoming = <<>> /\ far["subcon"].peer = "ready"
          /\ \A o \in Links : o # "subcon" => far'[o] = far[o]
      BY <1>1, <2>1, <2>6, <3>1, SaysKeeps
    <3>3. QED BY <1>5, <2>1, <2>4, <3>2
  <2>7. QED BY <1>7, <2>5, <2>6 DEF Forwarded
<1>8. ASSUME NEW n \in Profiles, NEW p \in Persons, Edit(n, p) PROVE PresenceIInv'
  <2>1. /\ UNCHANGED <<link, far, toolState, user, belief>> /\ drops' = drops + 1 /\ drops \in Nat
    BY <1>1, <1>8 DEF Edit, Upset, LinkOK
  <2>2. PICK s : /\ files' = [files EXCEPT ![n] = s]
                 /\ s = IF p \in DOMAIN files[n] THEN [q \in DOMAIN files[n] \ {p} |-> files[n][q]]
                        ELSE [q \in DOMAIN files[n] \union {p} |-> IF q = p THEN NoAction ELSE files[n][q]]
    BY <1>1, <1>8 DEF Edit, ServersTyped
  <2>3. Settings(files[n]) /\ NoAction \in ActionSets
    BY <1>1 DEF ServersTyped, NoAction, ActionSets
  <2>4. Settings(s)
    BY <2>2, <2>3 DEF Settings
  <2>5. /\ \A o \in Profiles : Settings(files'[o])
        /\ files' \in [Profiles -> {files'[o] : o \in Profiles}]
    BY <1>1, <2>2, <2>4 DEF ServersTyped
  <2>6. ServersTyped'
    BY <1>1, <2>1, <2>5 DEF ServersTyped
  <2>7. LinkOK(PresenceMessages)' /\ Identified'
    BY <1>1, <2>1 DEF LinkOK, Identified, Pending, toolState
  <2>8. QED BY <1>1, <2>1, <2>6, <2>7, PresenceWorldKeeps DEF Believed
<1>9. QED BY <1>2, <1>3, <1>4, <1>6, <1>7, <1>8

\* A record of a person is rewritten.
LEMMA PersonKeeps ==
  ASSUME NEW r \in People, NEW a \in ActionSets,
         NEW sn \in [Backends -> {"away", "near", "searching"}], NEW n \in BOOLEAN, NEW g \in BOOLEAN
  PROVE  /\ [r EXCEPT !.actions = a] \in People
         /\ [r EXCEPT !.actions = a].near = r.near /\ [r EXCEPT !.actions = a].triggered = r.triggered
         /\ [r EXCEPT !.triggered = FALSE] \in People
         /\ [r EXCEPT !.triggered = FALSE].near = r.near /\ ~[r EXCEPT !.triggered = FALSE].triggered
         /\ [r EXCEPT !.seen = sn, !.near = n, !.triggered = g] \in People
         /\ [r EXCEPT !.seen = sn, !.near = n, !.triggered = g].near = n
         /\ [r EXCEPT !.seen = sn, !.near = n, !.triggered = g].triggered = g
BY DEF People

LEMMA NewPerson ==
  ASSUME NEW a \in ActionSets
  PROVE  Profile(a) \in People /\ ~Profile(a).near
BY DEF Profile, People

\* A message is taken: what that does to the links, and to who is identified, if
\* the profile is still known after it.
LEMMA PresenceTakes ==
  ASSUME PresenceIInv, NEW l \in Links, PresenceMessage(l),
         \/ link' = [link EXCEPT ![l].incoming = Tail(@)]
         \/ Answered(l),
         Message(l).type = "call" => UNCHANGED current_profile_name,
         Message(l).type # "call" => current_profile_name' # Nobody
  PROVE  /\ PresenceLinks' /\ Identified' /\ Message(l) \in PresenceMessages
         /\ Message(l).type = "call" => current_profile_name \in Profiles
         /\ \A o \in Links : link'[o].sock = link[o].sock
<1>1. /\ LinkOK(PresenceMessages) /\ link[l].incoming # <<>> /\ UNCHANGED <<far, drops, presence_pc>>
      /\ presence_pc = "drain" /\ Identified
  BY DEF PresenceIInv, PresenceLinks, PresenceMessage, HasMessage
<1>2. /\ LinkOK(PresenceMessages)'
      /\ Message(l) \in PresenceMessages /\ link[l].incoming = <<Message(l)>> /\ link'[l].incoming = <<>>
      /\ \A o \in Links : link'[o].sock = link[o].sock /\ (o # l => link'[o] = link[o])
  BY <1>1, TakeKeeps
<1>3. Message(l).type = "call" => current_profile_name # Nobody
  BY <1>1, <1>2 DEF Identified, Pending
<1>4. current_profile_name' # Nobody
  BY <1>3
<1>5. Identified'
  BY <1>4 DEF Identified
<1>6. PresenceLinks'
  BY <1>1, <1>2 DEF PresenceLinks
<1>7. QED BY <1>2, <1>3, <1>5, <1>6 DEF PresenceIInv, PeopleKnown

LEMMA IdentityKeeps ==
  ASSUME PresenceIInv, NEW l \in Links, PresenceMessage(l), Message(l).type = "identity",
         handle_identity(l, Message(l).name)
  PROVE  PresenceIInv'
<1>. USE PresenceAssumption
<1>. DEFINE name == Message(l).name
            loaded == files[name]
<1>0. LinkOK(PresenceMessages) /\ link[l].incoming # <<>>
  BY DEF PresenceIInv, PresenceLinks, PresenceMessage, HasMessage
<1>1. name \in Profiles
  <2>1. PICK m \in PresenceMessages : link[l].incoming = <<m>>
    BY <1>0 DEF LinkOK, EndOK
  <2>2. QED BY <2>1 DEF Message, PresenceMessages
<1>2. /\ current_profile_name' = name /\ settings' = loaded /\ people_profile_name' = name
      /\ needs_sync' = [needs_sync EXCEPT ![l] = link[l].sock \/ @]
      /\ current' = (IF SameProfile(name) /\ DOMAIN loaded = Tracked THEN current ELSE {})
                      \union {k \in {l} : link[k].sock}
      /\ announced' = [p \in Persons |-> IF p \in Staying(name) THEN announced[p] ELSE "none"]
      /\ link' = [link EXCEPT ![l].incoming = Tail(@)]
      /\ UNCHANGED <<files, belief, far, drops, presence_pc, user>> /\ presence_pc = "drain"
  BY DEF handle_identity, PresenceMessage
<1>3. PresenceLinks' /\ Identified' /\ \A o \in Links : link'[o].sock = link[o].sock
  BY <1>1, <1>2, PresenceTakes
<1>4. Settings(loaded) /\ DOMAIN loaded \subseteq Persons /\ \A p \in DOMAIN loaded : loaded[p] \in ActionSets
  BY <1>1 DEF PresenceIInv, ServersTyped, Settings
<1>. HIDE DEF name, loaded
<1>5. people' = [p \in DOMAIN loaded |-> people'[p]] /\ Tracked' = DOMAIN loaded
  BY DEF handle_identity, sync_person_actions, load_person_profiles, Tracked, name, loaded
<1>6. ASSUME NEW p \in DOMAIN loaded
      PROVE  /\ people'[p] \in People
             /\ SameProfile(name) /\ p \in Tracked => people'[p].near = people[p].near
             /\ ~(SameProfile(name) /\ p \in Tracked) => ~people'[p].near
  <2>1. CASE SameProfile(name) /\ p \in Tracked
    <3>1. people'[p] = [people[p] EXCEPT !.actions = loaded[p]]
      BY <2>1 DEF handle_identity, sync_person_actions, name, loaded
    <3>2. people[p] \in People
      BY <2>1 DEF PresenceIInv, PeopleKnown
    <3>3. QED BY <1>4, <2>1, <3>1, <3>2 DEF People
  <2>2. CASE ~(SameProfile(name) /\ p \in Tracked)
    <3>1. people'[p] = Profile(loaded[p])
      BY <2>2 DEF handle_identity, sync_person_actions, load_person_profiles, name, loaded
    <3>2. QED BY <1>4, <2>2, <3>1, NewPerson
  <2>3. QED BY <2>1, <2>2
<1>7. ServersTyped'
  BY <1>2 DEF PresenceIInv, ServersTyped, Settings
<1>8. PeopleKnown'
  <2>1. needs_sync' \in [Links -> BOOLEAN]
    <3>1. (link[l].sock \/ needs_sync[l]) \in BOOLEAN
      OBVIOUS
    <3>2. QED BY <1>2, <3>1 DEF PresenceIInv, PeopleKnown
  <2>2. people' \in [Tracked' -> People]
    BY <1>5, <1>6
  <2>3. Settings(settings)'
    BY <1>2, <1>4 DEF Settings
  <2>4. QED BY <1>1, <1>2, <1>4, <1>5, <2>1, <2>2, <2>3 DEF PeopleKnown
<1>9. Announced'
  <2>1. Staying(name) = IF SameProfile(name) THEN Tracked \intersect DOMAIN loaded ELSE {}
    BY DEF Staying, SameProfile, loaded
  <2>2. Tracked \subseteq Persons /\ announced \in [Persons -> {"none", "near", "away"}]
        /\ \A p \in Tracked : people[p].near <=> announced[p] = "near"
    BY <1>2 DEF PresenceIInv, Announced, PeopleKnown
  <2>3. announced' \in [Persons -> {"none", "near", "away"}]
    BY <1>2, <2>1, <2>2
  <2>4. \A p \in Persons \ Tracked' : announced'[p] # "near"
    BY <1>2, <1>5, <2>1
  <2>5. \A p \in Tracked' : people'[p].near <=> announced'[p] = "near"
    BY <1>2, <1>4, <1>5, <1>6, <2>1, <2>2
  <2>6. QED BY <2>3, <2>4, <2>5 DEF Announced
<1>10. Believed'
  <2>1. belief' \in [Links -> {"unknown", "near", "away"}]
    BY <1>2 DEF PresenceIInv, Believed
  <2>2. ASSUME NEW k \in current'
        PROVE  /\ k \in Links /\ link'[k].sock
               /\ needs_sync'[k] \/ (k \in current /\ SameProfile(name) /\ DOMAIN loaded = Tracked /\ ~needs_sync[k])
    <3>1. CASE k = l /\ link[l].sock
      BY <1>2, <1>3, <3>1 DEF PresenceIInv, PeopleKnown
    <3>2. CASE k \in current /\ SameProfile(name) /\ DOMAIN loaded = Tracked
      <4>1. k \in Links /\ link[k].sock
        BY <3>2 DEF PresenceIInv, Believed
      <4>2. needs_sync[k] => needs_sync'[k]
        BY <1>2, <4>1 DEF PresenceIInv, PeopleKnown
      <4>3. QED BY <1>3, <3>2, <4>1, <4>2
    <3>3. QED BY <1>2, <2>2, <3>1, <3>2
  <2>3. SameProfile(name) /\ DOMAIN loaded = Tracked => Tracked' = Tracked /\ (AnyNear' <=> AnyNear)
    BY <1>5, <1>6 DEF AnyNear
  <2>4. NoneTriggered
    BY <1>2 DEF NoneTriggered
  <2>5. ASSUME NEW k \in current', Cardinality(Tracked') = 1, far'[k].peer # "none", ~needs_sync'[k]
        PROVE  belief'[k] = Where(AnyNear')
    <3>1. k \in current /\ Tracked' = Tracked /\ (AnyNear' <=> AnyNear) /\ ~needs_sync[k]
      BY <2>2, <2>3, <2>5
    <3>2. belief[k] = Where(AnyNear)
      BY <1>2, <2>4, <2>5, <3>1 DEF PresenceIInv, Believed
    <3>3. QED BY <1>2, <3>1, <3>2 DEF Where
  <2>6. QED BY <2>1, <2>2, <2>5 DEF Believed, Where
<1>11. QED BY <1>3, <1>7, <1>8, <1>9, <1>10 DEF PresenceIInv

LEMMA SaveSettings ==
  ASSUME PresenceIInv, current_profile_name \in Profiles, save_settings, Settings(settings'), UNCHANGED user
  PROVE  ServersTyped'
<1>1. files' = [files EXCEPT ![current_profile_name] = settings'] /\ ServersTyped
  BY DEF save_settings, PresenceIInv
<1>2. \A n \in Profiles : Settings(files'[n])
  BY <1>1 DEF ServersTyped
<1>3. files' \in [Profiles -> {files'[n] : n \in Profiles}]
  BY <1>1 DEF ServersTyped
<1>4. QED BY <1>1, <1>2, <1>3 DEF ServersTyped

\* A call changes who is tracked, or leaves all of them where they are.
LEMMA CallChanges ==
  ASSUME PresenceIInv, NEW m \in PresenceMessages, m.type = "call", current_profile_name \in Profiles,
         \/ m.name = "check_presence" /\ UNCHANGED <<people, settings, files>>
         \/ m.name = "set_presence_action" /\ set_presence_action(m)
         \/ m.name = "register_presence_person" /\ register_presence_person(m),
         UNCHANGED user
  PROVE  /\ ServersTyped' /\ Settings(settings)' /\ Tracked' \subseteq Persons
         /\ people' \in [Tracked' -> People]
         /\ DOMAIN settings' = Tracked'
         /\ Tracked \subseteq Tracked'
         /\ \A p \in Tracked : people'[p].near = people[p].near
         /\ \A p \in Tracked' \ Tracked : ~people'[p].near
<1>. USE PresenceAssumption
<1>1. /\ ServersTyped /\ Settings(settings) /\ Tracked \subseteq Persons
      /\ people \in [Tracked -> People] /\ DOMAIN settings = Tracked
  BY DEF PresenceIInv, PeopleKnown
<1>2. CASE UNCHANGED <<people, settings, files>>
  BY <1>1, <1>2 DEF ServersTyped, Settings, Tracked
<1>3. CASE m.name = "set_presence_action" /\ set_presence_action(m) /\ m.person \in DOMAIN settings
  <2>1. m.person \in Persons /\ m.trigger \in Triggers /\ m.action \in Actions
    BY <1>3 DEF PresenceMessages
  <2>2. /\ settings' = [settings EXCEPT ![m.person][m.trigger] = m.action] /\ save_settings
        /\ people' = [p \in Tracked |-> IF p = m.person THEN [people[p] EXCEPT !.actions[m.trigger] = m.action]
                                        ELSE people[p]]
    BY <1>3 DEF set_presence_action
  <2>3. Settings(settings') /\ DOMAIN settings' = Tracked
    <3>1. settings[m.person] \in ActionSets
      BY <1>1, <1>3 DEF Settings
    <3>2. [settings[m.person] EXCEPT ![m.trigger] = m.action] \in ActionSets
      BY <2>1, <3>1 DEF ActionSets
    <3>3. settings' = [settings EXCEPT ![m.person] = [settings[m.person] EXCEPT ![m.trigger] = m.action]]
      BY <1>3, <2>2
    <3>4. QED BY <1>1, <1>3, <3>2, <3>3 DEF Settings
  <2>4. ASSUME NEW p \in Tracked
        PROVE  people'[p] \in People /\ people'[p].near = people[p].near
    <3>1. people[p] \in People
      BY <1>1
    <3>2. CASE p = m.person
      <4>. DEFINE a == [people[p].actions EXCEPT ![m.trigger] = m.action]
      <4>1. people[p].actions \in ActionSets
        BY <3>1 DEF People
      <4>2. a \in ActionSets
        BY <2>1, <4>1 DEF ActionSets
      <4>3. people'[p] = [people[p] EXCEPT !.actions = a]
        BY <2>2, <3>1, <3>2 DEF People
      <4>. HIDE DEF a
      <4>4. QED BY <3>1, <4>2, <4>3 DEF People
    <3>3. CASE p # m.person
      BY <2>2, <3>1, <3>3
    <3>4. QED BY <3>2, <3>3
  <2>5. Tracked' = Tracked /\ people' \in [Tracked' -> People]
    BY <2>2, <2>4 DEF Tracked
  <2>6. ServersTyped'
    BY <2>2, <2>3, SaveSettings
  <2>7. QED BY <1>1, <2>3, <2>4, <2>5, <2>6
<1>4. CASE m.name = "register_presence_person" /\ register_presence_person(m) /\ m.person \notin DOMAIN settings
  <2>1. m.person \in Persons /\ NoAction \in ActionSets
    BY <1>4 DEF PresenceMessages, NoAction, ActionSets
  <2>2. /\ settings' = [p \in DOMAIN settings \union {m.person} |-> IF p = m.person THEN NoAction ELSE settings[p]]
        /\ save_settings
        /\ people' = [p \in Tracked \union {m.person} |-> IF p = m.person THEN Profile(NoAction) ELSE people[p]]
    BY <1>4 DEF register_presence_person
  <2>3. Settings(settings') /\ DOMAIN settings' = Tracked \union {m.person}
    BY <1>1, <2>1, <2>2 DEF Settings
  <2>4. Tracked' = Tracked \union {m.person}
    BY <2>2 DEF Tracked
  <2>5. ServersTyped'
    BY <2>2, <2>3, SaveSettings
  <2>6. Profile(NoAction) \in People /\ ~Profile(NoAction).near
    BY <2>1, NewPerson
  <2>7. QED BY <1>1, <1>4, <2>1, <2>2, <2>3, <2>4, <2>5, <2>6
<1>5. QED BY <1>2, <1>3, <1>4 DEF set_presence_action, register_presence_person

LEMMA PresenceCallKeeps ==
  ASSUME PresenceIInv, NEW l \in Links, PresenceMessage(l), Message(l).type = "call",
         handle_presence_call(l, Message(l))
  PROVE  PresenceIInv'
<1>. DEFINE m == Message(l)
<1>1. /\ Answered(l) /\ current' = (IF DOMAIN people' = Tracked THEN current ELSE {})
      /\ UNCHANGED <<current_profile_name, people_profile_name, presence_state_known,
                     needs_sync, belief, announced, far, drops, presence_pc, user>>
      /\ presence_pc = "drain"
  BY DEF handle_presence_call, PresenceMessage
<1>2. /\ PresenceLinks' /\ Identified' /\ m \in PresenceMessages /\ current_profile_name \in Profiles
      /\ \A o \in Links : link'[o].sock = link[o].sock
  BY <1>1, PresenceTakes
<1>3. /\ ServersTyped' /\ Settings(settings)' /\ Tracked' \subseteq Persons
      /\ people' \in [Tracked' -> People]
      /\ DOMAIN settings' = Tracked'
      /\ Tracked \subseteq Tracked'
      /\ \A p \in Tracked : people'[p].near = people[p].near
      /\ \A p \in Tracked' \ Tracked : ~people'[p].near
  BY <1>1, <1>2, CallChanges DEF handle_presence_call
<1>4. PeopleKnown'
  BY <1>1, <1>3 DEF PresenceIInv, PeopleKnown
<1>5. Announced'
  BY <1>1, <1>3 DEF PresenceIInv, Announced
<1>6. Believed'
  <2>1. current' \subseteq current /\ (current' # {} => Tracked' = Tracked)
    BY <1>1 DEF Tracked
  <2>2. Tracked' = Tracked => (AnyNear' <=> AnyNear)
    BY <1>3 DEF AnyNear
  <2>3. NoneTriggered
    BY <1>1 DEF NoneTriggered
  <2>4. QED BY <1>1, <1>2, <2>1, <2>2, <2>3 DEF PresenceIInv, Believed, Where
<1>7. QED BY <1>2, <1>3, <1>4, <1>5, <1>6 DEF PresenceIInv

LEMMA PollKeeps == ASSUME PresenceIInv, PollPeople PROVE PresenceIInv'
<1>1. PICK seen \in [Tracked -> [Backends -> {"away", "near", "searching"}]] :
        people' = [p \in Tracked |->
            LET near == \E b \in Backends : seen[p][b] # "away"
            IN  [people[p] EXCEPT !.seen = seen[p], !.near = near,
                                  !.triggered = (near # people[p].near)]]
  BY DEF PollPeople
<1>2. /\ UNCHANGED <<linkVars, needs_sync, current_profile_name, settings, people_profile_name,
                     worldVars, belief, current, announced>>
      /\ presence_pc = "drain" /\ presence_pc' = "tell" /\ Drained
  BY DEF PollPeople
<1>3. ASSUME NEW p \in Tracked
      PROVE  people'[p] \in People /\ (~people'[p].triggered => people'[p].near = people[p].near)
  <2>. DEFINE near == \E b \in Backends : seen[p][b] # "away"
              g == near # people[p].near
  <2>1. people[p] \in People /\ near \in BOOLEAN /\ g \in BOOLEAN
        /\ seen[p] \in [Backends -> {"away", "near", "searching"}]
    BY DEF PresenceIInv, PeopleKnown
  <2>2. people'[p] = [people[p] EXCEPT !.seen = seen[p], !.near = near, !.triggered = g]
    BY <1>1
  <2>3. ~g => near = people[p].near
    OBVIOUS
  <2>. HIDE DEF near, g
  <2>4. people'[p] \in People /\ people'[p].near = near /\ people'[p].triggered = g
    BY <2>1, <2>2 DEF People
  <2>5. QED BY <2>3, <2>4
<1>4. Tracked' = Tracked /\ people' \in [Tracked' -> People]
  BY <1>1, <1>3 DEF Tracked
<1>5. PresenceLinks' /\ ServersTyped' /\ Identified' /\ PeopleKnown'
  BY <1>2, <1>4 DEF PresenceIInv, PresenceLinks, ServersTyped, Identified, PeopleKnown, worldVars, Settings,
                    LinkOK, Drained, Pending
<1>6. Announced'
  BY <1>2, <1>3, <1>4 DEF PresenceIInv, Announced
<1>7. Believed'
  <2>1. NoneTriggered' => (AnyNear' <=> AnyNear)
    BY <1>2, <1>3, <1>4 DEF NoneTriggered, AnyNear
  <2>2. NoneTriggered
    BY <1>2 DEF NoneTriggered
  <2>3. QED BY <1>2, <1>4, <2>1, <2>2 DEF PresenceIInv, Believed, Where
<1>8. QED BY <1>5, <1>6, <1>7 DEF PresenceIInv

LEMMA TellKeeps == ASSUME PresenceIInv, Tell PROVE PresenceIInv'
<1>. USE PresenceAssumption
<1>. DEFINE triggered == {p \in Tracked : people[p].triggered}
            synced    == {l \in Links : Synced(l)}
            sends     == synced \union (IF triggered = {} THEN {} ELSE TransitionLinks)
<1>1. /\ presence_pc = "tell" /\ presence_pc' = "service"
      /\ needs_sync' = [l \in Links |-> needs_sync[l] /\ l \notin synced]
      /\ people' = [p \in Tracked |-> [people[p] EXCEPT !.triggered = FALSE]]
      /\ announced' = [p \in Persons |-> IF p \in triggered THEN Where(people[p].near) ELSE announced[p]]
      /\ link' = [l \in Links |-> IF l \in sends THEN [link[l] EXCEPT !.idle = 0] ELSE link[l]]
      /\ UNCHANGED <<far, drops, presence_state_known, current_profile_name, settings,
                     people_profile_name, worldVars, current>>
  BY DEF Tell
<1>2. PICK last \in IF triggered = {} THEN {Where(AnyNear)}
                    ELSE {Where(people[p].near) : p \in triggered} :
        belief' = [l \in Links |-> IF ~(l \in sends /\ Heard(l)) THEN belief[l] ELSE last]
  BY DEF Tell
<1>3. \A p \in Tracked : people'[p] \in People /\ people'[p].near = people[p].near
  BY <1>1 DEF PresenceIInv, PeopleKnown, People
<1>4. Tracked' = Tracked /\ people' \in [Tracked' -> People] /\ (AnyNear' <=> AnyNear)
  BY <1>1, <1>3 DEF Tracked, AnyNear
<1>5. ASSUME NEW l \in Links
      PROVE  link'[l] \in Ends(PresenceMessages) /\ link'[l].sock = link[l].sock
             /\ link'[l].incoming = link[l].incoming
  <2>1. link[l] \in Ends(PresenceMessages)
    BY DEF PresenceIInv, PresenceLinks, LinkOK
  <2>2. link'[l] \in {link[l], [link[l] EXCEPT !.idle = 0]}
    BY <1>1
  <2>3. QED BY <2>1, <2>2 DEF Ends
<1>. HIDE DEF synced, sends
<1>6. PresenceLinks'
  <2>1. link' \in [Links -> Ends(PresenceMessages)]
    BY <1>1, <1>5
  <2>2. LinkOK(PresenceMessages)'
    BY <1>1, <1>5, <2>1 DEF PresenceIInv, PresenceLinks, LinkOK, EndOK
  <2>3. QED BY <1>1, <1>5, <2>2 DEF PresenceIInv, PresenceLinks, Drained
<1>7. ServersTyped' /\ Identified'
  BY <1>1, <1>5 DEF PresenceIInv, ServersTyped, Settings, Identified, Pending, worldVars
<1>8. PeopleKnown'
  <2>1. needs_sync' \in [Links -> BOOLEAN]
    <3>1. \A l \in Links : (needs_sync[l] /\ l \notin synced) \in BOOLEAN
      OBVIOUS
    <3>2. QED BY <1>1, <3>1
  <2>2. QED BY <1>1, <1>4, <2>1 DEF PresenceIInv, PeopleKnown, Settings
<1>9. Announced'
  <2>1. \A b \in BOOLEAN : Where(b) \in {"near", "away"} /\ (b <=> Where(b) = "near")
    BY DEF Where
  <2>2. \A p \in Tracked : people[p].near \in BOOLEAN /\ people[p].triggered \in BOOLEAN
    BY DEF PresenceIInv, PeopleKnown, People
  <2>3. QED BY <1>1, <1>3, <1>4, <2>1, <2>2 DEF PresenceIInv, Announced, PeopleKnown
<1>10. Believed'
  <2>1. last \in {"near", "away"}
    BY <1>2 DEF Where
  <2>2. belief' \in [Links -> {"unknown", "near", "away"}]
    BY <1>2, <2>1 DEF PresenceIInv, Believed
  <2>3. \A l \in current : l \in Links /\ link[l].sock
    BY DEF PresenceIInv, Believed
  <2>4. ASSUME Cardinality(Tracked) = 1 PROVE last = Where(AnyNear)
    <3>1. IsFiniteSet(Tracked)
      BY FS_Subset DEF PresenceIInv, PeopleKnown
    <3>2. PICK p : Tracked = {p}
      BY <2>4, <3>1, FS_Singleton
    <3>3. AnyNear <=> people[p].near
      BY <3>2 DEF AnyNear
    <3>4. people[p].near \in BOOLEAN /\ AnyNear \in BOOLEAN
      BY <3>2 DEF PresenceIInv, PeopleKnown, People, AnyNear
    <3>5. QED BY <1>2, <3>2, <3>3, <3>4
  <2>5. ASSUME NEW l \in current, Cardinality(Tracked) = 1, far[l].peer # "none", ~needs_sync'[l]
        PROVE  belief'[l] = Where(AnyNear)
    <3>1. l \in Links /\ Heard(l)
      BY <2>3, <2>5 DEF Heard
    <3>2. CASE l \in sends
      BY <1>2, <2>4, <2>5, <3>1, <3>2
    <3>3. CASE l \notin sends
      <4>1. triggered = {}
        BY <2>3, <2>5, <3>3 DEF sends, TransitionLinks, Sends
      <4>2. NoneTriggered
        BY <4>1 DEF NoneTriggered
      <4>3. l \notin synced
        BY <3>3 DEF sends
      <4>4. ~needs_sync[l]
        BY <1>1, <2>5, <3>1, <4>3
      <4>5. belief[l] = Where(AnyNear)
        BY <2>5, <4>2, <4>4 DEF PresenceIInv, Believed
      <4>6. QED BY <1>2, <3>1, <3>3, <4>5
    <3>4. QED BY <3>2, <3>3
  <2>6. QED BY <1>1, <1>4, <1>5, <2>2, <2>3, <2>5 DEF Believed, Where
<1>11. QED BY <1>6, <1>7, <1>8, <1>9, <1>10 DEF PresenceIInv

LEMMA PresenceInductive ==
  ASSUME PresenceIInv, PresenceAll
  PROVE  PresenceIInv'
<1>1. CASE PresenceService
  BY <1>1, PresenceServiceKeeps
<1>2. CASE \E l \in Links : PresenceMessage(l)
  BY <1>2, IdentityKeeps, PresenceCallKeeps DEF PresenceMessage
<1>3. CASE PollPeople
  BY <1>3, PollKeeps
<1>4. CASE Tell
  BY <1>4, TellKeeps
<1>5. CASE PresenceTime \/ Forwarded
  BY <1>5, PresenceWorld
<1>6. CASE (LinkFault /\ UNCHANGED presenceVars)
  BY <1>6, PresenceWorld
<1>7. CASE \E l \in Links : PresenceCall(l) \/ ServerStops(l) \/ ServerStarts(l) \/ Greets(l)
  BY <1>7, PresenceWorld
<1>8. CASE \E n \in Profiles, p \in Persons : Edit(n, p)
  BY <1>8, PresenceWorld
<1>9. QED BY <1>1, <1>2, <1>3, <1>4, <1>5, <1>6, <1>7, <1>8 DEF PresenceAll, PresenceNext, PresenceStep

LEMMA PresenceInvariant == PresenceSpec => []PresenceIInv
<1>1. LinkInit /\ PresenceInit => PresenceIInv
  BY PresenceInitial
<1>2. PresenceIInv /\ [PresenceAll]_<<linkVars, presenceVars>> => PresenceIInv'
  <2>1. CASE UNCHANGED <<linkVars, presenceVars>>
    BY <2>1 DEF presenceVars, worldVars, PresenceIInv, PresenceLinks, LinkOK, Drained, ServersTyped, Settings,
                Identified, Pending, PeopleKnown, Tracked, Announced, Believed, NoneTriggered, AnyNear, Where
  <2>2. QED BY <2>1, PresenceInductive
<1>3. QED BY <1>1, <1>2, PTL DEF PresenceSpec, PresenceAll

\* What was last announced of a person is what they are, whatever the number of
\* profiles and people, edits, calls and faults: no second arrival.
THEOREM AnnouncedAsTheyAre == PresenceSpec => []AnnouncedOnce
<1>1. PresenceIInv => AnnouncedOnce
  BY DEF PresenceIInv, Announced, AnnouncedOnce
<1>2. QED BY <1>1, PresenceInvariant, PTL

\* A server that stands and has been told of the present people has their presence.
THEOREM ServersBelieve == PresenceSpec => []BeliefCurrent
<1>1. PresenceIInv => BeliefCurrent
  BY DEF PresenceIInv, Believed, NoneTriggered, BeliefCurrent
<1>2. QED BY <1>1, PresenceInvariant, PTL

-----------------------------------------------------------------------------
(* Hue *)

HueMessages ==
  [type : {"identity"}, name : HueProfiles]
    \union [type : {"call"}, name : {"list_hue_lights"}]
    \union [type : {"call"}, name : {"set_hue_light"}, all : BOOLEAN, lights : SUBSET Lights,
            except : SUBSET Lights, body : Bodies]
    \union [type : {"call"}, name : {"save", "load", "remove"}, scene : Scenes]
    \union [type : {"call"}, name : {"set_hue_default_fade"}, ms : Fades]

HueLinks == /\ LinkOK(HueMessages) /\ owner \in [Links -> HueProfiles]
            /\ hue_pc \in {"service", "drain"}
            /\ hue_pc = "service" => Drained

\* The files of one profile; a profile without a scenes.json has no scenes.
Filed(r) == /\ r = [file |-> r.file, scenes |-> r.scenes, fade |-> r.fade, last |-> r.last]
            /\ ~r.file => DOMAIN r.scenes = {}

Shelved == /\ profile \in HueProfiles
           /\ disk = [n \in HueProfiles |-> disk[n]] /\ \A n \in HueProfiles : Filed(disk[n])

HueIInv == HueLinks /\ Shelved /\ Loaded

HueAll == HueNext \/ (LinkFault /\ UNCHANGED hueVars)

LEMMA HueInitial == ASSUME LinkInit, HueInit PROVE HueIInv
<1>1. LinkOK(HueMessages) /\ Drained
  BY StartOK
<1>2. HueLinks
  BY <1>1 DEF HueLinks, HueInit
<1>3. \A n \in HueProfiles : disk[n] = [file |-> Shelf[n] # {}, scenes |-> [s \in Shelf[n] |-> Off], fade |-> -1, last |-> "none"]
  BY DEF HueInit
<1>4. Shelved
  BY <1>3, HueAssumption DEF Shelved, HueInit, Filed
<1>5. Loaded
  BY <1>3, HueAssumption DEF Loaded, HueInit
<1>6. QED BY <1>2, <1>4, <1>5 DEF HueIInv

\* The set of a tool's files is read whole when another profile becomes current.
LEMMA SwitchKeeps ==
  ASSUME HueIInv, NEW n \in HueProfiles, switch_profile(n)
  PROVE  Shelved' /\ Loaded' /\ UNCHANGED <<lamps, disk>>
<1>1. Filed(disk[n]) /\ UNCHANGED <<lamps, disk>> /\ Shelved
  BY DEF HueIInv, Shelved, switch_profile
<1>2. Loaded'
  BY <1>1 DEF Loaded, switch_profile, load_scenes_from_disk, Filed
<1>3. QED BY <1>1, <1>2 DEF Shelved, switch_profile, Filed

LEMMA HueLinksKept == ASSUME HueIInv, HueAll PROVE HueLinks'
<1>. USE DEF HueLinks, Drained
<1>0. HueLinks /\ LinkOK(HueMessages)
  BY DEF HueIInv
<1>1. CASE HueService
  BY <1>0, <1>1, ServiceKeeps DEF HueService
<1>2. ASSUME NEW l \in Links, HueMessage(l) PROVE HueLinks'
  <2>1. /\ \/ link' = [link EXCEPT ![l].incoming = Tail(@)]
           \/ Answered(l)
        /\ link[l].incoming # <<>> /\ UNCHANGED <<far, drops, owner, hue_pc>> /\ hue_pc = "drain"
    BY <1>2 DEF HueMessage, HasMessage
  <2>2. LinkOK(HueMessages)'
    BY <1>0, <2>1, TakeKeeps
  <2>3. QED BY <1>0, <2>1, <2>2
<1>3. CASE HueTurn \/ Wall
  <2>1. drops' \in {drops, drops + 1} /\ UNCHANGED <<link, far, owner>>
        /\ (hue_pc' = hue_pc \/ (Drained /\ hue_pc' = "service"))
    BY <1>3 DEF HueTurn, Wall, Upset
  <2>2. LinkOK(HueMessages)'
    BY <1>0, <2>1 DEF LinkOK
  <2>3. QED BY <1>0, <2>1, <2>2
<1>4. CASE HueTime
  BY <1>0, <1>4, TimeKeeps DEF HueTime, hueVars
<1>5. ASSUME NEW l \in Links, HueCall(l) PROVE HueLinks'
  <2>1. PICK m \in HueMessages : Says(l, m)
    <3>1. [type |-> "call", name |-> "list_hue_lights"] \in HueMessages
      BY DEF HueMessages
    <3>2. \A t \in Targets, b \in Bodies :
            [type |-> "call", name |-> "set_hue_light", all |-> t.all, lights |-> t.lights,
             except |-> t.except, body |-> b] \in HueMessages
      BY DEF HueMessages, Targets
    <3>3. \A s \in Scenes, a \in {"save", "load", "remove"} :
            [type |-> "call", name |-> a, scene |-> s] \in HueMessages
      BY DEF HueMessages
    <3>4. \A ms \in Fades : [type |-> "call", name |-> "set_hue_default_fade", ms |-> ms] \in HueMessages
      BY DEF HueMessages
    <3>5. QED BY <1>5, <3>1, <3>2, <3>3, <3>4 DEF HueCall
  <2>2. CanSay(l) /\ drops' \in Nat /\ UNCHANGED hueVars
    <3>1. drops' = drops + 1 /\ drops \in Nat
      BY <1>0, <1>5 DEF HueCall, Upset, LinkOK
    <3>2. QED BY <1>5, <3>1 DEF HueCall
  <2>3. LinkOK(HueMessages)' /\ UNCHANGED link
    BY <1>0, <2>1, <2>2, SaysKeeps
  <2>4. QED BY <1>0, <2>2, <2>3 DEF hueVars
<1>6. ASSUME NEW l \in Links, HueGreets(l) PROVE HueLinks'
  <2>1. [type |-> "identity", name |-> owner[l]] \in HueMessages
    BY <1>0 DEF HueMessages
  <2>2. drops' \in Nat /\ Welcome(l, owner[l]) /\ UNCHANGED hueVars
    BY <1>0, <1>6 DEF HueGreets, LinkOK
  <2>3. LinkOK(HueMessages)' /\ UNCHANGED link
    BY <1>0, <2>1, <2>2, WelcomeKeeps
  <2>4. QED BY <1>0, <2>2, <2>3 DEF hueVars
<1>7. CASE (\E l \in Links : HueServer(l)) \/ (LinkFault /\ UNCHANGED hueVars)
  <2>1. UNCHANGED hueVars
    BY <1>7 DEF HueServer
  <2>2. LinkOK(HueMessages)' /\ UNCHANGED link
    BY <1>0, <1>7, FaultKeeps DEF HueServer
  <2>3. QED BY <1>0, <2>1, <2>2 DEF hueVars
<1>8. QED BY <1>1, <1>2, <1>3, <1>4, <1>5, <1>6, <1>7 DEF HueAll, HueNext, HueStep

\* One part of the files of the current profile is written.
LEMMA WriteKeeps ==
  ASSUME Shelved, NEW part \in {"fade", "last"}, NEW v, Write(part, v)
  PROVE  /\ disk' = [n \in HueProfiles |-> disk'[n]]
         /\ \A n \in HueProfiles : Filed(disk'[n]) /\ disk'[n].scenes = disk[n].scenes
         /\ disk'[profile].fade = (IF part = "fade" THEN v ELSE disk[profile].fade)
         /\ disk'[profile].last = (IF part = "last" THEN v ELSE disk[profile].last)
<1>. DEFINE r == disk[profile]
            q == [r EXCEPT ![part] = v]
<1>1. disk' = [disk EXCEPT ![profile] = q] /\ Filed(r) /\ profile \in HueProfiles
  BY DEF Write, Shelved
<1>2. q = [file |-> r.file, scenes |-> r.scenes, fade |-> IF part = "fade" THEN v ELSE r.fade,
           last |-> IF part = "last" THEN v ELSE r.last]
  BY <1>1 DEF Filed
<1>. HIDE DEF q
<1>3. Filed(q)
  BY <1>1, <1>2 DEF Filed
<1>4. disk'[profile] = q /\ \A n \in HueProfiles : n # profile => disk'[n] = disk[n]
  BY <1>1 DEF Shelved
<1>5. QED BY <1>1, <1>2, <1>3, <1>4 DEF Shelved

LEMMA FileEntry ==
  ASSUME NEW r, NEW a, NEW b, NEW c, NEW d, NEW v,
         r = [file |-> a, scenes |-> b, fade |-> c, last |-> d]
  PROVE  /\ [r EXCEPT !.file = v] = [file |-> v, scenes |-> b, fade |-> c, last |-> d]
         /\ [r EXCEPT !.scenes = v] = [file |-> a, scenes |-> v, fade |-> c, last |-> d]
OBVIOUS

\* The scenes of the current profile are written whole.
LEMMA ScenesWritten ==
  ASSUME Shelved, save_scenes_to_disk
  PROVE  /\ disk' = [n \in HueProfiles |-> disk'[n]]
         /\ \A n \in HueProfiles : Filed(disk'[n]) /\ (n # profile => disk'[n] = disk[n])
         /\ disk'[profile].scenes = local_scenes'
         /\ disk'[profile].fade = disk[profile].fade /\ disk'[profile].last = disk[profile].last
<1>. DEFINE r == disk[profile]
            q == [file |-> TRUE, scenes |-> local_scenes', fade |-> r.fade, last |-> r.last]
<1>1. Filed(r) /\ profile \in HueProfiles
  BY DEF Shelved
<1>2. disk' = [disk EXCEPT ![profile] = q]
  <2>1. r = [file |-> r.file, scenes |-> r.scenes, fade |-> r.fade, last |-> r.last]
    BY <1>1 DEF Filed
  <2>. DEFINE p == [r EXCEPT !.file = TRUE]
              f == r.file
              c == r.scenes
              d == r.fade
              e == r.last
              t == TRUE
              v == local_scenes'
  <2>2. disk' = [disk EXCEPT ![profile] = [p EXCEPT !.scenes = v]]
    BY <1>1 DEF save_scenes_to_disk, Shelved
  <2>3. p = [r EXCEPT !.file = t] /\ r = [file |-> f, scenes |-> c, fade |-> d, last |-> e]
    BY <2>1
  <2>4. q = [file |-> t, scenes |-> v, fade |-> d, last |-> e]
    OBVIOUS
  <2>. HIDE DEF p, q, f, c, d, e, t, v
  <2>5. p = [file |-> t, scenes |-> c, fade |-> d, last |-> e]
    BY <2>3, FileEntry
  <2>6. [p EXCEPT !.scenes = v] = q
    BY <2>4, <2>5, FileEntry
  <2>7. QED BY <2>2, <2>6
<1>3. Filed(q) /\ q.scenes = local_scenes' /\ q.fade = r.fade /\ q.last = r.last
  BY DEF Filed
<1>. HIDE DEF q
<1>4. disk'[profile] = q /\ \A n \in HueProfiles : n # profile => disk'[n] = disk[n]
  BY <1>1, <1>2 DEF Shelved
<1>5. QED BY <1>1, <1>2, <1>3, <1>4 DEF Shelved

\* What a call makes of the files.
LEMMA HueCallFiles ==
  ASSUME HueIInv, NEW l \in Links, Handling(l, Message(l).name), handle_hue_call(Message(l))
  PROVE  Shelved' /\ Loaded' /\ ScenesKept
<1>. DEFINE m == Message(l)
<1>1. Shelved /\ Loaded /\ profile \in HueProfiles
  BY DEF HueIInv, Shelved
<1>2. CASE UNCHANGED profileVars
  BY <1>1, <1>2 DEF profileVars, Shelved, Filed, Loaded, ScenesKept
<1>3. CASE m.name = "save" /\ save_scene(m.scene)
  <2>1. CASE UNCHANGED <<local_scenes, disk>>
    BY <1>2, <1>3, <2>1 DEF save_scene, profileVars
  <2>2. CASE m.scene \notin DOMAIN local_scenes /\ save_scenes_to_disk
             /\ local_scenes' = [t \in DOMAIN local_scenes \union {m.scene} |-> IF t = m.scene THEN lamps ELSE local_scenes[t]]
    <3>1. /\ disk' = [n \in HueProfiles |-> disk'[n]]
          /\ \A n \in HueProfiles : Filed(disk'[n]) /\ (n # profile => disk'[n] = disk[n])
          /\ disk'[profile].scenes = local_scenes'
          /\ disk'[profile].fade = disk[profile].fade /\ disk'[profile].last = disk[profile].last
      BY <1>1, <2>2, ScenesWritten
    <3>2. UNCHANGED <<profile, default_transition, last_scene>>
      BY <1>3 DEF save_scene
    <3>3. \A s \in DOMAIN disk[profile].scenes : s \in DOMAIN local_scenes' /\ local_scenes'[s] = disk[profile].scenes[s]
      BY <1>1, <2>2 DEF Loaded
    <3>4. QED BY <1>1, <3>1, <3>2, <3>3 DEF Shelved, Loaded, ScenesKept
  <2>3. QED BY <1>3, <2>1, <2>2 DEF save_scene
<1>4. CASE m.name = "remove" /\ remove_scene(m.scene)
  <2>1. CASE UNCHANGED <<local_scenes, disk>>
    BY <1>2, <1>4, <2>1 DEF remove_scene, profileVars
  <2>2. CASE save_scenes_to_disk /\ local_scenes' = [t \in DOMAIN local_scenes \ {m.scene} |-> local_scenes[t]]
    <3>1. /\ disk' = [n \in HueProfiles |-> disk'[n]]
          /\ \A n \in HueProfiles : Filed(disk'[n]) /\ (n # profile => disk'[n] = disk[n])
          /\ disk'[profile].scenes = local_scenes'
          /\ disk'[profile].fade = disk[profile].fade /\ disk'[profile].last = disk[profile].last
      BY <1>1, <2>2, ScenesWritten
    <3>2. UNCHANGED <<profile, default_transition, last_scene>>
      BY <1>4 DEF remove_scene
    <3>3. \A s \in DOMAIN disk[profile].scenes :
            s = m.scene \/ (s \in DOMAIN local_scenes' /\ local_scenes'[s] = disk[profile].scenes[s])
      BY <1>1, <2>2 DEF Loaded
    <3>4. Shelved' /\ Loaded'
      BY <1>1, <3>1, <3>2 DEF Shelved, Loaded
    <3>5. Handling(l, "remove")
      BY <1>4
    <3>6. ScenesKept
      BY <3>1, <3>3, <3>5 DEF ScenesKept
    <3>7. QED BY <3>4, <3>6
  <2>3. QED BY <1>4, <2>1, <2>2 DEF remove_scene
<1>5. CASE m.name = "load" /\ load_scene(m.scene)
  <2>1. UNCHANGED <<local_scenes, default_transition, profile>>
        /\ (UNCHANGED <<last_scene, disk>> \/ (last_scene' = m.scene /\ Write("last", m.scene)))
    BY <1>5 DEF load_scene
  <2>2. CASE UNCHANGED <<last_scene, disk>>
    BY <1>2, <2>1, <2>2 DEF profileVars
  <2>3. CASE last_scene' = m.scene /\ Write("last", m.scene)
    <3>1. /\ disk' = [n \in HueProfiles |-> disk'[n]]
          /\ \A n \in HueProfiles : Filed(disk'[n]) /\ disk'[n].scenes = disk[n].scenes
          /\ disk'[profile].fade = disk[profile].fade /\ disk'[profile].last = m.scene
      BY <1>1, <2>3, WriteKeeps
    <3>2. QED BY <1>1, <2>1, <2>3, <3>1 DEF Shelved, Loaded, ScenesKept
  <2>4. QED BY <2>1, <2>2, <2>3
<1>6. CASE m.name = "set_hue_default_fade" /\ set_hue_default_fade(m.ms)
  <2>1. /\ UNCHANGED <<local_scenes, last_scene, profile>>
        /\ default_transition' = m.ms /\ Write("fade", m.ms)
    BY <1>6 DEF set_hue_default_fade
  <2>2. /\ disk' = [n \in HueProfiles |-> disk'[n]]
        /\ \A n \in HueProfiles : Filed(disk'[n]) /\ disk'[n].scenes = disk[n].scenes
        /\ disk'[profile].last = disk[profile].last /\ disk'[profile].fade = m.ms
    BY <1>1, <2>1, WriteKeeps
  <2>3. QED BY <1>1, <2>1, <2>2 DEF Shelved, Loaded, ScenesKept
<1>7. QED BY <1>2, <1>3, <1>4, <1>5, <1>6 DEF handle_hue_call, set_hue_light

LEMMA HueTakes ==
  ASSUME HueIInv, NEW l \in Links, HueMessage(l)
  PROVE  Message(l) \in HueMessages /\ HasMessage(l) /\ hue_pc = "drain"
<1>1. link[l].incoming # <<>> /\ HasMessage(l) /\ hue_pc = "drain"
  BY DEF HueMessage, HasMessage
<1>2. PICK m \in HueMessages : link[l].incoming = <<m>>
  BY <1>1 DEF HueIInv, HueLinks, LinkOK, EndOK
<1>3. QED BY <1>1, <1>2 DEF Message

LEMMA HueStepKeeps ==
  ASSUME HueIInv, HueAll
  PROVE  HueIInv' /\ ScenesKept
<1>. USE HueAssumption
<1>0. SUFFICES Shelved' /\ Loaded' /\ ScenesKept
  BY HueLinksKept DEF HueIInv
<1>1. CASE UNCHANGED <<default_transition, last_scene, profile, disk, local_scenes>>
  BY <1>1 DEF HueIInv, Shelved, Filed, Loaded, ScenesKept
<1>2. \A n \in HueProfiles : switch_profile(n) => Shelved' /\ Loaded' /\ ScenesKept
  BY SwitchKeeps DEF ScenesKept
<1>3. CASE HueService
  BY <1>1, <1>2, <1>3 DEF HueService, profileVars
<1>4. ASSUME NEW l \in Links, HueMessage(l) PROVE Shelved' /\ Loaded' /\ ScenesKept
  <2>1. Message(l) \in HueMessages /\ HasMessage(l) /\ hue_pc = "drain"
    BY <1>4, HueTakes
  <2>2. CASE Message(l).type = "call" /\ handle_hue_call(Message(l))
    BY <2>1, <2>2, HueCallFiles DEF Handling
  <2>3. CASE Message(l).type = "identity" /\ switch_profile(Message(l).name)
    <3>1. Message(l).name \in HueProfiles
      BY <2>1, <2>3 DEF HueMessages
    <3>2. QED BY <1>2, <2>3, <3>1
  <2>4. QED BY <1>4, <2>2, <2>3 DEF HueMessage
<1>5. CASE HueTurn \/ Wall \/ HueTime \/ (\E l \in Links : HueCall(l) \/ HueGreets(l) \/ HueServer(l))
           \/ (LinkFault /\ UNCHANGED hueVars)
  BY <1>1, <1>5 DEF HueTurn, Wall, HueTime, HueCall, HueGreets, HueServer, hueVars, profileVars
<1>6. QED BY <1>3, <1>4, <1>5 DEF HueAll, HueNext, HueStep

LEMMA HueStutter == ASSUME HueIInv, UNCHANGED <<linkVars, hueVars>> PROVE HueIInv'
BY DEF hueVars, HueIInv, HueLinks, LinkOK, Drained, Shelved, Filed, Loaded

\* No other profile's scenes change, and none goes but by a remove; the fade and
\* the scene the tool works with are those of the current profile.
THEOREM ProfilesKept == HueSpec => ProfileKept
<1>1. LinkInit /\ HueInit => HueIInv
  BY HueInitial
<1>2. HueIInv /\ [HueAll]_<<linkVars, hueVars>> => HueIInv'
  BY HueStepKeeps, HueStutter
<1>3. HueIInv /\ [HueAll]_<<linkVars, hueVars>> => [ScenesKept /\ Loaded']_<<linkVars, hueVars>>
  BY HueStepKeeps DEF HueIInv
<1>4. QED BY <1>1, <1>2, <1>3, PTL DEF HueSpec, HueAll, ProfileKept

\* Switching on or off, sent once or twice, leaves the level alone.
LEMMA PowerLeavesLevel ==
  ASSUME NEW x, NEW on \in BOOLEAN, NEW t \in 0 .. 2
  PROVE  Applied(x, Power(on), t).level = x.level
<1>1. \A y : Apply(y, Power(on)).level = y.level
  BY DEF Apply, Power
<1>2. t = 0 \/ t = 1 \/ t = 2
  OBVIOUS
<1>3. CASE t = 0
  BY <1>3 DEF Applied
<1>4. CASE t = 1
  BY <1>1, <1>4 DEF Applied
<1>5. CASE t = 2
  BY <1>1, <1>5 DEF Applied
<1>6. QED BY <1>2, <1>3, <1>4, <1>5

LEMMA SetKeepsLevels ==
  ASSUME NEW m, m.body \in Bodies, m.body.bri = 0, ~m.body.change, set_hue_light(m), NEW k \in Lights
  PROVE  lamps'[k].level = lamps[k].level
<1>1. PICK on \in BOOLEAN : m.body = Power(on)
  <2>1. m.body # Change
    <3>1. Change.change = TRUE
      BY DEF Change
    <3>2. m.body = Change => m.body.change = TRUE
      BY <3>1
    <3>3. QED BY <3>2
  <2>2. \A v \in Levels : m.body = Level(v) => v = 0
    BY DEF Level
  <2>3. \A v : m.body = Level(v) /\ v = 0 => m.body = Power(TRUE)
    BY DEF Level, Power
  <2>4. QED BY <2>1, <2>2, <2>3 DEF Bodies
<1>2. ~Whole(m)
  BY <1>1 DEF Whole, per_light, Power
<1>3. CASE UNCHANGED lamps
  BY <1>3
<1>4. ASSUME NEW ids, NEW cache, SendEach(m, ids, cache) PROVE lamps'[k].level = lamps[k].level
  <2>1. PICK tried, r : /\ r \in [tried -> make_request]
                        /\ lamps' = [l \in Lights |-> IF l \in tried THEN Applied(lamps[l], m.body, r[l].times)
                                                      ELSE lamps[l]]
    BY <1>4 DEF SendEach
  <2>2. \A q \in make_request : q.times \in 0 .. 2
    BY DEF make_request
  <2>3. k \in tried => r[k].times \in 0 .. 2
    BY <2>1, <2>2
  <2>4. k \in tried => Applied(lamps[k], Power(on), r[k].times).level = lamps[k].level
    BY <2>3, PowerLeavesLevel
  <2>5. QED BY <1>1, <2>1, <2>4
<1>5. QED BY <1>2, <1>3, <1>4 DEF set_hue_light

\* Switching lights changes no level, however often the bridge applies a request
\* and whichever of them fail.
THEOREM LevelsKept == HueSpec => PowerKeepsLevels
<1>. DEFINE Kept == \A k \in Lights :
       lamps'[k].level # lamps[k].level =>
         \/ drops' # drops
         \/ \E l \in Links : Handling(l, "load")
         \/ \E l \in Links : Handling(l, "set_hue_light") /\ (Message(l).body.bri # 0 \/ Message(l).body.change)
<1>1. LinkInit /\ HueInit => HueIInv
  BY HueInitial
<1>2. HueIInv /\ [HueAll]_<<linkVars, hueVars>> => HueIInv'
  BY HueStepKeeps, HueStutter
<1>3. HueIInv /\ [HueAll]_<<linkVars, hueVars>> => [Kept]_<<linkVars, hueVars>>
  <2>. SUFFICES ASSUME HueIInv, HueAll, NEW k \in Lights, lamps'[k].level # lamps[k].level
                PROVE  \/ drops' # drops
                       \/ \E l \in Links : Handling(l, "load")
                       \/ \E l \in Links : Handling(l, "set_hue_light") /\ (Message(l).body.bri # 0 \/ Message(l).body.change)
    BY DEF Kept
  <2>1. CASE Wall
    <3>1. drops' = drops + 1 /\ drops \in Nat
      BY <2>1 DEF Wall, Upset, HueIInv, HueLinks, LinkOK
    <3>2. QED BY <3>1
  <2>2. ASSUME NEW l \in Links, HueMessage(l)
        PROVE  \/ Handling(l, "load")
               \/ Handling(l, "set_hue_light") /\ (Message(l).body.bri # 0 \/ Message(l).body.change)
    <3>1. Message(l) \in HueMessages /\ HasMessage(l) /\ hue_pc = "drain"
      BY <2>2, HueTakes
    <3>2. CASE Message(l).type = "identity" /\ switch_profile(Message(l).name)
      BY <3>2 DEF switch_profile
    <3>3. CASE Message(l).type = "call" /\ Message(l).name = "set_hue_light" /\ set_hue_light(Message(l))
      <4>1. Message(l).body \in Bodies
        BY <3>1, <3>3 DEF HueMessages
      <4>2. Handling(l, "set_hue_light")
        BY <3>1, <3>3 DEF Handling
      <4>3. QED BY <3>3, <4>1, <4>2, SetKeepsLevels
    <3>4. CASE Message(l).type = "call" /\ Message(l).name = "load"
      BY <3>1, <3>4 DEF Handling
    <3>5. QED BY <2>2, <3>2, <3>3, <3>4
              DEF HueMessage, handle_hue_call, save_scene, remove_scene, set_hue_default_fade
  <2>3. HueService => UNCHANGED lamps
    BY DEF HueService, switch_profile
  <2>4. HueTurn \/ HueTime \/ (\E l \in Links : HueCall(l) \/ HueGreets(l) \/ HueServer(l))
          \/ (LinkFault /\ UNCHANGED hueVars) => UNCHANGED lamps
    BY DEF HueTurn, HueTime, HueCall, HueGreets, HueServer, hueVars
  <2>5. QED BY <2>1, <2>2, <2>3, <2>4 DEF HueAll, HueNext, HueStep
<1>4. QED BY <1>1, <1>2, <1>3, PTL DEF HueSpec, HueAll, PowerKeepsLevels

-----------------------------------------------------------------------------
(* The document database.  A sync that nothing has disturbed is followed        *)
(* collection by collection: those ahead of it are as it found them, those       *)
(* behind it are as the folders are.                                             *)

Documents == [id : Nat, source : Sources, content_hash : Texts, chunks : Nat]
Rows      == [name : Collections, id : Nat]
Syncs == [pc : {"idle", "conversations", "list", "collections", "files", "add", "chunks", "done"},
          force : BOOLEAN, todo : SUBSET Rows, name : Collections \cup {Conversations}, id : Nat,
          existing : SUBSET Documents, left : SUBSET Sources, on_disk : SUBSET Sources,
          file : Sources \cup {Absent}, content : Texts \cup {Thin, Absent}, doc : Nat,
          calm : BOOLEAN, sound : SUBSET Sources]

\* The documents of f in a table, and what a sync has listed of them.
From(ds, f) == {d \in ds : d.source = f}

\* The folder and the tables.  A document is known by its id.
World(fo, di, co, ds) ==
  /\ fo \in [Sources -> Texts \cup {Thin, Absent}] /\ di \in SUBSET Collections
  /\ co \in [Collections -> Nat] /\ ds \in SUBSET Documents /\ IsFiniteSet(ds)
  /\ \A d, e \in ds : d.id = e.id => d = e

\* The files and the documents of the collection that is open.
Working(s) == s.pc \in {"files", "add", "chunks"}
OpenedOK(s) ==
  /\ Working(s) => /\ s.name \in Collections
                   /\ \A f \in s.left : CollectionOf[f] = s.name /\ f \notin s.on_disk
                   /\ \A d \in s.existing : CollectionOf[d.source] = s.name
  /\ s.pc \in {"add", "chunks"} =>
       s.file \in Sources \ s.left /\ CollectionOf[s.file] = s.name /\ s.content \in Texts

\* An id stands for the source it stood for, also when the document has grown or is gone.
IdsKept(s, ds) ==
  /\ \A d \in s.existing, e \in ds : d.id = e.id => d.source = e.source
  /\ s.pc = "chunks" => \A e \in ds : e.id = s.doc => e.source = s.file

\* The collections a sync has still to open.
Ahead(s) ==
  IF s.pc = "conversations" THEN Collections
  ELSE IF s.pc = "list" \/ (Working(s) /\ s.name = Conversations) THEN Collections \ {Conversations}
  ELSE IF s.pc = "collections" \/ Working(s) THEN {t.name : t \in s.todo}
  ELSE {}

\* What makes a source sound: it has one document at most, and none that a sync takes
\* for finished though it is not.
AsFound(s, x, D) == /\ \A d, e \in D : d = e
                    /\ s.force \/ \A d \in D : Complete(d) \/ d.content_hash # x

\* A source of content x whose documents are D is as it should be.
Right(x, D) == IF x \in Texts THEN \E d \in D : D = {d} /\ d.content_hash = x /\ Complete(d)
               ELSE D = {}

\* A source of the open collection: not read yet, being imported, imported or to be pruned.
Midway(s, f, x, D) ==
  IF f \in s.left THEN AsFound(s, x, D) /\ From(s.existing, f) = D
  ELSE IF s.pc = "add" /\ f = s.file THEN D = {} /\ s.content = x /\ f \in s.on_disk
  ELSE IF s.pc = "chunks" /\ f = s.file
    THEN f \in s.on_disk /\ \E d \in D : D = {d} /\ d.id = s.doc /\ d.content_hash = x
  ELSE IF x \in Texts THEN Right(x, D) /\ f \in s.on_disk
  ELSE From(s.existing, f) = D /\ f \notin s.on_disk

\* A sound source, wherever the sync is.
Followed(s, f, x, D, di, co) ==
  LET c == CollectionOf[f]
  IN  IF c \in Ahead(s) THEN AsFound(s, x, D)
      ELSE IF Working(s) /\ c = s.name THEN Midway(s, f, x, D)
      ELSE c \in di /\ co[c] # 0 => Right(x, D)

\* The rows that were read are the rows there are.
RowsKept(s, co) ==
  /\ \A t \in s.todo : t.name # Conversations /\ t.id = co[t.name]
  /\ Working(s) => s.id = co[s.name]
  /\ Working(s) /\ s.name # Conversations => \A t \in s.todo : t.name # s.name

OnCourse(s, fo, di, co, ds) ==
  RowsKept(s, co) /\ \A f \in s.sound : Followed(s, f, fo[f], From(ds, f), di, co)

SyncOK(s, fo, di, co, ds) ==
  /\ s \in Syncs /\ IsFiniteSet(s.existing) /\ IsFiniteSet(s.todo)
  /\ s.pc = "idle" => s = Idle
  /\ OpenedOK(s) /\ IdsKept(s, ds)
  /\ s.pc # "idle" /\ s.calm => OnCourse(s, fo, di, co, ds)

\* One program syncs at a time.
RagIInv ==
  /\ World(folder, dirs, collections, documents)
  /\ sync \in [Programs -> Syncs]
  /\ \A p \in Programs : SyncOK(sync[p], folder, dirs, collections, documents)
  /\ \A p, q \in Programs : sync[p].pc # "idle" /\ sync[q].pc # "idle" => p = q

\* The ids of finitely many documents, or of finitely many rows.
LEMMA IdsFinite ==
  ASSUME NEW D, IsFiniteSet(D)
  PROVE  IsFiniteSet({d.id : d \in D})
<1>. DEFINE T == {d.id : d \in D}
            g == [d \in D |-> d.id]
<1>1. g \in Surjection(D, T)
  BY DEF Surjection
<1>2. QED BY <1>1, FS_Surjection

\* A new id is not in use.
LEMMA FreshId ==
  ASSUME NEW used, IsFiniteSet(used)
  PROVE  NewId(used) \in Nat /\ NewId(used) \notin used
<1>. DEFINE free == (1 .. Cardinality(used) + 1) \ used
<1>1. \E k \in free : \A j \in free : k <= j
  BY LeastUnused
<1>2. NewId(used) = Min(free)
  BY DEF NewId
<1>3. Min(free) \in free
  BY <1>1 DEF Min
<1>4. Cardinality(used) \in Nat
  BY FS_CardinalityType
<1>5. \A k \in 1 .. Cardinality(used) + 1 : k \in Nat
  BY <1>4
<1>6. QED BY <1>2, <1>3, <1>5

\* A document that is added has an id that nothing stands for.
LEMMA FreshDocument ==
  ASSUME RagIInv
  PROVE  /\ NewDocumentId \in Nat
         /\ \A d \in documents : d.id # NewDocumentId
         /\ \A p \in Programs : \A d \in sync[p].existing : d.id # NewDocumentId
<1>. DEFINE T == sync["rag_tool"].existing
            A == sync["rag_admin"].existing
            held == {d.id : d \in documents}
            lists == UNION {{d.id : d \in sync[p].existing} : p \in Programs}
            docs == {sync[p].doc : p \in Programs}
<1>1. NewDocumentId = NewId((held \cup lists) \cup docs)
  BY DEF NewDocumentId
<1>2. lists = {d.id : d \in T} \cup {d.id : d \in A}
  BY DEF Programs
<1>3. docs = {sync["rag_tool"].doc} \cup {sync["rag_admin"].doc}
  BY DEF Programs
<1>4. \A p \in Programs : \A d \in sync[p].existing : d.id \in lists
  OBVIOUS
<1>5. \A d \in documents : d.id \in held
  OBVIOUS
<1>6. IsFiniteSet(documents) /\ IsFiniteSet(T) /\ IsFiniteSet(A)
  BY DEF RagIInv, World, SyncOK, Programs
<1>7. IsFiniteSet(held) /\ IsFiniteSet({d.id : d \in T}) /\ IsFiniteSet({d.id : d \in A})
  BY <1>6, IdsFinite
<1>. HIDE DEF held, lists, docs
<1>8. IsFiniteSet(lists)
  BY <1>2, <1>7, FS_Union
<1>9. IsFiniteSet({sync["rag_tool"].doc}) /\ IsFiniteSet({sync["rag_admin"].doc})
  BY FS_Singleton
<1>10. IsFiniteSet(docs)
  BY <1>3, <1>9, FS_Union
<1>11. IsFiniteSet(held \cup lists)
  BY <1>7, <1>8, FS_Union
<1>12. IsFiniteSet((held \cup lists) \cup docs)
  BY <1>10, <1>11, FS_Union
<1>13. QED BY <1>1, <1>4, <1>5, <1>12, FreshId

\* There are finitely many collections, and a new one has an id.
LEMMA CollectionsFinite == IsFiniteSet(Collections)
BY RagAssumption, ImageFinite DEF Collections

LEMMA FreshCollection ==
  ASSUME RagIInv
  PROVE  NewCollectionId \in Nat
<1>. DEFINE T == sync["rag_tool"].todo
            A == sync["rag_admin"].todo
            rows == {collections[c] : c \in Collections}
            own == {sync[p].id : p \in Programs}
            listed == UNION {{t.id : t \in sync[p].todo} : p \in Programs}
<1>1. NewCollectionId = NewId((rows \cup own) \cup listed)
  BY DEF NewCollectionId
<1>2. own = {sync["rag_tool"].id} \cup {sync["rag_admin"].id}
  BY DEF Programs
<1>3. listed = {d.id : d \in T} \cup {d.id : d \in A}
  BY DEF Programs
<1>4. IsFiniteSet(T) /\ IsFiniteSet(A)
  BY DEF RagIInv, SyncOK, Programs
<1>5. IsFiniteSet({d.id : d \in T}) /\ IsFiniteSet({d.id : d \in A})
  BY <1>4, IdsFinite
<1>6. IsFiniteSet(rows)
  BY CollectionsFinite, ImageFinite
<1>. HIDE DEF rows, own, listed
<1>7. IsFiniteSet(listed)
  BY <1>3, <1>5, FS_Union
<1>8. IsFiniteSet({sync["rag_tool"].id}) /\ IsFiniteSet({sync["rag_admin"].id})
  BY FS_Singleton
<1>9. IsFiniteSet(own)
  BY <1>2, <1>8, FS_Union
<1>10. IsFiniteSet(rows \cup own)
  BY <1>6, <1>9, FS_Union
<1>11. IsFiniteSet((rows \cup own) \cup listed)
  BY <1>7, <1>10, FS_Union
<1>12. QED BY <1>1, <1>11, FreshId

\* A sync that is not running.
LEMMA IdleOK ==
  ASSUME NEW fo, NEW di, NEW co, NEW ds
  PROVE  SyncOK(Idle, fo, di, co, ds) /\ Idle.pc = "idle"
<1>1. Idle \in Syncs
  BY DEF Idle, Syncs
<1>2. Idle.pc = "idle" /\ Idle.existing = {} /\ Idle.todo = {}
  BY DEF Idle
<1>3. IsFiniteSet({})
  BY FS_EmptySet
<1>4. QED BY <1>1, <1>2, <1>3 DEF SyncOK, OpenedOK, IdsKept, Working

LEMMA RagInitial == RagInit => RagIInv
<1>. SUFFICES ASSUME RagInit PROVE RagIInv
  OBVIOUS
<1>1. \A p \in Programs : sync[p] = Idle
  BY DEF RagInit
<1>2. \A p \in Programs : SyncOK(sync[p], folder, dirs, collections, documents) /\ sync[p].pc = "idle"
  BY <1>1, IdleOK
<1>3. sync \in [Programs -> Syncs]
  BY <1>2 DEF RagInit, SyncOK
<1>4. IsFiniteSet({})
  BY FS_EmptySet
<1>5. World(folder, dirs, collections, documents)
  BY <1>4 DEF RagInit, World
<1>6. QED BY <1>2, <1>3, <1>5 DEF RagIInv

\* A step of p, which alone is not idle.
LEMMA StepOfOne ==
  ASSUME RagIInv, NEW p \in Programs, NEW s,
         \A q \in Programs \ {p} : sync[q].pc = "idle",
         sync' = [sync EXCEPT ![p] = s],
         World(folder', dirs', collections', documents'),
         SyncOK(s, folder', dirs', collections', documents')
  PROVE  RagIInv'
<1>1. sync \in [Programs -> Syncs] /\ s \in Syncs
  BY DEF RagIInv, SyncOK
<1>2. sync'[p] = s /\ \A q \in Programs \ {p} : sync'[q] = sync[q] /\ sync[q] = Idle
  BY <1>1 DEF RagIInv, SyncOK
<1>3. sync' \in [Programs -> Syncs]
  BY <1>1
<1>4. \A q \in Programs \ {p} : SyncOK(sync'[q], folder', dirs', collections', documents')
                               /\ sync'[q].pc = "idle"
  BY <1>2, IdleOK
<1>5. \A q \in Programs : SyncOK(sync'[q], folder', dirs', collections', documents')
  BY <1>2, <1>4
<1>6. \A q, r \in Programs : sync'[q].pc # "idle" /\ sync'[r].pc # "idle" => q = r
  BY <1>4
<1>7. QED BY <1>3, <1>5, <1>6 DEF RagIInv

\* What RagIInv says of the sync that is under way.
LEMMA OneSync ==
  ASSUME RagIInv, NEW p \in Programs
  PROVE  /\ sync \in [Programs -> Syncs] /\ sync[p] \in Syncs
         /\ World(folder, dirs, collections, documents)
         /\ SyncOK(sync[p], folder, dirs, collections, documents)
         /\ sync[p].pc # "idle" => \A q \in Programs \ {p} : sync[q].pc = "idle"
BY DEF RagIInv

\* The lock is taken: every collection is ahead.
LEMMA LockKeeps ==
  ASSUME RagIInv, NEW p \in Programs, NEW force \in BOOLEAN, Lock(p, force)
  PROVE  RagIInv'
<1>. DEFINE sound == {f \in Sources :
                        /\ Cardinality(DocumentsOf(f)) <= 1
                        /\ force \/ \A d \in DocumentsOf(f) : Complete(d) \/ d.content_hash # folder[f]}
            s == [Idle EXCEPT !.pc = "conversations", !.force = force, !.sound = sound]
<1>1. /\ sync' = [sync EXCEPT ![p] = s]
      /\ UNCHANGED <<folder, dirs, collections, documents>>
      /\ \A q \in Programs \ {p} : sync[q].pc = "idle"
  BY DEF Lock, Goes, SYNC_LOCK
<1>2. s \in Syncs
  BY DEF Idle, Syncs
<1>3. /\ s.pc = "conversations" /\ s.existing = {} /\ s.todo = {} /\ s.sound = sound /\ s.force = force
  BY DEF Idle
<1>4. IsFiniteSet({})
  BY FS_EmptySet
<1>5. World(folder, dirs, collections, documents)
  BY DEF RagIInv
<1>6. ASSUME NEW f \in sound
      PROVE  CollectionOf[f] \in Collections /\ AsFound(s, folder[f], From(documents, f))
  <2>1. IsFiniteSet(DocumentsOf(f))
    BY <1>5, FS_Subset DEF DocumentsOf, World
  <2>2. ASSUME NEW d \in DocumentsOf(f), NEW e \in DocumentsOf(f), d # e  PROVE FALSE
    <3>1. IsFiniteSet({d}) /\ Cardinality({d}) = 1 /\ e \notin {d}
      BY <2>2, FS_Singleton
    <3>2. IsFiniteSet({d} \cup {e}) /\ Cardinality({d} \cup {e}) = Cardinality({d}) + 1
      BY <3>1, FS_AddElement
    <3>3. Cardinality({d} \cup {e}) <= Cardinality(DocumentsOf(f))
      BY <2>1, FS_Subset
    <3>4. Cardinality(DocumentsOf(f)) \in Nat
      BY <2>1, FS_CardinalityType
    <3>5. QED BY <3>1, <3>2, <3>3, <3>4
  <2>3. DocumentsOf(f) = From(documents, f)
    BY DEF DocumentsOf, From
  <2>4. CollectionOf[f] \in Collections
    BY DEF Collections
  <2>5. QED BY <1>3, <2>2, <2>3, <2>4 DEF AsFound
<1>. HIDE DEF s, sound
<1>7. ~Working(s) /\ Ahead(s) = Collections /\ s.pc # "idle" /\ s.pc # "chunks"
  BY <1>3 DEF Working, Ahead
<1>8. OpenedOK(s) /\ IdsKept(s, documents)
  BY <1>3, <1>7 DEF OpenedOK, IdsKept
<1>9. OnCourse(s, folder, dirs, collections, documents)
  BY <1>3, <1>6, <1>7 DEF OnCourse, RowsKept, Followed
<1>10. SyncOK(s, folder, dirs, collections, documents)
  BY <1>2, <1>3, <1>4, <1>7, <1>8, <1>9 DEF SyncOK
<1>11. QED BY <1>1, <1>5, <1>10, StepOfOne

\* What is asked of a sync that opens a collection, or leaves one: its rows, and its sources.
Sorted(s, ahead, fo, di, co, ds) ==
  /\ \A t \in s.todo : t.name # Conversations /\ t.id = co[t.name]
  /\ \A f \in s.sound :
       LET c == CollectionOf[f]
       IN  IF c \in ahead THEN AsFound(s, fo[f], From(ds, f))
           ELSE c \in di /\ co[c] # 0 => Right(fo[f], From(ds, f))

Opened(s, name, id, found) ==
  [s EXCEPT !.pc = "files", !.name = name, !.id = id, !.existing = found,
            !.left = {f \in Sources : CollectionOf[f] = name}, !.on_disk = {}]

\* A collection that was opened without trouble.
LEMMA OpensWell ==
  ASSUME NEW fo, NEW di, NEW co, NEW ds, World(fo, di, co, ds),
         NEW s \in Syncs, NEW name \in Collections, NEW id \in Nat, IsFiniteSet(s.todo),
         NEW found, found = {d \in ds : CollectionOf[d.source] = name /\ co[name] = id},
         NEW ahead, ahead = IF name = Conversations THEN Collections
                            ELSE {t.name : t \in s.todo} \cup {name},
         s.calm => /\ Sorted(s, ahead, fo, di, co, ds) /\ co[name] = id
                   /\ name # Conversations => \A t \in s.todo : t.name # name
  PROVE  SyncOK(Opened(s, name, id, found), fo, di, co, ds)
<1>. DEFINE z == Opened(s, name, id, found)
<1>1. /\ z.pc = "files" /\ z.name = name /\ z.id = id /\ z.existing = found
      /\ z.left = {f \in Sources : CollectionOf[f] = name} /\ z.on_disk = {}
      /\ z.todo = s.todo /\ z.sound = s.sound /\ z.force = s.force /\ z.calm = s.calm
  BY DEF Opened, Syncs
<1>2. found \in SUBSET ds /\ IsFiniteSet(found) /\ found \in SUBSET Documents
  BY FS_Subset DEF World
<1>3. z \in Syncs
  BY <1>2 DEF Opened, Syncs
<1>. HIDE DEF z
<1>4. Working(z) /\ z.pc # "idle"
  BY <1>1 DEF Working
<1>5. OpenedOK(z)
  BY <1>1, <1>2 DEF OpenedOK
<1>6. IdsKept(z, ds)
  BY <1>1, <1>2 DEF IdsKept, World
<1>7. ASSUME z.calm  PROVE OnCourse(z, fo, di, co, ds)
  <2>1. /\ Sorted(s, ahead, fo, di, co, ds) /\ co[name] = id
        /\ name # Conversations => \A t \in s.todo : t.name # name
    BY <1>1, <1>7
  <2>2. RowsKept(z, co)
    BY <1>1, <2>1 DEF RowsKept, Sorted
  <2>3. Ahead(z) = IF name = Conversations THEN Collections \ {Conversations} ELSE {t.name : t \in s.todo}
    BY <1>1, <1>4 DEF Ahead
  <2>4. ASSUME NEW f \in s.sound  PROVE Followed(z, f, fo[f], From(ds, f), di, co)
    <3>1. f \in Sources /\ CollectionOf[f] \in Collections
      BY DEF Syncs, Collections
    <3>2. IF CollectionOf[f] \in ahead THEN AsFound(z, fo[f], From(ds, f))
          ELSE CollectionOf[f] \in di /\ co[CollectionOf[f]] # 0 => Right(fo[f], From(ds, f))
      BY <1>1, <2>1 DEF Sorted, AsFound
    <3>3. CASE CollectionOf[f] = name
      <4>1. AsFound(z, fo[f], From(ds, f)) /\ name \notin Ahead(z)
        BY <2>1, <2>3, <3>1, <3>2, <3>3
      <4>2. From(found, f) = From(ds, f)
        BY <2>1, <3>3 DEF From
      <4>3. f \in z.left
        BY <1>1, <3>1, <3>3
      <4>4. Midway(z, f, fo[f], From(ds, f))
        BY <1>1, <4>1, <4>2, <4>3 DEF Midway
      <4>5. QED BY <1>1, <1>4, <3>3, <4>1, <4>4 DEF Followed
    <3>4. CASE CollectionOf[f] # name
      <4>1. CollectionOf[f] \in ahead <=> CollectionOf[f] \in Ahead(z)
        BY <2>3, <3>1, <3>4
      <4>2. QED BY <1>1, <3>2, <3>4, <4>1 DEF Followed
    <3>5. QED BY <3>3, <3>4
  <2>5. QED BY <1>1, <2>2, <2>4 DEF OnCourse
<1>8. QED BY <1>1, <1>2, <1>3, <1>4, <1>5, <1>6, <1>7 DEF SyncOK, z

\* A sync in which something has gone wrong is asked for no more than its type.
LEMMA Disordered ==
  ASSUME NEW fo, NEW di, NEW co, NEW ds, NEW s, SyncOK(s, fo, di, co, ds), s.pc # "idle"
  PROVE  SyncOK([s EXCEPT !.calm = FALSE], fo, di, co, ds)
<1>. DEFINE z == [s EXCEPT !.calm = FALSE]
<1>1. s \in Syncs
  BY DEF SyncOK
<1>2. /\ z \in Syncs /\ z.pc = s.pc /\ z.name = s.name /\ z.existing = s.existing /\ z.todo = s.todo
      /\ z.left = s.left /\ z.on_disk = s.on_disk /\ z.file = s.file /\ z.content = s.content
      /\ z.doc = s.doc /\ ~z.calm
  BY <1>1 DEF Syncs
<1>. HIDE DEF z
<1>3. OpenedOK(z) /\ IdsKept(z, ds)
  BY <1>2 DEF SyncOK, OpenedOK, IdsKept, Working
<1>4. QED BY <1>2, <1>3 DEF SyncOK, z

\* A collection is opened, with trouble or without.
LEMMA Opens ==
  ASSUME RagIInv, NEW p \in Programs, sync[p].pc # "idle",
         NEW s \in Syncs, NEW name \in Collections, NEW id \in Nat, IsFiniteSet(s.todo),
         UNCHANGED <<folder, dirs, documents>>, collections' \in [Collections -> Nat],
         NEW ahead, ahead = IF name = Conversations THEN Collections
                            ELSE {t.name : t \in s.todo} \cup {name},
         s.calm => /\ Sorted(s, ahead, folder, dirs, collections', documents) /\ collections'[name] = id
                   /\ name # Conversations => \A t \in s.todo : t.name # name,
         OpenCollection(p, s, name, id)
  PROVE  RagIInv'
<1>. DEFINE found == {d \in documents : CollectionOf[d.source] = name /\ collections'[name] = id}
<1>1. \/ sync' = [sync EXCEPT ![p] = Opened(s, name, id, found)]
      \/ sync' = [sync EXCEPT ![p] = [Opened(s, name, id, {}) EXCEPT !.calm = FALSE]]
  <2>1. CASE Goes(p, Opened(s, name, id, found))
    BY <2>1 DEF Goes
  <2>2. CASE Fails(p, Opened(s, name, id, {}))
    BY <2>2 DEF Fails
  <2>3. QED
    <3>1. [Opened(s, name, id, {}) EXCEPT !.existing = found] = Opened(s, name, id, found)
      BY DEF Opened, Syncs
    <3>2. Goes(p, [Opened(s, name, id, {}) EXCEPT !.existing = found]) \/ Fails(p, Opened(s, name, id, {}))
      BY DEF OpenCollection, Opened
    <3>3. QED BY <2>1, <2>2, <3>1, <3>2
<1>2. World(folder', dirs', collections', documents')
  BY DEF RagIInv, World
<1>3. \A q \in Programs \ {p} : sync[q].pc = "idle"
  BY OneSync
<1>4. CASE sync' = [sync EXCEPT ![p] = Opened(s, name, id, found)]
  <2>1. SyncOK(Opened(s, name, id, found), folder', dirs', collections', documents')
    BY <1>2, OpensWell
  <2>2. QED BY <1>2, <1>3, <1>4, <2>1, StepOfOne
<1>5. CASE sync' = [sync EXCEPT ![p] = [Opened(s, name, id, {}) EXCEPT !.calm = FALSE]]
  <2>. DEFINE z == Opened(s, name, id, {})
              y == [z EXCEPT !.calm = FALSE]
  <2>1. /\ y.pc = "files" /\ y.name = name /\ y.existing = {} /\ y.on_disk = {} /\ ~y.calm
        /\ y.left = {f \in Sources : CollectionOf[f] = name} /\ y.todo = s.todo /\ y \in Syncs
    BY DEF Opened, Syncs
  <2>2. IsFiniteSet({})
    BY FS_EmptySet
  <2>. HIDE DEF y
  <2>3. OpenedOK(y) /\ IdsKept(y, documents')
    BY <2>1 DEF OpenedOK, IdsKept, Working
  <2>4. SyncOK(y, folder', dirs', collections', documents')
    BY <2>1, <2>2, <2>3 DEF SyncOK
  <2>5. sync' = [sync EXCEPT ![p] = y]
    BY <1>5 DEF y
  <2>6. QED BY <1>2, <1>3, <2>4, <2>5, StepOfOne
<1>6. QED BY <1>1, <1>4, <1>5

\* A sync goes on between two collections, with nothing open.
LEMMA GoesOn ==
  ASSUME NEW fo, NEW di, NEW co, NEW ds,
         NEW s \in Syncs, s.pc \in {"conversations", "list", "collections", "done"},
         IsFiniteSet(s.todo), IsFiniteSet(s.existing), NEW t \in Syncs,
         IdsKept(t, ds), s.existing \in SUBSET t.existing,
         s.calm => Sorted(s, Ahead(s), fo, di, co, ds)
  PROVE  SyncOK(s, fo, di, co, ds)
<1>1. ~Working(s) /\ s.pc # "idle" /\ s.pc # "chunks" /\ s.pc # "add"
  BY DEF Working
<1>2. OpenedOK(s) /\ IdsKept(s, ds)
  BY <1>1 DEF OpenedOK, IdsKept
<1>3. ASSUME s.calm  PROVE OnCourse(s, fo, di, co, ds)
  BY <1>1, <1>3 DEF OnCourse, RowsKept, Followed, Sorted
<1>4. QED BY <1>1, <1>2, <1>3 DEF SyncOK

\* What is known of a sync with nothing open.
LEMMA NothingOpen ==
  ASSUME NEW fo, NEW di, NEW co, NEW ds, NEW s, SyncOK(s, fo, di, co, ds),
         s.pc \in {"conversations", "list", "collections", "done"}, s.calm
  PROVE  Sorted(s, Ahead(s), fo, di, co, ds)
<1>1. ~Working(s) /\ s.pc # "idle"
  BY DEF Working
<1>2. QED BY <1>1 DEF SyncOK, OnCourse, RowsKept, Followed, Sorted

\* Its first step: the collection of the chat logs.
LEMMA SyncConversationsKeeps ==
  ASSUME RagIInv, NEW p \in Programs, SyncConversations(p)
  PROVE  RagIInv'
<1>. DEFINE s == sync[p]
            z == [s EXCEPT !.pc = "list"]
<1>0. s.pc = "conversations" /\ s \in Syncs /\ SyncOK(s, folder, dirs, collections, documents)
      /\ World(folder, dirs, collections, documents)
      /\ \A q \in Programs \ {p} : sync[q].pc = "idle"
  BY OneSync DEF SyncConversations
<1>1. IsFiniteSet(s.todo) /\ IsFiniteSet(s.existing) /\ IdsKept(s, documents)
  BY <1>0 DEF SyncOK
<1>2. s.calm => Sorted(s, Collections, folder, dirs, collections, documents)
  <2>1. Ahead(s) = Collections
    BY <1>0 DEF Ahead
  <2>2. s.calm => Sorted(s, Ahead(s), folder, dirs, collections, documents)
    BY <1>0, NothingOpen
  <2>3. QED BY <2>1, <2>2
<1>3. UNCHANGED <<folder, dirs, documents>>
  BY DEF SyncConversations
<1>. HIDE DEF s
<1>4. z \in Syncs /\ z.pc = "list" /\ z.todo = s.todo /\ z.existing = s.existing /\ z.calm = s.calm
      /\ z.sound = s.sound /\ z.force = s.force
  BY <1>0 DEF Syncs
<1>. HIDE DEF z
<1>5. ASSUME Conversations \in dirs,
             collections' = IF collections[Conversations] # 0 THEN collections
                            ELSE [collections EXCEPT ![Conversations] = NewCollectionId],
             OpenCollection(p, s, Conversations, collections'[Conversations])
      PROVE  RagIInv'
  <2>1. Conversations \in Collections
    BY <1>0, <1>5 DEF World
  <2>2. collections \in [Collections -> Nat] /\ NewCollectionId \in Nat
    BY <1>0, FreshCollection DEF World
  <2>3. /\ collections' \in [Collections -> Nat] /\ collections'[Conversations] \in Nat
        /\ \A c \in Collections \ {Conversations} : collections'[c] = collections[c]
    BY <1>5, <2>1, <2>2
  <2>4. \A t \in s.todo : t.name \in Collections
    BY <1>0 DEF Syncs, Rows
  <2>5. \A f \in s.sound : CollectionOf[f] \in Collections
    BY <1>0 DEF Syncs, Collections
  <2>6. s.calm => Sorted(s, Collections, folder, dirs, collections', documents)
    BY <1>2, <2>3, <2>4, <2>5 DEF Sorted
  <2>7. sync[p].pc # "idle"
    BY <1>0 DEF s
  <2>8. QED BY <1>0, <1>1, <1>3, <1>5, <2>1, <2>3, <2>6, <2>7, Opens
<1>6. ASSUME Fails(p, z), UNCHANGED collections
      PROVE  RagIInv'
  <2>. DEFINE y == [z EXCEPT !.calm = FALSE]
  <2>1. y \in Syncs /\ y.pc = "list" /\ y.todo = s.todo /\ y.existing = s.existing /\ ~y.calm
    BY <1>4 DEF Syncs
  <2>2. sync' = [sync EXCEPT ![p] = y]
    BY <1>6 DEF Fails
  <2>. HIDE DEF y
  <2>3. SyncOK(y, folder', dirs', collections', documents')
    BY <1>0, <1>1, <1>3, <2>1, GoesOn
  <2>4. QED BY <1>0, <1>3, <1>6, <2>2, <2>3, StepOfOne
<1>7. ASSUME Conversations \notin dirs, Goes(p, z), UNCHANGED collections
      PROVE  RagIInv'
  <2>1. sync' = [sync EXCEPT ![p] = z]
    BY <1>7 DEF Goes
  <2>2. Ahead(z) = Collections \ {Conversations}
    BY <1>4 DEF Ahead
  <2>3. z.calm => Sorted(z, Ahead(z), folder, dirs, collections, documents)
    <3>1. \A f \in s.sound : CollectionOf[f] \in Collections
      BY <1>0 DEF Syncs, Collections
    <3>2. QED BY <1>2, <1>4, <1>7, <2>2, <3>1 DEF Sorted, AsFound
  <2>4. SyncOK(z, folder', dirs', collections', documents')
    BY <1>0, <1>1, <1>3, <1>4, <1>7, <2>3, GoesOn
  <2>5. QED BY <1>0, <1>3, <1>7, <2>1, <2>4, StepOfOne
<1>8. QED BY <1>5, <1>6, <1>7 DEF SyncConversations, s, z

\* Then the rows of the other collections are read.
LEMMA ListCollectionsKeeps ==
  ASSUME RagIInv, NEW p \in Programs, ListCollections(p)
  PROVE  RagIInv'
<1>. DEFINE s == sync[p]
            C == {n \in Collections \ {Conversations} : collections[n] # 0}
            rows == {[name |-> c, id |-> collections[c]] : c \in C}
            z == [s EXCEPT !.pc = "collections", !.todo = rows]
            y == [[s EXCEPT !.pc = "collections"] EXCEPT !.calm = FALSE]
<1>0. /\ s.pc = "list" /\ s \in Syncs /\ SyncOK(s, folder, dirs, collections, documents)
      /\ World(folder, dirs, collections, documents)
      /\ \A q \in Programs \ {p} : sync[q].pc = "idle"
  BY OneSync DEF ListCollections
<1>1. IsFiniteSet(s.todo) /\ IsFiniteSet(s.existing) /\ IdsKept(s, documents)
  BY <1>0 DEF SyncOK
<1>2. s.calm => Sorted(s, Collections \ {Conversations}, folder, dirs, collections, documents)
  <2>1. Ahead(s) = Collections \ {Conversations}
    BY <1>0 DEF Ahead
  <2>2. s.calm => Sorted(s, Ahead(s), folder, dirs, collections, documents)
    BY <1>0, NothingOpen
  <2>3. QED BY <2>1, <2>2
<1>3. UNCHANGED <<folder, dirs, documents, collections>>
  BY DEF ListCollections
<1>4. IsFiniteSet(rows)
  <2>. DEFINE g == [c \in C |-> [name |-> c, id |-> collections[c]]]
  <2>1. g \in Surjection(C, rows)
    BY DEF Surjection
  <2>2. IsFiniteSet(C)
    BY CollectionsFinite, FS_Subset
  <2>. HIDE DEF g, rows, C
  <2>3. QED BY <2>1, <2>2, FS_Surjection
<1>5. rows \in SUBSET Rows
  BY <1>0 DEF World, Rows
<1>6. sync' = [sync EXCEPT ![p] = z] \/ sync' = [sync EXCEPT ![p] = y]
  BY DEF ListCollections, Goes, Fails
<1>7. {t.name : t \in rows} = C
  <2>1. \A c \in C : [name |-> c, id |-> collections[c]].name = c
    OBVIOUS
  <2>2. QED BY <2>1
<1>8. \A t \in rows : t.name # Conversations /\ t.id = collections[t.name]
  OBVIOUS
<1>. HIDE DEF s, rows
<1>9. z \in Syncs /\ z.pc = "collections" /\ z.todo = rows /\ z.existing = s.existing /\ z.calm = s.calm
      /\ z.sound = s.sound /\ z.force = s.force
  BY <1>0, <1>5 DEF Syncs
<1>10. y \in Syncs /\ y.pc = "collections" /\ y.todo = s.todo /\ y.existing = s.existing /\ ~y.calm
  BY <1>0 DEF Syncs
<1>. HIDE DEF z, y
<1>11. z.calm => Sorted(z, Ahead(z), folder, dirs, collections, documents)
  <2>1. Ahead(z) = C
    BY <1>7, <1>9 DEF Ahead, Working
  <2>2. \A f \in s.sound : CollectionOf[f] \in Collections
    BY <1>0 DEF Syncs, Collections
  <2>3. QED BY <1>2, <1>8, <1>9, <2>1, <2>2 DEF Sorted, AsFound
<1>12. SyncOK(z, folder', dirs', collections', documents')
  BY <1>0, <1>1, <1>3, <1>4, <1>9, <1>11, GoesOn
<1>13. SyncOK(y, folder', dirs', collections', documents')
  BY <1>0, <1>1, <1>3, <1>10, GoesOn
<1>14. QED
  <2>1. CASE sync' = [sync EXCEPT ![p] = z]
    BY <1>0, <1>3, <1>12, <2>1, StepOfOne
  <2>2. CASE sync' = [sync EXCEPT ![p] = y]
    BY <1>0, <1>3, <1>13, <2>2, StepOfOne
  <2>3. QED BY <1>6, <2>1, <2>2

\* The next of them is opened, or passed over for want of a folder.
LEMMA NextCollectionKeeps ==
  ASSUME RagIInv, NEW p \in Programs, NextCollection(p)
  PROVE  RagIInv'
<1>. DEFINE s == sync[p]
<1>0. /\ s.pc = "collections" /\ s \in Syncs /\ SyncOK(s, folder, dirs, collections, documents)
      /\ World(folder, dirs, collections, documents)
      /\ \A q \in Programs \ {p} : sync[q].pc = "idle"
  BY OneSync DEF NextCollection
<1>1. PICK t \in s.todo :
        LET z == [s EXCEPT !.todo = @ \ {t}]
        IN  IF t.name \in dirs THEN OpenCollection(p, z, t.name, t.id) ELSE Goes(p, z)
  BY DEF NextCollection
<1>. DEFINE z == [s EXCEPT !.todo = s.todo \ {t}]
<1>2. IsFiniteSet(s.todo) /\ IsFiniteSet(s.existing) /\ IdsKept(s, documents)
  BY <1>0 DEF SyncOK
<1>3. s.calm => Sorted(s, {u.name : u \in s.todo}, folder, dirs, collections, documents)
  <2>1. Ahead(s) = {u.name : u \in s.todo}
    BY <1>0 DEF Ahead, Working
  <2>2. s.calm => Sorted(s, Ahead(s), folder, dirs, collections, documents)
    BY <1>0, NothingOpen
  <2>3. QED BY <2>1, <2>2
<1>4. UNCHANGED <<folder, dirs, documents, collections>>
  BY DEF NextCollection
<1>5. IF t.name \in dirs THEN OpenCollection(p, z, t.name, t.id) ELSE Goes(p, z)
  BY <1>1
<1>6. sync[p].pc # "idle"
  BY <1>0
<1>. HIDE DEF s
<1>7. z \in Syncs /\ z.pc = "collections" /\ z.todo = s.todo \ {t} /\ z.existing = s.existing /\ z.calm = s.calm
      /\ z.sound = s.sound /\ z.force = s.force
  BY <1>0 DEF Syncs
<1>. HIDE DEF z
<1>8. t.name \in Collections /\ t.id \in Nat /\ s.todo \in SUBSET Rows
  BY <1>0 DEF Syncs, Rows
<1>9. IsFiniteSet(z.todo)
  BY <1>2, <1>7, FS_Subset
<1>10. s.calm => \A u \in z.todo : u.name # t.name
  <2>1. SUFFICES ASSUME s.calm, NEW u \in z.todo, u.name = t.name  PROVE FALSE
    OBVIOUS
  <2>2. u.id = collections[u.name] /\ t.id = collections[t.name] /\ u \in Rows /\ t \in Rows /\ u # t
    BY <1>3, <1>7, <1>8, <2>1 DEF Sorted
  <2>3. u.id = t.id
    BY <2>1, <2>2
  <2>4. u = t
    BY <2>1, <2>2, <2>3 DEF Rows
  <2>5. QED BY <2>2, <2>4
<1>11. CASE t.name \in dirs
  <2>1. OpenCollection(p, z, t.name, t.id)
    BY <1>5, <1>11
  <2>2. s.calm => t.name # Conversations /\ t.id = collections[t.name]
    BY <1>3 DEF Sorted
  <2>. DEFINE ahead == IF t.name = Conversations THEN Collections ELSE {u.name : u \in z.todo} \cup {t.name}
  <2>3. s.calm => ahead = {u.name : u \in s.todo}
    BY <1>7, <2>2
  <2>4. s.calm => Sorted(s, ahead, folder, dirs, collections', documents)
    BY <1>3, <1>4, <2>3
  <2>. HIDE DEF ahead
  <2>5. z.calm => /\ Sorted(z, ahead, folder, dirs, collections', documents) /\ collections'[t.name] = t.id
                  /\ t.name # Conversations => \A u \in z.todo : u.name # t.name
    BY <1>4, <1>7, <1>10, <2>2, <2>4 DEF Sorted, AsFound
  <2>6. collections' \in [Collections -> Nat]
    BY <1>0, <1>4 DEF World
  <2>7. QED BY <1>4, <1>6, <1>7, <1>8, <1>9, <2>1, <2>5, <2>6, Opens DEF ahead
<1>12. CASE t.name \notin dirs
  <2>1. sync' = [sync EXCEPT ![p] = z]
    BY <1>5, <1>12 DEF Goes
  <2>2. Ahead(z) = {u.name : u \in z.todo}
    BY <1>7 DEF Ahead, Working
  <2>3. \A c \in {u.name : u \in s.todo} : c = t.name \/ c \in Ahead(z)
    BY <1>7, <2>2
  <2>4. \A c \in Ahead(z) : c \in {u.name : u \in s.todo}
    BY <1>7, <2>2
  <2>5. z.calm => Sorted(z, Ahead(z), folder, dirs, collections, documents)
    BY <1>3, <1>7, <1>12, <2>3, <2>4 DEF Sorted, AsFound
  <2>6. SyncOK(z, folder', dirs', collections', documents')
    BY <1>0, <1>2, <1>4, <1>7, <1>9, <2>5, GoesOn
  <2>7. QED BY <1>0, <1>4, <2>1, <2>6, StepOfOne
<1>13. QED BY <1>11, <1>12

\* After the last one the sync is done; with the lock gone, or the process, nothing of it is left.
LEMMA EndKeeps ==
  ASSUME RagIInv, NEW p \in Programs, Finish(p) \/ Unlock(p) \/ RagKilled(p)
  PROVE  RagIInv'
<1>. DEFINE s == sync[p]
            z == [s EXCEPT !.pc = "done", !.name = Conversations, !.id = 0]
<1>0. /\ s.pc # "idle" /\ s \in Syncs /\ SyncOK(s, folder, dirs, collections, documents)
      /\ World(folder, dirs, collections, documents)
      /\ \A q \in Programs \ {p} : sync[q].pc = "idle"
  BY OneSync DEF Finish, Unlock, RagKilled
<1>1. UNCHANGED <<folder, dirs, documents, collections>>
  BY DEF Finish, Unlock, RagKilled
<1>2. CASE Unlock(p) \/ RagKilled(p)
  <2>1. sync' = [sync EXCEPT ![p] = Idle]
    BY <1>2 DEF Unlock, RagKilled, Goes
  <2>2. QED BY <1>0, <1>1, <2>1, IdleOK, StepOfOne
<1>3. CASE Finish(p)
  <2>1. s.pc = "collections" /\ s.todo = {} /\ sync' = [sync EXCEPT ![p] = z]
    BY <1>3 DEF Finish, Goes
  <2>. HIDE DEF s
  <2>2. IsFiniteSet(s.todo) /\ IsFiniteSet(s.existing) /\ IdsKept(s, documents)
    BY <1>0 DEF SyncOK
  <2>3. z \in Syncs /\ z.pc = "done" /\ z.todo = {} /\ z.existing = s.existing /\ z.calm = s.calm
        /\ z.sound = s.sound
    BY <1>0, <2>1 DEF Syncs
  <2>. HIDE DEF z
  <2>4. Ahead(s) = {} /\ Ahead(z) = {}
    BY <2>1, <2>3 DEF Ahead, Working
  <2>5. z.calm => Sorted(z, Ahead(z), folder, dirs, collections, documents)
    <3>1. s.calm => Sorted(s, {}, folder, dirs, collections, documents)
      BY <1>0, <2>1, <2>4, NothingOpen
    <3>2. QED BY <2>3, <2>4, <3>1 DEF Sorted
  <2>6. SyncOK(z, folder', dirs', collections', documents')
    BY <1>0, <1>1, <2>1, <2>2, <2>3, <2>5, GoesOn
  <2>7. QED BY <1>0, <1>1, <2>1, <2>6, StepOfOne
<1>4. QED BY <1>2, <1>3

\* A step within the open collection is looked at source by source.
LEMMA Inside ==
  ASSUME NEW fo, NEW di, NEW co, NEW ds, NEW es, NEW s, SyncOK(s, fo, di, co, ds),
         NEW z \in Syncs, Working(s), Working(z), IsFiniteSet(z.existing),
         z.name = s.name, z.id = s.id, z.todo = s.todo, z.sound = s.sound, z.force = s.force,
         OpenedOK(z), IdsKept(z, es), z.calm => s.calm,
         z.calm => \A f \in s.sound :
                     IF CollectionOf[f] # s.name THEN From(es, f) = From(ds, f)
                     ELSE Midway(s, f, fo[f], From(ds, f)) => Midway(z, f, fo[f], From(es, f))
  PROVE  SyncOK(z, fo, di, co, es)
<1>1. s.pc # "idle" /\ z.pc # "idle" /\ IsFiniteSet(z.todo)
  BY DEF Working, SyncOK
<1>2. Ahead(z) = Ahead(s)
  BY DEF Ahead, Working
<1>3. ASSUME z.calm  PROVE OnCourse(z, fo, di, co, es)
  <2>1. OnCourse(s, fo, di, co, ds)
    BY <1>1, <1>3 DEF SyncOK
  <2>2. RowsKept(z, co)
    BY <2>1 DEF OnCourse, RowsKept
  <2>3. ASSUME NEW f \in s.sound  PROVE Followed(z, f, fo[f], From(es, f), di, co)
    <3>1. Followed(s, f, fo[f], From(ds, f), di, co)
      BY <2>1 DEF OnCourse
    <3>2. CASE CollectionOf[f] # s.name
      BY <1>2, <1>3, <3>1, <3>2 DEF Followed, AsFound
    <3>3. CASE CollectionOf[f] = s.name
      <4>1. s.name \notin Ahead(s)
        BY <2>1 DEF OnCourse, RowsKept, Ahead, Working
      <4>2. QED BY <1>2, <1>3, <3>1, <3>3, <4>1 DEF Followed
    <3>4. QED BY <3>2, <3>3
  <2>4. QED BY <2>2, <2>3 DEF OnCourse
<1>4. QED BY <1>1, <1>3 DEF SyncOK

\* A source that a step does not look at.
LEMMA Untouched ==
  ASSUME NEW s, NEW z, NEW f, NEW x, NEW D, Midway(s, f, x, D),
         f \in z.left <=> f \in s.left, f \in z.on_disk <=> f \in s.on_disk,
         From(z.existing, f) = From(s.existing, f), z.force = s.force,
         s.pc \in {"add", "chunks"} => f # s.file, z.pc \in {"add", "chunks"} => f # z.file
  PROVE  Midway(z, f, x, D)
BY DEF Midway, AsFound

\* Documents are deleted by the id that a list has for them: only their source loses any.
LEMMA Deletes ==
  ASSUME NEW ds, NEW s, IdsKept(s, ds), NEW d \in s.existing, NEW f, f # d.source
  PROVE  From({e \in ds : e.id # d.id}, f) = From(ds, f)
BY DEF IdsKept, From

\* A file is read.
LEMMA ReadFileKeeps ==
  ASSUME RagIInv, NEW p \in Programs, NEW g \in Sources, ReadFile(p, g)
  PROVE  RagIInv'
<1>. DEFINE s == sync[p]
            seen == [s EXCEPT !.left = @ \ {g}]
            kept == [seen EXCEPT !.on_disk = @ \cup {g}]
            import == [kept EXCEPT !.pc = "add", !.file = g, !.content = folder[g]]
            broken == [import EXCEPT !.calm = FALSE]
            old == Existing(p, g)
            x == folder[g]
<1>0. /\ s.pc = "files" /\ s \in Syncs /\ SyncOK(s, folder, dirs, collections, documents)
      /\ World(folder, dirs, collections, documents)
      /\ \A q \in Programs \ {p} : sync[q].pc = "idle"
  BY OneSync DEF ReadFile
<1>1. g \in s.left /\ UNCHANGED <<folder, dirs, collections>>
  BY DEF ReadFile
<1>2. \/ /\ x \notin Texts /\ sync' = [sync EXCEPT ![p] = seen] /\ UNCHANGED documents
      \/ /\ x \in Texts /\ (\E d \in old : d.content_hash = x /\ ~s.force)
         /\ sync' = [sync EXCEPT ![p] = kept] /\ UNCHANGED documents
      \/ /\ x \in Texts /\ sync' = [sync EXCEPT ![p] = import]
         /\ documents' = {e \in documents : \A d \in old : e.id # d.id}
      \/ /\ x \in Texts /\ sync' = [sync EXCEPT ![p] = broken] /\ UNCHANGED documents
  BY DEF ReadFile, Goes, Fails, Unchanged
<1>3. old = {d \in From(s.existing, g) : \A e \in From(s.existing, g) : d.id <= e.id}
  BY DEF Existing, From
<1>4. IsFiniteSet(s.existing) /\ OpenedOK(s) /\ IdsKept(s, documents) /\ Working(s)
  BY <1>0 DEF SyncOK, Working
<1>. HIDE DEF s, old
<1>5. /\ CollectionOf[g] = s.name /\ g \notin s.on_disk /\ s.name \in Collections
      /\ \A f \in s.left : CollectionOf[f] = s.name /\ f \notin s.on_disk
      /\ \A d \in s.existing : CollectionOf[d.source] = s.name
  BY <1>1, <1>4 DEF OpenedOK
<1>6. /\ seen \in Syncs /\ seen.pc = "files" /\ seen.calm = s.calm /\ seen.on_disk = s.on_disk
      /\ seen.name = s.name /\ seen.id = s.id /\ seen.todo = s.todo /\ seen.sound = s.sound
      /\ seen.force = s.force /\ seen.existing = s.existing /\ seen.left = s.left \ {g}
  BY <1>0 DEF Syncs
<1>. HIDE DEF seen
<1>7. /\ kept \in Syncs /\ kept.pc = "files" /\ kept.calm = s.calm /\ kept.on_disk = s.on_disk \cup {g}
      /\ kept.name = s.name /\ kept.id = s.id /\ kept.todo = s.todo /\ kept.sound = s.sound
      /\ kept.force = s.force /\ kept.existing = s.existing /\ kept.left = s.left \ {g}
  BY <1>6 DEF Syncs
<1>. HIDE DEF kept
<1>8. x \in Texts \cup {Thin, Absent}
  BY <1>0 DEF World
<1>. HIDE DEF x
<1>9. /\ import \in Syncs /\ import.pc = "add" /\ import.calm = s.calm /\ import.on_disk = s.on_disk \cup {g}
      /\ import.file = g /\ import.content = x
      /\ import.name = s.name /\ import.id = s.id /\ import.todo = s.todo /\ import.sound = s.sound
      /\ import.force = s.force /\ import.existing = s.existing /\ import.left = s.left \ {g}
  BY <1>7, <1>8 DEF Syncs, x
<1>. HIDE DEF import
<1>10. /\ broken \in Syncs /\ broken.pc = "add" /\ ~broken.calm /\ broken.on_disk = s.on_disk \cup {g}
       /\ broken.file = g /\ broken.content = x
       /\ broken.name = s.name /\ broken.id = s.id /\ broken.todo = s.todo /\ broken.sound = s.sound
       /\ broken.force = s.force /\ broken.existing = s.existing /\ broken.left = s.left \ {g}
  BY <1>9 DEF Syncs
<1>. HIDE DEF broken
<1>11. CASE x \notin Texts /\ sync' = [sync EXCEPT ![p] = seen] /\ UNCHANGED documents
  <2>1. Working(seen) /\ OpenedOK(seen) /\ IdsKept(seen, documents)
    BY <1>4, <1>5, <1>6, <1>7, <1>9, <1>10 DEF Working, OpenedOK, IdsKept
  <2>2. ASSUME NEW f \in s.sound, Midway(s, f, folder[f], From(documents, f))
        PROVE  Midway(seen, f, folder[f], From(documents, f))
    <3>1. CASE f = g
      BY <1>1, <1>5, <1>6, <1>7, <1>9, <1>10, <1>11, <2>2, <3>1 DEF Midway, x
    <3>2. CASE f # g
      <4>1. /\ f \in seen.left <=> f \in s.left
            /\ f \in seen.on_disk <=> f \in s.on_disk
            /\ seen.existing = s.existing /\ seen.force = s.force
            /\ s.pc = "files" /\ seen.pc = "files"
        BY <1>0, <1>6, <1>7, <1>9, <1>10, <3>2
      <4>2. QED BY <2>2, <4>1, Untouched
    <3>3. QED BY <3>1, <3>2
  <2>3. SyncOK(seen, folder, dirs, collections, documents)
    BY <1>0, <1>4, <1>6, <1>7, <1>9, <1>10, <2>1, <2>2, Inside
  <2>4. QED BY <1>0, <1>1, <1>11, <2>3, StepOfOne
<1>12. CASE /\ x \in Texts /\ (\E d \in old : d.content_hash = x /\ ~s.force)
           /\ sync' = [sync EXCEPT ![p] = kept] /\ UNCHANGED documents
  <2>1. Working(kept) /\ OpenedOK(kept) /\ IdsKept(kept, documents)
    BY <1>4, <1>5, <1>6, <1>7, <1>9, <1>10 DEF Working, OpenedOK, IdsKept
  <2>2. ASSUME NEW f \in s.sound, Midway(s, f, folder[f], From(documents, f))
        PROVE  Midway(kept, f, folder[f], From(documents, f))
    <3>1. CASE f = g
      <4>1. AsFound(s, x, From(documents, g)) /\ From(s.existing, g) = From(documents, g)
        BY <1>1, <2>2, <3>1 DEF Midway, x
      <4>2. PICK d \in From(documents, g) : d.content_hash = x /\ ~s.force
        BY <1>3, <1>12, <4>1
      <4>3. From(documents, g) = {d} /\ Complete(d)
        BY <4>1, <4>2 DEF AsFound
      <4>4. Right(x, From(documents, g))
        BY <1>12, <4>2, <4>3 DEF Right
      <4>5. g \notin kept.left /\ kept.pc = "files" /\ g \in kept.on_disk /\ x \in Texts
        BY <1>6, <1>7, <1>9, <1>10, <1>12
      <4>6. QED BY <3>1, <4>4, <4>5 DEF Midway, x
    <3>2. CASE f # g
      <4>1. /\ f \in kept.left <=> f \in s.left
            /\ f \in kept.on_disk <=> f \in s.on_disk
            /\ kept.existing = s.existing /\ kept.force = s.force
            /\ s.pc = "files" /\ kept.pc = "files"
        BY <1>0, <1>6, <1>7, <1>9, <1>10, <3>2
      <4>2. QED BY <2>2, <4>1, Untouched
    <3>3. QED BY <3>1, <3>2
  <2>3. SyncOK(kept, folder, dirs, collections, documents)
    BY <1>0, <1>4, <1>6, <1>7, <1>9, <1>10, <1>12, <2>1, <2>2, Inside
  <2>4. QED BY <1>0, <1>1, <1>12, <2>3, StepOfOne
<1>13. CASE /\ x \in Texts /\ sync' = [sync EXCEPT ![p] = import]
            /\ documents' = {e \in documents : \A d \in old : e.id # d.id}
  <2>0. World(folder', dirs', collections', documents')
    <3>1. documents' \subseteq documents
      BY <1>13
    <3>2. IsFiniteSet(documents')
      BY <1>0, <3>1, FS_Subset DEF World
    <3>3. QED BY <1>0, <1>1, <3>1, <3>2 DEF World
  <2>1. Working(import) /\ OpenedOK(import) /\ IdsKept(import, documents')
    BY <1>4, <1>5, <1>6, <1>7, <1>9, <1>10, <1>13 DEF Working, OpenedOK, IdsKept
  <2>2. ASSUME NEW f, f # g  PROVE From(documents', f) = From(documents, f)
    <3>1. \A d \in old : d \in s.existing /\ d.source = g
      BY <1>3 DEF From
    <3>2. \A d \in old : \A e \in documents : d.id = e.id => e.source = g
      BY <1>4, <3>1 DEF IdsKept
    <3>3. QED BY <1>13, <2>2, <3>2 DEF From
  <2>3. ASSUME NEW f \in s.sound, Midway(s, f, folder[f], From(documents, f))
        PROVE  Midway(import, f, folder[f], From(documents', f))
    <3>1. CASE f = g
      <4>1. AsFound(s, x, From(documents, g)) /\ From(s.existing, g) = From(documents, g)
        BY <1>1, <2>3, <3>1 DEF Midway, x
      <4>2. \A d \in From(documents, g) : d.id \in Nat /\ \A e \in From(documents, g) : d = e
        BY <1>0, <4>1 DEF AsFound, From, World, Documents
      <4>3. \A d \in From(documents, g) : d \in old
        BY <1>3, <4>1, <4>2
      <4>4. From(documents', g) = {}
        BY <1>13, <4>3 DEF From
      <4>5. g \notin import.left /\ import.pc = "add" /\ import.file = g /\ import.content = x /\ g \in import.on_disk
        BY <1>6, <1>7, <1>9, <1>10
      <4>6. QED BY <3>1, <4>4, <4>5 DEF Midway, x
    <3>2. CASE f # g
      <4>1. /\ f \in import.left <=> f \in s.left
            /\ f \in import.on_disk <=> f \in s.on_disk
            /\ import.existing = s.existing /\ import.force = s.force
            /\ s.pc = "files" /\ import.file = g
        BY <1>0, <1>6, <1>7, <1>9, <1>10, <3>2
      <4>2. QED BY <2>2, <2>3, <3>2, <4>1, Untouched
    <3>3. QED BY <3>1, <3>2
  <2>4. ASSUME NEW f \in s.sound, CollectionOf[f] # s.name
        PROVE  From(documents', f) = From(documents, f)
    BY <1>5, <2>2, <2>4
  <2>5. SyncOK(import, folder, dirs, collections, documents')
    BY <1>0, <1>4, <1>6, <1>7, <1>9, <1>10, <1>13, <2>1, <2>3, <2>4, Inside
  <2>6. QED BY <1>0, <1>1, <1>13, <2>0, <2>5, StepOfOne
<1>14. CASE x \in Texts /\ sync' = [sync EXCEPT ![p] = broken] /\ UNCHANGED documents
  <2>1. Working(broken) /\ OpenedOK(broken) /\ IdsKept(broken, documents)
    BY <1>4, <1>5, <1>6, <1>7, <1>9, <1>10, <1>14 DEF Working, OpenedOK, IdsKept
  <2>2. SyncOK(broken, folder, dirs, collections, documents)
    BY <1>0, <1>4, <1>6, <1>7, <1>9, <1>10, <1>14, <2>1, Inside
  <2>3. QED BY <1>0, <1>1, <1>14, <2>2, StepOfOne
<1>15. QED BY <1>2, <1>11, <1>12, <1>13, <1>14

\* The document that takes the place of what was there.
LEMMA add_documentKeeps ==
  ASSUME RagIInv, NEW p \in Programs, add_document(p)
  PROVE  RagIInv'
<1>. DEFINE s == sync[p]
            new == [id |-> NewDocumentId, source |-> s.file, content_hash |-> s.content, chunks |-> 0]
            added == [s EXCEPT !.pc = "chunks", !.doc = new.id]
            back == [s EXCEPT !.pc = "files", !.file = Absent, !.content = Absent]
            broken == [back EXCEPT !.calm = FALSE]
            g == s.file
<1>1. /\ s.pc = "add" /\ s \in Syncs /\ SyncOK(s, folder, dirs, collections, documents)
      /\ World(folder, dirs, collections, documents)
      /\ \A q \in Programs \ {p} : sync[q].pc = "idle"
  BY OneSync DEF add_document
<1>2. UNCHANGED <<folder, dirs, collections>>
  BY DEF add_document
<1>3. \/ /\ sync' = [sync EXCEPT ![p] = added] /\ documents' = documents \cup {new}
      \/ /\ collections[s.name] # s.id /\ sync' = [sync EXCEPT ![p] = back] /\ UNCHANGED documents
      \/ /\ sync' = [sync EXCEPT ![p] = broken] /\ UNCHANGED documents
  BY DEF add_document, Goes, Fails
<1>4. /\ NewDocumentId \in Nat /\ \A d \in documents : d.id # NewDocumentId
      /\ \A d \in s.existing : d.id # NewDocumentId
  BY FreshDocument
<1>. HIDE DEF s
<1>5. IsFiniteSet(s.existing) /\ OpenedOK(s) /\ IdsKept(s, documents) /\ Working(s)
  BY <1>1 DEF SyncOK, Working
<1>6. /\ g \in Sources /\ g \notin s.left /\ CollectionOf[g] = s.name /\ s.content \in Texts
      /\ s.name \in Collections
      /\ \A f \in s.left : CollectionOf[f] = s.name /\ f \notin s.on_disk
      /\ \A d \in s.existing : CollectionOf[d.source] = s.name
  BY <1>1, <1>5 DEF OpenedOK
<1>7. new \in Documents /\ new.id = NewDocumentId /\ new.source = g /\ new.content_hash = s.content
  BY <1>4, <1>6 DEF Documents
<1>. HIDE DEF new
<1>8. /\ added \in Syncs /\ added.pc = "chunks" /\ added.calm = s.calm /\ added.on_disk = s.on_disk
      /\ added.doc = new.id /\ added.file = g /\ added.content = s.content
      /\ added.name = s.name /\ added.id = s.id /\ added.todo = s.todo /\ added.sound = s.sound
      /\ added.force = s.force /\ added.existing = s.existing /\ added.left = s.left
  BY <1>1, <1>4, <1>7 DEF Syncs
<1>9. /\ back \in Syncs /\ back.pc = "files" /\ back.calm = s.calm /\ back.on_disk = s.on_disk
      /\ back.name = s.name /\ back.id = s.id /\ back.todo = s.todo /\ back.sound = s.sound
      /\ back.force = s.force /\ back.existing = s.existing /\ back.left = s.left
  BY <1>1 DEF Syncs
<1>. HIDE DEF added, back, g
<1>10. /\ broken \in Syncs /\ broken.pc = "files" /\ ~broken.calm /\ broken.on_disk = s.on_disk
       /\ broken.name = s.name /\ broken.id = s.id /\ broken.todo = s.todo /\ broken.sound = s.sound
       /\ broken.force = s.force /\ broken.existing = s.existing /\ broken.left = s.left
  BY <1>9 DEF Syncs
<1>. HIDE DEF broken
<1>11. CASE sync' = [sync EXCEPT ![p] = added] /\ documents' = documents \cup {new}
  <2>1. World(folder', dirs', collections', documents')
    <3>1. IsFiniteSet(documents')
      BY <1>1, <1>11, FS_AddElement DEF World
    <3>2. documents' \in SUBSET Documents
      BY <1>1, <1>7, <1>11 DEF World
    <3>3. \A d, e \in documents' : d.id = e.id => d = e
      BY <1>1, <1>4, <1>7, <1>11 DEF World
    <3>4. QED BY <1>1, <1>2, <3>1, <3>2, <3>3 DEF World
  <2>2. Working(added) /\ OpenedOK(added)
    BY <1>6, <1>8 DEF Working, OpenedOK
  <2>3. IdsKept(added, documents')
    <3>1. \A d \in added.existing, e \in documents' : d.id = e.id => d.source = e.source
      BY <1>4, <1>5, <1>7, <1>8, <1>11 DEF IdsKept
    <3>2. \A e \in documents' : e.id = added.doc => e.source = added.file
      BY <1>4, <1>7, <1>8, <1>11
    <3>3. QED BY <3>1, <3>2 DEF IdsKept
  <2>4. \A f : f # g => From(documents', f) = From(documents, f)
    BY <1>7, <1>11 DEF From
  <2>5. ASSUME NEW f \in s.sound, Midway(s, f, folder[f], From(documents, f))
        PROVE  Midway(added, f, folder[f], From(documents', f))
    <3>1. CASE f = g
      <4>1. From(documents, g) = {} /\ s.content = folder[g] /\ g \in s.on_disk
        BY <1>1, <1>6, <2>5, <3>1 DEF Midway, g
      <4>2. From(documents', g) = {new}
        BY <1>7, <1>11, <4>1 DEF From
      <4>3. \E d \in From(documents', g) :
              From(documents', g) = {d} /\ d.id = added.doc /\ d.content_hash = folder[g]
        BY <1>7, <1>8, <4>1, <4>2
      <4>4. added.pc = "chunks" /\ added.file = g /\ g \notin added.left /\ g \in added.on_disk
        BY <1>6, <1>8, <4>1
      <4>5. QED BY <3>1, <4>3, <4>4 DEF Midway
    <3>2. CASE f # g
      BY <1>8, <2>4, <2>5, <3>2, Untouched DEF g
    <3>3. QED BY <3>1, <3>2
  <2>6. SyncOK(added, folder, dirs, collections, documents')
    BY <1>1, <1>5, <1>6, <1>8, <2>2, <2>3, <2>4, <2>5, Inside
  <2>7. QED BY <1>1, <1>2, <1>11, <2>1, <2>6, StepOfOne
<1>12. CASE collections[s.name] # s.id /\ sync' = [sync EXCEPT ![p] = back] /\ UNCHANGED documents
  <2>1. ~back.calm
    <3>1. s.calm /\ s.pc # "idle" => RowsKept(s, collections)
      BY <1>1 DEF SyncOK, OnCourse
    <3>2. QED BY <1>1, <1>5, <1>9, <1>12, <3>1 DEF RowsKept
  <2>2. Working(back) /\ OpenedOK(back) /\ IdsKept(back, documents)
    BY <1>5, <1>6, <1>9 DEF Working, OpenedOK, IdsKept
  <2>3. SyncOK(back, folder, dirs, collections, documents)
    BY <1>1, <1>5, <1>9, <2>1, <2>2, Inside
  <2>4. QED BY <1>1, <1>2, <1>12, <2>3, StepOfOne
<1>13. CASE sync' = [sync EXCEPT ![p] = broken] /\ UNCHANGED documents
  <2>1. Working(broken) /\ OpenedOK(broken) /\ IdsKept(broken, documents)
    BY <1>5, <1>6, <1>10 DEF Working, OpenedOK, IdsKept
  <2>2. SyncOK(broken, folder, dirs, collections, documents)
    BY <1>1, <1>5, <1>10, <2>1, Inside
  <2>3. QED BY <1>1, <1>2, <1>13, <2>2, StepOfOne
<1>14. QED BY <1>3, <1>11, <1>12, <1>13

\* A chunk of it is stored, or not.
LEMMA add_chunkKeeps ==
  ASSUME RagIInv, NEW p \in Programs, add_chunk(p)
  PROVE  RagIInv'
<1>. DEFINE s == sync[p]
            rest == [s EXCEPT !.pc = "files", !.file = Absent, !.content = Absent, !.doc = 0]
            broken == [rest EXCEPT !.calm = FALSE]
            row == {d \in documents : d.id = s.doc}
            more(d) == [d EXCEPT !.chunks = @ + 1]
            g == s.file
<1>1. /\ s.pc = "chunks" /\ s \in Syncs /\ SyncOK(s, folder, dirs, collections, documents)
      /\ World(folder, dirs, collections, documents)
      /\ \A q \in Programs \ {p} : sync[q].pc = "idle"
  BY OneSync DEF add_chunk
<1>2. UNCHANGED <<folder, dirs, collections>>
  BY DEF add_chunk
<1>3. \/ \E d \in row : /\ documents' = (documents \ {d}) \cup {more(d)}
                        /\ \/ ~Complete(more(d)) /\ sync' = [sync EXCEPT ![p] = s]
                           \/ Complete(more(d)) /\ sync' = [sync EXCEPT ![p] = rest]
      \/ row = {} /\ sync' = [sync EXCEPT ![p] = rest] /\ UNCHANGED documents
      \/ sync' = [sync EXCEPT ![p] = broken] /\ UNCHANGED documents
  BY DEF add_chunk, Goes, Fails
<1>. HIDE DEF s
<1>4. IsFiniteSet(s.existing) /\ OpenedOK(s) /\ IdsKept(s, documents) /\ Working(s)
  BY <1>1 DEF SyncOK, Working
<1>5. /\ g \in Sources /\ g \notin s.left /\ CollectionOf[g] = s.name
      /\ s.name \in Collections
      /\ \A f \in s.left : CollectionOf[f] = s.name /\ f \notin s.on_disk
      /\ \A d \in s.existing : CollectionOf[d.source] = s.name
  BY <1>1, <1>4 DEF OpenedOK
<1>6. /\ rest \in Syncs /\ rest.pc = "files" /\ rest.calm = s.calm /\ rest.on_disk = s.on_disk
      /\ rest.name = s.name /\ rest.id = s.id /\ rest.todo = s.todo /\ rest.sound = s.sound
      /\ rest.force = s.force /\ rest.existing = s.existing /\ rest.left = s.left
  BY <1>1 DEF Syncs
<1>. HIDE DEF rest
<1>7. /\ broken \in Syncs /\ broken.pc = "files" /\ ~broken.calm /\ broken.on_disk = s.on_disk
      /\ broken.name = s.name /\ broken.id = s.id /\ broken.todo = s.todo /\ broken.sound = s.sound
      /\ broken.force = s.force /\ broken.existing = s.existing /\ broken.left = s.left
  BY <1>6 DEF Syncs
<1>. HIDE DEF broken, g
<1>8. Working(rest) /\ OpenedOK(rest)
  BY <1>5, <1>6 DEF Working, OpenedOK
<1>9. ASSUME NEW d \in row, documents' = (documents \ {d}) \cup {more(d)},
             \/ ~Complete(more(d)) /\ sync' = [sync EXCEPT ![p] = s]
             \/ Complete(more(d)) /\ sync' = [sync EXCEPT ![p] = rest]
      PROVE  RagIInv'
  <2>1. d \in documents /\ d \in Documents /\ d.id = s.doc /\ d.source = g
    BY <1>1, <1>4 DEF World, IdsKept, g
  <2>. DEFINE m == more(d)
  <2>2. m \in Documents /\ m.id = s.doc /\ m.source = g /\ m.content_hash = d.content_hash
    BY <2>1 DEF Documents
  <2>3. documents' = (documents \ {d}) \cup {m}
    BY <1>9
  <2>4. \/ ~Complete(m) /\ sync' = [sync EXCEPT ![p] = s]
        \/ Complete(m) /\ sync' = [sync EXCEPT ![p] = rest]
    BY <1>9
  <2>. HIDE DEF m
  <2>5. \A e \in documents : e.id = d.id => e = d
    BY <1>1, <2>1 DEF World
  <2>6. World(folder', dirs', collections', documents')
    <3>1. IsFiniteSet(documents \ {d})
      BY <1>1, FS_Subset DEF World
    <3>2. IsFiniteSet(documents')
      BY <2>3, <3>1, FS_AddElement
    <3>3. documents' \in SUBSET Documents
      BY <1>1, <2>2, <2>3 DEF World
    <3>4. \A e, h \in documents' : e.id = h.id => e = h
      BY <1>1, <2>1, <2>2, <2>3, <2>5 DEF World
    <3>5. QED BY <1>1, <1>2, <3>2, <3>3, <3>4 DEF World
  <2>7. \A f : f # g => From(documents', f) = From(documents, f)
    BY <2>1, <2>2, <2>3 DEF From
  <2>8. \A e \in documents' : \E h \in documents : h.id = e.id /\ h.source = e.source
    BY <2>1, <2>2, <2>3
  <2>9. IdsKept(s, documents') /\ IdsKept(rest, documents')
    BY <1>1, <1>4, <1>6, <2>8 DEF IdsKept
  <2>10. ASSUME NEW f \in s.sound, Midway(s, f, folder[f], From(documents, f)), f = g
         PROVE  /\ f \notin s.left /\ f \in s.on_disk /\ From(documents', f) = {m}
                /\ m.content_hash = folder[f] /\ folder[f] \in Texts
    <3>1. /\ g \notin s.left /\ g \in s.on_disk
          /\ \E e \in From(documents, g) :
               From(documents, g) = {e} /\ e.id = s.doc /\ e.content_hash = folder[g]
      BY <1>1, <1>5, <2>10 DEF Midway, g
    <3>2. From(documents, g) = {d} /\ d.content_hash = folder[g]
      BY <2>1, <2>5, <3>1 DEF From
    <3>3. From(documents', g) = {m}
      BY <2>1, <2>2, <2>3, <3>2 DEF From
    <3>4. d.content_hash \in Texts
      BY <2>1 DEF Documents
    <3>5. QED BY <2>2, <2>10, <3>1, <3>2, <3>3, <3>4
  <2>11. CASE ~Complete(m) /\ sync' = [sync EXCEPT ![p] = s]
    <3>1. ASSUME NEW f \in s.sound, Midway(s, f, folder[f], From(documents, f))
          PROVE  Midway(s, f, folder[f], From(documents', f))
      <4>1. CASE f = g
        <5>1. \E e \in From(documents', f) :
                From(documents', f) = {e} /\ e.id = s.doc /\ e.content_hash = folder[f]
          BY <2>2, <2>10, <3>1, <4>1
        <5>2. QED BY <1>1, <2>10, <3>1, <4>1, <5>1 DEF Midway, g
      <4>2. CASE f # g
        BY <2>7, <3>1, <4>2
      <4>3. QED BY <4>1, <4>2
    <3>2. SyncOK(s, folder, dirs, collections, documents')
      BY <1>1, <1>4, <1>5, <2>7, <2>9, <3>1, Inside
    <3>3. QED BY <1>1, <1>2, <2>6, <2>11, <3>2, StepOfOne
  <2>12. CASE Complete(m) /\ sync' = [sync EXCEPT ![p] = rest]
    <3>1. ASSUME NEW f \in s.sound, Midway(s, f, folder[f], From(documents, f))
          PROVE  Midway(rest, f, folder[f], From(documents', f))
      <4>1. CASE f = g
        <5>1. Right(folder[f], From(documents', f))
          BY <2>10, <2>12, <3>1, <4>1 DEF Right
        <5>2. f \notin rest.left /\ f \in rest.on_disk /\ folder[f] \in Texts /\ rest.pc = "files"
          BY <1>6, <2>10, <3>1, <4>1
        <5>3. QED BY <5>1, <5>2 DEF Midway
      <4>2. CASE f # g
        BY <1>6, <2>7, <3>1, <4>2, Untouched DEF g
      <4>3. QED BY <4>1, <4>2
    <3>2. SyncOK(rest, folder, dirs, collections, documents')
      BY <1>1, <1>4, <1>5, <1>6, <1>8, <2>7, <2>9, <3>1, Inside
    <3>3. QED BY <1>1, <1>2, <2>6, <2>12, <3>2, StepOfOne
  <2>13. QED BY <2>4, <2>11, <2>12
<1>10. CASE row = {} /\ sync' = [sync EXCEPT ![p] = rest] /\ UNCHANGED documents
  <2>1. IdsKept(rest, documents)
    BY <1>4, <1>6 DEF IdsKept
  <2>2. ASSUME NEW f \in s.sound, Midway(s, f, folder[f], From(documents, f))
        PROVE  Midway(rest, f, folder[f], From(documents, f))
    <3>1. CASE f = g
      <4>1. \E e \in From(documents, g) : e.id = s.doc
        BY <1>1, <1>5, <2>2, <3>1 DEF Midway, g
      <4>2. QED BY <1>10, <4>1 DEF From
    <3>2. CASE f # g
      BY <1>6, <2>2, <3>2, Untouched DEF g
    <3>3. QED BY <3>1, <3>2
  <2>3. SyncOK(rest, folder, dirs, collections, documents)
    BY <1>1, <1>4, <1>6, <1>8, <2>1, <2>2, Inside
  <2>4. QED BY <1>1, <1>2, <1>10, <2>3, StepOfOne
<1>11. CASE sync' = [sync EXCEPT ![p] = broken] /\ UNCHANGED documents
  <2>1. Working(broken) /\ OpenedOK(broken) /\ IdsKept(broken, documents)
    BY <1>4, <1>5, <1>7 DEF Working, OpenedOK, IdsKept
  <2>2. SyncOK(broken, folder, dirs, collections, documents)
    BY <1>1, <1>4, <1>7, <2>1, Inside
  <2>3. QED BY <1>1, <1>2, <1>11, <2>2, StepOfOne
<1>12. QED BY <1>3, <1>9, <1>10, <1>11

\* A document whose source was not there goes; when none is left, the collection is done.
LEMMA PruneKeeps ==
  ASSUME RagIInv, NEW p \in Programs, Prune(p)
  PROVE  RagIInv'
<1>. DEFINE s == sync[p]
            stale == {d \in s.existing : d.source \notin s.on_disk}
            less(d) == [s EXCEPT !.existing = @ \ {d}]
            broken(d) == [less(d) EXCEPT !.calm = FALSE]
            closed == [s EXCEPT !.pc = IF s.name = Conversations THEN "list" ELSE "collections",
                                !.existing = {}, !.on_disk = {}]
<1>1. /\ s.pc = "files" /\ s.left = {} /\ s \in Syncs
      /\ SyncOK(s, folder, dirs, collections, documents)
      /\ World(folder, dirs, collections, documents)
      /\ \A q \in Programs \ {p} : sync[q].pc = "idle"
  BY OneSync DEF Prune
<1>2. UNCHANGED <<folder, dirs, collections>>
  BY DEF Prune
<1>3. \/ \E d \in stale : \/ /\ sync' = [sync EXCEPT ![p] = less(d)]
                             /\ documents' = {e \in documents : e.id # d.id}
                          \/ sync' = [sync EXCEPT ![p] = broken(d)] /\ UNCHANGED documents
      \/ stale = {} /\ UNCHANGED documents /\ sync' = [sync EXCEPT ![p] = closed]
  BY DEF Prune, Goes, Fails
<1>. HIDE DEF s
<1>4. IsFiniteSet(s.existing) /\ IsFiniteSet(s.todo) /\ OpenedOK(s) /\ IdsKept(s, documents) /\ Working(s)
  BY <1>1 DEF SyncOK, Working
<1>5. s.name \in Collections /\ \A d \in s.existing : CollectionOf[d.source] = s.name
  BY <1>4 DEF OpenedOK
<1>6. ASSUME NEW d \in stale,
             \/ /\ sync' = [sync EXCEPT ![p] = less(d)]
                /\ documents' = {e \in documents : e.id # d.id}
             \/ sync' = [sync EXCEPT ![p] = broken(d)] /\ UNCHANGED documents
      PROVE  RagIInv'
  <2>. DEFINE z == less(d)
              y == [z EXCEPT !.calm = FALSE]
  <2>1. /\ z \in Syncs /\ z.pc = "files" /\ z.calm = s.calm /\ z.on_disk = s.on_disk
        /\ z.name = s.name /\ z.id = s.id /\ z.todo = s.todo /\ z.sound = s.sound
        /\ z.force = s.force /\ z.existing = s.existing \ {d} /\ z.left = {}
    BY <1>1 DEF Syncs
  <2>2. \/ sync' = [sync EXCEPT ![p] = z] /\ documents' = {e \in documents : e.id # d.id}
        \/ sync' = [sync EXCEPT ![p] = y] /\ UNCHANGED documents
    BY <1>6
  <2>. HIDE DEF z
  <2>3. /\ y \in Syncs /\ y.pc = "files" /\ ~y.calm /\ y.on_disk = s.on_disk
        /\ y.name = s.name /\ y.id = s.id /\ y.todo = s.todo /\ y.sound = s.sound
        /\ y.force = s.force /\ y.existing = s.existing \ {d} /\ y.left = {}
    BY <2>1 DEF Syncs
  <2>. HIDE DEF y
  <2>4. d \in s.existing /\ d.source \notin s.on_disk /\ IsFiniteSet(s.existing \ {d})
    BY <1>4, FS_Subset
  <2>5. Working(z) /\ OpenedOK(z) /\ Working(y) /\ OpenedOK(y)
    BY <1>5, <2>1, <2>3 DEF Working, OpenedOK
  <2>6. documents' \subseteq documents
    BY <2>2
  <2>7. World(folder', dirs', collections', documents')
    <3>1. IsFiniteSet(documents')
      BY <1>1, <2>6, FS_Subset DEF World
    <3>2. QED BY <1>1, <1>2, <2>6, <3>1 DEF World
  <2>8. IdsKept(z, documents') /\ IdsKept(y, documents')
    BY <1>4, <2>1, <2>3, <2>6 DEF IdsKept
  <2>9. CASE sync' = [sync EXCEPT ![p] = z] /\ documents' = {e \in documents : e.id # d.id}
    <3>1. ASSUME NEW f, f # d.source  PROVE From(documents', f) = From(documents, f)
      BY <1>4, <2>4, <2>9, <3>1, Deletes
    <3>2. ASSUME NEW f \in s.sound, Midway(s, f, folder[f], From(documents, f))
          PROVE  Midway(z, f, folder[f], From(documents', f))
      <4>1. CASE f = d.source
        <5>1. folder[f] \notin Texts /\ From(s.existing, f) = From(documents, f) /\ f \notin s.on_disk
          BY <1>1, <2>4, <3>2, <4>1 DEF Midway
        <5>2. d \in documents
          BY <2>4, <4>1, <5>1 DEF From
        <5>3. \A e \in documents : e.id # d.id <=> e # d
          BY <1>1, <5>2 DEF World
        <5>4. From(z.existing, f) = From(documents', f)
          BY <2>1, <2>9, <5>1, <5>3 DEF From
        <5>5. QED BY <1>1, <2>1, <5>1, <5>4 DEF Midway
      <4>2. CASE f # d.source
        <5>1. From(z.existing, f) = From(s.existing, f)
          BY <2>1, <4>2 DEF From
        <5>2. QED BY <1>1, <2>1, <3>1, <3>2, <4>2, <5>1, Untouched
      <4>3. QED BY <4>1, <4>2
    <3>3. ASSUME NEW f \in s.sound, CollectionOf[f] # s.name
          PROVE  From(documents', f) = From(documents, f)
      BY <1>5, <2>4, <3>1, <3>3
    <3>4. SyncOK(z, folder, dirs, collections, documents')
      BY <1>1, <1>4, <2>1, <2>4, <2>5, <2>8, <3>2, <3>3, Inside
    <3>5. QED BY <1>1, <1>2, <2>7, <2>9, <3>4, StepOfOne
  <2>10. CASE sync' = [sync EXCEPT ![p] = y] /\ UNCHANGED documents
    <3>1. SyncOK(y, folder, dirs, collections, documents')
      BY <1>1, <1>4, <2>3, <2>4, <2>5, <2>8, Inside
    <3>2. QED BY <1>1, <1>2, <2>7, <2>10, <3>1, StepOfOne
  <2>11. QED BY <2>2, <2>9, <2>10
<1>7. CASE stale = {} /\ UNCHANGED documents /\ sync' = [sync EXCEPT ![p] = closed]
  <2>1. /\ closed \in Syncs /\ closed.calm = s.calm /\ closed.todo = s.todo
        /\ closed.pc = IF s.name = Conversations THEN "list" ELSE "collections"
        /\ closed.sound = s.sound /\ closed.force = s.force /\ closed.existing = {} /\ closed.name = s.name
    BY <1>1 DEF Syncs
  <2>2. \A d \in s.existing : d.source \in s.on_disk
    BY <1>7
  <2>. HIDE DEF closed
  <2>3. Ahead(closed) = Ahead(s)
    BY <1>4, <2>1 DEF Ahead, Working
  <2>4. closed.calm => Sorted(closed, Ahead(closed), folder, dirs, collections, documents)
    <3>1. SUFFICES ASSUME s.calm
                   PROVE  Sorted(closed, Ahead(s), folder, dirs, collections, documents)
      BY <2>1, <2>3
    <3>2. OnCourse(s, folder, dirs, collections, documents)
      BY <1>1, <3>1 DEF SyncOK
    <3>3. ASSUME NEW f \in s.sound
          PROVE  IF CollectionOf[f] \in Ahead(s) THEN AsFound(s, folder[f], From(documents, f))
                 ELSE CollectionOf[f] \in dirs /\ collections[CollectionOf[f]] # 0
                        => Right(folder[f], From(documents, f))
      <4>1. Followed(s, f, folder[f], From(documents, f), dirs, collections)
        BY <3>2 DEF OnCourse
      <4>2. ASSUME Midway(s, f, folder[f], From(documents, f))
            PROVE  Right(folder[f], From(documents, f))
        <5>1. CASE folder[f] \in Texts
          BY <1>1, <4>2, <5>1 DEF Midway
        <5>2. CASE folder[f] \notin Texts
          <6>1. From(s.existing, f) = From(documents, f) /\ f \notin s.on_disk
            BY <1>1, <4>2, <5>2 DEF Midway
          <6>2. From(s.existing, f) = {}
            BY <2>2, <6>1 DEF From
          <6>3. QED BY <5>2, <6>1, <6>2 DEF Right
        <5>3. QED BY <5>1, <5>2
      <4>3. QED BY <4>1, <4>2 DEF Followed
    <3>4. \A t \in s.todo : t.name # Conversations /\ t.id = collections[t.name]
      BY <3>2 DEF OnCourse, RowsKept
    <3>5. QED BY <2>1, <3>3, <3>4 DEF Sorted, AsFound
  <2>5. closed.pc \in {"conversations", "list", "collections", "done"} /\ IsFiniteSet(closed.todo)
        /\ IsFiniteSet(closed.existing)
    BY <1>4, <2>1, FS_EmptySet
  <2>6. SyncOK(closed, folder, dirs, collections, documents)
    BY <1>1, <1>4, <2>1, <2>4, <2>5, GoesOn
  <2>7. QED BY <1>1, <1>2, <1>7, <2>6, StepOfOne
<1>8. QED BY <1>3, <1>6, <1>7

\* Somebody steps in: the syncs under way are no longer undisturbed.
LEMMA DisturbedKeeps ==
  ASSUME RagIInv, sync' = Disturbed(sync), World(folder', dirs', collections', documents'),
         documents' \in SUBSET documents
  PROVE  RagIInv'
<1>1. sync \in [Programs -> Syncs]
  BY DEF RagIInv
<1>2. ASSUME NEW p \in Programs
      PROVE  SyncOK(sync'[p], folder', dirs', collections', documents') /\ sync'[p].pc = sync[p].pc
  <2>1. sync[p] \in Syncs /\ SyncOK(sync[p], folder, dirs, collections, documents)
    BY OneSync
  <2>2. CASE sync[p].pc = "idle"
    <3>1. sync'[p] = Idle /\ sync[p] = Idle
      BY <1>1, <2>1, <2>2 DEF Disturbed, SyncOK
    <3>2. QED BY <3>1, IdleOK
  <2>3. CASE sync[p].pc # "idle"
    <3>. DEFINE z == [sync[p] EXCEPT !.calm = FALSE]
    <3>1. sync'[p] = z
      BY <1>1, <2>3 DEF Disturbed
    <3>2. z.pc = sync[p].pc /\ z.existing = sync[p].existing /\ z.doc = sync[p].doc
          /\ z.file = sync[p].file /\ ~z.calm
      BY <2>1 DEF Syncs
    <3>3. SyncOK(z, folder, dirs, collections, documents)
      BY <2>1, <2>3, Disordered
    <3>. HIDE DEF z
    <3>4. IdsKept(z, documents')
      BY <3>3 DEF SyncOK, IdsKept
    <3>5. SyncOK(z, folder', dirs', collections', documents')
      BY <3>2, <3>3, <3>4 DEF SyncOK
    <3>6. QED BY <3>1, <3>2, <3>5
  <2>4. QED BY <2>2, <2>3
<1>3. sync' \in [Programs -> Syncs]
  <2>1. \A p \in Programs : sync'[p] \in Syncs
    BY <1>2 DEF SyncOK
  <2>2. QED BY <2>1 DEF Disturbed
<1>4. \A p, q \in Programs : sync'[p].pc # "idle" /\ sync'[q].pc # "idle" => p = q
  BY <1>2 DEF RagIInv
<1>5. QED BY <1>2, <1>3, <1>4 DEF RagIInv

\* Collections, folders and files change outside the lock.
LEMMA OutsideKeeps ==
  ASSUME RagIInv,
         \/ \E c \in Collections : do_create_collection(c) \/ do_delete_collection(c) \/ RemoveFolder(c)
         \/ \E f \in Sources, content \in Texts \cup {Thin, Absent} : EditFile(f, content)
  PROVE  RagIInv'
<1>1. World(folder, dirs, collections, documents)
  BY DEF RagIInv
<1>2. ASSUME NEW c \in Collections, do_create_collection(c)  PROVE RagIInv'
  <2>1. NewCollectionId \in Nat
    BY FreshCollection
  <2>2. World(folder', dirs', collections', documents') /\ documents' = documents
    BY <1>1, <1>2, <2>1 DEF World, do_create_collection
  <2>3. sync' = Disturbed(sync)
    BY <1>2 DEF do_create_collection, AdminAtMenu
  <2>4. QED BY <2>2, <2>3, DisturbedKeeps
<1>3. ASSUME NEW c \in Collections, do_delete_collection(c)  PROVE RagIInv'
  <2>1. documents' \in SUBSET documents
    BY <1>3 DEF do_delete_collection
  <2>2. IsFiniteSet(documents')
    BY <1>1, <2>1, FS_Subset DEF World
  <2>3. World(folder', dirs', collections', documents')
    BY <1>1, <1>3, <2>1, <2>2 DEF World, do_delete_collection
  <2>4. sync' = Disturbed(sync)
    BY <1>3 DEF do_delete_collection, AdminAtMenu
  <2>5. QED BY <2>1, <2>3, <2>4, DisturbedKeeps
<1>4. ASSUME NEW c \in Collections, RemoveFolder(c)  PROVE RagIInv'
  <2>1. World(folder', dirs', collections', documents') /\ documents' = documents
    BY <1>1, <1>4 DEF World, RemoveFolder
  <2>2. sync' = Disturbed(sync)
    BY <1>4 DEF RemoveFolder
  <2>3. QED BY <2>1, <2>2, DisturbedKeeps
<1>5. ASSUME NEW f \in Sources, NEW content \in Texts \cup {Thin, Absent}, EditFile(f, content)
      PROVE  RagIInv'
  <2>1. CollectionOf[f] \in Collections
    BY DEF Collections
  <2>2. World(folder', dirs', collections', documents') /\ documents' = documents
    BY <1>1, <1>5, <2>1 DEF World, EditFile
  <2>3. sync' = Disturbed(sync)
    BY <1>5 DEF EditFile
  <2>4. QED BY <2>2, <2>3, DisturbedKeeps
<1>6. QED BY <1>2, <1>3, <1>4, <1>5

LEMMA RagKeeps == RagIInv /\ [RagNext]_ragVars => RagIInv'
<1>. SUFFICES ASSUME RagIInv, [RagNext]_ragVars  PROVE RagIInv'
  OBVIOUS
<1>1. ASSUME NEW p \in Programs, SyncStep(p)  PROVE RagIInv'
  BY <1>1, LockKeeps, SyncConversationsKeeps, ListCollectionsKeeps, NextCollectionKeeps,
     ReadFileKeeps, add_documentKeeps, add_chunkKeeps, PruneKeeps, EndKeeps DEF SyncStep
<1>2. ASSUME NEW p \in Programs, RagKilled(p)  PROVE RagIInv'
  BY <1>2, EndKeeps
<1>3. CASE UNCHANGED <<folder, dirs, collections, documents, sync>>
  BY <1>3 DEF RagIInv
<1>4. ASSUME NEW mine \in BOOLEAN, Identity(mine)  PROVE RagIInv'
  BY <1>3, <1>4 DEF Identity
<1>5. CASE UNCHANGED ragVars
  BY <1>3, <1>5 DEF ragVars
<1>6. QED BY <1>1, <1>2, <1>4, <1>5, OutsideKeeps DEF RagNext

\* A sync that nothing disturbed leaves exactly one complete document, of the present
\* content, for every sound file worth one, and none for the others, whatever the syncs
\* before it ran into, whichever program ran them, and whatever rag_admin did in between.
THEOREM SyncsMatch == RagSpec => []SyncMatches
<1>1. RagIInv => SyncMatches
  <2>. SUFFICES ASSUME RagIInv, NEW p \in Programs, sync[p].pc = "done", sync[p].calm,
                       NEW f \in sync[p].sound, CollectionOf[f] \in dirs,
                       collections[CollectionOf[f]] # 0
                PROVE  Matches(f)
    BY DEF SyncMatches
  <2>1. Sorted(sync[p], Ahead(sync[p]), folder, dirs, collections, documents)
    BY OneSync, NothingOpen
  <2>2. Ahead(sync[p]) = {}
    BY DEF Ahead, Working
  <2>3. Right(folder[f], From(documents, f))
    BY <2>1, <2>2 DEF Sorted
  <2>4. DocumentsOf(f) = From(documents, f)
    BY DEF DocumentsOf, From
  <2>5. QED BY <2>3, <2>4 DEF Right, Matches, From
<1>2. QED BY <1>1, RagInitial, RagKeeps, PTL DEF RagSpec
=============================================================================
