---------------------------- MODULE IoRelayProofs ----------------------------
(* Proofs about IoRelay: type correctness, and for as long as no pass has   *)
(* begun inside an exchange, that Ctrl+C is not dropped, that the reply is  *)
(* shown and spoken once and in order, that what is entered is handed over  *)
(* once and in order, and that a spoken line is announced by its interrupt. *)
EXTENDS IoRelay, SeqLemmas, SequenceTheorems, TLAPS

USE BoundsAssumption
USE DEF flags, channels, feeds, mine, loop, chat, ghosts, count

Piece == Sources \X Nat

-----------------------------------------------------------------------------
(* What the helpers do to a COMMS.                                         *)

LEMMA SubmitProperties ==
  ASSUME NEW b \in Comms, Paired(b), snapshot \in Comms,
         NEW line \in Seq(Piece), line # <<>>
  PROVE  /\ Submit(b, line) \in Comms
         /\ Paired(Submit(b, line))
         /\ snapshot.exit = b.exit => Submit(b, line).exit = b.exit
         /\ snapshot.llm = b.llm => Submit(b, line).llm = b.llm
<1>1. CASE b.enter
  <2>1. b.user \o line \in Seq(Piece) /\ b.user \o line # <<>>
    BY ConcatProperties, ConcatEmptySeq, ConcatEqualIffEmpty, EmptySeq DEF Comms, Piece
  <2>2. Submit(b, line) = [b EXCEPT !.user = @ \o line]
    BY <1>1 DEF Submit
  <2>3. QED BY <1>1, <2>1, <2>2 DEF Comms, Paired, Piece
<1>2. CASE ~b.enter
  <2>1. Submit(b, line) = [snapshot EXCEPT !.user = line, !.enter = TRUE]
    BY <1>2 DEF Submit
  <2>2. QED BY <2>1 DEF Comms, Paired, Piece
<1>3. QED BY <1>1, <1>2

LEMMA FreshType == Fresh \in Comms /\ Paired(Fresh) /\ ~Fresh.exit /\ Fresh.llm = <<>>
<1>1. <<>> \in Seq(Sources \X Nat) /\ <<>> \in Seq(Nat)
  BY EmptySeq
<1>2. QED BY <1>1 DEF Fresh, Comms, Paired

LEMMA PiecesType ==
  ASSUME NEW s \in Seq([n : Nat, kind : Kinds])
  PROVE  Pieces(s) \in Seq(Piece) /\ (Submitted(s) => Pieces(s) # <<>>)
<1>1. Pieces(s) \in [1 .. Len(s) -> Piece] /\ Len(s) \in Nat /\ DOMAIN s = 1 .. Len(s)
  <2>1. Len(s) \in Nat /\ DOMAIN s = 1 .. Len(s)
    BY LenProperties
  <2>2. \A k \in 1 .. Len(s) : s[k] \in [n : Nat, kind : Kinds]
    BY ElementOfSeq
  <2>3. QED BY <2>1, <2>2 DEF Pieces, Piece, Sources
<1>2. Pieces(s) \in Seq(Piece)
  BY <1>1, IsASeq DEF Pieces
<1>3. Submitted(s) => DOMAIN Pieces(s) # {}
  BY DEF Submitted, Pieces
<1>4. DOMAIN <<>> = {}
  OBVIOUS
<1>5. QED BY <1>2, <1>3, <1>4

LEMMA HandedProperties ==
  ASSUME NEW c \in Comms, NEW b \in Comms
  PROVE  /\ Handed(c, b) \in Comms
         /\ Handed(c, b).exit = (c.exit \/ b.exit)
         /\ Handed(c, b).llm = <<>>
<1>1. <<>> \in Seq(Nat)
  BY EmptySeq
<1>. DEFINE enter == c.enter \/ b.enter
            user  == IF b.user # <<>> THEN b.user ELSE c.user
            stop  == c.interrupted \/ b.interrupted
            exit  == c.exit \/ b.exit
<1>2. enter \in BOOLEAN /\ user \in Seq(Sources \X Nat) /\ stop \in BOOLEAN /\ exit \in BOOLEAN
  BY DEF Comms
<1>3. Handed(c, b) = [c EXCEPT !.enter = enter, !.user = user, !.interrupted = stop,
                               !.exit = exit, !.llm = <<>>]
  BY DEF Handed
<1>4. exit = (c.exit \/ b.exit)
  OBVIOUS
<1>. HIDE DEF enter, user, stop, exit
<1>5. QED BY <1>1, <1>2, <1>3, <1>4 DEF Comms

-----------------------------------------------------------------------------
(* Type correctness.  In the model comms_buffer stays paired even after an  *)
(* overlap; and an Enter typed comes with the line it ends.                 *)

Worker == /\ WorkerOK /\ Paired(buffer) /\ Paired(snapshot)
          /\ key.enter => key.line # <<>>
TypeInv == Worker /\ ChannelsOK /\ FeedsOK /\ MainOK /\ GhostsOK

LEMMA TypeInit == Init => TypeInv
<1>. SUFFICES ASSUME Init PROVE TypeInv
  OBVIOUS
<1>1. /\ <<>> \in Seq(Nat) /\ <<>> \in Seq(Sources \X Nat)
      /\ <<>> \in Seq([n : Nat, kind : Kinds]) /\ <<>> \in Seq({"interrupt", "status"})
  BY EmptySeq
<1>2. buffer \in Comms /\ snapshot \in Comms /\ comms \in [Hosts -> Comms]
  BY FreshType DEF Init
<1>3. Paired(buffer) /\ Paired(snapshot)
  BY FreshType DEF Init
<1>4. key \in [line : Seq(Sources \X Nat), enter : BOOLEAN, interrupted : BOOLEAN]
  BY <1>1 DEF Init
<1>5. captured \in [Sources -> Seq(Sources \X Nat)] /\ arrived \in [Sources -> Nat]
  BY <1>1 DEF Init
<1>6. Worker
  BY <1>1, <1>2, <1>3, <1>4 DEF Init, Worker, WorkerOK
<1>7. ChannelsOK /\ FeedsOK
  BY <1>1, <1>5 DEF Init, ChannelsOK, FeedsOK
<1>8. MainOK /\ GhostsOK
  BY <1>1, <1>2, <1>5 DEF Init, MainOK, GhostsOK, Hosts
<1>9. QED BY <1>6, <1>7, <1>8 DEF TypeInv

\* A part of the state that a step leaves alone keeps its types.
LEMMA Frames ==
  /\ Worker /\ UNCHANGED <<io, flags, mine>> => Worker'
  /\ ChannelsOK /\ UNCHANGED channels => ChannelsOK'
  /\ FeedsOK /\ UNCHANGED feeds => FeedsOK'
  /\ MainOK /\ UNCHANGED <<main, loop, chat, comms>> => MainOK'
  /\ GhostsOK /\ UNCHANGED <<ghosts, produced, exit_asked>>
              /\ consulted' \in {consulted, consulted + 1} => GhostsOK'
<1>1. Worker /\ UNCHANGED <<io, flags, mine>> => Worker'
  BY DEF Worker, WorkerOK
<1>2. ChannelsOK /\ UNCHANGED channels => ChannelsOK'
  BY DEF ChannelsOK
<1>3. FeedsOK /\ UNCHANGED feeds => FeedsOK'
  BY DEF FeedsOK
<1>4. MainOK /\ UNCHANGED <<main, loop, chat, comms>> => MainOK'
  BY DEF MainOK
<1>5. GhostsOK /\ UNCHANGED <<ghosts, produced, exit_asked>>
        /\ consulted' \in {consulted, consulted + 1} => GhostsOK'
  BY DEF GhostsOK
<1>6. QED BY <1>1, <1>2, <1>3, <1>4, <1>5

\* What else the main thread and chat_thread do, besides exchanging.
Elsewhere == \/ Input \/ EndTick \/ Consultation \/ StopWorker \/ JoinWorker
             \/ RestoreLine \/ Narrate \/ CallTool \/ SetKeyboard

LEMMA ElsewhereFrame ==
  ASSUME Elsewhere
  PROVE  /\ UNCHANGED <<io, INTERUPTED, mine, channels, feeds, ghosts, produced, exit_asked>>
         /\ consulted' \in {consulted, consulted + 1}
         /\ UNCHANGED RUN \/ RUN' = FALSE
         /\ main' = main \/ (main \notin {"raised", "holding"}
                             /\ main' \notin {"raised", "holding", "relayed"})
         /\ running' = running \/ running' = FALSE
<1>1. CASE HonourExit \/ NoLine \/ JumpInput \/ TakeLine \/ LaunchThread
  BY <1>1 DEF HonourExit, NoLine, JumpInput, TakeLine, LaunchThread, AtInput
<1>2. CASE EndTick \/ StopWorker \/ JoinWorker \/ CallTool
  BY <1>2 DEF EndTick, StopWorker, JoinWorker, CallTool
<1>3. CASE Consult \/ KeepWaiting \/ SpecialistDone \/ ToolReturns
  BY <1>3 DEF Consult, KeepWaiting, SpecialistDone, ToolReturns
<1>4. CASE RestoreLine \/ Narrate \/ SetKeyboard
  BY <1>4 DEF RestoreLine, Narrate, SetKeyboard
<1>5. QED BY <1>1, <1>2, <1>3, <1>4 DEF Elsewhere, Input, Consultation

LEMMA ElsewhereTypes ==
  ASSUME MainOK, Elsewhere
  PROVE  MainOK'
<1>. USE DEF MainOK
<1>t. /\ "chat" \in Hosts /\ "expert" \in Hosts /\ comms["chat"] \in Comms
      /\ <<>> \in Seq(Sources \X Nat)
  BY EmptySeq DEF Hosts
<1>1. CASE HonourExit
  <2>1. comms' = [comms EXCEPT !["chat"].exit = FALSE]
    BY <1>1 DEF HonourExit
  <2>2. comms' \in [Hosts -> Comms]
    BY <1>t, <2>1 DEF Comms
  <2>3. QED BY <1>1, <2>2 DEF HonourExit
<1>2. CASE NoLine
  <2>1. PICK stopped \in {comms["chat"].interrupted, FALSE} :
          comms' = [comms EXCEPT !["chat"].interrupted = stopped]
    BY <1>2 DEF NoLine
  <2>2. comms' \in [Hosts -> Comms]
    BY <1>t, <2>1 DEF Comms
  <2>3. QED BY <1>2, <2>2 DEF NoLine
<1>3. CASE JumpInput \/ TakeLine
  <2>1. comms' = [comms EXCEPT !["chat"].enter = FALSE, !["chat"].user = <<>>,
                               !["chat"].interrupted = FALSE]
    BY <1>3 DEF JumpInput, TakeLine
  <2>2. comms' \in [Hosts -> Comms]
    BY <1>t, <2>1 DEF Comms
  <2>3. comms["chat"].user \in Seq(Sources \X Nat)
    BY <1>t DEF Comms
  <2>4. QED BY <1>3, <2>2, <2>3 DEF JumpInput, TakeLine
<1>4. CASE LaunchThread
  BY <1>4, <1>t DEF LaunchThread
<1>5. CASE RestoreLine \/ Narrate
  <2>1. PICK line \in Seq(Sources \X Nat) : comms' = [comms EXCEPT !["chat"].user = line]
    BY <1>5, <1>t DEF RestoreLine, Narrate
  <2>2. comms' \in [Hosts -> Comms]
    BY <1>t, <2>1 DEF Comms
  <2>3. QED BY <1>5, <1>t, <2>2 DEF RestoreLine, Narrate
<1>6. CASE EndTick \/ StopWorker \/ JoinWorker \/ CallTool
  BY <1>6 DEF EndTick, StopWorker, JoinWorker, CallTool
<1>7. CASE Consult
  <2>1. comms' \in [Hosts -> Comms]
    BY <1>7, FreshType DEF Consult
  <2>2. QED BY <1>7, <1>t, <2>1 DEF Consult
<1>8. CASE KeepWaiting \/ SpecialistDone \/ ToolReturns
  BY <1>8, <1>t DEF KeepWaiting, SpecialistDone, ToolReturns
<1>9. CASE SetKeyboard
  <2>1. comms[host] \in Comms /\ host \in Hosts
    OBVIOUS
  <2>2. comms' \in [Hosts -> Comms]
    BY <1>9, <2>1 DEF SetKeyboard, Comms
  <2>3. QED BY <1>9, <2>2 DEF SetKeyboard
<1>10. QED
  BY <1>1, <1>2, <1>3, <1>4, <1>5, <1>6, <1>7, <1>8, <1>9 DEF Elsewhere, Input, Consultation

LEMMA TypeStep == TypeInv /\ [Next]_vars => TypeInv'
<1>. SUFFICES ASSUME TypeInv, [Next]_vars PROVE TypeInv'
  OBVIOUS
<1>. USE DEF TypeInv
<1>1. ASSUME NEW kind \in Kinds, Press(kind) PROVE TypeInv'
  <2>1. arrived["key"] + 1 \in Nat /\ arrived' \in [Sources -> Nat]
    <3>1. "key" \in Sources /\ arrived \in [Sources -> Nat]
      BY DEF Sources, FeedsOK
    <3>2. arrived' = [arrived EXCEPT !["key"] = @ + 1]
      BY <1>1 DEF Press, Arrive
    <3>3. QED BY <3>1, <3>2
  <2>2. tty' \in Seq([n : Nat, kind : Kinds])
    BY <1>1, <2>1, AppendProperties DEF Press, FeedsOK
  <2>3. FeedsOK'
    BY <1>1, <2>1, <2>2 DEF Press, FeedsOK
  <2>4. QED BY <1>1, <2>3, Frames DEF Press
<1>2. CASE PressCtrlC
  <2>1. FeedsOK' /\ GhostsOK'
    BY <1>2 DEF PressCtrlC, FeedsOK, GhostsOK
  <2>2. QED BY <1>2, <2>1, Frames DEF PressCtrlC
<1>3. CASE Say
  <2>1. arrived["voice"] + 1 \in Nat /\ arrived' \in [Sources -> Nat]
    <3>1. "voice" \in Sources /\ arrived \in [Sources -> Nat]
      BY DEF Sources, FeedsOK
    <3>2. arrived' = [arrived EXCEPT !["voice"] = @ + 1]
      BY <1>3 DEF Say, Arrive
    <3>3. QED BY <3>1, <3>2
  <2>2. transcripts' \in Seq(Nat)
    BY <1>3, <2>1, AppendProperties DEF Say, FeedsOK
  <2>3. FeedsOK'
    BY <1>3, <2>1, <2>2 DEF Say, FeedsOK
  <2>4. QED BY <1>3, <2>3, Frames DEF Say
<1>4. ASSUME NEW kind \in {"interrupt", "status"}, Signal(kind) PROVE TypeInv'
  <2>1. voca_events' \in Seq({"interrupt", "status"}) /\ signals' \in Nat
    <3>1. voca_events \in Seq({"interrupt", "status"}) /\ signals \in Nat
      BY DEF FeedsOK
    <3>2. voca_events' = Append(voca_events, kind) /\ signals' = signals + 1
      BY <1>4 DEF Signal
    <3>3. QED BY <3>1, <3>2, AppendProperties
  <2>2. FeedsOK'
    BY <1>4, <2>1 DEF Signal, FeedsOK
  <2>3. QED BY <1>4, <2>2, Frames DEF Signal
<1>5. CASE Post
  <2>1. arrived["web"] + 1 \in Nat /\ arrived' \in [Sources -> Nat]
    <3>1. "web" \in Sources /\ arrived \in [Sources -> Nat]
      BY DEF Sources, FeedsOK
    <3>2. arrived' = [arrived EXCEPT !["web"] = @ + 1]
      BY <1>5 DEF Post, Arrive
    <3>3. QED BY <3>1, <3>2
  <2>2. posts' \in Seq(Nat) /\ web_interrupt' \in BOOLEAN
    <3>1. posts \in Seq(Nat) /\ web_interrupt \in BOOLEAN /\ arrived["web"] + 1 \in Nat
      BY <2>1 DEF FeedsOK
    <3>2. posts' = Append(posts, arrived["web"] + 1)
          /\ web_interrupt' \in {web_interrupt, TRUE}
      BY <1>5 DEF Post
    <3>3. Append(posts, arrived["web"] + 1) \in Seq(Nat)
      BY <3>1, AppendProperties
    <3>4. QED BY <3>1, <3>2, <3>3
  <2>3. FeedsOK'
    BY <1>5, <2>1, <2>2 DEF Post, FeedsOK
  <2>4. QED BY <1>5, <2>3, Frames DEF Post
<1>6. CASE Stream
  <2>1. host \in Hosts /\ comms[host] \in Comms /\ produced + 1 \in Nat
    BY DEF MainOK, GhostsOK
  <2>2. Append(comms[host].llm, produced + 1) \in Seq(Nat)
    BY <2>1, AppendProperties DEF Comms
  <2>3. [comms[host] EXCEPT !.llm = Append(@, produced + 1)] \in Comms
    BY <2>1, <2>2 DEF Comms
  <2>4. comms' \in [Hosts -> Comms]
    BY <1>6, <2>1, <2>3 DEF Stream, MainOK
  <2>6. MainOK' /\ GhostsOK'
    BY <1>6, <2>1, <2>4 DEF Stream, MainOK, GhostsOK
  <2>7. QED BY <1>6, <2>6, Frames DEF Stream
<1>7. CASE LookAtFlag
  <2>1. Worker'
    BY <1>7 DEF LookAtFlag, Worker, WorkerOK
  <2>2. QED BY <1>7, <2>1, Frames DEF LookAtFlag
<1>8. CASE BeginPass
  <2>1. Worker' /\ GhostsOK'
    BY <1>8 DEF BeginPass, Worker, WorkerOK, GhostsOK
  <2>2. QED BY <1>8, <2>1, Frames DEF BeginPass
<1>9. CASE ReadKeyboard
  <2>. DEFINE typed  == IF buffer.enabled THEN tty ELSE <<>>
              synced == [buffer EXCEPT !.exit = @ \/ ctrl_c]
  <2>1. typed \in Seq([n : Nat, kind : Kinds])
    BY EmptySeq DEF FeedsOK
  <2>2. key' = [line |-> key.line \o Pieces(typed), enter |-> Submitted(typed),
                interrupted |-> typed # <<>>]
    BY <1>9 DEF ReadKeyboard
  <2>3. captured' = [captured EXCEPT !["key"] = @ \o Pieces(typed)]
    BY <1>9 DEF ReadKeyboard
  <2>4. synced \in Comms /\ Paired(synced)
    BY DEF Worker, WorkerOK, Comms, Paired
  <2>5. buffer' = synced /\ snapshot' = synced
    BY <1>9 DEF ReadKeyboard
  <2>. HIDE DEF typed, synced
  <2>6. Pieces(typed) \in Seq(Piece) /\ (Submitted(typed) => Pieces(typed) # <<>>)
    BY <2>1, PiecesType
  <2>7. key.line \in Seq(Piece) /\ captured["key"] \in Seq(Piece)
    BY DEF Worker, WorkerOK, GhostsOK, Piece, Sources
  <2>8. key.line \o Pieces(typed) \in Seq(Piece)
        /\ captured["key"] \o Pieces(typed) \in Seq(Piece)
    BY <2>6, <2>7, ConcatProperties
  <2>9. Submitted(typed) => key.line \o Pieces(typed) # <<>>
    BY <2>6, <2>7, ConcatEqualIffEmpty, ConcatEmptySeq, ConcatProperties, EmptySeq
  <2>10. Submitted(typed) \in BOOLEAN /\ (typed # <<>>) \in BOOLEAN
    BY DEF Submitted
  <2>11. key' \in [line : Seq(Piece), enter : BOOLEAN, interrupted : BOOLEAN]
         /\ (key'.enter => key'.line # <<>>)
    BY <2>2, <2>8, <2>9, <2>10
  <2>12. captured' \in [Sources -> Seq(Piece)]
    BY <2>3, <2>8 DEF GhostsOK, Piece
  <2>13. tty' \in Seq([n : Nat, kind : Kinds]) /\ ctrl_c' \in BOOLEAN /\ io' = "read"
    BY <1>9, EmptySeq DEF ReadKeyboard
  <2>14. Worker' 
    BY <1>9, <2>4, <2>5, <2>11, <2>13 DEF ReadKeyboard, Worker, WorkerOK, Piece
  <2>15. FeedsOK' /\ GhostsOK'
    BY <1>9, <2>12, <2>13 DEF ReadKeyboard, FeedsOK, GhostsOK, Piece
  <2>16. QED BY <1>9, <2>14, <2>15, Frames DEF ReadKeyboard
<1>10. CASE MergeInput
  <2>. DEFINE posted  == posts # <<>> /\ buffer.enabled
              web     == IF posted THEN Submit(buffer, <<<<"web", Head(posts)>>>>) ELSE buffer
              release == Released(web)
              voiced  == IF release THEN Submit(web, held) ELSE web
              event   == VocaEvent
              said    == event = "text" /\ Head(transcripts) \notin ExitPhrases
              status  == IF event = "status" THEN [voiced EXCEPT !.system = @ + 1] ELSE voiced
              stop    == key.interrupted \/ event = "interrupt" \/ said \/ web_interrupt
              stopped == IF stop THEN [status EXCEPT !.interrupted = TRUE] ELSE status
              kept    == IF release THEN <<>> ELSE held
  <2>1. buffer' = IF key.enter THEN Submit(stopped, key.line) ELSE stopped
    BY <1>10 DEF MergeInput
  <2>2. held' = IF said THEN Hold(kept, Head(transcripts)) ELSE kept
    BY <1>10 DEF MergeInput
  <2>3. captured' = [captured EXCEPT
                       !["web"] = IF posted THEN Append(@, <<"web", Head(posts)>>) ELSE @,
                       !["voice"] = IF said THEN Append(@, <<"voice", Head(transcripts)>>)
                                    ELSE @]
    BY <1>10 DEF MergeInput
  <2>4. noticed' \in Nat
    <3>1. noticed' = IF VocaEvent = "status" THEN noticed + 1 ELSE noticed
      BY <1>10, Zenon DEF MergeInput
    <3>2. noticed \in Nat
      BY DEF GhostsOK
    <3>3. QED BY <3>1, <3>2
  <2>5. posts' \in Seq(Nat) /\ (posts # <<>> => Head(posts) \in Nat)
    BY <1>10, HeadTailProperties DEF MergeInput, FeedsOK
  <2>6. voca_events' \in Seq({"interrupt", "status"})
    <3>1. voca_events # <<>> => Tail(voca_events) \in Seq({"interrupt", "status"})
      BY HeadTailProperties DEF FeedsOK
    <3>2. VocaEvent \in {"interrupt", "status"} => voca_events # <<>>
      BY DEF VocaEvent
    <3>3. voca_events' = IF VocaEvent \in {"interrupt", "status"} THEN Tail(voca_events)
                         ELSE voca_events
      BY <1>10 DEF MergeInput
    <3>4. QED BY <3>1, <3>2, <3>3 DEF FeedsOK
  <2>7. said => transcripts # <<>>
    <3>1. voca_events # <<>> => Head(voca_events) \in {"interrupt", "status"}
      BY HeadTailProperties DEF FeedsOK
    <3>2. QED BY <3>1 DEF VocaEvent
  <2>8. VocaEvent = "text" => transcripts # <<>>
    <3>1. voca_events # <<>> => Head(voca_events) \in {"interrupt", "status"}
      BY HeadTailProperties DEF FeedsOK
    <3>2. QED BY <3>1 DEF VocaEvent
  <2>9. transcripts' \in Seq(Nat) /\ (transcripts # <<>> => Head(transcripts) \in Nat)
    <3>1. transcripts' = IF VocaEvent = "text" THEN Tail(transcripts) ELSE transcripts
      BY <1>10 DEF MergeInput
    <3>2. QED BY <2>8, <3>1, HeadTailProperties DEF FeedsOK
  <2>10. web \in Comms /\ Paired(web)
    <3>1. CASE posted
      <4>1. <<"web", Head(posts)>> \in Piece
        BY <2>5, <3>1 DEF Piece, Sources
      <4>2. <<<<"web", Head(posts)>>>> \in Seq(Piece) /\ <<<<"web", Head(posts)>>>> # <<>>
        BY <4>1
      <4>3. QED BY <3>1, <4>2, SubmitProperties DEF Worker, WorkerOK
    <3>2. CASE ~posted
      BY <3>2 DEF Worker, WorkerOK
    <3>3. QED BY <3>1, <3>2
  <2>11. voiced \in Comms /\ Paired(voiced)
    <3>1. held \in Seq(Piece) /\ snapshot \in Comms
      BY DEF Worker, WorkerOK, Piece
    <3>2. release => held # <<>>
      BY DEF Released
    <3>. HIDE DEF web, release
    <3>3. QED BY <2>10, <3>1, <3>2, SubmitProperties
  <2>12. status \in Comms /\ Paired(status)
    <3>. HIDE DEF voiced, event
    <3>1. voiced.system + 1 \in Nat
      BY <2>11 DEF Comms
    <3>2. [voiced EXCEPT !.system = @ + 1] \in Comms
      BY <2>11, <3>1 DEF Comms
    <3>3. Paired([voiced EXCEPT !.system = @ + 1])
      BY <2>11 DEF Comms, Paired
    <3>4. QED BY <2>11, <3>2, <3>3
  <2>13. stopped \in Comms /\ Paired(stopped)
    <3>. HIDE DEF status, stop
    <3>1. QED BY <2>12 DEF Comms, Paired
  <2>14. buffer' \in Comms /\ Paired(buffer')
    <3>1. key.line \in Seq(Piece) /\ snapshot \in Comms /\ (key.enter => key.line # <<>>)
      BY DEF Worker, WorkerOK, Piece
    <3>. HIDE DEF stopped
    <3>2. QED BY <2>1, <2>13, <3>1, SubmitProperties
  <2>15. held' \in Seq(Piece)
    <3>1. kept \in Seq(Piece)
      BY EmptySeq DEF Worker, WorkerOK, Piece
    <3>2. said => <<"voice", Head(transcripts)>> \in Piece
      BY <2>7, <2>9 DEF Piece, Sources
    <3>. HIDE DEF kept, said
    <3>3. QED BY <2>2, <3>1, <3>2, AppendProperties DEF Hold
  <2>16. captured' \in [Sources -> Seq(Piece)]
    <3>1. captured \in [Sources -> Seq(Piece)]
      BY DEF GhostsOK, Piece
    <3>2. posted => Append(captured["web"], <<"web", Head(posts)>>) \in Seq(Piece)
      BY <2>5, <3>1, AppendProperties DEF Piece, Sources
    <3>3. said => Append(captured["voice"], <<"voice", Head(transcripts)>>) \in Seq(Piece)
      BY <2>7, <2>9, <3>1, AppendProperties DEF Piece, Sources
    <3>. HIDE DEF posted, said
    <3>4. QED BY <2>3, <3>1, <3>2, <3>3 DEF Sources
  <2>. HIDE DEF posted, web, release, voiced, event, said, status, stop, stopped, kept
  <2>17. key' \in [line : Seq(Piece), enter : BOOLEAN, interrupted : BOOLEAN] /\ ~key'.enter
    <3>1. key' = [line |-> IF key.enter THEN <<>> ELSE key.line,
                  enter |-> FALSE, interrupted |-> FALSE]
      BY <1>10 DEF MergeInput
    <3>2. (IF key.enter THEN <<>> ELSE key.line) \in Seq(Piece)
      BY EmptySeq DEF Worker, WorkerOK, Piece
    <3>3. QED BY <3>1, <3>2
  <2>18. io' = "merged" /\ web_interrupt' = FALSE
    BY <1>10 DEF MergeInput
  <2>19. UNCHANGED <<flags, snapshot, channels, tty, ctrl_c, arrived, signals, main, loop,
                     chat, comms, handed, given, warned, strayed, overlapped, count>>
    BY <1>10 DEF MergeInput
  <2>o. overtaken' \subseteq Sources \X Nat
    <3>1. overtaken' = IF VocaEvent = "text" /\ Head(transcripts) \notin ExitPhrases /\ key.enter
                       THEN overtaken \cup {<<"voice", Head(transcripts)>>} ELSE overtaken
      BY <1>10 DEF MergeInput
    <3>2. overtaken \subseteq Sources \X Nat
      BY DEF GhostsOK
    <3>3. VocaEvent = "text" => <<"voice", Head(transcripts)>> \in Sources \X Nat
      BY <2>8, <2>9 DEF Sources
    <3>4. QED BY <3>1, <3>2, <3>3
  <2>20. Worker'
    BY <2>14, <2>15, <2>17, <2>18, <2>19 DEF Worker, WorkerOK, Piece
  <2>21. FeedsOK'
    BY <2>5, <2>6, <2>9, <2>18, <2>19 DEF FeedsOK
  <2>22. GhostsOK'
    BY <2>4, <2>16, <2>19, <2>o DEF GhostsOK, Piece
  <2>23. QED BY <2>19, <2>20, <2>21, <2>22, Frames
<1>11. CASE ShareOutput
  <2>. DEFINE waiting == tts_pending \o buffer.llm
  <2>1. buffer.llm \in Seq(Nat) /\ buffer.system \in Nat
    BY DEF Worker, WorkerOK, Comms
  <2>2. screen' \in Seq(Nat) /\ shown' \in Nat
    <3>1. screen' = screen \o buffer.llm /\ shown' = shown + buffer.system
      BY <1>11 DEF ShareOutput
    <3>2. screen \in Seq(Nat) /\ shown \in Nat
      BY DEF ChannelsOK
    <3>3. QED BY <2>1, <3>1, <3>2, ConcatProperties
  <2>3. waiting \in Seq(Nat)
    BY <2>1, ConcatProperties DEF ChannelsOK
  <2>4. PICK k \in 0 .. Len(waiting) :
          /\ spoken' = spoken \o SubSeq(waiting, 1, k)
          /\ tts_pending' = SubSeq(waiting, k + 1, Len(waiting))
    BY <1>11 DEF ShareOutput
  <2>5. spoken' \in Seq(Nat) /\ tts_pending' \in Seq(Nat)
    <3>. HIDE DEF waiting
    <3>1. Len(waiting) \in Nat
      BY <2>3, LenProperties
    <3>2. SubSeq(waiting, 1, k) \in Seq(Nat)
      BY <2>3, <3>1, SubSeqProperties
    <3>3. SubSeq(waiting, k + 1, Len(waiting)) \in Seq(Nat)
      BY <2>3, <3>1, SubSeqProperties
    <3>4. spoken \in Seq(Nat)
      BY DEF ChannelsOK
    <3>5. QED BY <2>4, <3>2, <3>3, <3>4, ConcatProperties
  <2>6. page' \in Seq(Nat)
    <3>1. page' \in {page, page \o buffer.llm} /\ page \in Seq(Nat)
      BY <1>11 DEF ShareOutput, ChannelsOK
    <3>2. QED BY <2>1, <3>1, ConcatProperties
  <2>7. buffer' \in Comms /\ Paired(buffer')
    BY <1>11, EmptySeq DEF ShareOutput, Cleared, Worker, WorkerOK, Comms, Paired
  <2>8. ChannelsOK'
    BY <2>2, <2>5, <2>6 DEF ChannelsOK
  <2>9. Worker'
    BY <1>11, <2>7 DEF ShareOutput, Worker, WorkerOK
  <2>10. QED BY <1>11, <2>8, <2>9, Frames DEF ShareOutput
<1>12. CASE EndWorker
  <2>1. Worker'
    BY <1>12 DEF EndWorker, Worker, WorkerOK
  <2>2. QED BY <1>12, <2>1, Frames DEF EndWorker
<1>13. CASE Raise
  <2>1. Worker' /\ MainOK'
    BY <1>13 DEF Raise, Worker, WorkerOK, MainOK
  <2>2. QED BY <1>13, <2>1, Frames DEF Raise
<1>14. CASE WaitOut
  <2>1. MainOK'
    BY <1>14 DEF WaitOut, MainOK
  <2>2. QED BY <1>14, <2>1, Frames DEF WaitOut
<1>15. CASE Relay
  <2>1. comms[host] \in Comms /\ host \in Hosts /\ buffer \in Comms
    BY DEF MainOK, Worker, WorkerOK
  <2>2. comms' \in [Hosts -> Comms]
    BY <1>15, <2>1, HandedProperties DEF Relay, MainOK
  <2>3. TakenInput(buffer) \in Comms /\ Paired(TakenInput(buffer))
    BY <2>1, EmptySeq DEF TakenInput, Comms, Paired
  <2>4. TakenInput(buffer).llm \o comms[host].llm \in Seq(Nat)
    BY <2>1, <2>3, ConcatProperties DEF Comms
  <2>5. buffer' = [TakenInput(buffer) EXCEPT !.llm = @ \o comms[host].llm,
                                             !.enabled = comms[host].enabled]
    BY <1>15 DEF Relay
  <2>6. buffer' \in Comms /\ Paired(buffer')
    BY <2>1, <2>3, <2>4, <2>5 DEF Comms, Paired
  <2>7. warned' \subseteq Sources \X Nat
    <3>1. {held[k] : k \in DOMAIN held} \subseteq Sources \X Nat
      BY ElementOfSeq DEF Worker, WorkerOK
    <3>2. QED BY <1>15, <3>1 DEF Relay, GhostsOK
  <2>8. handed' \in Seq(Piece) /\ given' \in Seq(Piece) /\ strayed' \in BOOLEAN
    <3>1. buffer.user \in Seq(Piece) /\ buffer.exit \in BOOLEAN
          /\ handed \in Seq(Piece) /\ given \in Seq(Piece) /\ strayed \in BOOLEAN
      BY <2>1 DEF Comms, GhostsOK, Piece
    <3>2. handed' = handed \o buffer.user
          /\ given' = (IF host = "chat" /\ buffer.enter THEN buffer.user ELSE given)
          /\ strayed' = (strayed \/ (host = "expert" /\ buffer.exit))
      BY <1>15 DEF Relay
    <3>3. handed' \in Seq(Piece)
      BY <3>1, <3>2, ConcatProperties
    <3>4. QED BY <3>1, <3>2, <3>3
  <2>9. Worker'
    BY <1>15, <2>6 DEF Relay, Worker, WorkerOK
  <2>10. MainOK'
    BY <1>15, <2>2 DEF Relay, MainOK
  <2>11. GhostsOK'
    <3>1. UNCHANGED <<captured, overtaken, noticed, overlapped, count>>
      BY <1>15 DEF Relay
    <3>2. QED BY <2>7, <2>8, <3>1 DEF GhostsOK, Piece
  <2>12. QED BY <1>15, <2>9, <2>10, <2>11, Frames DEF Relay
<1>16. CASE Elsewhere
  <2>1. Worker'
    BY <1>16, ElsewhereFrame DEF Worker, WorkerOK
  <2>2. QED BY <1>16, <2>1, ElsewhereFrame, ElsewhereTypes, Frames
<1>17. CASE UNCHANGED vars
  BY <1>17, Frames DEF vars
<1>18. QED
  BY <1>1, <1>2, <1>3, <1>4, <1>5, <1>6, <1>7, <1>8, <1>9, <1>10, <1>11, <1>12, <1>13,
     <1>14, <1>15, <1>16, <1>17 DEF Next, Arrival, Pass, Tick, Exchange, Ended, Elsewhere

\* The type invariant, for every bound on the inputs.  No queue holds anything but its
\* own kind, and in the worker's own COMMS a line is pending exactly when its Enter is,
\* which exchange() and Submit rely on; of the chat's COMMS, where chat_thread puts
\* lines back, the second is not claimed.
THEOREM TypeCorrect == Spec => []TypeOK
<1>1. TypeInv => TypeOK
  BY DEF TypeInv, TypeOK, Worker
<1>2. QED BY <1>1, TypeInit, TypeStep, PTL DEF Spec

-----------------------------------------------------------------------------
(* The flag and the passes, up to a pass that begins inside an exchange.    *)

LEMMA SubmitSame ==
  ASSUME NEW b \in Comms, snapshot \in Comms, NEW line,
         snapshot.exit = b.exit, snapshot.llm = b.llm
  PROVE  Submit(b, line).exit = b.exit /\ Submit(b, line).llm = b.llm
<1>1. [b EXCEPT !.user = @ \o line].exit = b.exit
      /\ [b EXCEPT !.user = @ \o line].llm = b.llm
  BY DEF Comms
<1>2. [snapshot EXCEPT !.user = line, !.enter = TRUE].exit = snapshot.exit
      /\ [snapshot EXCEPT !.user = line, !.enter = TRUE].llm = snapshot.llm
  BY DEF Comms
<1>3. QED BY <1>1, <1>2 DEF Submit

LEMMA FlagsInit == Init => FlagsInv
  BY DEF Init, FlagsInv

\* An overlap is remembered.
LEMMA OverlapStays == [Next]_vars /\ ~overlapped' => ~overlapped
<1>. SUFFICES ASSUME [Next]_vars, overlapped PROVE overlapped'
  OBVIOUS
<1>1. ASSUME NEW kind \in Kinds, Press(kind) PROVE overlapped'
  BY <1>1 DEF Press
<1>2. ASSUME NEW kind \in {"interrupt", "status"}, Signal(kind) PROVE overlapped'
  BY <1>2 DEF Signal
<1>3. CASE PressCtrlC \/ Say \/ Post \/ Stream
  BY <1>3 DEF PressCtrlC, Say, Post, Stream
<1>4. CASE LookAtFlag \/ BeginPass \/ EndWorker
  BY <1>4 DEF LookAtFlag, BeginPass, EndWorker
<1>5. CASE ReadKeyboard
  BY <1>5 DEF ReadKeyboard
<1>6. CASE MergeInput
  BY <1>6 DEF MergeInput
<1>7. CASE ShareOutput
  BY <1>7 DEF ShareOutput
<1>8. CASE Raise \/ WaitOut \/ Relay
  BY <1>8 DEF Raise, WaitOut, Relay
<1>9. CASE Elsewhere
  BY <1>9, ElsewhereFrame
<1>10. CASE UNCHANGED vars
  BY <1>10 DEF vars
<1>11. QED
  BY <1>1, <1>2, <1>3, <1>4, <1>5, <1>6, <1>7, <1>8, <1>9, <1>10
     DEF Next, Arrival, Pass, Tick, Exchange, Ended, Elsewhere

LEMMA FlagsStep == TypeInv /\ FlagsInv /\ [Next]_vars => FlagsInv'
<1>. SUFFICES ASSUME TypeInv, FlagsInv, [Next]_vars PROVE FlagsInv'
  OBVIOUS
<1>. USE DEF FlagsInv, PROCESSING
<1>1. ASSUME NEW kind \in Kinds, Press(kind) PROVE FlagsInv'
  BY <1>1 DEF Press
<1>2. CASE PressCtrlC \/ Say \/ Post \/ Stream
  <2>1. CASE PressCtrlC
    BY <2>1 DEF PressCtrlC
  <2>2. CASE Say
    BY <2>2 DEF Say
  <2>3. CASE Post
    BY <2>3 DEF Post
  <2>4. CASE Stream
    BY <2>4 DEF Stream
  <2>5. QED BY <1>2, <2>1, <2>2, <2>3, <2>4
<1>3. ASSUME NEW kind \in {"interrupt", "status"}, Signal(kind) PROVE FlagsInv'
  BY <1>3 DEF Signal
<1>4. CASE LookAtFlag
  BY <1>4 DEF LookAtFlag
<1>5. CASE BeginPass
  BY <1>5 DEF BeginPass
<1>6. CASE ReadKeyboard
  <2>1. io' = "read" /\ snapshot' = buffer' /\ io = "pass" /\ UNCHANGED <<flags, main, overlapped>>
    BY <1>6 DEF ReadKeyboard
  <2>2. QED BY <2>1
<1>7. CASE MergeInput
  <2>1. io' = "merged" /\ io = "read" /\ UNCHANGED <<flags, main, overlapped>>
    BY <1>7 DEF MergeInput
  <2>2. QED BY <2>1
<1>8. CASE ShareOutput
  <2>1. io' = "idle" /\ io = "merged" /\ UNCHANGED <<flags, main, overlapped>>
    BY <1>8 DEF ShareOutput
  <2>2. QED BY <2>1
<1>9. CASE EndWorker
  BY <1>9 DEF EndWorker
<1>10. CASE Raise
  BY <1>10 DEF Raise
<1>11. CASE WaitOut
  BY <1>11 DEF WaitOut
<1>12. CASE Relay
  <2>1. main = "holding" /\ main' = "relayed" /\ INTERUPTED' = FALSE
        /\ UNCHANGED <<io, snapshot, overlapped>>
    BY <1>12 DEF Relay
  <2>2. QED BY <2>1
<1>13. CASE Elsewhere
  BY <1>13, ElsewhereFrame
<1>14. CASE UNCHANGED vars
  BY <1>14 DEF vars
<1>15. QED
  BY <1>1, <1>2, <1>3, <1>4, <1>5, <1>6, <1>7, <1>8, <1>9, <1>10, <1>11, <1>12, <1>13,
     <1>14 DEF Next, Arrival, Pass, Tick, Exchange, Ended, Elsewhere

-----------------------------------------------------------------------------
(* What a merge and a relay leave of the exit flag and of the reply.        *)

LEMMA MergeKeeps ==
  ASSUME TypeInv, FlagsInv, MergeInput, ~overlapped
  PROVE  buffer'.exit = buffer.exit /\ buffer'.llm = buffer.llm
<1>. DEFINE posted  == posts # <<>> /\ buffer.enabled
            web     == IF posted THEN Submit(buffer, <<<<"web", Head(posts)>>>>) ELSE buffer
            release == Released(web)
            voiced  == IF release THEN Submit(web, held) ELSE web
            event   == VocaEvent
            said    == event = "text" /\ Head(transcripts) \notin ExitPhrases
            status  == IF event = "status" THEN [voiced EXCEPT !.system = @ + 1] ELSE voiced
            stop    == key.interrupted \/ event = "interrupt" \/ said \/ web_interrupt
            stopped == IF stop THEN [status EXCEPT !.interrupted = TRUE] ELSE status
<1>1. buffer' = IF key.enter THEN Submit(stopped, key.line) ELSE stopped
  BY DEF MergeInput
<1>2. /\ buffer \in Comms /\ Paired(buffer) /\ snapshot \in Comms
      /\ snapshot = buffer
      /\ held \in Seq(Piece)
      /\ key.line \in Seq(Piece) /\ (key.enter => key.line # <<>>)
      /\ posts \in Seq(Nat)
  BY DEF MergeInput, TypeInv, Worker, WorkerOK, FeedsOK, FlagsInv, Piece
<1>3. web \in Comms /\ Paired(web) /\ web.exit = buffer.exit /\ web.llm = buffer.llm
  <2>1. CASE posted
    <3>1. <<<<"web", Head(posts)>>>> \in Seq(Piece) /\ <<<<"web", Head(posts)>>>> # <<>>
      BY <1>2, <2>1, HeadTailProperties DEF Piece, Sources
    <3>2. QED BY <1>2, <2>1, <3>1, SubmitProperties
  <2>2. CASE ~posted
    BY <1>2, <2>2
  <2>3. QED BY <2>1, <2>2
<1>4. voiced \in Comms /\ Paired(voiced) /\ voiced.exit = buffer.exit /\ voiced.llm = buffer.llm
  <2>1. release => held # <<>>
    BY DEF Released
  <2>. HIDE DEF web, release
  <2>2. QED BY <1>2, <1>3, <2>1, SubmitProperties
<1>5. status \in Comms /\ Paired(status) /\ status.exit = buffer.exit /\ status.llm = buffer.llm
  <2>. HIDE DEF voiced, event
  <2>1. voiced.system + 1 \in Nat
    BY <1>4 DEF Comms
  <2>. DEFINE noted == [voiced EXCEPT !.system = @ + 1]
  <2>2. noted \in Comms /\ noted.exit = voiced.exit /\ noted.llm = voiced.llm
    BY <1>4, <2>1 DEF Comms
  <2>3. Paired(noted)
    BY <1>4 DEF Comms, Paired
  <2>4. QED BY <1>4, <2>2, <2>3
<1>6. stopped \in Comms /\ Paired(stopped) /\ stopped.exit = buffer.exit
      /\ stopped.llm = buffer.llm
  <2>. HIDE DEF status, stop
  <2>1. QED BY <1>5 DEF Comms, Paired
<1>. HIDE DEF stopped
<1>7. QED BY <1>1, <1>2, <1>6, SubmitProperties

LEMMA RelayMoves ==
  ASSUME TypeInv, Relay
  PROVE  /\ comms'[host].exit = (comms[host].exit \/ buffer.exit)
         /\ comms'[host].llm = <<>>
         /\ buffer'.llm = buffer.llm \o comms[host].llm
<1>1. /\ comms[host] \in Comms /\ buffer \in Comms /\ comms \in [Hosts -> Comms]
      /\ host \in Hosts
  BY DEF TypeInv, Worker, WorkerOK, MainOK
<1>2. comms' = [comms EXCEPT ![host] = Handed(comms[host], buffer)]
  BY DEF Relay
<1>3. comms'[host] = Handed(comms[host], buffer)
  BY <1>1, <1>2
<1>4. buffer' = [TakenInput(buffer) EXCEPT !.llm = @ \o comms[host].llm,
                                           !.enabled = comms[host].enabled]
  BY DEF Relay
<1>5. TakenInput(buffer) \in Comms /\ TakenInput(buffer).llm = buffer.llm
  BY <1>1, EmptySeq DEF TakenInput, Comms
<1>6. buffer'.llm = buffer.llm \o comms[host].llm
  BY <1>4, <1>5 DEF Comms
<1>7. QED BY <1>1, <1>3, <1>6, HandedProperties

-----------------------------------------------------------------------------
(* Ctrl+C, from the keyboard to the chat.                                   *)

\* The exit flag of the chat's COMMS is put down by the one who honours it.
LEMMA ElsewhereExit ==
  ASSUME MainOK, Elsewhere
  PROVE  comms'["chat"].exit = comms["chat"].exit \/ ~running'
<1>t. comms \in [Hosts -> Comms] /\ comms["chat"] \in Comms /\ host \in Hosts
  BY DEF MainOK, Hosts
<1>1. CASE HonourExit
  BY <1>1 DEF HonourExit
<1>2. CASE NoLine \/ JumpInput \/ TakeLine
  BY <1>2, <1>t DEF NoLine, JumpInput, TakeLine, Comms, Hosts
<1>3. CASE RestoreLine \/ Narrate \/ SetKeyboard
  BY <1>3, <1>t DEF RestoreLine, Narrate, SetKeyboard, Comms, Hosts
<1>4. CASE LaunchThread \/ EndTick \/ StopWorker \/ JoinWorker \/ CallTool
  BY <1>4 DEF LaunchThread, EndTick, StopWorker, JoinWorker, CallTool
<1>5. CASE Consult \/ KeepWaiting \/ SpecialistDone \/ ToolReturns
  BY <1>5, <1>t DEF Consult, KeepWaiting, SpecialistDone, ToolReturns
<1>6. QED BY <1>1, <1>2, <1>3, <1>4, <1>5 DEF Elsewhere, Input, Consultation

LEMMA ExitStep == TypeInv /\ FlagsInv /\ ExitNotDropped /\ [Next]_vars => ExitNotDropped'
<1>. SUFFICES ASSUME TypeInv, FlagsInv, ExitNotDropped, [Next]_vars, ~overlapped'
              PROVE  ExitNotDropped'
  BY DEF ExitNotDropped
<1>. USE DEF ExitNotDropped
<1>o. ~overlapped
  BY OverlapStays
<1>t. /\ buffer \in Comms /\ comms \in [Hosts -> Comms] /\ comms["chat"] \in Comms
      /\ ctrl_c \in BOOLEAN /\ host \in Hosts /\ MainOK
  BY DEF TypeInv, Worker, WorkerOK, FeedsOK, MainOK, Hosts
<1>1. ASSUME NEW kind \in Kinds, Press(kind) PROVE ExitNotDropped'
  BY <1>1 DEF Press
<1>2. CASE PressCtrlC
  BY <1>2 DEF PressCtrlC
<1>3. CASE Say
  BY <1>3 DEF Say
<1>4. ASSUME NEW kind \in {"interrupt", "status"}, Signal(kind) PROVE ExitNotDropped'
  BY <1>4 DEF Signal
<1>5. CASE Post
  BY <1>5 DEF Post
<1>6. CASE Stream
  <2>1. comms'["chat"].exit = comms["chat"].exit
    BY <1>6, <1>t DEF Stream, Comms, Hosts
  <2>2. UNCHANGED <<running, strayed, buffer, ctrl_c, exit_asked>>
    BY <1>6 DEF Stream
  <2>3. QED BY <1>o, <2>1, <2>2
<1>7. CASE LookAtFlag \/ BeginPass \/ EndWorker
  BY <1>7 DEF LookAtFlag, BeginPass, EndWorker
<1>8. CASE ReadKeyboard
  <2>1. buffer' = [buffer EXCEPT !.exit = @ \/ ctrl_c]
    BY <1>8 DEF ReadKeyboard
  <2>2. buffer'.exit = (buffer.exit \/ ctrl_c)
    BY <1>t, <2>1 DEF Comms
  <2>3. UNCHANGED <<running, strayed, comms, exit_asked>>
    BY <1>8 DEF ReadKeyboard
  <2>4. QED BY <1>o, <2>2, <2>3
<1>9. CASE MergeInput
  <2>1. buffer'.exit = buffer.exit
    BY <1>9, <1>o, MergeKeeps
  <2>2. UNCHANGED <<running, strayed, ctrl_c, comms, exit_asked>>
    BY <1>9 DEF MergeInput
  <2>3. QED BY <1>o, <2>1, <2>2
<1>10. CASE ShareOutput
  <2>1. buffer'.exit = buffer.exit
    BY <1>10, <1>t DEF ShareOutput, Cleared, Comms
  <2>2. UNCHANGED <<running, strayed, ctrl_c, comms, exit_asked>>
    BY <1>10 DEF ShareOutput
  <2>3. QED BY <1>o, <2>1, <2>2
<1>11. CASE Raise \/ WaitOut
  BY <1>11 DEF Raise, WaitOut
<1>12. CASE Relay
  <2>1. comms'[host].exit = (comms[host].exit \/ buffer.exit)
    BY <1>12, RelayMoves
  <2>2. strayed' = (strayed \/ (host = "expert" /\ buffer.exit))
        /\ UNCHANGED <<running, ctrl_c, exit_asked>>
    BY <1>12 DEF Relay
  <2>3. CASE host = "chat"
    BY <1>o, <2>1, <2>2, <2>3
  <2>4. CASE host = "expert"
    <3>1. comms' = [comms EXCEPT ![host] = Handed(@, buffer)]
      BY <1>12 DEF Relay
    <3>2. comms'["chat"] = comms["chat"]
      BY <1>t, <2>4, <3>1
    <3>3. QED BY <1>o, <2>2, <2>4, <3>2
  <2>5. QED BY <1>t, <2>3, <2>4 DEF Hosts
<1>13. CASE Elsewhere
  <2>1. comms'["chat"].exit = comms["chat"].exit \/ ~running'
    BY <1>13, <1>t, ElsewhereExit
  <2>2. UNCHANGED <<buffer, ctrl_c, strayed, exit_asked>>
        /\ (running' = running \/ running' = FALSE)
    BY <1>13, ElsewhereFrame
  <2>3. QED BY <1>o, <2>1, <2>2
<1>14. CASE UNCHANGED vars
  BY <1>14 DEF vars
<1>15. QED
  BY <1>1, <1>2, <1>3, <1>4, <1>5, <1>6, <1>7, <1>8, <1>9, <1>10, <1>11, <1>12, <1>13,
     <1>14 DEF Next, Arrival, Pass, Tick, Exchange, Ended, Elsewhere

\* Whatever is typed, said, posted or put back around it, and with any number of
\* consultations, as long as no pass has begun inside an exchange: Ctrl+C is on its way
\* to the main loop, has been honoured, or was handed to a specialist, in whose COMMS nobody
\* looks for it (tools.cpp:756).
THEOREM ExitSurvives == Spec => []ExitNotDropped
<1>. DEFINE IInv == TypeInv /\ FlagsInv /\ ExitNotDropped
<1>1. Init => IInv
  BY TypeInit, FlagsInit DEF Init, ExitNotDropped
<1>2. IInv /\ [Next]_vars => IInv'
  BY TypeStep, FlagsStep, ExitStep
<1>3. QED BY <1>1, <1>2, PTL DEF Spec

-----------------------------------------------------------------------------
(* The reply, on its way to the screen and to the voice.                    *)

LEMMA ChunksGrow ==
  ASSUME NEW n \in Nat
  PROVE  Chunks(n) \in Seq(Nat) /\ Append(Chunks(n), n + 1) = Chunks(n + 1)
<1>1. Chunks(n) \in Seq(Nat) /\ Len(Chunks(n)) = n
  <2>1. Chunks(n) \in [1 .. n -> Nat]
    BY DEF Chunks
  <2>2. Chunks(n) \in Seq(Nat)
    BY <2>1, SeqDef
  <2>3. DOMAIN Chunks(n) = 1 .. n
    BY DEF Chunks
  <2>4. QED BY <2>2, <2>3, LenProperties
<1>2. Chunks(n + 1) \in Seq(Nat) /\ Len(Chunks(n + 1)) = n + 1
  <2>1. Chunks(n + 1) \in [1 .. n + 1 -> Nat] /\ n + 1 \in Nat
    BY DEF Chunks
  <2>2. Chunks(n + 1) \in Seq(Nat)
    BY <2>1, SeqDef
  <2>3. DOMAIN Chunks(n + 1) = 1 .. n + 1
    BY DEF Chunks
  <2>4. QED BY <2>1, <2>2, <2>3, LenProperties
<1>3. /\ Append(Chunks(n), n + 1) \in Seq(Nat)
      /\ Len(Append(Chunks(n), n + 1)) = n + 1
      /\ \A i \in 1 .. n : Append(Chunks(n), n + 1)[i] = Chunks(n)[i]
      /\ Append(Chunks(n), n + 1)[n + 1] = n + 1
  BY <1>1, AppendProperties
<1>4. \A i \in 1 .. n + 1 : Append(Chunks(n), n + 1)[i] = Chunks(n + 1)[i]
  <2>1. \A i \in 1 .. n : Chunks(n)[i] = i
    BY DEF Chunks
  <2>2. \A i \in 1 .. n + 1 : Chunks(n + 1)[i] = i
    BY DEF Chunks
  <2>3. \A i \in 1 .. n + 1 : i \in 1 .. n \/ i = n + 1
    OBVIOUS
  <2>4. QED BY <1>3, <2>1, <2>2, <2>3
<1>5. QED BY <1>1, <1>2, <1>3, <1>4, SeqEqual

\* A chunk appended to what a COMMS holds is appended to what is coming.
LEMMA AppendAtEnd ==
  \A e \in Nat : \A a, b, c \in Seq(Nat) :
     a \o (b \o Append(c, e)) = Append(a \o (b \o c), e)
<1>. SUFFICES ASSUME NEW e \in Nat, NEW a \in Seq(Nat), NEW b \in Seq(Nat), NEW c \in Seq(Nat)
              PROVE  a \o (b \o Append(c, e)) = Append(a \o (b \o c), e)
  OBVIOUS
<1>t. a \in Seq(Nat) /\ b \in Seq(Nat) /\ c \in Seq(Nat)
  OBVIOUS
<1>0. \A x, y \in Seq(Nat) : x \o y \in Seq(Nat)
  BY ConcatProperties
<1>. DEFINE last == <<e>>
<1>1. last \in Seq(Nat)
  OBVIOUS
<1>2. \A x \in Seq(Nat) : Append(x, e) = x \o last
  BY AppendIsConcat
<1>. HIDE DEF last
<1>3. (b \o c) \o last = b \o (c \o last)
  <2>1. Grouped(b, c, last)
    BY ONLY <1>t, <1>1, ConcatGrouped
  <2>2. QED BY ONLY <2>1 DEF Grouped
<1>. DEFINE bc == b \o c
<1>4. bc \in Seq(Nat) /\ a \o bc \in Seq(Nat)
  BY <1>0
<1>. HIDE DEF bc
<1>5. (a \o bc) \o last = a \o (bc \o last)
  <2>1. Grouped(a, bc, last)
    BY ONLY <1>t, <1>1, <1>4, ConcatGrouped
  <2>2. QED BY ONLY <2>1 DEF Grouped
<1>6. Append(c, e) = c \o last /\ Append(a \o bc, e) = (a \o bc) \o last
  BY <1>2, <1>4
<1>7. a \o (bc \o last) = Append(a \o bc, e)
  BY <1>5, <1>6
<1>8. QED BY <1>3, <1>6, <1>7 DEF bc

\* What leaves comms_buffer for a channel is at the channel's end.
LEMMA ShareMoves ==
  ASSUME NEW a \in Seq(Nat), NEW b \in Seq(Nat), NEW c \in Seq(Nat)
  PROVE  (a \o b) \o (<<>> \o c) = a \o (b \o c)
<1>1. (a \o b) \o c = a \o (b \o c)
  <2>1. Grouped(a, b, c)
    BY ConcatGrouped
  <2>2. QED BY ONLY <2>1 DEF Grouped
<1>2. <<>> \o c = c
  BY ConcatEmptySeq
<1>3. QED BY <1>1, <1>2

\* Handing a prefix of what waits to the voice keeps the whole.
LEMMA SpeakKeeps ==
  ASSUME NEW a \in Seq(Nat), NEW w \in Seq(Nat), NEW k \in 0 .. Len(w)
  PROVE  (a \o SubSeq(w, 1, k)) \o SubSeq(w, k + 1, Len(w)) = a \o w
<1>1. Len(w) \in Nat /\ \A i \in 1 .. Len(w) : w[i] \in Nat
  BY LenProperties, ElementOfSeq
<1>2. SubSeq(w, 1, k) \in Seq(Nat) /\ SubSeq(w, k + 1, Len(w)) \in Seq(Nat)
  BY <1>1, SubSeqProperties
<1>3. SubSeq(w, 1, k) \o SubSeq(w, k + 1, Len(w)) = SubSeq(w, 1, Len(w))
  <2>1. 1 \in 1 .. Len(w) + 1 /\ k \in 1 - 1 .. Len(w) /\ Len(w) \in k .. Len(w)
    BY <1>1
  <2>2. QED BY <2>1, ConcatAdjacentSubSeq
<1>4. SubSeq(w, 1, Len(w)) = w
  BY SubSeqFull
<1>. DEFINE p == SubSeq(w, 1, k)
            q == SubSeq(w, k + 1, Len(w))
<1>5. a \in Seq(Nat) /\ p \in Seq(Nat) /\ q \in Seq(Nat) /\ p \o q = w
  BY <1>2, <1>3, <1>4
<1>. HIDE DEF p, q
<1>6. (a \o p) \o q = a \o (p \o q)
  <2>1. Grouped(a, p, q)
    BY ONLY <1>5, ConcatGrouped
  <2>2. QED BY ONLY <2>1 DEF Grouped
<1>7. (a \o p) \o q = a \o w
  BY <1>5, <1>6
<1>8. QED BY <1>7 DEF p, q

\* Only the instance in charge has a reply under way: a tool runs when the chat's reply
\* is over, and the specialist's is over before the tool returns.
OneVoice == \A h \in Hosts : h # host => comms[h].llm = <<>>
Quiet    == main = "relayed" /\ tool = "asked" /\ host = "chat" => comms["chat"].llm = <<>>

\* What the rest of a tick leaves of the replies.
LEMMA ElsewhereReplies ==
  ASSUME MainOK, OneVoice, Quiet, Elsewhere
  PROVE  /\ (OneVoice /\ Quiet)'
         /\ comms'[host'].llm = comms[host].llm
<1>. USE DEF OneVoice, Quiet
<1>t. comms \in [Hosts -> Comms] /\ host \in Hosts /\ "chat" \in Hosts /\ "expert" \in Hosts
      /\ \A h \in Hosts : h = "chat" \/ h = "expert"
  BY DEF MainOK, Hosts
<1>s. ASSUME UNCHANGED host, \A h \in Hosts : comms'[h].llm = comms[h].llm,
             main' # "relayed" \/ UNCHANGED <<main, tool>>
      PROVE  (OneVoice /\ Quiet)' /\ comms'[host'].llm = comms[host].llm
  BY <1>s, <1>t
<1>1. CASE HonourExit \/ NoLine \/ JumpInput \/ TakeLine
  <2>1. \A h \in Hosts : comms'[h].llm = comms[h].llm
    <3>1. CASE HonourExit
      BY <1>t, <3>1 DEF HonourExit, Comms
    <3>2. CASE NoLine
      BY <1>t, <3>2 DEF NoLine, Comms
    <3>3. CASE JumpInput \/ TakeLine
      <4>1. comms' = [comms EXCEPT !["chat"].enter = FALSE, !["chat"].user = <<>>,
                                   !["chat"].interrupted = FALSE]
        BY <3>3 DEF JumpInput, TakeLine
      <4>2. QED BY <1>t, <4>1 DEF Comms
    <3>4. QED BY <1>1, <3>1, <3>2, <3>3
  <2>2. UNCHANGED host /\ main' # "relayed"
    BY <1>1 DEF HonourExit, NoLine, JumpInput, TakeLine
  <2>3. QED BY <1>s, <2>1, <2>2
<1>2. CASE RestoreLine \/ Narrate \/ SetKeyboard
  <2>1. \A h \in Hosts : comms'[h].llm = comms[h].llm
    <3>1. CASE RestoreLine \/ Narrate
      <4>1. PICK line : comms' = [comms EXCEPT !["chat"].user = line]
        BY <3>1 DEF RestoreLine, Narrate
      <4>2. QED BY <1>t, <4>1 DEF Comms
    <3>2. CASE SetKeyboard
      BY <1>t, <3>2 DEF SetKeyboard, Comms
    <3>3. QED BY <1>2, <3>1, <3>2
  <2>2. UNCHANGED <<main, host, tool>>
    BY <1>2 DEF RestoreLine, Narrate, SetKeyboard
  <2>3. QED BY <1>s, <2>1, <2>2
<1>3. CASE LaunchThread \/ EndTick \/ StopWorker \/ JoinWorker \/ CallTool \/ KeepWaiting
           \/ ToolReturns
  <2>1. UNCHANGED <<comms, host>> /\ main' # "relayed"
    BY <1>3 DEF LaunchThread, EndTick, StopWorker, JoinWorker, CallTool, KeepWaiting, ToolReturns
  <2>2. QED BY <1>s, <2>1
<1>4. CASE Consult
  <2>1. /\ host = "chat" /\ host' = "expert" /\ main' = "tick" /\ comms["chat"].llm = <<>>
        /\ comms' = [comms EXCEPT !["expert"] = Fresh]
    BY <1>4 DEF Consult
  <2>2. comms'["expert"].llm = <<>> /\ comms'["chat"].llm = <<>>
    BY <1>t, <2>1, FreshType
  <2>3. QED BY <1>t, <2>1, <2>2
<1>5. CASE SpecialistDone
  <2>1. /\ host = "expert" /\ host' = "chat" /\ main' # "relayed"
        /\ comms["expert"].llm = <<>> /\ UNCHANGED comms
    BY <1>5 DEF SpecialistDone
  <2>2. comms["chat"].llm = <<>>
    BY <1>t, <2>1
  <2>3. QED BY <1>t, <2>1, <2>2
<1>6. QED BY <1>1, <1>2, <1>3, <1>4, <1>5 DEF Elsewhere, Input, Consultation

LEMMA RepliesStep == TypeInv /\ OneVoice /\ Quiet /\ [Next]_vars => (OneVoice /\ Quiet)'
<1>. SUFFICES ASSUME TypeInv, OneVoice, Quiet, [Next]_vars PROVE (OneVoice /\ Quiet)'
  OBVIOUS
<1>. USE DEF OneVoice, Quiet
<1>t. comms \in [Hosts -> Comms] /\ host \in Hosts /\ MainOK
  BY DEF TypeInv, MainOK
<1>s. ASSUME UNCHANGED <<comms, host, tool>>, main' # "relayed" \/ UNCHANGED main
      PROVE  (OneVoice /\ Quiet)'
  BY <1>s
<1>1. ASSUME NEW kind \in Kinds, Press(kind) PROVE (OneVoice /\ Quiet)'
  BY <1>1, <1>s DEF Press
<1>2. ASSUME NEW kind \in {"interrupt", "status"}, Signal(kind) PROVE (OneVoice /\ Quiet)'
  BY <1>2, <1>s DEF Signal
<1>3. CASE PressCtrlC \/ Say \/ Post
  BY <1>3, <1>s DEF PressCtrlC, Say, Post
<1>4. CASE Stream
  <2>1. /\ comms' = [comms EXCEPT ![host].llm = Append(@, produced + 1)]
        /\ UNCHANGED <<host, main, tool>> /\ (tool # "none" => host = "expert")
    BY <1>4 DEF Stream
  <2>2. \A h \in Hosts : h # host => comms'[h] = comms[h]
    BY <1>t, <2>1
  <2>3. QED BY <2>1, <2>2
<1>5. CASE LookAtFlag \/ BeginPass \/ EndWorker
  BY <1>5, <1>s DEF LookAtFlag, BeginPass, EndWorker
<1>6. CASE ReadKeyboard
  BY <1>6, <1>s DEF ReadKeyboard
<1>7. CASE MergeInput
  BY <1>7, <1>s DEF MergeInput
<1>8. CASE ShareOutput
  BY <1>8, <1>s DEF ShareOutput
<1>9. CASE Raise \/ WaitOut
  BY <1>9, <1>s DEF Raise, WaitOut
<1>10. CASE Relay
  <2>1. comms'[host].llm = <<>>
    BY <1>10, RelayMoves
  <2>2. comms' = [comms EXCEPT ![host] = Handed(@, buffer)] /\ UNCHANGED host
    BY <1>10 DEF Relay
  <2>3. \A h \in Hosts : h # host => comms'[h] = comms[h]
    BY <1>t, <2>2
  <2>4. QED BY <2>1, <2>2, <2>3
<1>11. CASE Elsewhere
  BY <1>11, <1>t, ElsewhereReplies
<1>12. CASE UNCHANGED vars
  BY <1>12, <1>s DEF vars
<1>13. QED
  BY <1>1, <1>2, <1>3, <1>4, <1>5, <1>6, <1>7, <1>8, <1>9, <1>10, <1>11, <1>12
     DEF Next, Arrival, Pass, Tick, Exchange, Ended, Elsewhere

LEMMA OutputStep ==
  TypeInv /\ FlagsInv /\ OneVoice /\ Quiet /\ OutputKept /\ [Next]_vars => OutputKept'
<1>. SUFFICES ASSUME TypeInv, FlagsInv, OneVoice, Quiet, OutputKept, [Next]_vars, ~overlapped'
              PROVE  OutputKept'
  BY DEF OutputKept
<1>o. ~overlapped
  BY OverlapStays
<1>t. /\ buffer \in Comms /\ comms \in [Hosts -> Comms] /\ comms[host] \in Comms
      /\ host \in Hosts
      /\ screen \in Seq(Nat) /\ spoken \in Seq(Nat) /\ tts_pending \in Seq(Nat)
      /\ produced \in Nat
  BY DEF TypeInv, Worker, WorkerOK, ChannelsOK, MainOK, GhostsOK, Hosts
<1>l. buffer.llm \in Seq(Nat) /\ comms[host].llm \in Seq(Nat)
  BY <1>t DEF Comms
<1>v. spoken \o tts_pending \in Seq(Nat)
  BY <1>t, ConcatProperties
\* A step that leaves what is coming and the channels alone.
<1>s. ASSUME UNCHANGED <<screen, spoken, tts_pending, produced, host>>,
             buffer'.llm = buffer.llm, comms'[host].llm = comms[host].llm
      PROVE  OutputKept'
  BY <1>o, <1>t, <1>s DEF OutputKept, Coming
<1>1. ASSUME NEW kind \in Kinds, Press(kind) PROVE OutputKept'
  BY <1>1, <1>s DEF Press
<1>2. CASE PressCtrlC
  BY <1>2, <1>s DEF PressCtrlC
<1>3. CASE Say
  BY <1>3, <1>s DEF Say
<1>4. ASSUME NEW kind \in {"interrupt", "status"}, Signal(kind) PROVE OutputKept'
  BY <1>4, <1>s DEF Signal
<1>5. CASE Post
  BY <1>5, <1>s DEF Post
<1>6. CASE Stream
  <2>1. comms'[host].llm = Append(comms[host].llm, produced + 1)
    <3>1. comms' = [comms EXCEPT ![host].llm = Append(@, produced + 1)]
      BY <1>6 DEF Stream
    <3>2. comms' = [comms EXCEPT ![host] = [comms[host] EXCEPT !.llm = Append(@, produced + 1)]]
      BY <3>1
    <3>3. comms'[host] = [comms[host] EXCEPT !.llm = Append(@, produced + 1)]
      BY <1>t, <3>2 DEF Hosts
    <3>4. QED BY <1>t, <3>3 DEF Comms
  <2>2. UNCHANGED <<screen, spoken, tts_pending, buffer, host>> /\ produced' = produced + 1
    BY <1>6 DEF Stream
  <2>3. produced + 1 \in Nat
    BY <1>t
  <2>a. /\ screen \o (buffer.llm \o comms[host].llm) = Chunks(produced)
        /\ (spoken \o tts_pending) \o (buffer.llm \o comms[host].llm) = Chunks(produced)
    BY <1>o DEF OutputKept, Coming
  <2>. DEFINE x == buffer.llm
              y == comms[host].llm
              e == produced + 1
  <2>b. x \in Seq(Nat) /\ y \in Seq(Nat) /\ e \in Nat
    BY <1>l, <2>3
  <2>c. screen \o (x \o y) = Chunks(produced)
        /\ (spoken \o tts_pending) \o (x \o y) = Chunks(produced)
    BY <2>a
  <2>. HIDE DEF x, y, e
  <2>d. \A u \in Seq(Nat) : u \o (x \o Append(y, e)) = Append(u \o (x \o y), e)
    <3>1. \A u, v, w \in Seq(Nat) :
            u \o (v \o Append(w, e)) = Append(u \o (v \o w), e)
      BY <2>b, AppendAtEnd
    <3>2. QED BY <2>b, <3>1
  <2>4. screen \o (x \o Append(y, e)) = Append(Chunks(produced), e)
    <3>1. screen \in Seq(Nat)
      BY <1>t
    <3>2. screen \o (x \o Append(y, e)) = Append(screen \o (x \o y), e)
      BY <2>d, <3>1
    <3>3. QED BY <2>c, <3>2
  <2>5. (spoken \o tts_pending) \o (x \o Append(y, e)) = Append(Chunks(produced), e)
    <3>. DEFINE s == spoken \o tts_pending
    <3>1. s \in Seq(Nat) /\ s \o (x \o y) = Chunks(produced)
      BY <1>v, <2>c
    <3>. HIDE DEF s
    <3>2. s \o (x \o Append(y, e)) = Append(s \o (x \o y), e)
      BY <2>d, <3>1
    <3>3. s \o (x \o Append(y, e)) = Append(Chunks(produced), e)
      BY <3>1, <3>2
    <3>4. QED BY <3>3 DEF s
  <2>6. Append(Chunks(produced), e) = Chunks(produced')
    BY <1>t, <2>2, ChunksGrow DEF e
  <2>7. Coming' = x \o Append(y, e)
    BY <2>1, <2>2 DEF Coming, x, y, e
  <2>8. OutputKept'
    BY <2>2, <2>4, <2>5, <2>6, <2>7 DEF OutputKept
  <2>9. QED BY <2>8
<1>7. CASE LookAtFlag \/ BeginPass \/ EndWorker
  BY <1>7, <1>s DEF LookAtFlag, BeginPass, EndWorker
<1>8. CASE ReadKeyboard
  <2>1. buffer' = [buffer EXCEPT !.exit = @ \/ ctrl_c]
    BY <1>8 DEF ReadKeyboard
  <2>2. buffer'.llm = buffer.llm
    BY <1>t, <2>1 DEF Comms
  <2>3. UNCHANGED <<channels, comms, host, produced>>
    BY <1>8 DEF ReadKeyboard
  <2>4. QED BY <1>s, <2>2, <2>3
<1>9. CASE MergeInput
  <2>1. buffer'.llm = buffer.llm
    BY <1>9, <1>o, MergeKeeps
  <2>2. UNCHANGED <<channels, comms, host, produced>>
    BY <1>9 DEF MergeInput
  <2>3. QED BY <1>s, <2>1, <2>2
<1>10. CASE ShareOutput
  <2>. DEFINE w == tts_pending \o buffer.llm
              c == comms[host].llm
  <2>1. screen' = screen \o buffer.llm /\ UNCHANGED <<comms, host, produced>>
    BY <1>10 DEF ShareOutput
  <2>2. buffer'.llm = <<>>
    BY <1>10, <1>t DEF ShareOutput, Cleared, Comms
  <2>3. Coming' = <<>> \o c
    BY <2>1, <2>2 DEF Coming
  <2>4. screen' \o Coming' = Chunks(produced)
    <3>1. (screen \o buffer.llm) \o (<<>> \o c) = screen \o (buffer.llm \o c)
      BY <1>t, <1>l, ShareMoves
    <3>2. screen \o (buffer.llm \o c) = Chunks(produced)
      BY <1>o DEF OutputKept, Coming
    <3>3. QED BY <2>1, <2>3, <3>1, <3>2
  <2>5. PICK k \in 0 .. Len(w) : /\ spoken' = spoken \o SubSeq(w, 1, k)
                                 /\ tts_pending' = SubSeq(w, k + 1, Len(w))
    BY <1>10 DEF ShareOutput
  <2>6. w \in Seq(Nat)
    BY <1>t, <1>l, ConcatProperties
  <2>7. spoken' \o tts_pending' = spoken \o w
    <3>. HIDE DEF w
    <3>1. QED BY <1>t, <2>5, <2>6, SpeakKeeps
  <2>8. spoken \o w = (spoken \o tts_pending) \o buffer.llm
    <3>. DEFINE b == buffer.llm
    <3>1. b \in Seq(Nat)
      BY <1>l
    <3>. HIDE DEF b
    <3>2. (spoken \o tts_pending) \o b = spoken \o (tts_pending \o b)
      <4>1. Grouped(spoken, tts_pending, b)
        BY ONLY <1>t, <3>1, ConcatGrouped
      <4>2. QED BY ONLY <4>1 DEF Grouped
    <3>3. QED BY <3>2 DEF b
  <2>9. ((spoken \o tts_pending) \o buffer.llm) \o (<<>> \o c)
          = (spoken \o tts_pending) \o (buffer.llm \o c)
    BY <1>v, <1>l, ShareMoves
  <2>10. (spoken' \o tts_pending') \o Coming' = Chunks(produced)
    BY <1>o, <2>3, <2>7, <2>8, <2>9 DEF OutputKept, Coming
  <2>11. QED BY <2>1, <2>4, <2>10 DEF OutputKept
<1>11. CASE Raise
  BY <1>11, <1>s DEF Raise
<1>12. CASE WaitOut
  BY <1>12, <1>s DEF WaitOut
<1>13. CASE Relay
  <2>1. comms'[host].llm = <<>> /\ buffer'.llm = buffer.llm \o comms[host].llm
    BY <1>13, RelayMoves
  <2>2. buffer.llm \o comms[host].llm \in Seq(Nat)
    BY <1>l, ConcatProperties
  <2>3. UNCHANGED <<channels, host, produced>>
    BY <1>13 DEF Relay
  <2>4. Coming' = Coming
    <3>1. Coming' = (buffer.llm \o comms[host].llm) \o <<>>
      BY <2>1, <2>3 DEF Coming
    <3>2. QED BY <2>2, <3>1, ConcatEmptySeq DEF Coming
  <2>5. QED BY <1>o, <2>3, <2>4 DEF OutputKept
<1>14. CASE Elsewhere
  <2>1. comms'[host'].llm = comms[host].llm
    BY <1>14, ElsewhereReplies DEF TypeInv
  <2>2. UNCHANGED <<buffer, channels, produced>>
    BY <1>14, ElsewhereFrame
  <2>3. Coming' = Coming
    BY <2>1, <2>2 DEF Coming
  <2>4. QED BY <1>o, <2>2, <2>3 DEF OutputKept
<1>15. CASE UNCHANGED vars
  BY <1>15, <1>s DEF vars
<1>16. QED
  BY <1>1, <1>2, <1>3, <1>4, <1>5, <1>6, <1>7, <1>8, <1>9, <1>10, <1>11, <1>12, <1>13,
     <1>14, <1>15 DEF Next, Arrival, Pass, Tick, Exchange, Ended, Elsewhere

\* However passes, exchanges, consultations and the streams of the replies interleave,
\* the screen and the voice are each given every chunk once and in order; what is missing
\* at their end is still coming (io_worker.cpp, step 9: "every channel holds its own copy").
\* Like the others it says nothing after a pass has begun inside an exchange.
THEOREM ReplyShownOnce == Spec => []OutputKept
<1>. DEFINE IInv == TypeInv /\ FlagsInv /\ OneVoice /\ Quiet /\ OutputKept
<1>1. Init => IInv
  <2>1. ASSUME Init PROVE OutputKept
    <3>1. screen = <<>> /\ spoken = <<>> /\ tts_pending = <<>> /\ produced = 0
      BY <2>1 DEF Init
    <3>2. buffer.llm = <<>> /\ comms[host].llm = <<>>
      BY <2>1, FreshType DEF Init, Hosts
    <3>3. <<>> \o <<>> = <<>>
      BY ConcatEmptySeq, EmptySeq
    <3>4. Chunks(0) = <<>>
      <4>1. Chunks(0) \in Seq(Nat) /\ DOMAIN Chunks(0) = {}
        BY ChunksGrow DEF Chunks
      <4>2. QED BY <4>1, EmptySeq, LenProperties
    <3>5. QED BY <3>1, <3>2, <3>3, <3>4 DEF OutputKept, Coming
  <2>2. ASSUME Init PROVE OneVoice /\ Quiet
    BY <2>2, FreshType DEF Init, OneVoice, Quiet
  <2>3. QED BY <2>1, <2>2, TypeInit, FlagsInit
<1>2. IInv /\ [Next]_vars => IInv'
  BY TypeStep, FlagsStep, RepliesStep, OutputStep
<1>3. QED BY <1>1, <1>2, PTL DEF Spec

-----------------------------------------------------------------------------
(* What is entered, on its way to exchange().  A line is spread over three  *)
(* places: handed, comms_buffer, and at its source held_voice_line or the   *)
(* keyboard's line.  Every step moves a piece to the next place, and what   *)
(* is read is numbered above what was read before.                          *)

\* The numbers of s in a are below those in b.
Precedes(s, a, b) == \A m \in Numbers(s, a), n \in Numbers(s, b) : m < n

\* What Numbers is made of, and what a concatenation does to it and to InOrder.
LEMMA NumbersType ==
  ASSUME NEW a \in Seq(Piece), NEW s
  PROVE  /\ \A k \in DOMAIN a : a[k] \in Piece /\ a[k][2] \in Nat
         /\ Numbers(s, a) \subseteq Nat
<1>1. \A k \in DOMAIN a : a[k] \in Piece
  BY ElementOfSeq, LenProperties
<1>2. QED BY <1>1 DEF Piece, Numbers

LEMMA TwoParts ==
  ASSUME NEW a \in Seq(Piece), NEW b \in Seq(Piece), NEW s
  PROVE  /\ a \o b \in Seq(Piece)
         /\ Numbers(s, a \o b) = Numbers(s, a) \cup Numbers(s, b)
         /\ InOrder(s, a \o b) <=> InOrder(s, a) /\ InOrder(s, b) /\ Precedes(s, a, b)
<1>. DEFINE m == Len(a)
            n == Len(b)
            u == a \o b
<1>1. m \in Nat /\ n \in Nat /\ DOMAIN a = 1 .. m /\ DOMAIN b = 1 .. n
  BY LenProperties
<1>2. u \in Seq(Piece) /\ Len(u) = m + n
      /\ \A k \in 1 .. m + n : u[k] = IF k <= m THEN a[k] ELSE b[k - m]
  BY <1>1, ConcatProperties
<1>3. DOMAIN u = 1 .. m + n
  BY <1>2, LenProperties
<1>. HIDE DEF m, n, u
<1>4. \A k \in 1 .. m : k \in 1 .. m + n /\ u[k] = a[k]
  BY <1>1, <1>2
<1>5. \A k \in 1 .. n : m + k \in 1 .. m + n /\ u[m + k] = b[k]
  BY <1>1, <1>2
<1>6. \A k \in 1 .. m + n : k \in 1 .. m \/ (k - m \in 1 .. n /\ m + (k - m) = k)
  BY <1>1
<1>7. Numbers(s, u) = Numbers(s, a) \cup Numbers(s, b)
  <2>1. ASSUME NEW x \in Numbers(s, a)  PROVE x \in Numbers(s, u)
    BY <1>1, <1>3, <1>4, <2>1 DEF Numbers
  <2>2. ASSUME NEW x \in Numbers(s, b)  PROVE x \in Numbers(s, u)
    <3>1. PICK k \in 1 .. n : b[k][1] = s /\ b[k][2] = x
      BY <1>1, <2>2 DEF Numbers
    <3>2. m + k \in DOMAIN u /\ u[m + k] = b[k]
      BY <1>3, <1>5
    <3>3. QED BY <3>1, <3>2 DEF Numbers
  <2>3. ASSUME NEW x \in Numbers(s, u)  PROVE x \in Numbers(s, a) \cup Numbers(s, b)
    <3>1. PICK k \in 1 .. m + n : u[k][1] = s /\ u[k][2] = x
      BY <1>3, <2>3 DEF Numbers
    <3>2. CASE k \in 1 .. m
      BY <1>1, <1>4, <3>1, <3>2 DEF Numbers
    <3>3. CASE k - m \in 1 .. n /\ m + (k - m) = k
      <4>1. u[k] = b[k - m]
        BY <1>5, <3>3
      <4>2. QED BY <1>1, <3>1, <3>3, <4>1 DEF Numbers
    <3>4. QED BY <1>6, <3>2, <3>3
  <2>4. QED BY <2>1, <2>2, <2>3
<1>8. ASSUME InOrder(s, u)
      PROVE  InOrder(s, a) /\ InOrder(s, b) /\ Precedes(s, a, b)
  <2>1. InOrder(s, a)
    BY <1>1, <1>3, <1>4, <1>8 DEF InOrder
  <2>2. InOrder(s, b)
    <3>1. SUFFICES ASSUME NEW i \in 1 .. n, NEW j \in 1 .. n, i < j,
                          b[i][1] = s, b[j][1] = s
                   PROVE  b[i][2] < b[j][2]
      BY <1>1 DEF InOrder
    <3>2. m + i < m + j
      BY <1>1, <3>1
    <3>3. QED BY <1>3, <1>5, <1>8, <3>1, <3>2 DEF InOrder
  <2>3. Precedes(s, a, b)
    <3>1. SUFFICES ASSUME NEW i \in 1 .. m, NEW j \in 1 .. n, a[i][1] = s, b[j][1] = s
                   PROVE  a[i][2] < b[j][2]
      BY <1>1 DEF Precedes, Numbers
    <3>2. i < m + j
      BY <1>1
    <3>3. QED BY <1>3, <1>4, <1>5, <1>8, <3>1, <3>2 DEF InOrder
  <2>4. QED BY <2>1, <2>2, <2>3
<1>9. ASSUME InOrder(s, a), InOrder(s, b), Precedes(s, a, b)
      PROVE  InOrder(s, u)
  <2>1. SUFFICES ASSUME NEW i \in 1 .. m + n, NEW j \in 1 .. m + n, i < j,
                        u[i][1] = s, u[j][1] = s
                 PROVE  u[i][2] < u[j][2]
    BY <1>3 DEF InOrder
  <2>2. CASE i \in 1 .. m /\ j \in 1 .. m
    BY <1>1, <1>4, <1>9, <2>1, <2>2 DEF InOrder
  <2>3. CASE i \in 1 .. m /\ j - m \in 1 .. n /\ m + (j - m) = j
    <3>1. u[j] = b[j - m] /\ u[i] = a[i]
      BY <1>4, <1>5, <2>3
    <3>2. u[i][2] \in Numbers(s, a) /\ u[j][2] \in Numbers(s, b)
      BY <1>1, <2>1, <2>3, <3>1 DEF Numbers
    <3>3. QED BY <1>9, <3>2 DEF Precedes
  <2>4. CASE i - m \in 1 .. n /\ m + (i - m) = i /\ j - m \in 1 .. n /\ m + (j - m) = j
    <3>1. u[j] = b[j - m] /\ u[i] = b[i - m]
      BY <1>5, <2>4
    <3>2. i - m < j - m
      BY <1>1, <2>1
    <3>3. QED BY <1>1, <1>9, <2>1, <2>4, <3>1, <3>2 DEF InOrder
  <2>5. CASE i - m \in 1 .. n /\ j \in 1 .. m
    BY <1>1, <2>1, <2>5
  <2>6. QED BY <1>6, <2>2, <2>3, <2>4, <2>5
<1>10. QED BY <1>2, <1>7, <1>8, <1>9 DEF u

\* Numbers a sequence has none of, or one.
LEMMA FewNumbers ==
  ASSUME NEW s
  PROVE  /\ <<>> \in Seq(Piece) /\ Numbers(s, <<>>) = {} /\ InOrder(s, <<>>)
         /\ \A r \in Sources, n \in Nat :
              /\ <<<<r, n>>>> \in Seq(Piece)
              /\ Numbers(s, <<<<r, n>>>>) = IF r = s THEN {n} ELSE {}
              /\ InOrder(s, <<<<r, n>>>>)
<1>1. <<>> \in Seq(Piece) /\ DOMAIN <<>> = {}
  BY EmptySeq
<1>2. Numbers(s, <<>>) = {} /\ InOrder(s, <<>>)
  BY <1>1 DEF Numbers, InOrder
<1>3. ASSUME NEW r \in Sources, NEW n \in Nat
      PROVE  /\ <<<<r, n>>>> \in Seq(Piece)
             /\ Numbers(s, <<<<r, n>>>>) = IF r = s THEN {n} ELSE {}
             /\ InOrder(s, <<<<r, n>>>>)
  <2>1. PICK p : p = <<r, n>>
    OBVIOUS
  <2>2. p \in Piece /\ p[1] = r /\ p[2] = n
    BY <2>1 DEF Piece
  <2>3. <<p>> \in Seq(Piece) /\ DOMAIN <<p>> = {1} /\ <<p>>[1] = p
    BY <2>2
  <2>4. Numbers(s, <<p>>) = IF r = s THEN {n} ELSE {}
    BY <2>2, <2>3 DEF Numbers
  <2>5. InOrder(s, <<p>>)
    BY <2>3 DEF InOrder
  <2>6. QED BY <2>1, <2>3, <2>4, <2>5
<1>4. QED BY <1>1, <1>2, <1>3
-----------------------------------------------------------------------------
\* A line joins the pending one or, none pending, is the first.
LEMMA SubmitUser ==
  ASSUME NEW b \in Comms, Paired(b), snapshot \in Comms, NEW line \in Seq(Piece), line # <<>>
  PROVE  Submit(b, line).user = b.user \o line
<1>1. CASE b.enter
  BY <1>1 DEF Submit, Comms
<1>2. CASE ~b.enter
  <2>1. b.user = <<>> /\ Submit(b, line).user = line
    BY <1>2 DEF Submit, Comms, Paired
  <2>2. QED BY <2>1, ConcatEmptySeq
<1>3. QED BY <1>1, <1>2

\* What a merge takes from each source.
WebPart  == IF posts # <<>> /\ buffer.enabled THEN <<<<"web", Head(posts)>>>> ELSE <<>>
KeyPart  == IF key.enter THEN key.line ELSE <<>>
SaidPart == IF VocaEvent = "text" /\ Head(transcripts) \notin ExitPhrases
            THEN <<<<"voice", Head(transcripts)>>>> ELSE <<>>

LEMMA TextPending ==
  ASSUME TypeInv, VocaEvent = "text"
  PROVE  transcripts # <<>>
<1>1. ASSUME voca_events # <<>>  PROVE Head(voca_events) # "text"
  <2>1. Head(voca_events) \in {"interrupt", "status"}
    BY <1>1, HeadTailProperties DEF TypeInv, FeedsOK
  <2>2. QED BY <2>1
<1>2. QED BY <1>1 DEF VocaEvent

LEMMA PartsType ==
  ASSUME TypeInv
  PROVE  WebPart \in Seq(Piece) /\ KeyPart \in Seq(Piece) /\ SaidPart \in Seq(Piece)
<1>1. <<>> \in Seq(Piece) /\ key.line \in Seq(Piece)
  BY EmptySeq DEF TypeInv, Worker, WorkerOK, Piece
<1>2. ASSUME posts # <<>>  PROVE <<<<"web", Head(posts)>>>> \in Seq(Piece)
  BY <1>2, HeadTailProperties DEF TypeInv, FeedsOK, Piece, Sources
<1>3. ASSUME VocaEvent = "text"  PROVE <<<<"voice", Head(transcripts)>>>> \in Seq(Piece)
  <2>1. transcripts # <<>>
    BY <1>3, TextPending
  <2>2. QED BY <2>1, HeadTailProperties DEF TypeInv, FeedsOK, Piece, Sources
<1>4. QED BY <1>1, <1>2, <1>3 DEF WebPart, KeyPart, SaidPart

\* A merge appends to comms_buffer's line the posts, the held line if it is released
\* and the typed line, in that order, and what is said to the held line.
LEMMA MergeMoves ==
  ASSUME TypeInv, MergeInput
  PROVE  /\ \E h \in {<<>>, held} :
              /\ buffer'.user = ((buffer.user \o WebPart) \o h) \o KeyPart
              /\ held' = (IF h = held THEN <<>> ELSE held) \o SaidPart
              /\ snapshot = buffer /\ h # <<>> => ~buffer.interrupted
         /\ key'.line = IF key.enter THEN <<>> ELSE key.line
         /\ captured' = [captured EXCEPT !["web"] = @ \o WebPart, !["voice"] = @ \o SaidPart]
         /\ posts' = IF posts # <<>> THEN Tail(posts) ELSE posts
         /\ transcripts' = IF VocaEvent = "text" THEN Tail(transcripts) ELSE transcripts
         /\ UNCHANGED <<tty, arrived, handed>>
<1>. DEFINE posted  == posts # <<>> /\ buffer.enabled
            web     == IF posted THEN Submit(buffer, <<<<"web", Head(posts)>>>>) ELSE buffer
            release == Released(web)
            voiced  == IF release THEN Submit(web, held) ELSE web
            event   == VocaEvent
            said    == event = "text" /\ Head(transcripts) \notin ExitPhrases
            status  == IF event = "status" THEN [voiced EXCEPT !.system = @ + 1] ELSE voiced
            stop    == key.interrupted \/ event = "interrupt" \/ said \/ web_interrupt
            stopped == IF stop THEN [status EXCEPT !.interrupted = TRUE] ELSE status
            kept    == IF release THEN <<>> ELSE held
            h       == IF release THEN held ELSE <<>>
<1>1. /\ buffer' = IF key.enter THEN Submit(stopped, key.line) ELSE stopped
      /\ held' = IF said THEN Hold(kept, Head(transcripts)) ELSE kept
      /\ captured' = [captured EXCEPT
                        !["web"] = IF posted THEN Append(@, <<"web", Head(posts)>>) ELSE @,
                        !["voice"] = IF said THEN Append(@, <<"voice", Head(transcripts)>>)
                                     ELSE @]
  BY DEF MergeInput
<1>2. /\ buffer \in Comms /\ Paired(buffer) /\ snapshot \in Comms
      /\ held \in Seq(Piece) /\ buffer.user \in Seq(Piece)
      /\ key.line \in Seq(Piece) /\ (key.enter => key.line # <<>>)
      /\ posts \in Seq(Nat)
      /\ captured \in [Sources -> Seq(Piece)]
  BY DEF MergeInput, TypeInv, Worker, WorkerOK, FeedsOK, GhostsOK, Piece, Comms
<1>3. web \in Comms /\ Paired(web) /\ web.user = buffer.user \o WebPart
  <2>1. CASE posted
    <3>1. <<<<"web", Head(posts)>>>> \in Seq(Piece) /\ <<<<"web", Head(posts)>>>> # <<>>
      BY <1>2, <2>1, HeadTailProperties DEF Piece, Sources
    <3>2. QED BY <1>2, <2>1, <3>1, SubmitProperties, SubmitUser DEF WebPart
  <2>2. CASE ~posted
    BY <1>2, <2>2, ConcatEmptySeq DEF WebPart
  <2>3. QED BY <2>1, <2>2
<1>13. snapshot = buffer /\ h # <<>> => ~buffer.interrupted
  <2>1. snapshot = buffer => web.interrupted = buffer.interrupted
    BY <1>2 DEF Submit, Comms
  <2>. HIDE DEF web
  <2>2. QED BY <2>1 DEF Released
<1>4. voiced \in Comms /\ Paired(voiced) /\ voiced.user = web.user \o h
  <2>1. release => held # <<>>
    BY DEF Released
  <2>2. web.user \in Seq(Piece)
    BY <1>3 DEF Comms, Piece
  <2>. HIDE DEF web, release
  <2>3. QED BY <1>2, <1>3, <2>1, <2>2, SubmitProperties, SubmitUser, ConcatEmptySeq
<1>5. status \in Comms /\ Paired(status) /\ status.user = voiced.user
  <2>. HIDE DEF voiced, event
  <2>1. voiced.system + 1 \in Nat
    BY <1>4 DEF Comms
  <2>. DEFINE noted == [voiced EXCEPT !.system = @ + 1]
  <2>2. noted \in Comms /\ noted.user = voiced.user
    BY <1>4, <2>1 DEF Comms
  <2>3. Paired(noted)
    BY <1>4 DEF Comms, Paired
  <2>4. QED BY <1>4, <2>2, <2>3
<1>6. stopped \in Comms /\ Paired(stopped) /\ stopped.user = voiced.user
  <2>. HIDE DEF status, stop, voiced
  <2>1. QED BY <1>5 DEF Comms, Paired
<1>7. buffer'.user = stopped.user \o KeyPart
  <2>. HIDE DEF stopped
  <2>1. stopped.user \in Seq(Piece)
    BY <1>6 DEF Comms, Piece
  <2>2. CASE key.enter
    BY <1>1, <1>2, <1>6, <2>2, SubmitUser DEF KeyPart
  <2>3. CASE ~key.enter
    BY <1>1, <2>1, <2>3, ConcatEmptySeq DEF KeyPart
  <2>4. QED BY <2>2, <2>3
<1>8. /\ buffer'.user = ((buffer.user \o WebPart) \o h) \o KeyPart
      /\ h \in {<<>>, held}
  <2>. HIDE DEF stopped, voiced, web, release
  <2>1. QED BY <1>3, <1>4, <1>6, <1>7
<1>9. held' = (IF h = held THEN <<>> ELSE held) \o SaidPart
  <2>1. kept = IF h = held THEN <<>> ELSE held
    BY DEF Released
  <2>2. kept \in Seq(Piece)
    BY <1>2, EmptySeq
  <2>. HIDE DEF kept, h, release
  <2>3. CASE said
    <3>1. SaidPart = <<<<"voice", Head(transcripts)>>>> /\ SaidPart \in Seq(Piece)
      BY <2>3, PartsType DEF SaidPart
    <3>2. <<"voice", Head(transcripts)>> \in Piece
      BY <3>1
    <3>3. Append(kept, <<"voice", Head(transcripts)>>) = kept \o SaidPart
      BY <2>2, <3>1, <3>2, AppendIsConcat
    <3>4. QED BY <1>1, <2>1, <2>3, <3>3 DEF Hold
  <2>4. CASE ~said
    BY <1>1, <2>1, <2>2, <2>4, ConcatEmptySeq DEF SaidPart
  <2>5. QED BY <2>3, <2>4
<1>10. captured' = [captured EXCEPT !["web"] = @ \o WebPart, !["voice"] = @ \o SaidPart]
  <2>. HIDE DEF event
  <2>1. captured["web"] \in Seq(Piece) /\ captured["voice"] \in Seq(Piece)
    BY <1>2 DEF Sources
  <2>2. (IF posted THEN Append(captured["web"], <<"web", Head(posts)>>) ELSE captured["web"])
          = captured["web"] \o WebPart
    <3>1. CASE posted
      <4>1. <<"web", Head(posts)>> \in Piece
        BY <1>2, <3>1, HeadTailProperties DEF Piece, Sources
      <4>2. QED BY <2>1, <3>1, <4>1, AppendIsConcat DEF WebPart
    <3>2. CASE ~posted
      BY <2>1, <3>2, ConcatEmptySeq DEF WebPart
    <3>3. QED BY <3>1, <3>2
  <2>3. (IF said THEN Append(captured["voice"], <<"voice", Head(transcripts)>>)
         ELSE captured["voice"]) = captured["voice"] \o SaidPart
    <3>1. CASE said
      <4>1. SaidPart = <<<<"voice", Head(transcripts)>>>> /\ SaidPart \in Seq(Piece)
        BY <3>1, PartsType DEF SaidPart, event
      <4>2. <<"voice", Head(transcripts)>> \in Piece
        BY <4>1
      <4>3. QED BY <2>1, <3>1, <4>1, <4>2, AppendIsConcat
    <3>2. CASE ~said
      BY <2>1, <3>2, ConcatEmptySeq DEF SaidPart, event
    <3>3. QED BY <3>1, <3>2
  <2>. HIDE DEF posted, said
  <2>4. QED BY <1>1, <2>2, <2>3
<1>11. /\ key'.line = IF key.enter THEN <<>> ELSE key.line
       /\ posts' = IF posts # <<>> THEN Tail(posts) ELSE posts
       /\ transcripts' = IF VocaEvent = "text" THEN Tail(transcripts) ELSE transcripts
       /\ UNCHANGED <<tty, arrived, handed>>
  BY DEF MergeInput
<1>. HIDE DEF h
<1>12. QED BY <1>8, <1>9, <1>10, <1>11, <1>13
-----------------------------------------------------------------------------
\* The lines under way, without what is still at the source.
Path    == handed \o buffer.user
Rest(s) == CASE s = "key" -> key.line [] s = "voice" -> held [] OTHER -> <<>>

\* What is held was said, and what is on the keyboard's line was typed.
RestInv == \A s \in Sources : /\ s # "key" => Numbers(s, key.line) = {}
                              /\ s # "voice" => Numbers(s, held) = {}

\* n is above the numbers read from s.
Above(s, n) == \A m \in Numbers(s, captured[s]) : m < n

\* What waits at the sources is numbered in order, above what was read.
FeedInv ==
  /\ \A k \in DOMAIN tty : Above("key", tty[k].n) /\ tty[k].n <= arrived["key"]
  /\ \A i, j \in DOMAIN tty : i < j => tty[i].n < tty[j].n
  /\ \A k \in DOMAIN transcripts : Above("voice", transcripts[k]) /\ transcripts[k] <= arrived["voice"]
  /\ \A i, j \in DOMAIN transcripts : i < j => transcripts[i] < transcripts[j]
  /\ \A k \in DOMAIN posts : Above("web", posts[k]) /\ posts[k] <= arrived["web"]
  /\ \A i, j \in DOMAIN posts : i < j => posts[i] < posts[j]
  /\ \A s \in Sources : \A m \in Numbers(s, captured[s]) : m <= arrived[s]

\* What was captured from s is what was handed over or is under way, in order.
LineKept(s) == /\ Numbers(s, Path \o Rest(s)) = Numbers(s, captured[s])
               /\ InOrder(s, Path \o Rest(s))

LinesInv == RestInv /\ FeedInv /\ (\A s \in Sources : LineKept(s))

LEMMA SequenceTypes ==
  ASSUME TypeInv
  PROVE  /\ handed \in Seq(Piece) /\ buffer.user \in Seq(Piece)
         /\ key.line \in Seq(Piece) /\ held \in Seq(Piece)
         /\ \A s \in Sources : captured[s] \in Seq(Piece)
         /\ tty \in Seq([n : Nat, kind : Kinds]) /\ transcripts \in Seq(Nat) /\ posts \in Seq(Nat)
         /\ arrived \in [Sources -> Nat]
         /\ Path \in Seq(Piece)
         /\ \A s \in Sources : Rest(s) \in Seq(Piece)
<1>1. /\ handed \in Seq(Piece) /\ buffer.user \in Seq(Piece)
      /\ key.line \in Seq(Piece) /\ held \in Seq(Piece)
      /\ \A s \in Sources : captured[s] \in Seq(Piece)
      /\ tty \in Seq([n : Nat, kind : Kinds]) /\ transcripts \in Seq(Nat) /\ posts \in Seq(Nat)
      /\ arrived \in [Sources -> Nat]
  BY DEF TypeInv, Worker, WorkerOK, FeedsOK, MainOK, GhostsOK, Piece, Comms
<1>3. Path \in Seq(Piece)
  BY <1>1, ConcatProperties DEF Path
<1>4. \A s \in Sources : Rest(s) \in Seq(Piece)
  BY <1>1, EmptySeq DEF Rest
<1>5. QED BY <1>1, <1>3, <1>4

LEMMA FeedNumbers ==
  ASSUME TypeInv
  PROVE  /\ \A k \in DOMAIN tty : tty[k].n \in Nat
         /\ \A k \in DOMAIN transcripts : transcripts[k] \in Nat
         /\ \A k \in DOMAIN posts : posts[k] \in Nat
         /\ \A s \in Sources : arrived[s] \in Nat /\ Numbers(s, captured[s]) \subseteq Nat
<1>1. /\ tty \in Seq([n : Nat, kind : Kinds]) /\ transcripts \in Seq(Nat) /\ posts \in Seq(Nat)
      /\ arrived \in [Sources -> Nat] /\ \A s \in Sources : captured[s] \in Seq(Piece)
  BY SequenceTypes
<1>2. \A k \in DOMAIN tty : tty[k] \in [n : Nat, kind : Kinds]
  BY <1>1, ElementOfSeq, LenProperties
<1>3. /\ \A k \in DOMAIN transcripts : transcripts[k] \in Nat
      /\ \A k \in DOMAIN posts : posts[k] \in Nat
  BY <1>1, ElementOfSeq, LenProperties
<1>4. \A s \in Sources : arrived[s] \in Nat /\ Numbers(s, captured[s]) \subseteq Nat
  BY <1>1, NumbersType
<1>5. QED BY <1>2, <1>3, <1>4

\* Five parts, as a merge leaves them.
LEMMA FiveParts ==
  ASSUME NEW a \in Seq(Piece), NEW b \in Seq(Piece), NEW c \in Seq(Piece),
         NEW d \in Seq(Piece), NEW e \in Seq(Piece), NEW s
  PROVE  LET u == (((a \o b) \o c) \o d) \o e
         IN  /\ Numbers(s, u) = Numbers(s, a) \cup Numbers(s, b) \cup Numbers(s, c)
                                  \cup Numbers(s, d) \cup Numbers(s, e)
             /\ /\ InOrder(s, a) /\ InOrder(s, b) /\ InOrder(s, c) /\ InOrder(s, d)
                /\ InOrder(s, e)
                /\ Precedes(s, a, b) /\ Precedes(s, a, c) /\ Precedes(s, a, d) /\ Precedes(s, a, e)
                /\ Precedes(s, b, c) /\ Precedes(s, b, d) /\ Precedes(s, b, e)
                /\ Precedes(s, c, d) /\ Precedes(s, c, e) /\ Precedes(s, d, e)
                => InOrder(s, u)
<1>1. /\ a \o b \in Seq(Piece)
      /\ Numbers(s, a \o b) = Numbers(s, a) \cup Numbers(s, b)
      /\ InOrder(s, a) /\ InOrder(s, b) /\ Precedes(s, a, b) => InOrder(s, a \o b)
  BY TwoParts
<1>. DEFINE ab == a \o b
<1>. HIDE DEF ab
<1>2. /\ ab \o c \in Seq(Piece)
      /\ Numbers(s, ab \o c) = Numbers(s, ab) \cup Numbers(s, c)
      /\ InOrder(s, ab) /\ InOrder(s, c) /\ Precedes(s, ab, c) => InOrder(s, ab \o c)
  <2>1. ab \in Seq(Piece)
    BY <1>1 DEF ab
  <2>2. QED BY <2>1, TwoParts
<1>. DEFINE abc == ab \o c
<1>. HIDE DEF abc
<1>3. /\ abc \o d \in Seq(Piece)
      /\ Numbers(s, abc \o d) = Numbers(s, abc) \cup Numbers(s, d)
      /\ InOrder(s, abc) /\ InOrder(s, d) /\ Precedes(s, abc, d) => InOrder(s, abc \o d)
  <2>1. abc \in Seq(Piece)
    BY <1>2 DEF abc
  <2>2. QED BY <2>1, TwoParts
<1>. DEFINE abcd == abc \o d
<1>. HIDE DEF abcd
<1>4. /\ Numbers(s, abcd \o e) = Numbers(s, abcd) \cup Numbers(s, e)
      /\ InOrder(s, abcd) /\ InOrder(s, e) /\ Precedes(s, abcd, e) => InOrder(s, abcd \o e)
  <2>1. abcd \in Seq(Piece)
    BY <1>3 DEF abcd
  <2>2. QED BY <2>1, TwoParts
<1>5. /\ Numbers(s, ab) = Numbers(s, a) \cup Numbers(s, b)
      /\ Numbers(s, abc) = Numbers(s, ab) \cup Numbers(s, c)
      /\ Numbers(s, abcd) = Numbers(s, abc) \cup Numbers(s, d)
  BY <1>1, <1>2, <1>3 DEF ab, abc, abcd
<1>6. /\ Precedes(s, a, c) /\ Precedes(s, b, c) => Precedes(s, ab, c)
      /\ Precedes(s, a, d) /\ Precedes(s, b, d) /\ Precedes(s, c, d) => Precedes(s, abc, d)
      /\ Precedes(s, a, e) /\ Precedes(s, b, e) /\ Precedes(s, c, e) /\ Precedes(s, d, e) => Precedes(s, abcd, e)
  BY <1>5 DEF Precedes
<1>7. QED BY <1>1, <1>2, <1>3, <1>4, <1>5, <1>6 DEF ab, abc, abcd

LEMMA LinesInit == Init => LinesInv
<1>1. SUFFICES ASSUME Init  PROVE LinesInv
  OBVIOUS
<1>2. buffer.user = <<>>
  BY <1>1 DEF Init, Fresh
<1>3. Path = <<>>
  BY <1>1, <1>2, ConcatEmptySeq, EmptySeq DEF Init, Path
<1>4. \A s \in Sources : Path \o Rest(s) = <<>> /\ captured[s] = <<>>
  BY <1>1, <1>3, ConcatEmptySeq, EmptySeq DEF Init, Rest
<1>5. \A s : Numbers(s, <<>>) = {} /\ InOrder(s, <<>>)
  BY FewNumbers
<1>6. FeedInv
  BY <1>1, <1>4, <1>5 DEF Init, FeedInv
<1>7. RestInv
  BY <1>1, <1>2, <1>5 DEF Init, RestInv
<1>8. QED BY <1>4, <1>5, <1>6, <1>7 DEF LinesInv, LineKept

LEMMA HandedOnceThen == TypeInv /\ LinesInv => HandedOnce
<1>1. SUFFICES ASSUME TypeInv, LinesInv  PROVE HandedOnce
  OBVIOUS
<1>2. ASSUME NEW s \in Sources  PROVE handed \o OnTheWay(s) = Path \o Rest(s)
  <2>. DEFINE A == handed
              B == buffer.user
              R == Rest(s)
  <2>1. A \in Seq(Piece) /\ B \in Seq(Piece) /\ R \in Seq(Piece)
    BY <1>1, <1>2, SequenceTypes
  <2>2. OnTheWay(s) = B \o R
    BY DEF OnTheWay, Rest
  <2>. HIDE DEF A, B, R
  <2>3. A \o (B \o R) = (A \o B) \o R
    <3>1. Grouped(A, B, R)
      BY ONLY <2>1, ConcatGrouped
    <3>2. QED BY ONLY <3>1 DEF Grouped
  <2>4. QED BY <2>2, <2>3 DEF Path, A, B, R
<1>3. QED BY <1>1, <1>2 DEF HandedOnce, LinesInv, LineKept
-----------------------------------------------------------------------------
\* A step that moves no line keeps them.
LEMMA LinesFrame ==
  ASSUME LinesInv, buffer'.user = buffer.user, key'.line = key.line,
         UNCHANGED <<held, handed, captured, tty, transcripts, posts, arrived>>
  PROVE  LinesInv'
<1>1. RestInv' /\ FeedInv'
  BY DEF LinesInv, RestInv, FeedInv, Above
<1>2. Path' = Path /\ \A s \in Sources : Rest(s)' = Rest(s)
  BY DEF Path, Rest
<1>3. \A s \in Sources : LineKept(s)'
  BY <1>2 DEF LinesInv, LineKept
<1>4. QED BY <1>1, <1>3 DEF LinesInv

\* The numbers a source gives rise.
LEMMA Arrives ==
  ASSUME TypeInv, LinesInv, NEW s \in Sources, Arrive(s)
  PROVE  LET n == arrived[s] + 1
         IN  /\ n \in Nat /\ arrived'[s] = n /\ Above(s, n)
             /\ \A r \in Sources : r # s => arrived'[r] = arrived[r]
             /\ \A r \in Sources : \A m \in Numbers(r, captured[r]) : m <= arrived'[r]
<1>1. arrived \in [Sources -> Nat] /\ \A r \in Sources : captured[r] \in Seq(Piece)
  BY SequenceTypes
<1>2. \A r \in Sources : Numbers(r, captured[r]) \subseteq Nat
  BY <1>1, NumbersType
<1>3. arrived' = [arrived EXCEPT ![s] = arrived[s] + 1]
  BY DEF Arrive
<1>4. \A r \in Sources : arrived'[r] = IF r = s THEN arrived[s] + 1 ELSE arrived[r]
  BY <1>1, <1>3
<1>5. \A r \in Sources : \A m \in Numbers(r, captured[r]) : m <= arrived[r]
  BY DEF LinesInv, FeedInv
<1>6. \A r \in Sources : arrived[r] \in Nat /\ arrived'[r] \in Nat /\ arrived[r] <= arrived'[r]
  BY <1>1, <1>4
<1>7. \A r \in Sources : \A m \in Numbers(r, captured[r]) : m <= arrived'[r]
  <2>1. SUFFICES ASSUME NEW r \in Sources, NEW m \in Numbers(r, captured[r])
                 PROVE  m <= arrived'[r]
    OBVIOUS
  <2>2. m \in Nat /\ m <= arrived[r]
    BY <1>2, <1>5
  <2>3. QED BY <1>6, <2>2
<1>8. Above(s, arrived[s] + 1)
  <2>1. SUFFICES ASSUME NEW m \in Numbers(s, captured[s])  PROVE m < arrived[s] + 1
    BY DEF Above
  <2>2. m \in Nat /\ m <= arrived[s]
    BY <1>2, <1>5
  <2>3. QED BY <1>6, <2>2
<1>9. arrived'[s] = arrived[s] + 1 /\ \A r \in Sources : r # s => arrived'[r] = arrived[r]
  BY <1>4
<1>10. QED BY <1>6, <1>7, <1>8, <1>9

LEMMA LinesArrive ==
  ASSUME TypeInv, LinesInv, (\E kind \in Kinds : Press(kind)) \/ Say \/ Post
  PROVE  LinesInv'
<1>1. /\ tty \in Seq([n : Nat, kind : Kinds]) /\ transcripts \in Seq(Nat) /\ posts \in Seq(Nat)
      /\ arrived \in [Sources -> Nat]
  BY SequenceTypes
<1>2. FeedInv
  BY DEF LinesInv
<1>3. UNCHANGED <<mine, ghosts>>
  BY DEF Press, Say, Post
<1>4. Path' = Path /\ (\A s \in Sources : Rest(s)' = Rest(s)) /\ RestInv'
  BY <1>3 DEF Path, Rest, LinesInv, RestInv
<1>5. FeedInv'
  <2>1. ASSUME NEW kind \in Kinds, Press(kind)  PROVE FeedInv'
    <3>. DEFINE e == [n |-> arrived["key"] + 1, kind |-> kind]
                l == Len(tty)
    <3>1. /\ e.n \in Nat /\ arrived'["key"] = e.n /\ Above("key", e.n)
          /\ arrived'["voice"] = arrived["voice"] /\ arrived'["web"] = arrived["web"]
          /\ \A r \in Sources : \A m \in Numbers(r, captured[r]) : m <= arrived'[r]
          /\ e.n = arrived["key"] + 1
      BY <2>1, Arrives DEF Press, Sources
    <3>2. tty' = Append(tty, e) /\ UNCHANGED <<transcripts, posts, captured>>
      BY <2>1 DEF Press
    <3>3. e \in [n : Nat, kind : Kinds]
      BY <1>1 DEF Sources
    <3>. HIDE DEF e
    <3>4. /\ l \in Nat /\ DOMAIN tty = 1 .. l /\ DOMAIN tty' = 1 .. l + 1
          /\ \A k \in 1 .. l : tty'[k] = tty[k]
          /\ tty'[l + 1] = e
      BY <1>1, <3>2, <3>3, AppendProperties, LenProperties
    <3>. HIDE DEF l
    <3>5. \A k \in 1 .. l : tty[k].n \in Nat /\ tty[k].n <= arrived["key"] /\ Above("key", tty[k].n)
      BY <1>2, <3>4, FeedNumbers DEF FeedInv
    <3>6. \A k \in 1 .. l : tty[k].n < e.n
      BY <1>1, <3>1, <3>5 DEF Sources
    <3>7. \A k \in 1 .. l + 1 : k \in 1 .. l \/ k = l + 1
      BY <3>4
    <3>8. \A k \in DOMAIN tty' : Above("key", tty'[k].n) /\ tty'[k].n <= arrived'["key"]
      <4>1. SUFFICES ASSUME NEW k \in 1 .. l + 1
                     PROVE  Above("key", tty'[k].n) /\ tty'[k].n <= arrived'["key"]
        BY <3>4
      <4>2. CASE k \in 1 .. l
        <5>1. tty'[k] = tty[k] /\ tty[k].n \in Nat /\ Above("key", tty[k].n) /\ tty[k].n < e.n
          BY <3>4, <3>5, <3>6, <4>2
        <5>2. QED BY <3>1, <5>1
      <4>3. CASE k = l + 1
        BY <3>1, <3>4, <4>3
      <4>4. QED BY <3>7, <4>2, <4>3
    <3>9. \A i, j \in DOMAIN tty' : i < j => tty'[i].n < tty'[j].n
      <4>1. SUFFICES ASSUME NEW i \in 1 .. l + 1, NEW j \in 1 .. l + 1, i < j
                     PROVE  tty'[i].n < tty'[j].n
        BY <3>4
      <4>2. i \in 1 .. l
        BY <3>4, <4>1
      <4>3. CASE j \in 1 .. l
        BY <1>2, <3>4, <4>1, <4>2, <4>3 DEF FeedInv
      <4>4. CASE j = l + 1
        BY <3>4, <3>6, <4>2, <4>4
      <4>5. QED BY <3>7, <4>3, <4>4
    <3>10. QED BY <1>2, <3>1, <3>2, <3>8, <3>9 DEF FeedInv, Above
  <2>2. ASSUME NEW n \in Nat, NEW q \in Seq(Nat), NEW m \in Nat, n = m + 1,
               \A k \in DOMAIN q : q[k] <= m,
               \A i, j \in DOMAIN q : i < j => q[i] < q[j]
        PROVE  /\ \A k \in DOMAIN Append(q, n) : Append(q, n)[k] <= n
               /\ \A k \in DOMAIN Append(q, n) : Append(q, n)[k] = n \/ \E j \in DOMAIN q : Append(q, n)[k] = q[j]
               /\ \A i, j \in DOMAIN Append(q, n) : i < j => Append(q, n)[i] < Append(q, n)[j]
    <3>. DEFINE l == Len(q)
                u == Append(q, n)
    <3>1. /\ l \in Nat /\ DOMAIN q = 1 .. l /\ DOMAIN u = 1 .. l + 1
          /\ \A k \in 1 .. l : u[k] = q[k] /\ q[k] \in Nat
          /\ u[l + 1] = n
      BY AppendProperties, LenProperties, ElementOfSeq
    <3>. HIDE DEF l, u
    <3>2. \A k \in 1 .. l + 1 : k \in 1 .. l \/ k = l + 1
      BY <3>1
    <3>3. \A k \in 1 .. l : q[k] < n
      <4>1. SUFFICES ASSUME NEW k \in 1 .. l  PROVE q[k] < n
        OBVIOUS
      <4>2. q[k] \in Nat /\ q[k] <= m
        BY <2>2, <3>1
      <4>3. QED BY <2>2, <4>2
    <3>4. \A i, j \in 1 .. l + 1 : i < j => i \in 1 .. l
      BY <3>1
    <3>5. /\ \A k \in DOMAIN u : u[k] <= n
          /\ \A k \in DOMAIN u : u[k] = n \/ \E j \in DOMAIN q : u[k] = q[j]
      BY <3>1, <3>2, <3>3
    <3>6. \A i, j \in DOMAIN u : i < j => u[i] < u[j]
      BY <2>2, <3>1, <3>2, <3>3, <3>4
    <3>7. QED BY <3>5, <3>6 DEF u
  <2>3. CASE Say
    <3>. DEFINE n == arrived["voice"] + 1
    <3>1. /\ n \in Nat /\ arrived'["voice"] = n /\ Above("voice", n)
          /\ arrived'["key"] = arrived["key"] /\ arrived'["web"] = arrived["web"]
          /\ \A r \in Sources : \A m \in Numbers(r, captured[r]) : m <= arrived'[r]
      BY <2>3, Arrives DEF Say, Sources, BoundsAssumption
    <3>2. transcripts' = Append(transcripts, n) /\ UNCHANGED <<tty, posts, captured>>
      BY <2>3 DEF Say
    <3>3. /\ \A k \in DOMAIN transcripts' : transcripts'[k] <= n
          /\ \A k \in DOMAIN transcripts' :
               transcripts'[k] = n \/ \E j \in DOMAIN transcripts : transcripts'[k] = transcripts[j]
          /\ \A i, j \in DOMAIN transcripts' : i < j => transcripts'[i] < transcripts'[j]
      <4>1. /\ arrived["voice"] \in Nat
            /\ \A k \in DOMAIN transcripts : transcripts[k] <= arrived["voice"]
            /\ \A i, j \in DOMAIN transcripts : i < j => transcripts[i] < transcripts[j]
        BY <1>1, <1>2 DEF FeedInv, Sources
      <4>2. transcripts \in Seq(Nat) /\ n = arrived["voice"] + 1 /\ n \in Nat
        BY <1>1, <3>1
      <4>. HIDE DEF n
      <4>3. /\ \A k \in DOMAIN Append(transcripts, n) : Append(transcripts, n)[k] <= n
            /\ \A k \in DOMAIN Append(transcripts, n) :
                 \/ Append(transcripts, n)[k] = n
                 \/ \E j \in DOMAIN transcripts : Append(transcripts, n)[k] = transcripts[j]
            /\ \A i, j \in DOMAIN Append(transcripts, n) :
                 i < j => Append(transcripts, n)[i] < Append(transcripts, n)[j]
        <5>1. /\ DOMAIN transcripts = 1 .. Len(transcripts) /\ Len(transcripts) \in Nat
              /\ DOMAIN Append(transcripts, n) = 1 .. Len(transcripts) + 1
              /\ Append(transcripts, n)[Len(transcripts) + 1] = n
              /\ \A k \in 1 .. Len(transcripts) : /\ Append(transcripts, n)[k] = transcripts[k]
                                                  /\ transcripts[k] \in Nat
          BY <4>2, AppendProperties, LenProperties, ElementOfSeq
        <5>. DEFINE t == Append(transcripts, n)
                    m == Len(transcripts)
        <5>2. \A k \in 1 .. m : transcripts[k] < n
          <6>. DEFINE top == arrived["voice"]
          <6>1. \A k \in 1 .. m : transcripts[k] <= top /\ transcripts[k] \in Nat
            BY <4>1, <5>1
          <6>2. top \in Nat /\ n = top + 1
            BY <4>1, <4>2
          <6>. HIDE DEF top, m
          <6>3. QED BY ONLY <6>1, <6>2
        <5>3. \A k \in DOMAIN t : k \in 1 .. m \/ k = m + 1
          BY <5>1
        <5>4. \A i, j \in DOMAIN t : i < j => i \in 1 .. m
          BY <5>1
        <5>. HIDE DEF t, m
        <5>5. /\ \A k \in DOMAIN t : t[k] <= n
              /\ \A k \in DOMAIN t : t[k] = n \/ \E j \in DOMAIN transcripts : t[k] = transcripts[j]
          BY <4>2, <5>1, <5>2, <5>3 DEF t, m
        <5>6. \A i, j \in DOMAIN t : i < j => t[i] < t[j]
          BY <4>1, <5>1, <5>2, <5>3, <5>4 DEF t, m
        <5>7. QED BY <5>5, <5>6 DEF t
      <4>4. QED BY <3>2, <4>3
    <3>. HIDE DEF n
    <3>4. QED BY <1>2, <3>1, <3>2, <3>3 DEF FeedInv, Above
  <2>4. CASE Post
    <3>. DEFINE n == arrived["web"] + 1
    <3>1. /\ n \in Nat /\ arrived'["web"] = n /\ Above("web", n)
          /\ arrived'["key"] = arrived["key"] /\ arrived'["voice"] = arrived["voice"]
          /\ \A r \in Sources : \A m \in Numbers(r, captured[r]) : m <= arrived'[r]
      BY <2>4, Arrives DEF Post, Sources, BoundsAssumption
    <3>2. posts' = Append(posts, n) /\ UNCHANGED <<tty, transcripts, captured>>
      BY <2>4 DEF Post
    <3>3. /\ \A k \in DOMAIN posts' : posts'[k] <= n
          /\ \A k \in DOMAIN posts' :
               posts'[k] = n \/ \E j \in DOMAIN posts : posts'[k] = posts[j]
          /\ \A i, j \in DOMAIN posts' : i < j => posts'[i] < posts'[j]
      <4>1. /\ arrived["web"] \in Nat
            /\ \A k \in DOMAIN posts : posts[k] <= arrived["web"]
            /\ \A i, j \in DOMAIN posts : i < j => posts[i] < posts[j]
        BY <1>1, <1>2 DEF FeedInv, Sources
      <4>2. posts \in Seq(Nat) /\ n = arrived["web"] + 1 /\ n \in Nat
        BY <1>1, <3>1
      <4>. HIDE DEF n
      <4>3. /\ \A k \in DOMAIN Append(posts, n) : Append(posts, n)[k] <= n
            /\ \A k \in DOMAIN Append(posts, n) :
                 \/ Append(posts, n)[k] = n
                 \/ \E j \in DOMAIN posts : Append(posts, n)[k] = posts[j]
            /\ \A i, j \in DOMAIN Append(posts, n) :
                 i < j => Append(posts, n)[i] < Append(posts, n)[j]
        BY <2>2, <4>1, <4>2
      <4>4. QED BY <3>2, <4>3
    <3>. HIDE DEF n
    <3>4. QED BY <1>2, <3>1, <3>2, <3>3 DEF FeedInv, Above
  <2>5. QED BY <2>1, <2>3, <2>4
<1>6. \A s \in Sources : LineKept(s)'
  BY <1>3, <1>4 DEF LinesInv, LineKept
<1>7. QED BY <1>4, <1>5, <1>6 DEF LinesInv

\* The keystrokes read are numbered above those read before.
LEMMA LinesRead ==
  ASSUME TypeInv, LinesInv, ReadKeyboard
  PROVE  LinesInv'
<1>. DEFINE typed == IF buffer.enabled THEN tty ELSE <<>>
            P     == Pieces(typed)
<1>1. /\ tty \in Seq([n : Nat, kind : Kinds])
      /\ key.line \in Seq(Piece) /\ held \in Seq(Piece) /\ captured["key"] \in Seq(Piece)
      /\ Path \in Seq(Piece) /\ arrived \in [Sources -> Nat]
      /\ captured \in [Sources -> Seq(Piece)]
  BY SequenceTypes DEF Sources, TypeInv, GhostsOK, Piece
<1>2. typed \in Seq([n : Nat, kind : Kinds]) /\ P \in Seq(Piece)
  BY <1>1, EmptySeq, PiecesType
<1>3. /\ key'.line = key.line \o P /\ tty' = <<>>
      /\ captured' = [captured EXCEPT !["key"] = captured["key"] \o P]
      /\ UNCHANGED <<held, handed, transcripts, posts, arrived>>
  BY DEF ReadKeyboard
<1>4. buffer'.user = buffer.user
  BY DEF ReadKeyboard, TypeInv, Worker, WorkerOK, Comms
<1>5. /\ \A k \in DOMAIN typed : /\ Above("key", typed[k].n) /\ typed[k].n <= arrived["key"]
                                 /\ typed[k].n \in Nat
      /\ \A i, j \in DOMAIN typed : i < j => typed[i].n < typed[j].n
  <2>1. CASE typed = <<>>
    BY <2>1
  <2>2. CASE typed = tty
    <3>. HIDE DEF typed
    <3>1. QED BY <2>2, FeedNumbers DEF LinesInv, FeedInv
  <2>3. QED BY <2>1, <2>2
<1>6. /\ DOMAIN P = DOMAIN typed /\ DOMAIN typed \subseteq Nat
      /\ \A k \in DOMAIN typed : P[k][1] = "key" /\ P[k][2] = typed[k].n
  BY <1>2, LenProperties DEF Pieces
<1>. HIDE DEF P, typed
<1>7. /\ \A s \in Sources : s # "key" => Numbers(s, P) = {}
      /\ \A x \in Numbers("key", P) : Above("key", x) /\ x <= arrived["key"]
      /\ InOrder("key", P)
  BY <1>5, <1>6 DEF Numbers, InOrder, Sources
<1>8. Path' = Path
  BY <1>3, <1>4 DEF Path
<1>9. /\ \A s \in Sources : Numbers(s, key'.line) = Numbers(s, key.line) \cup Numbers(s, P)
      /\ Numbers("key", captured'["key"]) = Numbers("key", captured["key"]) \cup Numbers("key", P)
      /\ \A s \in Sources : s # "key" => captured'[s] = captured[s]
  <2>1. captured'["key"] = captured["key"] \o P
    BY <1>1, <1>3 DEF Sources
  <2>2. \A s \in Sources : Numbers(s, key'.line) = Numbers(s, key.line) \cup Numbers(s, P)
    <3>. DEFINE K == key.line
    <3>1. K \in Seq(Piece) /\ key'.line = K \o P
      BY <1>1, <1>3
    <3>. HIDE DEF K
    <3>2. \A s \in Sources : Numbers(s, key'.line) = Numbers(s, K) \cup Numbers(s, P)
      BY <1>2, <3>1, TwoParts
    <3>3. QED BY <3>2 DEF K
  <2>3. Numbers("key", captured'["key"]) = Numbers("key", captured["key"]) \cup Numbers("key", P)
    <3>. DEFINE C == captured["key"]
    <3>1. C \in Seq(Piece) /\ captured'["key"] = C \o P
      BY <1>1, <2>1
    <3>. HIDE DEF C
    <3>2. Numbers("key", captured'["key"]) = Numbers("key", C) \cup Numbers("key", P)
      BY <1>2, <3>1, TwoParts
    <3>3. QED BY <3>2 DEF C
  <2>4. \A s \in Sources : s # "key" => captured'[s] = captured[s]
    BY <1>1, <1>3
  <2>5. QED BY <2>2, <2>3, <2>4
<1>10. RestInv'
  BY <1>3, <1>7, <1>9 DEF LinesInv, RestInv
<1>11. FeedInv'
  <2>1. \A s \in Sources : \A m \in Numbers(s, captured'[s]) : m <= arrived'[s]
    BY <1>3, <1>7, <1>9 DEF LinesInv, FeedInv
  <2>2. \A s \in Sources : s # "key" => \A n : Above(s, n)' <=> Above(s, n)
    BY <1>9 DEF Above
  <2>3. DOMAIN tty' = {}
    BY <1>3
  <2>4. QED BY <1>3, <2>1, <2>2, <2>3 DEF LinesInv, FeedInv, Sources
<1>12. ASSUME NEW s \in Sources  PROVE LineKept(s)'
  <2>1. LineKept(s)
    BY DEF LinesInv
  <2>2. CASE s # "key"
    <3>1. Rest(s)' = Rest(s)
      BY <1>3, <2>2 DEF Rest
    <3>2. QED BY <1>8, <1>9, <2>1, <2>2, <3>1 DEF LineKept
  <2>3. CASE s = "key"
    <3>1. Rest(s)' = key.line \o P /\ Rest(s) = key.line
      BY <1>3, <2>3 DEF Rest
    <3>. DEFINE before == Path \o key.line
    <3>2. before \in Seq(Piece) /\ Path \o (key.line \o P) = before \o P
      <4>. DEFINE H == Path
                  K == key.line
      <4>1. H \in Seq(Piece) /\ K \in Seq(Piece)
        BY <1>1
      <4>. HIDE DEF H, K
      <4>2. H \o K \in Seq(Piece) /\ H \o (K \o P) = (H \o K) \o P
        <5>1. P \in Seq(Piece) /\ H \o K \in Seq(Piece)
          BY <1>2, <4>1, ConcatProperties
        <5>2. H \o (K \o P) = (H \o K) \o P
          <6>1. Grouped(H, K, P)
            BY ONLY <4>1, <5>1, ConcatGrouped
          <6>2. QED BY ONLY <6>1 DEF Grouped
        <5>3. QED BY <5>1, <5>2
      <4>3. QED BY <4>2 DEF H, K
    <3>3. Numbers(s, before) = Numbers(s, captured[s]) /\ InOrder(s, before)
      BY <2>1, <3>1 DEF LineKept
    <3>. HIDE DEF before
    <3>4. Precedes(s, before, P)
      BY <1>7, <2>3, <3>3 DEF Precedes, Above
    <3>5. /\ Numbers(s, before \o P) = Numbers(s, before) \cup Numbers(s, P)
          /\ InOrder(s, before \o P)
      BY <1>2, <1>7, <2>3, <3>2, <3>3, <3>4, TwoParts
    <3>6. QED BY <1>8, <1>9, <2>3, <3>1, <3>2, <3>3, <3>5 DEF LineKept
  <2>4. QED BY <2>2, <2>3
<1>13. QED BY <1>10, <1>11, <1>12 DEF LinesInv
-----------------------------------------------------------------------------
LEMMA NoneOf ==
  ASSUME NEW s, NEW a, Numbers(s, a) = {}
  PROVE  InOrder(s, a) /\ \A b : Precedes(s, a, b) /\ Precedes(s, b, a)
BY DEF Numbers, InOrder, Precedes

\* What stays of a feed when its head is taken.
LEMMA TailRises ==
  ASSUME NEW q \in Seq(Nat), q # <<>>, \A i, j \in DOMAIN q : i < j => q[i] < q[j]
  PROVE  /\ Head(q) \in Nat /\ 1 \in DOMAIN q /\ Head(q) = q[1]
         /\ \A k \in DOMAIN Tail(q) : k + 1 \in DOMAIN q /\ Tail(q)[k] = q[k + 1]
                                      /\ Head(q) < Tail(q)[k]
         /\ \A i, j \in DOMAIN Tail(q) : i < j => Tail(q)[i] < Tail(q)[j]
<1>. DEFINE l == Len(q)
            t == Tail(q)
<1>1. /\ Head(q) \in Nat /\ Head(q) = q[1] /\ l \in Nat /\ l # 0 /\ DOMAIN q = 1 .. l
      /\ t \in Seq(Nat) /\ Len(t) = l - 1 /\ DOMAIN t = 1 .. l - 1
      /\ \A k \in 1 .. l - 1 : t[k] = q[k + 1]
  BY HeadTailProperties, EmptySeq, LenProperties
<1>. HIDE DEF l, t
<1>2. 1 \in 1 .. l /\ \A k \in 1 .. l - 1 : k + 1 \in 1 .. l /\ 1 < k + 1
  BY <1>1
<1>3. \A k \in 1 .. l - 1 : q[1] < q[k + 1]
  BY <1>1, <1>2
<1>4. \A i, j \in 1 .. l - 1 : i < j => i + 1 < j + 1
  BY <1>1
<1>5. \A i, j \in 1 .. l - 1 : i < j => q[i + 1] < q[j + 1]
  BY <1>1, <1>2, <1>4
<1>6. QED BY <1>1, <1>2, <1>3, <1>5 DEF t

\* A merge moves what was under way, and appends what it takes at the end of its
\* source's pieces.
LEMMA LinesMerge ==
  ASSUME TypeInv, LinesInv, MergeInput
  PROVE  LinesInv'
<1>1. PICK h \in {<<>>, held} :
        /\ buffer'.user = ((buffer.user \o WebPart) \o h) \o KeyPart
        /\ held' = (IF h = held THEN <<>> ELSE held) \o SaidPart
  BY MergeMoves
<1>2. /\ key'.line = IF key.enter THEN <<>> ELSE key.line
      /\ captured' = [captured EXCEPT !["web"] = @ \o WebPart, !["voice"] = @ \o SaidPart]
      /\ posts' = IF posts # <<>> THEN Tail(posts) ELSE posts
      /\ transcripts' = IF VocaEvent = "text" THEN Tail(transcripts) ELSE transcripts
      /\ UNCHANGED <<tty, arrived, handed>>
  BY MergeMoves
<1>3. /\ key.line \in Seq(Piece) /\ held \in Seq(Piece) /\ h \in Seq(Piece)
      /\ <<>> \in Seq(Piece)
      /\ Path \in Seq(Piece) /\ captured \in [Sources -> Seq(Piece)]
      /\ arrived \in [Sources -> Nat] /\ posts \in Seq(Nat) /\ transcripts \in Seq(Nat)
      /\ handed \in Seq(Piece)
      /\ buffer.user \in Seq(Piece)
  BY SequenceTypes, EmptySeq DEF TypeInv, GhostsOK, Piece
<1>4. WebPart \in Seq(Piece) /\ KeyPart \in Seq(Piece) /\ SaidPart \in Seq(Piece)
  BY PartsType
<1>. DEFINE W == WebPart
            K == KeyPart
            S == SaidPart
            left == IF h = held THEN <<>> ELSE held
<1>5. left \in Seq(Piece) /\ left \o S \in Seq(Piece)
  BY <1>3, <1>4, ConcatProperties
<1>6. Path' = ((Path \o W) \o h) \o K
  <2>. DEFINE H == handed
              B == buffer.user
  <2>1. H \in Seq(Piece) /\ B \in Seq(Piece)
    BY <1>3, ConcatProperties
  <2>2. Path' = H \o (((B \o W) \o h) \o K) /\ Path = H \o B
    BY <1>1, <1>2 DEF Path
  <2>3. W \in Seq(Piece) /\ K \in Seq(Piece)
    BY <1>4
  <2>. HIDE DEF H, B, W, K
  <2>. DEFINE BW  == B \o W
              BWH == BW \o h
  <2>4. BW \in Seq(Piece) /\ H \o BW = (H \o B) \o W
    <3>1. B \o W \in Seq(Piece)
      BY <2>1, <2>3, ConcatProperties
    <3>2. H \o (B \o W) = (H \o B) \o W
      <4>1. Grouped(H, B, W)
        BY ONLY <2>1, <2>3, ConcatGrouped
      <4>2. QED BY ONLY <4>1 DEF Grouped
    <3>3. QED BY <3>1, <3>2
  <2>. HIDE DEF BW
  <2>5. BWH \in Seq(Piece) /\ H \o BWH = (H \o BW) \o h
    <3>1. H \in Seq(Piece) /\ BW \in Seq(Piece) /\ h \in Seq(Piece)
      BY <1>3, <2>1, <2>4
    <3>2. BW \o h \in Seq(Piece)
      BY <3>1, ConcatProperties
    <3>3. H \o (BW \o h) = (H \o BW) \o h
      <4>1. Grouped(H, BW, h)
        BY ONLY <3>1, ConcatGrouped
      <4>2. QED BY ONLY <4>1 DEF Grouped
    <3>4. QED BY <3>2, <3>3
  <2>. HIDE DEF BWH
  <2>6. H \o (BWH \o K) = (H \o BWH) \o K
    <3>1. H \in Seq(Piece) /\ BWH \in Seq(Piece) /\ K \in Seq(Piece)
      BY <2>1, <2>3, <2>5
    <3>2. Grouped(H, BWH, K)
      BY ONLY <3>1, ConcatGrouped
    <3>3. QED BY ONLY <3>2 DEF Grouped
  <2>7. QED BY <2>2, <2>4, <2>5, <2>6 DEF BW, BWH
\* The numbers of the parts.
<1>7. \A s \in Sources : /\ s # "web" => Numbers(s, W) = {}
                         /\ s # "voice" => Numbers(s, h) = {} /\ Numbers(s, left) = {}
                                           /\ Numbers(s, held) = {} /\ Numbers(s, S) = {}
                         /\ s # "key" => Numbers(s, K) = {} /\ Numbers(s, key.line) = {}
  <2>1. \A s : Numbers(s, <<>>) = {}
    BY FewNumbers
  <2>2. RestInv
    BY DEF LinesInv
  <2>3. \A s \in Sources : s # "web" => Numbers(s, W) = {}
    <3>1. CASE posts # <<>> /\ buffer.enabled
      <4>1. Head(posts) \in Nat /\ "web" \in Sources
        BY <1>3, <3>1, HeadTailProperties DEF Sources
      <4>2. \A s : Numbers(s, W) = IF "web" = s THEN {Head(posts)} ELSE {}
        BY <3>1, <4>1, FewNumbers DEF WebPart
      <4>3. QED BY <4>2
    <3>2. CASE ~(posts # <<>> /\ buffer.enabled)
      BY <2>1, <3>2 DEF WebPart
    <3>3. QED BY <3>1, <3>2
  <2>4. \A s \in Sources : s # "voice" => Numbers(s, S) = {}
    <3>1. CASE VocaEvent = "text" /\ Head(transcripts) \notin ExitPhrases
      <4>1. SaidPart = <<<<"voice", Head(transcripts)>>>>
        BY <3>1 DEF SaidPart
      <4>2. Head(transcripts) \in Nat /\ "voice" \in Sources
        BY <1>3, <3>1, TextPending, HeadTailProperties DEF Sources
      <4>3. \A s : Numbers(s, S) = IF "voice" = s THEN {Head(transcripts)} ELSE {}
        BY <4>1, <4>2, FewNumbers
      <4>4. QED BY <4>3
    <3>2. CASE ~(VocaEvent = "text" /\ Head(transcripts) \notin ExitPhrases)
      BY <2>1, <3>2 DEF SaidPart
    <3>3. QED BY <3>1, <3>2
  <2>. HIDE DEF W, S
  <2>5. QED BY <2>1, <2>2, <2>3, <2>4 DEF RestInv, KeyPart
<1>8. /\ \A x \in Numbers("web", W) : Above("web", x) /\ x <= arrived["web"]
                                      /\ \A k \in DOMAIN posts' : x < posts'[k]
      /\ \A x \in Numbers("voice", S) : Above("voice", x) /\ x <= arrived["voice"]
                                        /\ \A k \in DOMAIN transcripts' : x < transcripts'[k]
      /\ InOrder("web", W) /\ InOrder("voice", S)
  <2>1. FeedInv
    BY DEF LinesInv
  <2>2. /\ \A x \in Numbers("web", W) : Above("web", x) /\ x <= arrived["web"]
                                      /\ \A k \in DOMAIN posts' : x < posts'[k]
        /\ InOrder("web", W)
    <3>1. CASE posts # <<>> /\ buffer.enabled
      <4>1. /\ Head(posts) \in Nat /\ 1 \in DOMAIN posts /\ Head(posts) = posts[1]
            /\ \A k \in DOMAIN posts' : Head(posts) < posts'[k]
        BY <1>2, <1>3, <2>1, <3>1, TailRises DEF FeedInv
      <4>2. Above("web", Head(posts)) /\ Head(posts) <= arrived["web"]
        BY <2>1, <4>1 DEF FeedInv
      <4>3. Numbers("web", W) = {Head(posts)} /\ InOrder("web", W)
        BY <3>1, <4>1, FewNumbers DEF WebPart, Sources
      <4>. HIDE DEF W
      <4>4. QED BY <4>1, <4>2, <4>3
    <3>2. CASE ~(posts # <<>> /\ buffer.enabled)
      BY <3>2, FewNumbers DEF WebPart
    <3>3. QED BY <3>1, <3>2
  <2>3. /\ \A x \in Numbers("voice", S) : Above("voice", x) /\ x <= arrived["voice"]
                                        /\ \A k \in DOMAIN transcripts' : x < transcripts'[k]
        /\ InOrder("voice", S)
    <3>1. CASE VocaEvent = "text" /\ Head(transcripts) \notin ExitPhrases
      <4>1. transcripts # <<>> /\ transcripts' = Tail(transcripts)
        BY <1>2, <3>1, TextPending
      <4>2. /\ Head(transcripts) \in Nat /\ 1 \in DOMAIN transcripts
            /\ Head(transcripts) = transcripts[1]
            /\ \A k \in DOMAIN transcripts' : Head(transcripts) < transcripts'[k]
        BY <1>3, <2>1, <4>1, TailRises DEF FeedInv
      <4>3. Above("voice", Head(transcripts)) /\ Head(transcripts) <= arrived["voice"]
        BY <2>1, <4>2 DEF FeedInv
      <4>4. SaidPart = <<<<"voice", Head(transcripts)>>>>
        BY <3>1 DEF SaidPart
      <4>5. Numbers("voice", S) = {Head(transcripts)} /\ InOrder("voice", S)
        BY <4>2, <4>4, FewNumbers DEF Sources
      <4>. HIDE DEF S
      <4>6. QED BY <4>2, <4>3, <4>5
    <3>2. CASE ~(VocaEvent = "text" /\ Head(transcripts) \notin ExitPhrases)
      BY <3>2, FewNumbers DEF SaidPart
    <3>3. QED BY <3>1, <3>2
  <2>4. QED BY <2>2, <2>3
<1>9. /\ Numbers("web", captured'["web"]) = Numbers("web", captured["web"]) \cup Numbers("web", W)
      /\ Numbers("voice", captured'["voice"])
           = Numbers("voice", captured["voice"]) \cup Numbers("voice", S)
      /\ captured'["key"] = captured["key"]
  <2>1. \A a \in Seq(Piece) : /\ Numbers("web", a \o W) = Numbers("web", a) \cup Numbers("web", W)
                              /\ Numbers("voice", a \o S) = Numbers("voice", a) \cup Numbers("voice", S)
    BY <1>4, TwoParts
  <2>2. /\ captured["web"] \in Seq(Piece) /\ captured["voice"] \in Seq(Piece)
        /\ captured'["web"] = captured["web"] \o W /\ captured'["voice"] = captured["voice"] \o S
        /\ captured'["key"] = captured["key"]
    BY <1>2, <1>3 DEF Sources
  <2>. HIDE DEF W, S
  <2>3. QED BY <2>1, <2>2
<1>10. \A s \in Sources :
         Numbers(s, left \o S) = Numbers(s, left) \cup Numbers(s, S)
  <2>1. S \in Seq(Piece) /\ left \in Seq(Piece)
    BY <1>4, <1>5
  <2>. HIDE DEF S, left
  <2>2. QED BY <2>1, TwoParts
<1>11. RestInv'
  <2>1. \A s \in Sources : s # "voice" => Numbers(s, held') = {}
    BY <1>1, <1>7, <1>10
  <2>2. \A s \in Sources : s # "key" => Numbers(s, key'.line) = {}
    BY <1>2, <1>7, FewNumbers
  <2>3. QED BY <2>1, <2>2 DEF RestInv
<1>12. FeedInv'
  <2>1. FeedInv
    BY DEF LinesInv
  <2>. HIDE DEF W, S
  <2>2. /\ \A k \in DOMAIN posts' : Above("web", posts'[k]) /\ posts'[k] <= arrived["web"]
        /\ \A i, j \in DOMAIN posts' : i < j => posts'[i] < posts'[j]
    <3>1. CASE posts # <<>>
      BY <1>2, <1>3, <2>1, <3>1, TailRises DEF FeedInv
    <3>2. CASE posts = <<>>
      BY <1>2, <2>1, <3>2 DEF FeedInv
    <3>3. QED BY <3>1, <3>2
  <2>3. /\ \A k \in DOMAIN transcripts' : /\ Above("voice", transcripts'[k])
                                          /\ transcripts'[k] <= arrived["voice"]
        /\ \A i, j \in DOMAIN transcripts' : i < j => transcripts'[i] < transcripts'[j]
    <3>1. CASE VocaEvent = "text"
      BY <1>2, <1>3, <2>1, <3>1, TextPending, TailRises DEF FeedInv
    <3>2. CASE VocaEvent # "text"
      BY <1>2, <2>1, <3>2 DEF FeedInv
    <3>3. QED BY <3>1, <3>2
  <2>4. \A k \in DOMAIN posts' : \A m \in Numbers("web", captured'["web"]) : m < posts'[k]
    BY <1>8, <1>9, <2>2 DEF Above
  <2>5. \A k \in DOMAIN transcripts' :
           \A m \in Numbers("voice", captured'["voice"]) : m < transcripts'[k]
    BY <1>8, <1>9, <2>3 DEF Above
  <2>6. \A k \in DOMAIN tty' : /\ \A m \in Numbers("key", captured'["key"]) : m < tty'[k].n
                               /\ tty'[k].n <= arrived["key"]
    BY <1>2, <1>9, <2>1 DEF FeedInv, Above
  <2>7. \A s \in Sources : \A m \in Numbers(s, captured'[s]) : m <= arrived[s]
    BY <1>8, <1>9, <2>1 DEF FeedInv, Sources
  <2>8. arrived' = arrived /\ \A i, j \in DOMAIN tty' : i < j => tty'[i].n < tty'[j].n
    BY <1>2, <2>1 DEF FeedInv
  <2>9. QED BY <2>2, <2>3, <2>4, <2>5, <2>6, <2>7, <2>8 DEF FeedInv, Above
<1>13. ASSUME NEW s \in Sources  PROVE LineKept(s)'
  <2>. DEFINE T == Rest(s)'
              A == Path
  <2>1. T \in Seq(Piece) /\ A \in Seq(Piece) /\ W \in Seq(Piece) /\ K \in Seq(Piece)
        /\ S \in Seq(Piece) /\ h \in Seq(Piece)
    BY <1>1, <1>2, <1>3, <1>4, <1>5 DEF Rest
  <2>2. T = IF s = "key" THEN (IF key.enter THEN <<>> ELSE key.line)
            ELSE IF s = "voice" THEN left \o S ELSE <<>>
    BY <1>1, <1>2 DEF Rest
  <2>3. Path' \o Rest(s)' = (((A \o W) \o h) \o K) \o T
    BY <1>6
  <2>4. /\ Numbers(s, A) \cup Numbers(s, Rest(s)) = Numbers(s, captured[s])
        /\ InOrder(s, A) /\ InOrder(s, Rest(s)) /\ Precedes(s, A, Rest(s))
    <3>1. Rest(s) \in Seq(Piece)
      BY SequenceTypes
    <3>2. QED BY <1>3, <3>1, TwoParts DEF LinesInv, LineKept
  <2>. HIDE DEF A, T, W, K, S
  <2>5. /\ Numbers(s, (((A \o W) \o h) \o K) \o T)
             = Numbers(s, A) \cup Numbers(s, W) \cup Numbers(s, h) \cup Numbers(s, K)
                 \cup Numbers(s, T)
        /\ /\ InOrder(s, A) /\ InOrder(s, W) /\ InOrder(s, h) /\ InOrder(s, K) /\ InOrder(s, T)
           /\ Precedes(s, A, W) /\ Precedes(s, A, h) /\ Precedes(s, A, K) /\ Precedes(s, A, T)
           /\ Precedes(s, W, h) /\ Precedes(s, W, K) /\ Precedes(s, W, T)
           /\ Precedes(s, h, K) /\ Precedes(s, h, T) /\ Precedes(s, K, T)
           => InOrder(s, (((A \o W) \o h) \o K) \o T)
    BY <2>1, FiveParts, SMTT(30)
  <2>6. SUFFICES /\ Numbers(s, A) \cup Numbers(s, W) \cup Numbers(s, h) \cup Numbers(s, K)
                      \cup Numbers(s, T) = Numbers(s, captured'[s])
                 /\ InOrder(s, A) /\ InOrder(s, W) /\ InOrder(s, h) /\ InOrder(s, K) /\ InOrder(s, T)
                 /\ Precedes(s, A, W) /\ Precedes(s, A, h) /\ Precedes(s, A, K) /\ Precedes(s, A, T)
                 /\ Precedes(s, W, h) /\ Precedes(s, W, K) /\ Precedes(s, W, T)
                 /\ Precedes(s, h, K) /\ Precedes(s, h, T) /\ Precedes(s, K, T)
    BY <2>3, <2>5 DEF LineKept
  <2>7. CASE s = "web"
    <3>1. Rest(s) = <<>> /\ T = <<>> /\ Numbers(s, <<>>) = {}
      BY <2>2, <2>7, FewNumbers DEF Rest
    <3>2. Numbers(s, h) = {} /\ Numbers(s, K) = {} /\ Numbers(s, T) = {}
      BY <1>7, <2>7, <3>1
    <3>3. Precedes(s, A, W)
      BY <1>8, <2>4, <2>7 DEF Precedes, Above
    <3>4. QED BY <1>8, <1>9, <2>4, <2>7, <3>1, <3>2, <3>3, NoneOf
  <2>8. CASE s = "key"
    <3>1. Numbers(s, W) = {} /\ Numbers(s, h) = {} /\ Numbers(s, <<>>) = {}
      BY <1>7, <2>8, FewNumbers
    <3>2. Rest(s) = key.line
      BY <2>8 DEF Rest
    <3>3. CASE key.enter
      <4>1. K = key.line /\ T = <<>>
        BY <2>2, <2>8, <3>3 DEF K, KeyPart
      <4>2. QED BY <1>9, <2>4, <2>8, <3>1, <3>2, <4>1, NoneOf
    <3>4. CASE ~key.enter
      <4>1. K = <<>> /\ T = key.line
        BY <2>2, <2>8, <3>4 DEF K, KeyPart
      <4>2. QED BY <1>9, <2>4, <2>8, <3>1, <3>2, <4>1, NoneOf
    <3>5. QED BY <3>3, <3>4
  <2>9. CASE s = "voice"
    <3>1. Numbers(s, W) = {} /\ Numbers(s, K) = {} /\ Numbers(s, <<>>) = {}
      BY <1>7, <2>9, FewNumbers
    <3>2. Rest(s) = held /\ T = left \o S
      BY <2>2, <2>9 DEF Rest
    <3>3. /\ Numbers(s, captured'[s]) = Numbers(s, captured[s]) \cup Numbers(s, S)
          /\ InOrder(s, S)
      BY <1>8, <1>9, <2>9
    <3>4. Precedes(s, A, S) /\ Precedes(s, held, S)
      BY <1>8, <2>4, <2>9, <3>2 DEF Precedes, Above
    <3>5. left \in Seq(Piece)
      BY <1>5
    <3>6. /\ Numbers(s, T) = Numbers(s, left) \cup Numbers(s, S)
          /\ InOrder(s, T) <=> InOrder(s, left) /\ InOrder(s, S) /\ Precedes(s, left, S)
      <4>1. T = left \o S /\ left \in Seq(Piece) /\ S \in Seq(Piece)
        BY <2>1, <3>2, <3>5
      <4>. HIDE DEF left
      <4>2. QED BY <4>1, TwoParts
    <3>7. CASE h = held
      <4>1. left = <<>>
        BY <3>7
      <4>2. Numbers(s, T) = Numbers(s, S) /\ InOrder(s, T)
        BY <3>1, <3>3, <3>6, <4>1, NoneOf
      <4>3. Precedes(s, A, T) /\ Precedes(s, h, T)
        BY <3>4, <3>7, <4>2 DEF Precedes
      <4>. HIDE DEF left
      <4>4. QED BY <2>4, <3>1, <3>2, <3>3, <3>7, <4>2, <4>3, NoneOf
    <3>8. CASE h # held
      <4>1. left = held /\ h = <<>>
        BY <1>1, <3>8
      <4>2. Numbers(s, T) = Numbers(s, held) \cup Numbers(s, S) /\ InOrder(s, T)
        BY <2>4, <3>2, <3>3, <3>4, <3>6, <4>1
      <4>3. Precedes(s, A, T)
        BY <2>4, <3>2, <3>4, <4>2 DEF Precedes
      <4>. HIDE DEF left
      <4>4. QED BY <2>4, <3>1, <3>2, <3>3, <4>1, <4>2, <4>3, NoneOf
    <3>9. QED BY <3>7, <3>8
  <2>10. QED BY <2>7, <2>8, <2>9 DEF Sources
<1>14. QED BY <1>11, <1>12, <1>13 DEF LinesInv
-----------------------------------------------------------------------------
\* exchange() hands over the line that is pending.
LEMMA LinesMove ==
  ASSUME TypeInv, LinesInv, Relay
  PROVE  LinesInv'
<1>. DEFINE A == handed
            B == buffer.user
<1>1. A \in Seq(Piece) /\ B \in Seq(Piece) /\ buffer \in Comms
  BY SequenceTypes DEF TypeInv, Worker, WorkerOK
<1>2. UNCHANGED <<key, held, captured, tty, transcripts, posts, arrived>>
  BY DEF Relay
<1>3. handed' = A \o B
  BY DEF Relay
<1>4. buffer'.user = <<>>
  BY <1>1 DEF Relay, TakenInput, Comms
<1>5. Path' = (A \o B) \o <<>> /\ Path = A \o B
  BY <1>3, <1>4 DEF Path
<1>. HIDE DEF A, B
<1>6. Path' = Path
  <2>1. A \o B \in Seq(Piece)
    BY <1>1, ConcatProperties
  <2>2. QED BY <1>5, <2>1, ConcatEmptySeq
<1>7. RestInv' /\ FeedInv'
  BY <1>2 DEF LinesInv, RestInv, FeedInv, Above
<1>8. \A s \in Sources : Rest(s)' = Rest(s)
  BY <1>2 DEF Rest
<1>9. \A s \in Sources : LineKept(s)'
  BY <1>2, <1>6, <1>8 DEF LinesInv, LineKept
<1>10. QED BY <1>7, <1>9 DEF LinesInv

LEMMA LinesStep == TypeInv /\ LinesInv /\ [Next]_vars => LinesInv'
<1>. SUFFICES ASSUME TypeInv, LinesInv, [Next]_vars  PROVE LinesInv'
  OBVIOUS
<1>1. buffer \in Comms
  BY DEF TypeInv, Worker, WorkerOK
<1>2. ASSUME PressCtrlC \/ Stream \/ (\E kind \in {"interrupt", "status"} : Signal(kind))
      PROVE LinesInv'
  BY <1>2, LinesFrame DEF PressCtrlC, Stream, Signal
<1>3. CASE LookAtFlag \/ BeginPass \/ EndWorker
  BY <1>3, LinesFrame DEF LookAtFlag, BeginPass, EndWorker
<1>4. CASE ShareOutput
  <2>1. buffer'.user = buffer.user
    BY <1>1, <1>4 DEF ShareOutput, Cleared, Comms
  <2>2. QED BY <1>4, <2>1, LinesFrame DEF ShareOutput
<1>5. CASE Raise \/ WaitOut
  BY <1>5, LinesFrame DEF Raise, WaitOut
<1>6. CASE Elsewhere
  BY <1>6, LinesFrame, ElsewhereFrame
<1>7. CASE UNCHANGED vars
  BY <1>7, LinesFrame DEF vars
<1>8. CASE Arrival
  BY <1>2, <1>8, LinesArrive DEF Arrival
<1>9. CASE Pass
  BY <1>3, <1>4, <1>9, LinesRead, LinesMerge DEF Pass
<1>10. CASE Exchange
  BY <1>5, <1>10, LinesMove DEF Exchange
<1>11. QED BY <1>6, <1>7, <1>8, <1>9, <1>10 DEF Next, Tick, Ended, Elsewhere

\* What is typed, spoken and posted is neither lost nor doubled nor reordered on its way
\* through comms_buffer, up to the moment exchange() hands it over, whatever the
\* interleaving of passes, exchanges and consultations.
THEOREM InputHandedOnce == Spec => []HandedOnce
<1>. DEFINE IInv == TypeInv /\ LinesInv
<1>1. Init => IInv
  BY TypeInit, LinesInit
<1>2. IInv /\ [Next]_vars => IInv'
  BY TypeStep, LinesStep
<1>3. IInv => HandedOnce
  BY HandedOnceThen
<1>4. QED BY <1>1, <1>2, <1>3, PTL DEF Spec

-----------------------------------------------------------------------------
(* The voice: which spoken pieces' interrupt exchange() has handed over.    *)

\* A merge leaves a pending interrupt, and raises one for what is said unless an Enter
\* comes with it.
LEMMA MergeMarks ==
  ASSUME TypeInv, FlagsInv, MergeInput, ~overlapped
  PROVE  /\ buffer.interrupted => buffer'.interrupted
         /\ overtaken \subseteq overtaken'
         /\ SaidPart # <<>> => \/ buffer'.interrupted
                              \/ <<"voice", Head(transcripts)>> \in overtaken'
<1>. DEFINE posted  == posts # <<>> /\ buffer.enabled
            web     == IF posted THEN Submit(buffer, <<<<"web", Head(posts)>>>>) ELSE buffer
            release == Released(web)
            voiced  == IF release THEN Submit(web, held) ELSE web
            event   == VocaEvent
            said    == event = "text" /\ Head(transcripts) \notin ExitPhrases
            status  == IF event = "status" THEN [voiced EXCEPT !.system = @ + 1] ELSE voiced
            stop    == key.interrupted \/ event = "interrupt" \/ said \/ web_interrupt
            stopped == IF stop THEN [status EXCEPT !.interrupted = TRUE] ELSE status
<1>1. /\ buffer' = IF key.enter THEN Submit(stopped, key.line) ELSE stopped
      /\ overtaken' = IF said /\ key.enter
                      THEN overtaken \cup {<<"voice", Head(transcripts)>>} ELSE overtaken
  BY DEF MergeInput
<1>2. buffer \in Comms /\ snapshot = buffer /\ Paired(buffer)
      /\ held \in Seq(Piece) /\ posts \in Seq(Nat)
  BY DEF MergeInput, TypeInv, Worker, WorkerOK, FeedsOK, FlagsInv, Piece
<1>3. web \in Comms /\ Paired(web) /\ web.interrupted = buffer.interrupted
  <2>1. CASE posted
    <3>1. <<<<"web", Head(posts)>>>> \in Seq(Piece) /\ <<<<"web", Head(posts)>>>> # <<>>
      BY <1>2, <2>1, HeadTailProperties DEF Piece, Sources
    <3>2. web \in Comms /\ Paired(web)
      BY <1>2, <2>1, <3>1, SubmitProperties
    <3>3. web.interrupted = buffer.interrupted
      BY <1>2, <2>1 DEF Submit, Comms
    <3>4. QED BY <3>2, <3>3
  <2>2. CASE ~posted
    BY <1>2, <2>2
  <2>3. QED BY <2>1, <2>2
<1>4. voiced \in Comms /\ voiced.interrupted = buffer.interrupted
  <2>1. release => held # <<>>
    BY DEF Released
  <2>. HIDE DEF web, release
  <2>2. voiced \in Comms
    BY <1>2, <1>3, <2>1, SubmitProperties
  <2>3. voiced.interrupted = buffer.interrupted
    BY <1>2, <1>3 DEF Submit, Comms
  <2>4. QED BY <2>2, <2>3
<1>5. status.interrupted = buffer.interrupted /\ status \in Comms
  <2>. HIDE DEF voiced, event
  <2>1. voiced.system + 1 \in Nat
    BY <1>4 DEF Comms
  <2>. DEFINE noted == [voiced EXCEPT !.system = @ + 1]
  <2>2. noted \in Comms /\ noted.interrupted = buffer.interrupted
    BY <1>4, <2>1 DEF Comms
  <2>3. QED BY <1>4, <2>2
<1>6. stopped.interrupted = (buffer.interrupted \/ stop) /\ stopped \in Comms
  <2>. HIDE DEF status, stop
  <2>1. QED BY <1>5 DEF Comms
<1>7. SaidPart # <<>> <=> said
  BY DEF SaidPart
<1>8. buffer'.interrupted \in {stopped.interrupted, buffer.interrupted}
      /\ (~key.enter => buffer'.interrupted = stopped.interrupted)
  <2>. HIDE DEF stopped
  <2>1. [stopped EXCEPT !.user = @ \o key.line].interrupted = stopped.interrupted
    BY <1>6 DEF Comms
  <2>2. [snapshot EXCEPT !.user = key.line, !.enter = TRUE].interrupted = buffer.interrupted
    BY <1>2 DEF Comms
  <2>3. QED BY <1>1, <2>1, <2>2 DEF Submit
<1>9. said => stop
  OBVIOUS
<1>. HIDE DEF stopped, stop, said
<1>10. QED BY <1>1, <1>6, <1>7, <1>8, <1>9
-----------------------------------------------------------------------------
\* The piece x was submitted.
Sent(x) == InSeq(handed, x) \/ InSeq(buffer.user, x)

\* Its interrupt was handed over, or it was taken in one pass with an Enter.
Marked == warned \cup overtaken

\* A held piece is marked, or its interrupt waits in comms_buffer; a submitted one is.
VoiceInv ==
  /\ \A x : InSeq(held, x) => buffer.interrupted \/ x \in Marked
  /\ \A x : Sent(x) /\ x[1] = "voice" => x \in Marked

LEMMA VoiceInit == Init => VoiceInv
<1>1. SUFFICES ASSUME Init  PROVE VoiceInv
  OBVIOUS
<1>2. \A x : ~InSeq(<<>>, x)
  BY EmptySeq DEF InSeq
<1>3. buffer.user = <<>> /\ held = <<>> /\ handed = <<>>
  BY <1>1 DEF Init, Fresh
<1>4. QED BY <1>2, <1>3 DEF VoiceInv, Sent

LEMMA SpokenAnnouncedThen == TypeInv /\ (overlapped \/ VoiceInv) => SpokenAnnounced
<1>1. SUFFICES ASSUME TypeInv, VoiceInv  PROVE SpokenAnnounced
  BY DEF SpokenAnnounced
<1>. DEFINE A == handed
            B == buffer.user
<1>2. A \in Seq(Piece) /\ B \in Seq(Piece)
  BY <1>1, SequenceTypes
<1>3. \A x : Sent(x) <=> InSeq(A, x) \/ InSeq(B, x)
  BY DEF Sent
<1>. HIDE DEF A, B
<1>4. \A x : InSeq(A \o B, x) => Sent(x)
  BY <1>2, <1>3, InConcat
<1>5. \A k \in DOMAIN (A \o B) : InSeq(A \o B, (A \o B)[k])
  BY DEF InSeq
<1>6. QED BY <1>1, <1>4, <1>5 DEF VoiceInv, SpokenAnnounced, Marked, A, B

LEMMA VoiceFrame ==
  ASSUME VoiceInv, buffer'.user = buffer.user, buffer'.interrupted = buffer.interrupted,
         UNCHANGED <<held, handed, warned, overtaken>>
  PROVE  VoiceInv'
BY DEF VoiceInv, Sent, Marked

\* What is typed is not spoken.
LEMMA TypedNotSpoken ==
  ASSUME LinesInv, NEW x, InSeq(KeyPart, x)
  PROVE  x[1] # "voice"
<1>1. Numbers("voice", key.line) = {}
  BY DEF LinesInv, RestInv, Sources
<1>2. \A k \in DOMAIN key.line : key.line[k][1] # "voice"
  BY <1>1 DEF Numbers
<1>3. ~InSeq(<<>>, x)
  BY EmptySeq DEF InSeq
<1>4. QED BY <1>2, <1>3 DEF KeyPart, InSeq

LEMMA VoiceMerge ==
  ASSUME TypeInv, FlagsInv, LinesInv, VoiceInv, MergeInput, ~overlapped
  PROVE  VoiceInv'
<1>1. PICK h \in {<<>>, held} :
        /\ buffer'.user = ((buffer.user \o WebPart) \o h) \o KeyPart
        /\ held' = (IF h = held THEN <<>> ELSE held) \o SaidPart
        /\ snapshot = buffer /\ h # <<>> => ~buffer.interrupted
  BY MergeMoves
<1>2. snapshot = buffer /\ UNCHANGED <<handed, warned>>
  BY DEF MergeInput, FlagsInv
<1>3. /\ buffer.user \in Seq(Piece) /\ held \in Seq(Piece) /\ h \in Seq(Piece)
      /\ WebPart \in Seq(Piece) /\ SaidPart \in Seq(Piece) /\ KeyPart \in Seq(Piece)
      /\ <<>> \in Seq(Piece)
  BY <1>2, SequenceTypes, PartsType, EmptySeq
<1>4. \A x : ~InSeq(<<>>, x)
  BY EmptySeq DEF InSeq
<1>5. \A x : InSeq(WebPart, x) => x[1] = "web"
  <2>1. CASE posts # <<>> /\ buffer.enabled
    <3>1. PICK p : p = <<"web", Head(posts)>>
      OBVIOUS
    <3>2. WebPart = <<p>> /\ p[1] = "web"
      BY <2>1, <3>1 DEF WebPart
    <3>3. QED BY <3>2 DEF InSeq
  <2>2. CASE ~(posts # <<>> /\ buffer.enabled)
    BY <1>4, <2>2 DEF WebPart
  <2>3. QED BY <2>1, <2>2
<1>. DEFINE B == buffer.user
            W == WebPart
            K == KeyPart
            S == SaidPart
            left == IF h = held THEN <<>> ELSE held
<1>6. \A x : InSeq(buffer'.user, x) => InSeq(B, x) \/ InSeq(W, x) \/ InSeq(h, x) \/ InSeq(K, x)
  <2>1. B \in Seq(Piece) /\ W \in Seq(Piece) /\ K \in Seq(Piece)
        /\ buffer'.user = ((B \o W) \o h) \o K
    BY <1>1, <1>3
  <2>. HIDE DEF B, W, K
  <2>. DEFINE BW == B \o W
  <2>2. BW \in Seq(Piece) /\ \A x : InSeq(BW, x) <=> InSeq(B, x) \/ InSeq(W, x)
    BY <2>1, InConcat
  <2>. HIDE DEF BW
  <2>. DEFINE BWH == BW \o h
  <2>3. BWH \in Seq(Piece) /\ \A x : InSeq(BWH, x) <=> InSeq(BW, x) \/ InSeq(h, x)
    BY <1>3, <2>2, InConcat
  <2>. HIDE DEF BWH
  <2>4. \A x : InSeq(BWH \o K, x) <=> InSeq(BWH, x) \/ InSeq(K, x)
    BY <2>1, <2>3, InConcat
  <2>5. QED BY <2>1, <2>2, <2>3, <2>4 DEF BW, BWH
<1>7. \A x : InSeq(held', x) => InSeq(left, x) \/ InSeq(S, x)
  <2>1. left \in Seq(Piece) /\ S \in Seq(Piece) /\ held' = left \o S
    BY <1>1, <1>3
  <2>. HIDE DEF left, S
  <2>2. QED BY <2>1, InConcat
<1>8. \A x : InSeq(h, x) => x \in Marked
  BY <1>1, <1>2, <1>4 DEF VoiceInv
<1>9. Marked \subseteq Marked' /\ (buffer.interrupted => buffer'.interrupted)
  BY <1>2, MergeMarks DEF Marked
<1>10. \A x : Sent(x)' /\ x[1] = "voice" => x \in Marked'
  BY <1>2, <1>5, <1>6, <1>8, <1>9, TypedNotSpoken DEF VoiceInv, Sent
<1>11. \A x : InSeq(S, x) => buffer'.interrupted \/ x \in Marked'
  <2>1. PICK p : p = <<"voice", Head(transcripts)>>
    OBVIOUS
  <2>2. S = <<p>> \/ S = <<>>
    BY <2>1 DEF SaidPart
  <2>3. S # <<>> => buffer'.interrupted \/ p \in Marked'
    BY <2>1, MergeMarks DEF Marked
  <2>4. \A x : InSeq(<<p>>, x) => x = p
    BY DEF InSeq
  <2>. HIDE DEF S
  <2>5. QED BY <1>4, <2>2, <2>3, <2>4
<1>12. \A x : InSeq(held', x) => buffer'.interrupted \/ x \in Marked'
  <2>1. \A x : InSeq(left, x) => InSeq(held, x)
    BY <1>4
  <2>. HIDE DEF left, S
  <2>2. QED BY <1>7, <1>9, <1>11, <2>1 DEF VoiceInv
<1>13. QED BY <1>10, <1>12 DEF VoiceInv

LEMMA VoiceRelay ==
  ASSUME TypeInv, VoiceInv, Relay
  PROVE  VoiceInv'
<1>1. buffer \in Comms /\ handed \in Seq(Piece) /\ buffer.user \in Seq(Piece)
  BY SequenceTypes DEF TypeInv, Worker, WorkerOK
<1>2. /\ UNCHANGED <<held, overtaken>> /\ handed' = handed \o buffer.user
      /\ warned' = IF buffer.interrupted THEN warned \cup {held[k] : k \in DOMAIN held} ELSE warned
  BY DEF Relay
<1>3. buffer'.user = <<>>
  BY <1>1 DEF Relay, TakenInput, Comms
<1>4. \A x : ~InSeq(<<>>, x)
  BY EmptySeq DEF InSeq
<1>. DEFINE A == handed
            B == buffer.user
<1>5. A \in Seq(Piece) /\ B \in Seq(Piece) /\ handed' = A \o B
  BY <1>1, <1>2
<1>6. \A x : InSeq(handed', x) => InSeq(A, x) \/ InSeq(B, x)
  <2>. HIDE DEF A, B
  <2>1. QED BY <1>5, InConcat
<1>7. \A x : Sent(x)' => Sent(x)
  BY <1>3, <1>4, <1>6 DEF Sent
<1>8. \A x : InSeq(held, x) => x \in Marked'
  BY <1>2 DEF VoiceInv, InSeq, Marked
<1>9. Marked \subseteq Marked'
  BY <1>2 DEF Marked
<1>10. QED BY <1>2, <1>7, <1>8, <1>9 DEF VoiceInv

LEMMA VoiceStep ==
  TypeInv /\ FlagsInv /\ LinesInv /\ (overlapped \/ VoiceInv) /\ [Next]_vars
    => (overlapped \/ VoiceInv)'
<1>. SUFFICES ASSUME TypeInv, FlagsInv, LinesInv, overlapped \/ VoiceInv, [Next]_vars,
                     ~overlapped'
              PROVE  VoiceInv'
  OBVIOUS
<1>o. ~overlapped /\ VoiceInv
  BY OverlapStays
<1>1. buffer \in Comms
  BY DEF TypeInv, Worker, WorkerOK
<1>2. ASSUME NEW kind \in Kinds, Press(kind)  PROVE VoiceInv'
  BY <1>2, <1>o, VoiceFrame DEF Press
<1>3. ASSUME \/ PressCtrlC \/ Say \/ Post \/ Stream
             \/ \E kind \in {"interrupt", "status"} : Signal(kind)
      PROVE  VoiceInv'
  BY <1>3, <1>o, VoiceFrame DEF PressCtrlC, Say, Post, Stream, Signal
<1>4. CASE LookAtFlag \/ BeginPass \/ EndWorker
  BY <1>4, <1>o, VoiceFrame DEF LookAtFlag, BeginPass, EndWorker
<1>5. CASE ReadKeyboard
  <2>1. buffer' = [buffer EXCEPT !.exit = @ \/ ctrl_c]
    BY <1>5 DEF ReadKeyboard
  <2>2. buffer'.user = buffer.user /\ buffer'.interrupted = buffer.interrupted
    BY <1>1, <2>1 DEF Comms
  <2>3. UNCHANGED <<held, handed, warned, overtaken>>
    BY <1>5 DEF ReadKeyboard
  <2>4. QED BY <1>o, <2>2, <2>3, VoiceFrame
<1>6. CASE ShareOutput
  <2>1. buffer'.user = buffer.user /\ buffer'.interrupted = buffer.interrupted
    BY <1>1, <1>6 DEF ShareOutput, Cleared, Comms
  <2>2. UNCHANGED <<held, handed, warned, overtaken>>
    BY <1>6 DEF ShareOutput
  <2>3. QED BY <1>o, <2>1, <2>2, VoiceFrame
<1>7. CASE Raise \/ WaitOut
  BY <1>7, <1>o, VoiceFrame DEF Raise, WaitOut
<1>8. CASE Elsewhere
  BY <1>8, <1>o, VoiceFrame, ElsewhereFrame
<1>9. CASE UNCHANGED vars
  BY <1>9, <1>o, VoiceFrame DEF vars
<1>10. QED
  BY <1>o, <1>2, <1>3, <1>4, <1>5, <1>6, <1>7, <1>8, <1>9, VoiceMerge, VoiceRelay
     DEF Next, Arrival, Pass, Tick, Exchange, Ended, Elsewhere

\* With any typing, posting and signalling around it: a spoken line is handed over only
\* after the interrupt it raised, unless an Enter was taken in the pass that took it
\* (io_worker.cpp:1160 for the rule, 1266 for the exception).
THEOREM VoiceAnnounced == Spec => []SpokenAnnounced
<1>. DEFINE IInv == TypeInv /\ FlagsInv /\ LinesInv /\ (overlapped \/ VoiceInv)
<1>1. Init => IInv
  BY TypeInit, FlagsInit, LinesInit, VoiceInit
<1>2. IInv /\ [Next]_vars => IInv'
  BY TypeStep, FlagsStep, LinesStep, VoiceStep
<1>3. IInv => SpokenAnnounced
  BY SpokenAnnouncedThen
<1>4. QED BY <1>1, <1>2, <1>3, PTL DEF Spec

=============================================================================
