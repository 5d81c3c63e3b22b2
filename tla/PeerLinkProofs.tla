--------------------------- MODULE PeerLinkProofs ---------------------------
(***************************************************************************)
(* The safety of PeerLink for every bound on the messages: TypeOK, the     *)
(* four invariants of the runs, and the refinement of LinkContract.        *)
(***************************************************************************)
EXTENDS PeerLink, TLAPS, SequenceTheorems

-----------------------------------------------------------------------------
(* Ends and sockets. *)

(* The peer of an end is the other end. *)
LEMMA PeerFacts ==
  ASSUME NEW s \in Side
  PROVE  /\ Peer(s) \in Side
         /\ Peer(s) # s
         /\ Peer(Peer(s)) = s
         /\ \A t \in Side : t = s \/ t = Peer(s)
  BY EndsAssumption DEF Side, Peer

(* Sending appends to the peer's inbox, if anything, and touches no other. *)
LEMMA SendingType ==
  ASSUME TypeOK, NEW s \in Side, NEW frames \in Seq(Frame)
  PROVE  /\ Sending(s, frames) \in [Side -> Seq(Frame)]
         /\ Sending(s, frames)[s] = inbox[s]
         /\ Sending(s, frames)[Peer(s)] =
              IF line = "up" /\ state[Peer(s)] # "closed"
              THEN inbox[Peer(s)] \o frames ELSE inbox[Peer(s)]
<1>1. /\ inbox \in [Side -> Seq(Frame)]
      /\ Peer(s) \in Side /\ Peer(s) # s
  BY PeerFacts DEF TypeOK
<1>2. inbox[Peer(s)] \o frames \in Seq(Frame)
  BY <1>1, ConcatProperties
<1>3. QED
  BY <1>1, <1>2 DEF Sending

(* What an end sends in one step is a sequence of frames. *)
LEMMA FrameSeqs ==
  /\ <<>> \in Seq(Frame) /\ <<"HELLO">> \in Seq(Frame)
  /\ <<"HELLO_ACK">> \in Seq(Frame) /\ <<"PAIR_ACCEPT">> \in Seq(Frame)
  /\ <<"MESSAGE">> \in Seq(Frame)
  /\ <<"PAIR_REJECT">> \in Seq(Frame)
  BY DEF Frame, HelloFrame, EncryptedFrame

(* What an end says last: perhaps a PAIR_REJECT, and then the CLOSE. *)
LEMMA Farewell ==
  ASSUME NEW frames \in {<<>>, <<"PAIR_REJECT">>}
  PROVE  LET last == Append(frames, "CLOSE")
         IN  /\ last \in Seq(Frame) /\ Len(last) >= 1
             /\ last[Len(last)] = "CLOSE"
             /\ \A i \in 1..Len(last) :
                  last[i] # "CLOSE" => last[i] = "PAIR_REJECT" /\ frames # <<>>
<1>1. /\ frames \in Seq(Frame) /\ "CLOSE" \in Frame
      /\ Len(frames) = 0 \/ (Len(frames) = 1 /\ frames[1] = "PAIR_REJECT" /\ frames # <<>>)
  <2>1. CASE frames = <<>>
    BY <2>1, FrameSeqs, EmptySeq DEF Frame
  <2>2. CASE frames = <<"PAIR_REJECT">>
    BY <2>2, FrameSeqs DEF Frame
  <2>3. QED
    BY <2>1, <2>2
<1>2. /\ Append(frames, "CLOSE") \in Seq(Frame)
      /\ Len(Append(frames, "CLOSE")) = Len(frames) + 1
      /\ \A i \in 1..Len(frames) : Append(frames, "CLOSE")[i] = frames[i]
      /\ Append(frames, "CLOSE")[Len(frames) + 1] = "CLOSE"
  BY <1>1, AppendProperties
<1>3. QED
  BY <1>1, <1>2

(* Closing an end: it hears nothing more, and its peer hears the CLOSE. *)
LEMMA CloseType ==
  ASSUME TypeOK, NEW s \in Side, NEW frames \in {<<>>, <<"PAIR_REJECT">>},
         CloseAfter(s, frames)
  PROVE  /\ state' \in [Side -> State]
         /\ state'[s] = "closed" /\ state'[Peer(s)] = state[Peer(s)]
         /\ handshakeTimer' \in [Side -> BOOLEAN]
         /\ handshakeTimer'[s] = FALSE
         /\ handshakeTimer'[Peer(s)] = handshakeTimer[Peer(s)]
         /\ inbox' \in [Side -> Seq(Frame)]
         /\ inbox'[s] = <<>>
         /\ inbox'[Peer(s)] =
              IF line = "up" /\ state[Peer(s)] # "closed"
              THEN inbox[Peer(s)] \o Append(frames, "CLOSE") ELSE inbox[Peer(s)]
<1>1. Peer(s) \in Side /\ Peer(s) # s
  BY PeerFacts
<1>2. Append(frames, "CLOSE") \in Seq(Frame) /\ <<>> \in Seq(Frame)
  BY Farewell, FrameSeqs
<1>3. /\ Sending(s, Append(frames, "CLOSE")) \in [Side -> Seq(Frame)]
      /\ Sending(s, Append(frames, "CLOSE"))[Peer(s)] =
              IF line = "up" /\ state[Peer(s)] # "closed"
              THEN inbox[Peer(s)] \o Append(frames, "CLOSE") ELSE inbox[Peer(s)]
  BY <1>2, SendingType
<1>4. inbox' = [Sending(s, Append(frames, "CLOSE")) EXCEPT ![s] = <<>>]
  BY DEF CloseAfter
<1>5. /\ inbox' \in [Side -> Seq(Frame)]
      /\ inbox'[s] = <<>>
      /\ inbox'[Peer(s)] = Sending(s, Append(frames, "CLOSE"))[Peer(s)]
  BY <1>1, <1>2, <1>3, <1>4
<1>6. QED
  BY <1>1, <1>3, <1>5 DEF CloseAfter, ClearTimer, TypeOK, State

-----------------------------------------------------------------------------
(* Type correctness. *)

(* TypeOK alone is not inductive: that a HELLO never re-opens a connected
   end needs the session to be there whenever the end is. *)
Keyed(s) == /\ state[s] = "connected" => session[s]
            /\ authorize[s] # "none" => session[s]

TypeInv == TypeOK /\ \A s \in Side : Keyed(s)

(* Closing an end keeps the types. *)
LEMMA CloseKeepsTypeInv ==
  ASSUME TypeInv, NEW s \in Side, NEW frames \in {<<>>, <<"PAIR_REJECT">>},
         CloseAfter(s, frames), authorize' \in [Side -> Promise],
         \A t \in Side : authorize'[t] # "none" => authorize[t] # "none",
         UNCHANGED <<session, localApproved, remoteApproved, line, appSent, peers>>
  PROVE  TypeInv'
<1>1. /\ state' \in [Side -> State]
      /\ handshakeTimer' \in [Side -> BOOLEAN]
      /\ inbox' \in [Side -> Seq(Frame)]
      /\ state'[s] = "closed" /\ handshakeTimer'[s] = FALSE
      /\ state'[Peer(s)] = state[Peer(s)]
      /\ handshakeTimer'[Peer(s)] = handshakeTimer[Peer(s)]
  BY CloseType DEF TypeInv
<1>2. \A t \in Side : \/ t = s /\ state'[t] = "closed" /\ ~handshakeTimer'[t]
                      \/ /\ state'[t] = state[t]
                         /\ handshakeTimer'[t] = handshakeTimer[t]
  BY <1>1, PeerFacts
<1>3. TypeOK'
  BY <1>1, <1>2 DEF TypeInv, TypeOK, peers
<1>4. QED
  BY <1>2, <1>3 DEF TypeInv, Keyed

(* Every step keeps the types: one case for each action. *)
LEMMA TypeStep == TypeInv /\ [Next]_vars => TypeInv'
<1> SUFFICES ASSUME TypeInv, [Next]_vars PROVE TypeInv'
  OBVIOUS
<1>7. ASSUME NEW s \in Side, AuthorizeRefuses(s) \/ AuthorizeThrows(s) PROVE TypeInv'
  <2>1. \E frames \in {<<>>, <<"PAIR_REJECT">>} : CloseAfter(s, frames)
    BY <1>7 DEF AuthorizeRefuses, AuthorizeThrows, Close
  <2>2. /\ authorize' \in [Side -> Promise]
        /\ \A t \in Side : authorize'[t] # "none" => authorize[t] # "none"
    BY <1>7 DEF AuthorizeRefuses, AuthorizeThrows, TypeInv, TypeOK, Promise
  <2>3. UNCHANGED <<session, localApproved, remoteApproved, line, appSent, peers>>
    BY <1>7 DEF AuthorizeRefuses, AuthorizeThrows
  <2>4. QED
    BY <2>1, <2>2, <2>3, CloseKeepsTypeInv
<1> USE DEF TypeInv, TypeOK, Keyed, State, Promise, peers
<1>1. CASE StartResponder
  BY <1>1 DEF StartResponder, Side
<1>2. CASE StartInitiator
  <2>1. Initiator \in Side
    BY DEF Side
  <2>2. inbox' \in [Side -> Seq(Frame)]
    BY <1>2, <2>1, SendingType, FrameSeqs DEF StartInitiator
  <2>3. QED
    BY <1>2, <2>1, <2>2 DEF StartInitiator
<1>3. ASSUME NEW s \in Side, RefuseHello(s) \/ ReceivePairReject(s) \/ SocketClosed(s)
                             \/ HandshakeTimeout(s) \/ LocalClose(s)
      PROVE  TypeInv'
  <2>1. Close(s) /\ UNCHANGED <<session, localApproved, remoteApproved, authorize,
                                line, appSent, peers>>
    BY <1>3 DEF RefuseHello, ReceivePairReject, SocketClosed, HandshakeTimeout, LocalClose
  <2>2. QED
    BY <2>1, CloseKeepsTypeInv DEF Close
<1>4. ASSUME NEW s \in Side, AcceptHello(s) PROVE TypeInv'
  <2>1. inbox[s] \in Seq(Frame) /\ inbox[s] # <<>>
    BY <1>4 DEF AcceptHello, Receives
  <2>2. Tail(inbox[s]) \in Seq(Frame)
    BY <2>1, HeadTailProperties
  <2>3. inbox' \in [Side -> Seq(Frame)]
    BY <1>4, <2>2, SendingType, FrameSeqs DEF AcceptHello
  <2>4. state[s] \in {"handshaking", "pairing"}
    BY <1>4 DEF AcceptHello, Receives, Live
  <2>5. QED
    BY <1>4, <2>3, <2>4 DEF AcceptHello
<1>5. ASSUME NEW s \in Side, MaybeConnected(s), session[s] PROVE
        /\ state' \in [Side -> State] /\ handshakeTimer' \in [Side -> BOOLEAN]
        /\ \A t \in Side : handshakeTimer'[t] <=> state'[t] \in {"handshaking", "pairing"}
        /\ \A t \in Side : state'[t] = "connected" => session[t]
  <2>1. CASE UNCHANGED <<state, handshakeTimer>>
    BY <2>1
  <2>2. CASE state' = [state EXCEPT ![s] = "connected"] /\ ClearTimer(s)
    BY <1>5, <2>2 DEF ClearTimer
  <2>3. QED
    BY <1>5, <2>1, <2>2 DEF MaybeConnected
<1>6. ASSUME NEW s \in Side, AuthorizeApproves(s) PROVE TypeInv'
  <2>1. inbox' \in [Side -> Seq(Frame)]
    BY <1>6, SendingType, FrameSeqs DEF AuthorizeApproves
  <2>2. MaybeConnected(s) /\ session[s] /\ session' = session
    BY <1>6 DEF AuthorizeApproves
  <2>3. QED
    BY <1>5, <1>6, <2>1, <2>2 DEF AuthorizeApproves
<1>8. ASSUME NEW s \in Side, AuthorizeTooLate(s) PROVE TypeInv'
  BY <1>8 DEF AuthorizeTooLate
<1>9. ASSUME NEW s \in Side, inbox[s] # <<>>, inbox' = [inbox EXCEPT ![s] = Tail(@)]
      PROVE  inbox' \in [Side -> Seq(Frame)]
  BY <1>9, HeadTailProperties
<1>10. ASSUME NEW s \in Side, ReceivePairAccept(s) PROVE TypeInv'
  <2>1. inbox' \in [Side -> Seq(Frame)]
    BY <1>9, <1>10 DEF ReceivePairAccept, Receives
  <2>2. MaybeConnected(s) /\ session[s] /\ session' = session
    BY <1>10 DEF ReceivePairAccept, Authentic
  <2>3. QED
    BY <1>5, <1>10, <2>1, <2>2 DEF ReceivePairAccept
<1>11. ASSUME NEW s \in Side, ReceiveMessage(s) \/ DropFrame(s) PROVE TypeInv'
  <2>1. inbox' \in [Side -> Seq(Frame)]
    BY <1>9, <1>11 DEF ReceiveMessage, DropFrame, Receives
  <2>2. QED
    BY <1>11, <2>1 DEF ReceiveMessage, DropFrame
<1>12. ASSUME NEW s \in Side, SendAppMessage(s) PROVE TypeInv'
  <2>1. inbox' \in [Side -> Seq(Frame)]
    BY <1>12, SendingType, FrameSeqs DEF SendAppMessage
  <2>2. appSent' \in [Side -> 0..MaxApp]
    BY <1>12, MaxAppAssumption DEF SendAppMessage
  <2>3. QED
    BY <1>12, <2>1, <2>2 DEF SendAppMessage
<1>13. CASE LineBreaks
  <2>1. ASSUME NEW q \in Seq(Frame), NEW n \in 0..Len(q)
        PROVE  Append(SubSeq(q, 1, n), "CLOSE") \in Seq(Frame)
    BY DEF Frame
  <2>2. <<>> \in Seq(Frame)
    BY FrameSeqs
  <2>3. inbox' \in [Side -> Seq(Frame)]
    BY <1>13, <2>1, <2>2 DEF LineBreaks, Side
  <2>4. QED
    BY <1>13, <2>3 DEF LineBreaks
<1>14. CASE UNCHANGED vars
  BY <1>14 DEF vars
<1>15. QED
  BY <1>1, <1>2, <1>3, <1>4, <1>6, <1>7, <1>8, <1>10, <1>11, <1>12, <1>13, <1>14
     DEF Next, Handles, Answers

(* Type correctness: the state keeps its shape, and the handshake timer is
   armed at an end exactly while that end is opening (start, maybeConnected,
   close). *)
THEOREM TypeCorrect == Spec => []TypeOK
<1>1. Init => TypeInv
  BY MaxAppAssumption, FrameSeqs DEF Init, TypeInv, TypeOK, Keyed, State, Promise
<1>2. TypeInv => TypeOK
  BY DEF TypeInv
<1>3. QED
  BY <1>1, <1>2, TypeStep, PTL DEF Spec

-----------------------------------------------------------------------------
(* The inductive invariant. *)

(* What the approvals mean, at one end. *)
ApprovalsMean(s) ==
  /\ session[s] <=> authorize[s] # "none"
  /\ state[s] \in {"absent", "handshaking"} => ~session[s]
  /\ state[s] \in {"pairing", "connected"} => session[s]
  /\ localApproved[s] => authorize[s] = "approved"
  /\ authorize[s] = "approved" /\ state[s] # "closed" => localApproved[s]
  /\ remoteApproved[s] => localApproved[Peer(s)] /\ clocksAgree
  /\ state[s] # "closed" =>
       (state[s] = "connected" <=> localApproved[s] /\ remoteApproved[s])

HasHello(q, n) == \E j \in 1..n : q[j] \in HelloFrame
HasAccept(q, n) == \E j \in 1..n : q[j] = "PAIR_ACCEPT"

(* What the frame at position i of inbox[s] tells about both ends: it is
   true of every frame, so it is still true of the rest when one is handled
   and of a prefix when the line breaks. *)
FrameMeans(s, i) ==
  /\ inbox[s][i] \in HelloFrame => s = Responder \/ session[Responder]
  /\ inbox[s][i] = "HELLO_ACK" => s = Initiator
  /\ inbox[s][i] \in EncryptedFrame => session[s] \/ HasHello(inbox[s], i - 1)
  /\ inbox[s][i] = "PAIR_ACCEPT" => localApproved[Peer(s)]
  /\ inbox[s][i] = "MESSAGE" => /\ localApproved[s] /\ clocksAgree
                                /\ remoteApproved[s] \/ HasAccept(inbox[s], i - 1)

(* What an end has said reaches the other, or the line is known broken. *)
Conveyed(s) ==
  state[s] # "closed" =>
    /\ line = "up" /\ session[Peer(s)] =>
         session[s] \/ HasHello(inbox[s], Len(inbox[s]))
    /\ line = "up" /\ clocksAgree /\ localApproved[Peer(s)] =>
         remoteApproved[s] \/ HasAccept(inbox[s], Len(inbox[s]))
    /\ line = "broken" => \E j \in 1..Len(inbox[s]) : inbox[s][j] = "CLOSE"

FramesMean(s) == \A i \in 1..Len(inbox[s]) : FrameMeans(s, i)

EndInv(s) == ApprovalsMean(s) /\ FramesMean(s) /\ Conveyed(s)

LinkInv == TypeInv /\ \A s \in Side : EndInv(s)

-----------------------------------------------------------------------------
(* How an inbox may change, and why its frames keep their meaning. *)

(* Nothing an end or its peer has said is taken back. *)
Grows(s) ==
  /\ session[s] => session'[s]
  /\ session[Responder] => session'[Responder]
  /\ localApproved[s] => localApproved'[s]
  /\ localApproved[Peer(s)] => localApproved'[Peer(s)]
  /\ remoteApproved[s] => remoteApproved'[s]
  /\ clocksAgree' = clocksAgree

(* What may be put on the socket towards s. *)
Sendable(s, f) ==
  /\ f = "HELLO" => s = Responder
  /\ f = "HELLO_ACK" => s = Initiator /\ session'[Responder]
  /\ f \in EncryptedFrame => session[s] \/ HasHello(inbox[s], Len(inbox[s]))
  /\ f = "PAIR_ACCEPT" => localApproved'[Peer(s)]
  /\ f = "MESSAGE" => /\ localApproved[s] /\ clocksAgree
                      /\ remoteApproved[s] \/ HasAccept(inbox[s], Len(inbox[s]))

Heard(s) == HasHello(inbox[s], Len(inbox[s]))
Accepted(s) == HasAccept(inbox[s], Len(inbox[s]))
Doomed(s) == \E j \in 1..Len(inbox[s]) : inbox[s][j] = "CLOSE"

(* An inbox that stays as it is means what it meant, as the session only grows. *)
LEMMA Keeping ==
  ASSUME NEW s \in Side, inbox'[s] = inbox[s], Grows(s), FramesMean(s)
  PROVE  /\ FramesMean(s)'
         /\ Heard(s) => Heard(s)'
         /\ Accepted(s) => Accepted(s)'
         /\ Doomed(s) => Doomed(s)'
<1>1. FramesMean(s)'
  BY DEF FramesMean, FrameMeans, Grows, HasHello, HasAccept
<1>2. QED
  BY <1>1 DEF Heard, Accepted, Doomed, HasHello, HasAccept

(* What an inbox announces after frames are appended to it. *)
LEMMA Appending ==
  ASSUME NEW s \in Side, inbox[s] \in Seq(Frame), NEW frames \in Seq(Frame),
         inbox'[s] = inbox[s] \o frames, Grows(s), FramesMean(s),
         \A k \in 1..Len(frames) : Sendable(s, frames[k])
  PROVE  /\ FramesMean(s)'
         /\ Heard(s) => Heard(s)'
         /\ Accepted(s) => Accepted(s)'
         /\ Doomed(s) => Doomed(s)'
         /\ \A k \in 1..Len(frames) :
              /\ frames[k] \in HelloFrame => Heard(s)'
              /\ frames[k] = "PAIR_ACCEPT" => Accepted(s)'
              /\ frames[k] = "CLOSE" => Doomed(s)'
<1>0. PICK n \in Nat : n = Len(inbox[s])
  BY LenProperties
<1>1. /\ n \in Nat /\ Len(frames) \in Nat
      /\ Len(inbox'[s]) = n + Len(frames)
      /\ \A i \in 1..(n + Len(frames)) :
            inbox'[s][i] = IF i <= n THEN inbox[s][i] ELSE frames[i - n]
  BY <1>0, ConcatProperties, LenProperties
<1>2. /\ \A i \in 1..n : i \in 1..Len(inbox'[s]) /\ inbox'[s][i] = inbox[s][i]
      /\ \A k \in 1..Len(frames) :
            n + k \in 1..Len(inbox'[s]) /\ inbox'[s][n + k] = frames[k]
  BY <1>0, <1>1, LenProperties
<1>3. ASSUME NEW i \in 1..n PROVE FrameMeans(s, i)'
  <2>1. FrameMeans(s, i) /\ inbox'[s][i] = inbox[s][i]
    BY <1>0, <1>2 DEF FramesMean
  <2>2. HasHello(inbox[s], i - 1) => HasHello(inbox'[s], i - 1)
    BY <1>1, <1>2 DEF HasHello
  <2>3. HasAccept(inbox[s], i - 1) => HasAccept(inbox'[s], i - 1)
    BY <1>1, <1>2 DEF HasAccept
  <2>4. QED
    BY <2>1, <2>2, <2>3 DEF FrameMeans, Grows
<1>4. ASSUME NEW k \in 1..Len(frames) PROVE FrameMeans(s, n + k)'
  <2>1. Sendable(s, frames[k]) /\ inbox'[s][n + k] = frames[k]
    BY <1>2
  <2>2. HasHello(inbox[s], n) => HasHello(inbox'[s], (n + k) - 1)
    BY <1>1, <1>2 DEF HasHello
  <2>3. HasAccept(inbox[s], n) => HasAccept(inbox'[s], (n + k) - 1)
    BY <1>1, <1>2 DEF HasAccept
  <2>4. QED
    BY <1>0, <2>1, <2>2, <2>3 DEF FrameMeans, Grows, Sendable, HelloFrame
<1>5. FramesMean(s)'
  <2>1. ASSUME NEW i \in 1..Len(inbox'[s]) PROVE FrameMeans(s, i)'
    <3>1. CASE i <= n
      BY <1>1, <1>3, <3>1
    <3>2. CASE i > n
      <4>1. i - n \in 1..Len(frames) /\ i = n + (i - n)
        BY <1>1, <3>2
      <4>2. FrameMeans(s, n + (i - n))'
        BY <1>4, <4>1
      <4>3. QED
        BY <4>1, <4>2
    <3>3. QED
      BY <1>1, <3>1, <3>2
  <2>2. QED
    BY <2>1 DEF FramesMean
<1>6. /\ Heard(s) => Heard(s)'
      /\ Accepted(s) => Accepted(s)'
      /\ Doomed(s) => Doomed(s)'
  BY <1>0, <1>1, <1>2 DEF Heard, Accepted, Doomed, HasHello, HasAccept
<1>7. ASSUME NEW k \in 1..Len(frames)
      PROVE  /\ frames[k] \in HelloFrame => Heard(s)'
             /\ frames[k] = "PAIR_ACCEPT" => Accepted(s)'
             /\ frames[k] = "CLOSE" => Doomed(s)'
  <2>1. n + k \in 1..Len(inbox'[s]) /\ inbox'[s][n + k] = frames[k]
    BY <1>2
  <2> QED BY <2>1 DEF Heard, Accepted, Doomed, HasHello, HasAccept
<1>8. QED
  BY <1>5, <1>6, <1>7

(* What an inbox announces once its head has been handled. *)
LEMMA Consuming ==
  ASSUME NEW s \in Side, inbox[s] \in Seq(Frame), inbox[s] # <<>>,
         inbox'[s] = Tail(inbox[s]), Grows(s), FramesMean(s),
         Head(inbox[s]) \in HelloFrame => session'[s],
         Head(inbox[s]) = "PAIR_ACCEPT" /\ clocksAgree => remoteApproved'[s]
  PROVE  /\ FramesMean(s)'
         /\ Heard(s) => session'[s] \/ Heard(s)'
         /\ Accepted(s) /\ clocksAgree => remoteApproved'[s] \/ Accepted(s)'
         /\ Head(inbox[s]) # "CLOSE" /\ Doomed(s) => Doomed(s)'
<1>0. PICK n \in Nat : n = Len(inbox[s])
  BY LenProperties
<1>1. /\ n \in Nat \ {0}
      /\ Len(inbox'[s]) = n - 1
      /\ \A i \in 1..(n - 1) : inbox'[s][i] = inbox[s][i + 1]
      /\ Head(inbox[s]) = inbox[s][1]
  BY <1>0, HeadTailProperties, EmptySeq
<1>2. ASSUME NEW m \in 0..(n - 1)
      PROVE  /\ HasHello(inbox[s], m + 1) => session'[s] \/ HasHello(inbox'[s], m)
             /\ HasAccept(inbox[s], m + 1) /\ clocksAgree =>
                  remoteApproved'[s] \/ HasAccept(inbox'[s], m)
  <2>1. \A j \in 1..(m + 1) :
          j = 1 \/ (j - 1 \in 1..m /\ inbox'[s][j - 1] = inbox[s][j])
    BY <1>1
  <2>2. ASSUME HasHello(inbox[s], m + 1)
        PROVE  session'[s] \/ HasHello(inbox'[s], m)
    <3>1. PICK j \in 1..(m + 1) : inbox[s][j] \in HelloFrame
      BY <2>2 DEF HasHello
    <3>2. QED
      BY <1>1, <2>1, <3>1 DEF HasHello
  <2>3. ASSUME HasAccept(inbox[s], m + 1), clocksAgree
        PROVE  remoteApproved'[s] \/ HasAccept(inbox'[s], m)
    <3>1. PICK j \in 1..(m + 1) : inbox[s][j] = "PAIR_ACCEPT"
      BY <2>3 DEF HasAccept
    <3>2. QED
      BY <1>1, <2>1, <2>3, <3>1 DEF HasAccept
  <2>4. QED
    BY <2>2, <2>3
<1>3. ASSUME NEW i \in 1..(n - 1) PROVE FrameMeans(s, i)'
  <2>1. FrameMeans(s, i + 1) /\ inbox'[s][i] = inbox[s][i + 1]
    BY <1>0, <1>1 DEF FramesMean
  <2>2. i - 1 \in 0..(n - 1) /\ (i - 1) + 1 = i /\ (i + 1) - 1 = i
    BY <1>1
  <2>3. /\ HasHello(inbox[s], i) => session'[s] \/ HasHello(inbox'[s], i - 1)
        /\ HasAccept(inbox[s], i) /\ clocksAgree =>
                  remoteApproved'[s] \/ HasAccept(inbox'[s], i - 1)
    BY <1>2, <2>2
  <2>4. QED
    BY <2>1, <2>2, <2>3 DEF FrameMeans, Grows
<1>4. FramesMean(s)'
  BY <1>1, <1>3 DEF FramesMean
<1>5. /\ Heard(s) => session'[s] \/ Heard(s)'
      /\ Accepted(s) /\ clocksAgree => remoteApproved'[s] \/ Accepted(s)'
  <2>1. n - 1 \in 0..(n - 1) /\ (n - 1) + 1 = n
    BY <1>1
  <2>2. QED
    BY <1>0, <1>1, <1>2, <2>1 DEF Heard, Accepted
<1>6. Head(inbox[s]) # "CLOSE" /\ Doomed(s) => Doomed(s)'
  <2>1. \A j \in 1..n : j = 1 \/ (j - 1 \in 1..(n - 1) /\ inbox'[s][j - 1] = inbox[s][j])
    BY <1>1
  <2>2. ASSUME Head(inbox[s]) # "CLOSE", Doomed(s) PROVE Doomed(s)'
    <3>1. PICK j \in 1..n : inbox[s][j] = "CLOSE"
      BY <1>0, <2>2 DEF Doomed
    <3>2. j - 1 \in 1..(n - 1) /\ inbox'[s][j - 1] = "CLOSE"
      BY <1>1, <2>1, <2>2, <3>1
    <3>3. QED
      BY <1>1, <3>2 DEF Doomed
  <2>3. QED
    BY <2>2
<1>7. QED
  BY <1>4, <1>5, <1>6

-----------------------------------------------------------------------------
(* The invariant, action by action. *)

(* The approvals at an end keep their meaning while nothing is decided. *)
LEMMA ApprovalsKept ==
  ASSUME NEW s \in Side, ApprovalsMean(s),
         UNCHANGED <<session, localApproved, remoteApproved, authorize, clocksAgree>>,
         state'[s] \in {state[s], "closed"}
  PROVE  ApprovalsMean(s)'
  BY DEF ApprovalsMean

(* An end keeps its invariant when its inbox only grows and what its peer
   conveys by that is on its way. *)
LEMMA ConveyedKept ==
  ASSUME NEW s \in Side, Conveyed(s), Grows(s), line' = line,
         state'[s] # "closed" => state[s] # "closed",
         Heard(s) => session'[s] \/ Heard(s)',
         Accepted(s) /\ clocksAgree => remoteApproved'[s] \/ Accepted(s)',
         Doomed(s) => Doomed(s)',
         session'[Peer(s)] /\ line = "up" /\ state[s] # "closed" =>
           session[Peer(s)] \/ session'[s] \/ Heard(s)',
         localApproved'[Peer(s)] /\ line = "up" /\ state[s] # "closed" =>
           localApproved[Peer(s)] \/ Accepted(s)'
  PROVE  Conveyed(s)'
  BY DEF Conveyed, Grows, Heard, Accepted, Doomed

(* Closing an end keeps the invariant: its peer is told. *)
LEMMA CloseKeepsLinkInv ==
  ASSUME LinkInv, TypeInv', NEW s \in Side, NEW frames \in {<<>>, <<"PAIR_REJECT">>},
         CloseAfter(s, frames), frames # <<>> => session[s],
         UNCHANGED <<session, localApproved, remoteApproved, line, clocksAgree>>,
         authorize'[Peer(s)] = authorize[Peer(s)],
         \/ authorize'[s] = authorize[s]
         \/ authorize[s] = "asking" /\ authorize'[s] \in {"refused", "failed"}
  PROVE  LinkInv'
<1> DEFINE p == Peer(s)
<1>1. /\ p \in Side /\ p # s /\ Peer(p) = s
      /\ \A t \in Side : t = s \/ t = p
  BY PeerFacts
<1>2. /\ TypeOK /\ EndInv(s) /\ EndInv(p)
      /\ inbox[p] \in Seq(Frame)
  BY <1>1 DEF LinkInv, TypeInv, TypeOK
<1>3. /\ state'[s] = "closed" /\ state'[p] = state[p]
      /\ inbox'[s] = <<>>
      /\ inbox'[p] = IF line = "up" /\ state[p] # "closed"
                     THEN inbox[p] \o Append(frames, "CLOSE") ELSE inbox[p]
  BY <1>2, CloseType
<1> HIDE DEF p
<1>4. EndInv(s)'
  <2>1. FramesMean(s)' /\ Conveyed(s)'
    BY <1>3, EmptySeq DEF FramesMean, Conveyed
  <2>2. ApprovalsMean(s)'
    BY <1>2, <1>3 DEF EndInv, ApprovalsMean
  <2>3. QED
    BY <2>1, <2>2 DEF EndInv
<1>5. Grows(p) /\ Grows(s)
  BY DEF Grows
<1>6. /\ FramesMean(p)'
      /\ Heard(p) => Heard(p)'
      /\ Accepted(p) => Accepted(p)'
      /\ Doomed(p) => Doomed(p)'
  <2>1. CASE line = "up" /\ state[p] # "closed"
    <3>1. session[s] => session[p] \/ Heard(p)
      BY <1>1, <1>2, <2>1 DEF EndInv, Conveyed, Heard
    <3>2. \A k \in 1..Len(Append(frames, "CLOSE")) : Sendable(p, Append(frames, "CLOSE")[k])
      BY <3>1, Farewell DEF Sendable, Heard, EncryptedFrame
    <3>3. QED
      BY <1>1, <1>2, <1>3, <1>5, <2>1, <3>2, Farewell, Appending DEF EndInv
  <2>2. CASE ~(line = "up" /\ state[p] # "closed")
    BY <1>1, <1>2, <1>3, <1>5, <2>2, Keeping DEF EndInv
  <2>3. QED
    BY <2>1, <2>2
<1>7. Conveyed(p)'
  BY <1>1, <1>2, <1>3, <1>5, <1>6, ConveyedKept DEF EndInv
<1>8. ApprovalsMean(p)'
  BY <1>1, <1>2, <1>3 DEF EndInv, ApprovalsMean, p
<1>9. QED
  BY <1>1, <1>4, <1>6, <1>7, <1>8 DEF LinkInv, EndInv

(* A broken line leaves a prefix, and the news of it. *)
LEMMA Truncating ==
  ASSUME NEW s \in Side, inbox[s] \in Seq(Frame), NEW n \in 0..Len(inbox[s]),
         inbox'[s] = Append(SubSeq(inbox[s], 1, n), "CLOSE"),
         Grows(s), FramesMean(s)
  PROVE  FramesMean(s)' /\ Doomed(s)'
<1>1. /\ n \in Nat /\ Len(inbox'[s]) = n + 1
      /\ \A i \in 1..n : inbox'[s][i] = inbox[s][i]
      /\ inbox'[s][n + 1] = "CLOSE"
  <2> DEFINE kept == SubSeq(inbox[s], 1, n)
  <2>1. \A i \in 1..n : inbox[s][i] \in Frame
    BY LenProperties
  <2>2. /\ kept \in Seq(Frame) /\ Len(kept) = n
        /\ \A i \in 1..n : kept[i] = inbox[s][i]
    BY <2>1, SubSeqProperties, LenProperties
  <2>3. "CLOSE" \in Frame
    BY DEF Frame
  <2> HIDE DEF kept
  <2>4. /\ Len(Append(kept, "CLOSE")) = n + 1
        /\ \A i \in 1..n : Append(kept, "CLOSE")[i] = inbox[s][i]
        /\ Append(kept, "CLOSE")[n + 1] = "CLOSE"
    BY <2>2, <2>3, AppendProperties
  <2>5. QED
    BY <2>4, LenProperties DEF kept
<1>2. ASSUME NEW i \in 1..n PROVE FrameMeans(s, i)'
  <2>1. FrameMeans(s, i) /\ inbox'[s][i] = inbox[s][i]
    BY <1>1, LenProperties DEF FramesMean
  <2>2. HasHello(inbox[s], i - 1) => HasHello(inbox'[s], i - 1)
    BY <1>1 DEF HasHello
  <2>3. HasAccept(inbox[s], i - 1) => HasAccept(inbox'[s], i - 1)
    BY <1>1 DEF HasAccept
  <2>4. QED
    BY <2>1, <2>2, <2>3 DEF FrameMeans, Grows
<1>3. FrameMeans(s, n + 1)'
  BY <1>1 DEF FrameMeans, HelloFrame, EncryptedFrame
<1>4. QED
  BY <1>1, <1>2, <1>3 DEF FramesMean, Doomed

(* A broken line keeps the invariant: both ends are told. *)
LEMMA BreakKeepsLinkInv == LinkInv /\ TypeInv' /\ LineBreaks => LinkInv'
<1> SUFFICES ASSUME LinkInv, TypeInv', LineBreaks, NEW s \in Side PROVE EndInv(s)'
  BY DEF LinkInv
<1>1. /\ TypeOK /\ EndInv(s) /\ inbox[s] \in Seq(Frame)
      /\ Grows(s) /\ line' = "broken"
      /\ state' = state
  BY DEF LinkInv, TypeInv, TypeOK, LineBreaks, Grows, peers
<1>2. ApprovalsMean(s)'
  BY <1>1, ApprovalsKept DEF LineBreaks, EndInv, peers
<1>3. CASE state[s] = "closed"
  <2>1. inbox'[s] = <<>>
    BY <1>3 DEF LineBreaks
  <2>2. QED
    BY <1>1, <1>2, <1>3, <2>1, EmptySeq DEF EndInv, FramesMean, Conveyed
<1>4. CASE state[s] # "closed"
  <2>1. \E n \in 0..Len(inbox[s]) : inbox'[s] = Append(SubSeq(inbox[s], 1, n), "CLOSE")
    BY <1>4, EndsAssumption DEF LineBreaks, Side
  <2>2. FramesMean(s)' /\ Doomed(s)'
    BY <1>1, <2>1, Truncating DEF EndInv
  <2>3. QED
    BY <1>1, <1>2, <2>2 DEF EndInv, Conveyed, Doomed
<1>5. QED
  BY <1>3, <1>4

(* Starting an end keeps the invariant. *)
LEMMA StartKeepsLinkInv ==
  LinkInv /\ TypeInv' /\ (StartResponder \/ StartInitiator) => LinkInv'
<1> SUFFICES ASSUME LinkInv, TypeInv', StartResponder \/ StartInitiator,
                    NEW s \in Side
             PROVE  EndInv(s)'
  BY DEF LinkInv
<1>1. /\ TypeOK /\ EndInv(s) /\ inbox[s] \in Seq(Frame)
      /\ Peer(s) \in Side /\ Peer(s) # s
  BY PeerFacts DEF LinkInv, TypeInv, TypeOK
<1>2. /\ Grows(s) /\ line' = line
      /\ UNCHANGED <<session, localApproved, remoteApproved, authorize, clocksAgree>>
      /\ \/ state'[s] = state[s]
         \/ state[s] = "absent" /\ state'[s] = "handshaking"
  BY <1>1 DEF StartResponder, StartInitiator, Grows, peers, TypeOK
<1>3. ApprovalsMean(s)'
  BY <1>1, <1>2 DEF EndInv, ApprovalsMean
<1>4. /\ FramesMean(s)'
      /\ Heard(s) => Heard(s)'
      /\ Accepted(s) => Accepted(s)'
      /\ Doomed(s) => Doomed(s)'
  <2>1. CASE inbox'[s] = inbox[s]
    BY <1>1, <1>2, <2>1, Keeping DEF EndInv
  <2>2. CASE s = Responder /\ inbox'[s] = inbox[s] \o <<"HELLO">>
    <3>1. \A k \in 1..Len(<<"HELLO">>) : Sendable(s, <<"HELLO">>[k])
      BY <2>2 DEF Sendable, EncryptedFrame
    <3>2. QED
      BY <1>1, <1>2, <2>2, <3>1, FrameSeqs, Appending DEF EndInv
  <2>3. inbox'[s] = inbox[s] \/ (s = Responder /\ inbox'[s] = inbox[s] \o <<"HELLO">>)
    <3>1. CASE StartResponder
      BY <3>1 DEF StartResponder
    <3>2. CASE StartInitiator
      <4>1. Initiator \in Side /\ Peer(Initiator) = Responder
        BY DEF Side, Peer
      <4>2. s = Initiator \/ s = Responder
        BY DEF Side
      <4>3. /\ inbox' = Sending(Initiator, <<"HELLO">>)
            /\ inbox'[Initiator] = inbox[Initiator]
            /\ \/ inbox'[Responder] = inbox[Responder] \o <<"HELLO">>
               \/ inbox'[Responder] = inbox[Responder]
        BY <1>1, <3>2, <4>1, SendingType, FrameSeqs DEF StartInitiator
      <4>4. QED
        BY <4>2, <4>3
    <3>3. QED
      BY <3>1, <3>2
  <2>4. QED
    BY <2>1, <2>2, <2>3
<1>5. Conveyed(s)'
  <2>1. state'[s] # "closed" => state[s] # "closed"
    BY <1>2
  <2>2. QED
    BY <1>1, <1>2, <1>4, <2>1, ConveyedKept DEF EndInv
<1>6. QED
  BY <1>3, <1>4, <1>5 DEF EndInv

(* Sending from s to its peer: what the peer's inbox still means. *)
LEMMA SendKeepsPeer ==
  ASSUME LinkInv, NEW s \in Side, NEW frames \in Seq(Frame),
         inbox'[Peer(s)] = Sending(s, frames)[Peer(s)],
         Grows(Peer(s)), line' = line, state'[Peer(s)] = state[Peer(s)],
         line = "up" /\ state[Peer(s)] # "closed" =>
           \A k \in 1..Len(frames) : Sendable(Peer(s), frames[k]),
         UNCHANGED <<session[Peer(s)], localApproved[Peer(s)], remoteApproved[Peer(s)],
                     authorize[Peer(s)]>>,
         session'[s] => \/ session[s] \/ session[Peer(s)]
                        \/ \E k \in 1..Len(frames) : frames[k] \in HelloFrame,
         localApproved'[s] => localApproved[s]
                        \/ \E k \in 1..Len(frames) : frames[k] = "PAIR_ACCEPT"
  PROVE  EndInv(Peer(s))'
<1>0. PICK p \in Side : p = Peer(s)
  BY PeerFacts
<1>1. /\ TypeOK /\ EndInv(p) /\ inbox[p] \in Seq(Frame)
      /\ p # s /\ Peer(p) = s
  BY <1>0, PeerFacts DEF LinkInv, TypeInv, TypeOK
<1>2. inbox'[p] = IF line = "up" /\ state[p] # "closed"
                  THEN inbox[p] \o frames ELSE inbox[p]
  BY <1>0, <1>1, SendingType
<1>3. ApprovalsMean(p)'
  BY <1>0, <1>1 DEF EndInv, ApprovalsMean, Grows
<1>4. /\ FramesMean(p)'
      /\ Heard(p) => Heard(p)'
      /\ Accepted(p) => Accepted(p)'
      /\ Doomed(p) => Doomed(p)'
      /\ line = "up" /\ state[p] # "closed" =>
           \A k \in 1..Len(frames) :
              /\ frames[k] \in HelloFrame => Heard(p)'
              /\ frames[k] = "PAIR_ACCEPT" => Accepted(p)'
  <2>1. CASE line = "up" /\ state[p] # "closed"
    BY <1>0, <1>1, <1>2, <2>1, Appending DEF EndInv
  <2>2. CASE ~(line = "up" /\ state[p] # "closed")
    BY <1>0, <1>1, <1>2, <2>2, Keeping DEF EndInv
  <2>3. QED
    BY <2>1, <2>2
<1>5. Conveyed(p)'
  <2>1. session'[s] /\ line = "up" /\ state[p] # "closed" =>
           session[s] \/ session'[p] \/ Heard(p)'
    BY <1>0, <1>4
  <2>2. localApproved'[s] /\ line = "up" /\ state[p] # "closed" =>
           localApproved[s] \/ Accepted(p)'
    BY <1>0, <1>4
  <2>3. QED
    BY <1>0, <1>1, <1>4, <2>1, <2>2, ConveyedKept DEF EndInv
<1>6. QED
  BY <1>0, <1>3, <1>4, <1>5 DEF EndInv

(* maybeConnected keeps the approvals' meaning at s. *)
LEMMA MaybeConnectedKeeps ==
  ASSUME TypeOK, NEW s \in Side, Live(s), session[s], MaybeConnected(s),
         ApprovalsMean(s), session' = session, clocksAgree' = clocksAgree,
         localApproved'[s] <=> authorize'[s] = "approved",
         authorize'[s] # "none",
         remoteApproved'[s] => localApproved'[Peer(s)] /\ clocksAgree,
         localApproved[s] => localApproved'[s],
         remoteApproved[s] => remoteApproved'[s]
  PROVE  /\ ApprovalsMean(s)'
         /\ state'[s] # "closed" /\ state[s] # "closed"
         /\ \A t \in Side : t # s => state'[t] = state[t]
<1>1. state \in [Side -> State] /\ state[s] \in {"pairing", "connected"}
  BY DEF TypeOK, Live, ApprovalsMean, State
<1>2. CASE localApproved'[s] /\ remoteApproved'[s] /\ state[s] # "connected"
  <2>1. state' = [state EXCEPT ![s] = "connected"]
    BY <1>2 DEF MaybeConnected, BothApproved
  <2>2. QED
    BY <1>1, <1>2, <2>1 DEF ApprovalsMean
<1>3. CASE ~(localApproved'[s] /\ remoteApproved'[s] /\ state[s] # "connected")
  <2>1. state' = state
    BY <1>3 DEF MaybeConnected, BothApproved
  <2>2. QED
    BY <1>1, <1>3, <2>1 DEF ApprovalsMean
<1>4. QED
  BY <1>2, <1>3

(* Accepting a HELLO keeps the invariant. *)
LEMMA AcceptHelloKeeps ==
  ASSUME LinkInv, TypeInv', NEW s \in Side, AcceptHello(s) PROVE LinkInv'
<1> DEFINE reply == IF Head(inbox[s]) = "HELLO" /\ s = Responder
                    THEN <<"HELLO_ACK">> ELSE <<>>
<1>1. /\ TypeOK /\ EndInv(s) /\ inbox[s] \in Seq(Frame) /\ inbox[s] # <<>>
      /\ Peer(s) \in Side /\ Peer(s) # s /\ Peer(Peer(s)) = s
      /\ \A t \in Side : t = s \/ t = Peer(s)
      /\ Head(inbox[s]) \in HelloFrame
  BY PeerFacts DEF LinkInv, TypeInv, TypeOK, AcceptHello, Receives
<1>2. reply \in Seq(Frame)
  BY FrameSeqs
<1>3. /\ inbox'[s] = Tail(inbox[s])
      /\ inbox'[Peer(s)] = Sending(s, reply)[Peer(s)]
  BY <1>1, <1>2, SendingType DEF AcceptHello
<1>4. Grows(s) /\ Grows(Peer(s)) /\ line' = line
  BY <1>1 DEF AcceptHello, Grows, peers, TypeOK
<1>5. /\ session'[s] /\ state'[s] = "pairing" /\ authorize'[s] = "asking"
      /\ state[s] \in {"handshaking", "pairing", "connected"} /\ ~session[s]
      /\ UNCHANGED <<localApproved, remoteApproved, clocksAgree>>
      /\ UNCHANGED <<session[Peer(s)], state[Peer(s)], authorize[Peer(s)]>>
  BY <1>1 DEF AcceptHello, Receives, Live, TypeOK, State, peers
<1>6. /\ Len(inbox[s]) >= 1 /\ Head(inbox[s]) = inbox[s][1]
      /\ FrameMeans(s, 1)
  BY <1>1, EmptySeq DEF EndInv, FramesMean
<1>7. EndInv(s)'
  <2>1. ApprovalsMean(s)'
    BY <1>1, <1>5 DEF EndInv, ApprovalsMean
  <2>2. /\ FramesMean(s)'
        /\ Accepted(s) /\ clocksAgree => remoteApproved'[s] \/ Accepted(s)'
        /\ Doomed(s) => Doomed(s)'
    BY <1>1, <1>3, <1>4, <1>5, Consuming DEF EndInv, HelloFrame
  <2>3. Conveyed(s)'
    BY <1>1, <1>4, <1>5, <2>2, ConveyedKept DEF EndInv
  <2>4. QED
    BY <2>1, <2>2, <2>3 DEF EndInv
<1>8. EndInv(Peer(s))'
  <2>1. \A k \in 1..Len(reply) : reply[k] = "HELLO_ACK" /\ s = Responder
    OBVIOUS
  <2>2. \A k \in 1..Len(reply) : Sendable(Peer(s), reply[k])
    BY <1>5, <2>1 DEF Sendable, Peer, EncryptedFrame
  <2>3. session[Peer(s)] \/ \E k \in 1..Len(reply) : reply[k] \in HelloFrame
    <3>1. CASE s = Responder
      <4>1. Head(inbox[s]) = "HELLO"
        BY <1>1, <1>6, <3>1, EndsAssumption DEF FrameMeans, HelloFrame
      <4>2. Len(reply) = 1 /\ reply[1] = "HELLO_ACK"
        BY <3>1, <4>1
      <4>3. QED
        BY <4>2 DEF HelloFrame
    <3>2. CASE s = Initiator
      BY <1>1, <1>6, <3>2, EndsAssumption DEF FrameMeans, Peer
    <3>3. QED
      BY <3>1, <3>2 DEF Side
  <2> HIDE DEF reply
  <2>4. QED
    BY <1>1, <1>2, <1>3, <1>4, <1>5, <2>2, <2>3, SendKeepsPeer
<1>9. QED
  BY <1>1, <1>7, <1>8 DEF LinkInv

(* The owner's approval keeps the invariant. *)
LEMMA ApprovesKeeps ==
  ASSUME LinkInv, TypeInv', NEW s \in Side, AuthorizeApproves(s) PROVE LinkInv'
<1>1. /\ TypeOK /\ EndInv(s) /\ inbox[s] \in Seq(Frame)
      /\ Peer(s) \in Side /\ Peer(s) # s /\ Peer(Peer(s)) = s
      /\ \A t \in Side : t = s \/ t = Peer(s)
  BY PeerFacts DEF LinkInv, TypeInv, TypeOK
<1>2. /\ inbox'[s] = inbox[s]
      /\ inbox'[Peer(s)] = Sending(s, <<"PAIR_ACCEPT">>)[Peer(s)]
  BY <1>1, FrameSeqs, SendingType DEF AuthorizeApproves
<1>3. /\ authorize[s] = "asking" /\ authorize'[s] = "approved" /\ localApproved'[s]
      /\ Live(s) /\ session[s] /\ MaybeConnected(s)
      /\ UNCHANGED <<session, remoteApproved, line, clocksAgree>>
      /\ UNCHANGED <<authorize[Peer(s)], localApproved[Peer(s)]>>
  BY <1>1 DEF AuthorizeApproves, peers, TypeOK, EndInv, ApprovalsMean
<1>4. Grows(s) /\ Grows(Peer(s))
  BY <1>1, <1>3 DEF Grows
<1>5. /\ ApprovalsMean(s)' /\ state[s] # "closed"
      /\ state'[Peer(s)] = state[Peer(s)]
  BY <1>1, <1>3, MaybeConnectedKeeps DEF EndInv, ApprovalsMean
<1>6. EndInv(s)'
  <2>1. /\ FramesMean(s)'
        /\ Heard(s) => Heard(s)'
        /\ Accepted(s) => Accepted(s)'
        /\ Doomed(s) => Doomed(s)'
    BY <1>1, <1>2, <1>4, Keeping DEF EndInv
  <2>2. Conveyed(s)'
    BY <1>1, <1>3, <1>4, <1>5, <2>1, ConveyedKept DEF EndInv
  <2>3. QED
    BY <1>5, <2>1, <2>2 DEF EndInv
<1>7. EndInv(Peer(s))'
  <2>1. Len(<<"PAIR_ACCEPT">>) = 1 /\ <<"PAIR_ACCEPT">>[1] = "PAIR_ACCEPT"
    OBVIOUS
  <2>2. line = "up" /\ state[Peer(s)] # "closed" =>
          session[Peer(s)] \/ Heard(Peer(s))
    BY <1>1, <1>3 DEF LinkInv, EndInv, Conveyed, Heard
  <2>3. line = "up" /\ state[Peer(s)] # "closed" =>
          \A k \in 1..Len(<<"PAIR_ACCEPT">>) : Sendable(Peer(s), <<"PAIR_ACCEPT">>[k])
    BY <1>1, <1>3, <2>1, <2>2 DEF Sendable, Heard
  <2>4. \E k \in 1..Len(<<"PAIR_ACCEPT">>) : <<"PAIR_ACCEPT">>[k] = "PAIR_ACCEPT"
    BY <2>1
  <2>5. QED
    BY <1>1, <1>2, <1>3, <1>4, <1>5, <2>3, <2>4, FrameSeqs, SendKeepsPeer
<1>8. QED
  BY <1>1, <1>6, <1>7 DEF LinkInv

(* Handling the head of the inbox concerns nobody else. *)
LEMMA HandlingKeepsPeer ==
  ASSUME LinkInv, NEW s \in Side,
         inbox'[Peer(s)] = inbox[Peer(s)], state'[Peer(s)] = state[Peer(s)],
         UNCHANGED <<session, localApproved, authorize, line, clocksAgree>>,
         remoteApproved'[Peer(s)] = remoteApproved[Peer(s)]
  PROVE  EndInv(Peer(s))'
<1>0. PICK p \in Side : p = Peer(s)
  BY PeerFacts
<1>1. EndInv(p) /\ Grows(p)
  BY <1>0 DEF LinkInv, Grows
<1>2. ApprovalsMean(p)'
  BY <1>0, <1>1 DEF EndInv, ApprovalsMean
<1>3. /\ FramesMean(p)'
      /\ Heard(p) => Heard(p)'
      /\ Accepted(p) => Accepted(p)'
      /\ Doomed(p) => Doomed(p)'
  BY <1>0, <1>1, Keeping DEF EndInv
<1>4. Conveyed(p)'
  BY <1>0, <1>1, <1>3, ConveyedKept DEF EndInv
<1>5. QED
  BY <1>0, <1>2, <1>3, <1>4 DEF EndInv

(* A PAIR_ACCEPT keeps the invariant. *)
LEMMA PairAcceptKeeps ==
  ASSUME LinkInv, TypeInv', NEW s \in Side, ReceivePairAccept(s) PROVE LinkInv'
<1>1. /\ TypeOK /\ EndInv(s) /\ inbox[s] \in Seq(Frame) /\ inbox[s] # <<>>
      /\ Peer(s) \in Side /\ Peer(s) # s /\ Peer(Peer(s)) = s
      /\ \A t \in Side : t = s \/ t = Peer(s)
      /\ Head(inbox[s]) = "PAIR_ACCEPT"
  BY PeerFacts DEF LinkInv, TypeInv, TypeOK, ReceivePairAccept, Receives
<1>2. /\ inbox'[s] = Tail(inbox[s]) /\ inbox'[Peer(s)] = inbox[Peer(s)]
      /\ Live(s) /\ session[s] /\ clocksAgree /\ MaybeConnected(s)
      /\ remoteApproved'[s] /\ remoteApproved'[Peer(s)] = remoteApproved[Peer(s)]
      /\ UNCHANGED <<session, localApproved, authorize, line, clocksAgree>>
  BY <1>1 DEF ReceivePairAccept, Receives, Authentic, TypeOK, peers
<1>3. Grows(s)
  BY <1>2 DEF Grows
<1>4. Len(inbox[s]) >= 1 /\ Head(inbox[s]) = inbox[s][1] /\ FrameMeans(s, 1)
  BY <1>1, EmptySeq DEF EndInv, FramesMean
<1>5. localApproved[Peer(s)]
  BY <1>1, <1>4 DEF FrameMeans
<1>6. /\ ApprovalsMean(s)' /\ state[s] # "closed"
      /\ state'[Peer(s)] = state[Peer(s)]
  <2>1. localApproved'[s] <=> authorize'[s] = "approved"
    BY <1>1, <1>2 DEF EndInv, ApprovalsMean, Live
  <2>2. authorize'[s] # "none"
    BY <1>1, <1>2 DEF EndInv, ApprovalsMean
  <2>3. QED
    BY <1>1, <1>2, <1>5, <2>1, <2>2, MaybeConnectedKeeps DEF EndInv
<1>7. EndInv(s)'
  <2>1. /\ FramesMean(s)'
        /\ Heard(s) => session'[s] \/ Heard(s)'
        /\ Doomed(s) => Doomed(s)'
    BY <1>1, <1>2, <1>3, Consuming DEF EndInv, HelloFrame
  <2>2. Conveyed(s)'
    BY <1>1, <1>2, <1>3, <1>6, <2>1, ConveyedKept DEF EndInv
  <2>3. QED
    BY <1>6, <2>1, <2>2 DEF EndInv
<1>8. EndInv(Peer(s))'
  BY <1>2, <1>6, HandlingKeepsPeer
<1>9. QED
  BY <1>1, <1>7, <1>8 DEF LinkInv

(* Handling a frame that changes nothing else keeps the invariant. *)
LEMMA HandledKeeps ==
  ASSUME LinkInv, TypeInv', NEW s \in Side, ReceiveMessage(s) \/ DropFrame(s)
  PROVE  LinkInv'
<1>1. /\ TypeOK /\ EndInv(s) /\ inbox[s] \in Seq(Frame) /\ inbox[s] # <<>>
      /\ Peer(s) \in Side /\ Peer(s) # s /\ Peer(Peer(s)) = s
      /\ \A t \in Side : t = s \/ t = Peer(s)
      /\ Head(inbox[s]) \in HelloFrame \cup EncryptedFrame
  BY PeerFacts DEF LinkInv, TypeInv, TypeOK, ReceiveMessage, DropFrame, Receives,
                   EncryptedFrame
<1>2. /\ inbox'[s] = Tail(inbox[s]) /\ inbox'[Peer(s)] = inbox[Peer(s)]
      /\ UNCHANGED <<state, session, localApproved, remoteApproved, authorize, line,
                     clocksAgree>>
  BY <1>1 DEF ReceiveMessage, DropFrame, TypeOK, peers
<1>3. Grows(s)
  BY <1>2 DEF Grows
<1>4. Len(inbox[s]) >= 1 /\ Head(inbox[s]) = inbox[s][1] /\ FrameMeans(s, 1)
  BY <1>1, EmptySeq DEF EndInv, FramesMean
<1>5. Head(inbox[s]) \in EncryptedFrame => session[s]
  BY <1>4 DEF FrameMeans, HasHello
<1>6. /\ Head(inbox[s]) \in HelloFrame => session[s]
      /\ Head(inbox[s]) = "PAIR_ACCEPT" => ~clocksAgree
  BY <1>1, <1>5 DEF ReceiveMessage, DropFrame, Receives, Authentic, HelloFrame,
                    EncryptedFrame
<1>7. EndInv(s)'
  <2>1. /\ FramesMean(s)'
        /\ Heard(s) => session'[s] \/ Heard(s)'
        /\ Accepted(s) /\ clocksAgree => remoteApproved'[s] \/ Accepted(s)'
        /\ Doomed(s) => Doomed(s)'
    BY <1>1, <1>2, <1>3, <1>6, Consuming DEF EndInv, HelloFrame, EncryptedFrame
  <2>2. Conveyed(s)'
    BY <1>1, <1>2, <1>3, <2>1, ConveyedKept DEF EndInv
  <2>3. ApprovalsMean(s)'
    BY <1>1, <1>2 DEF EndInv, ApprovalsMean
  <2>4. QED
    BY <2>1, <2>2, <2>3 DEF EndInv
<1>8. EndInv(Peer(s))'
  BY <1>2, HandlingKeepsPeer
<1>9. QED
  BY <1>1, <1>7, <1>8 DEF LinkInv

(* Sending an application message keeps the invariant. *)
LEMMA SendAppKeeps ==
  ASSUME LinkInv, TypeInv', NEW s \in Side, SendAppMessage(s) PROVE LinkInv'
<1>1. /\ TypeOK /\ EndInv(s) /\ inbox[s] \in Seq(Frame)
      /\ Peer(s) \in Side /\ Peer(s) # s /\ Peer(Peer(s)) = s
      /\ \A t \in Side : t = s \/ t = Peer(s)
  BY PeerFacts DEF LinkInv, TypeInv, TypeOK
<1>2. /\ inbox'[s] = inbox[s]
      /\ inbox'[Peer(s)] = Sending(s, <<"MESSAGE">>)[Peer(s)]
      /\ UNCHANGED <<state, session, localApproved, remoteApproved, authorize, line,
                     clocksAgree>>
  BY <1>1, FrameSeqs, SendingType DEF SendAppMessage, peers
<1>3. Grows(s) /\ Grows(Peer(s))
  BY <1>2 DEF Grows
<1>4. EndInv(s)'
  <2>1. /\ FramesMean(s)'
        /\ Heard(s) => Heard(s)'
        /\ Accepted(s) => Accepted(s)'
        /\ Doomed(s) => Doomed(s)'
    BY <1>1, <1>2, <1>3, Keeping DEF EndInv
  <2>2. Conveyed(s)'
    BY <1>1, <1>2, <1>3, <2>1, ConveyedKept DEF EndInv
  <2>3. ApprovalsMean(s)'
    BY <1>1, <1>2 DEF EndInv, ApprovalsMean
  <2>4. QED
    BY <2>1, <2>2, <2>3 DEF EndInv
<1>5. EndInv(Peer(s))'
  <2>1. /\ localApproved[s] /\ remoteApproved[s] /\ session[s]
        /\ localApproved[Peer(s)] /\ clocksAgree
    BY <1>1 DEF SendAppMessage, MaySend, EndInv, ApprovalsMean
  <2>2. line = "up" /\ state[Peer(s)] # "closed" =>
          /\ session[Peer(s)] \/ Heard(Peer(s))
          /\ remoteApproved[Peer(s)] \/ Accepted(Peer(s))
    BY <1>1, <2>1 DEF LinkInv, EndInv, Conveyed, Heard, Accepted
  <2>3. \A k \in 1..Len(<<"MESSAGE">>) : <<"MESSAGE">>[k] = "MESSAGE"
    OBVIOUS
  <2>4. line = "up" /\ state[Peer(s)] # "closed" =>
          \A k \in 1..Len(<<"MESSAGE">>) : Sendable(Peer(s), <<"MESSAGE">>[k])
    BY <2>1, <2>2, <2>3 DEF Sendable, Heard, Accepted
  <2>5. QED
    BY <1>1, <1>2, <1>3, <2>4, FrameSeqs, SendKeepsPeer
<1>6. QED
  BY <1>1, <1>4, <1>5 DEF LinkInv

(* An answer of authorize after the close keeps the invariant. *)
LEMMA TooLateKeeps ==
  ASSUME LinkInv, TypeInv', NEW s \in Side, AuthorizeTooLate(s) PROVE LinkInv'
<1> SUFFICES ASSUME NEW t \in Side PROVE EndInv(t)'
  BY DEF LinkInv
<1>1. /\ EndInv(t) /\ authorize \in [Side -> Promise]
      /\ authorize[s] = "asking" /\ state[s] = "closed"
      /\ \E answer \in {"approved", "refused", "failed"} :
            authorize' = [authorize EXCEPT ![s] = answer]
      /\ UNCHANGED <<state, session, localApproved, remoteApproved, inbox, line,
                     clocksAgree>>
  BY DEF LinkInv, TypeInv, TypeOK, AuthorizeTooLate, peers
<1>2. ApprovalsMean(t)'
  BY <1>1 DEF EndInv, ApprovalsMean
<1>3. FramesMean(t)' /\ Conveyed(t)'
  BY <1>1 DEF EndInv, FramesMean, FrameMeans, Conveyed, HasHello, HasAccept
<1>4. QED
  BY <1>2, <1>3 DEF EndInv

(* Every step keeps the invariant: one case for each action. *)
LEMMA LinkInvStep == LinkInv /\ [Next]_vars => LinkInv'
<1> SUFFICES ASSUME LinkInv, [Next]_vars PROVE LinkInv'
  OBVIOUS
<1>0. TypeInv'
  BY TypeStep DEF LinkInv
<1>1. CASE StartResponder \/ StartInitiator
  BY <1>0, <1>1, StartKeepsLinkInv
<1>2. ASSUME NEW s \in Side, RefuseHello(s) \/ ReceivePairReject(s) \/ SocketClosed(s)
                             \/ HandshakeTimeout(s) \/ LocalClose(s)
      PROVE  LinkInv'
  <2>1. CloseAfter(s, <<>>) /\ UNCHANGED <<session, localApproved, remoteApproved,
                                          authorize, line, clocksAgree>>
    BY <1>2 DEF RefuseHello, ReceivePairReject, SocketClosed, HandshakeTimeout,
                LocalClose, Close, peers
  <2>2. QED
    BY <1>0, <2>1, CloseKeepsLinkInv
<1>3. ASSUME NEW s \in Side, AuthorizeRefuses(s) \/ AuthorizeThrows(s)
      PROVE  LinkInv'
  <2>1. /\ UNCHANGED <<session, localApproved, remoteApproved, line, clocksAgree>>
        /\ authorize[s] = "asking" /\ authorize'[s] \in {"refused", "failed"}
        /\ authorize'[Peer(s)] = authorize[Peer(s)]
    BY <1>3, PeerFacts DEF AuthorizeRefuses, AuthorizeThrows, LinkInv, TypeInv,
                           TypeOK, peers
  <2>2. \E frames \in {<<>>, <<"PAIR_REJECT">>} : CloseAfter(s, frames)
    BY <1>3 DEF AuthorizeRefuses, AuthorizeThrows, Close
  <2>3. session[s]
    BY <2>1 DEF LinkInv, EndInv, ApprovalsMean
  <2>4. QED
    BY <1>0, <2>1, <2>2, <2>3, CloseKeepsLinkInv
<1>4. ASSUME NEW s \in Side, AcceptHello(s) \/ AuthorizeApproves(s)
                             \/ AuthorizeTooLate(s) \/ ReceivePairAccept(s)
                             \/ ReceiveMessage(s) \/ DropFrame(s) \/ SendAppMessage(s)
      PROVE  LinkInv'
  BY <1>0, <1>4, AcceptHelloKeeps, ApprovesKeeps, TooLateKeeps, PairAcceptKeeps,
     HandledKeeps, SendAppKeeps
<1>5. CASE LineBreaks
  BY <1>0, <1>5, BreakKeepsLinkInv
<1>6. CASE UNCHANGED vars
  BY <1>0, <1>6 DEF vars, peers, LinkInv, EndInv, ApprovalsMean, FramesMean, FrameMeans,
                    Conveyed, HasHello, HasAccept
<1>7. QED
  BY <1>1, <1>2, <1>3, <1>4, <1>5, <1>6 DEF Next, Handles, Answers

(* The inductive invariant: what each end has decided, what it has been told,
   and what every frame still on the socket will tell it agree. *)
THEOREM LinkInvariant == Spec => []LinkInv
<1>1. Init => LinkInv
  <2> SUFFICES ASSUME Init PROVE LinkInv
    OBVIOUS
  <2>1. TypeInv
    BY MaxAppAssumption, FrameSeqs DEF Init, TypeInv, TypeOK, Keyed, State, Promise
  <2>2. ASSUME NEW s \in Side PROVE EndInv(s)
    <3>1. inbox[s] = <<>> /\ Len(inbox[s]) = 0
      BY <2>2, EmptySeq DEF Init
    <3>2. QED
      BY <2>2, <3>1, PeerFacts DEF Init, EndInv, ApprovalsMean, FramesMean, Conveyed
  <2>3. QED
    BY <2>1, <2>2 DEF LinkInv
<1>2. QED
  BY <1>1, LinkInvStep, PTL DEF Spec

-----------------------------------------------------------------------------
(* What follows from it. *)

(* Mutual consent: maybeConnected never reports a link to one end that the
   policies of both ends have not approved. *)
THEOREM Consented == Spec => []MutualConsent
<1>1. LinkInv => MutualConsent
  <2> SUFFICES ASSUME LinkInv, NEW s \in Side, state[s] = "connected", NEW t \in Side
               PROVE  authorize[t] = "approved"
    BY DEF MutualConsent
  <2>1. Peer(s) \in Side /\ (t = s \/ t = Peer(s))
    BY PeerFacts
  <2>2. ApprovalsMean(s) /\ ApprovalsMean(Peer(s))
    BY <2>1 DEF LinkInv, EndInv
  <2>3. QED
    BY <2>1, <2>2 DEF ApprovalsMean
<1>2. QED
  BY <1>1, LinkInvariant, PTL

(* Nothing outruns its state: handleFrame never meets an encrypted frame
   without a session, nor routeEnvelope a message without a connected end. *)
THEOREM InOrder == Spec => []NothingOutrunsItsState
<1>1. LinkInv => NothingOutrunsItsState
  <2> SUFFICES ASSUME LinkInv, NEW s \in Side, Live(s), inbox[s] # <<>>
               PROVE  /\ Head(inbox[s]) \in EncryptedFrame => session[s]
                      /\ Head(inbox[s]) = "MESSAGE" => state[s] = "connected"
    BY DEF NothingOutrunsItsState
  <2>1. EndInv(s) /\ inbox[s] \in Seq(Frame)
    BY DEF LinkInv, TypeInv, TypeOK
  <2>2. Head(inbox[s]) = inbox[s][1] /\ FrameMeans(s, 1)
    BY <2>1, EmptySeq DEF EndInv, FramesMean
  <2>3. ~HasHello(inbox[s], 1 - 1) /\ ~HasAccept(inbox[s], 1 - 1)
    BY DEF HasHello, HasAccept
  <2>4. QED
    BY <2>1, <2>2, <2>3 DEF FrameMeans, EndInv, ApprovalsMean, Live
<1>2. QED
  BY <1>1, LinkInvariant, PTL

(* No lost wake-up between the owner's approval and the peer's PAIR_ACCEPT,
   whichever maybeConnected sees last. *)
THEOREM NoStall == Spec => []AcceptsNeverStall
<1>1. LinkInv => AcceptsNeverStall
  <2> SUFFICES ASSUME LinkInv, clocksAgree,
                      \A s \in Side : Live(s) /\ localApproved[s] /\ inbox[s] = <<>>,
                      NEW s \in Side
               PROVE  state[s] = "connected"
    BY DEF AcceptsNeverStall
  <2>1. EndInv(s) /\ Peer(s) \in Side /\ line \in {"up", "broken"}
    BY PeerFacts DEF LinkInv, TypeInv, TypeOK
  <2>2. Len(inbox[s]) = 0
    BY EmptySeq
  <2>3. remoteApproved[s]
    BY <2>1, <2>2 DEF EndInv, Conveyed, HasAccept, Live
  <2>4. QED
    BY <2>1, <2>3 DEF EndInv, ApprovalsMean, Live
<1>2. QED
  BY <1>1, LinkInvariant, PTL

(* A half-up link has its resolution in flight. *)
THEOREM HalfUpResolves == Spec => []HalfUpIsTransient
<1>1. LinkInv => HalfUpIsTransient
  <2> SUFFICES ASSUME LinkInv, NEW s \in Side, state[s] = "connected", Live(Peer(s)),
                      state[Peer(s)] # "connected"
               PROVE  \E i \in 1..Len(inbox[Peer(s)]) :
                         inbox[Peer(s)][i] \in {"PAIR_ACCEPT", "CLOSE"}
    BY DEF HalfUpIsTransient
  <2>1. /\ EndInv(s) /\ EndInv(Peer(s)) /\ Peer(Peer(s)) = s
        /\ line \in {"up", "broken"}
    BY PeerFacts DEF LinkInv, TypeInv, TypeOK
  <2>2. /\ localApproved[s] /\ localApproved[Peer(s)] /\ clocksAgree
        /\ ~remoteApproved[Peer(s)]
    BY <2>1 DEF EndInv, ApprovalsMean, Live
  <2>3. QED
    BY <2>1, <2>2 DEF EndInv, Conveyed, HasAccept, Live
<1>2. QED
  BY <1>1, LinkInvariant, PTL

-----------------------------------------------------------------------------
(* The handshake implements LinkContract. *)

(* A step in which one end at most decides, and at most comes up (both having
   agreed) or goes down, is a step of the contract. *)
LEMMA ContractStep ==
  ASSUME NEW s \in Side,
         \A t \in Side : t # s => Consent(t)' = Consent(t) /\ Phase(t)' = Phase(t),
         \/ Consent(s)' = Consent(s)
         \/ Consent(s) = "undecided" /\ Consent(s)' \in {"yes", "no"},
         \/ Phase(s)' = Phase(s)
         \/ Phase(s) = "opening" /\ Phase(s)' = "up"
              /\ \A t \in Side : Consent(t)' = "yes"
         \/ Phase(s) # "down" /\ Phase(s)' = "down"
  PROVE  [Contract!LinkNext]_(Contract!linkVars)
<1> DEFINE c == [t \in Side |-> Consent(t)]
           d == [t \in Side |-> Phase(t)]
<1>1. /\ c' = [c EXCEPT ![s] = Consent(s)']
      /\ d' = [d EXCEPT ![s] = Phase(s)']
      /\ c[s] = Consent(s) /\ d[s] = Phase(s)
      /\ \A t \in Side : c'[t] = Consent(t)'
  OBVIOUS
<1> HIDE DEF c, d
<1>2. c' = c \/ Contract!Decide(s)
  BY <1>1 DEF Contract!Decide, c, d
<1>3. d' = d \/ Contract!ComeUp(s) \/ Contract!GoDown(s)
  BY <1>1 DEF Contract!ComeUp, Contract!GoDown, c, d
<1>4. \/ c' = c /\ d' = d
      \/ Contract!LinkStep(s)
  BY <1>2, <1>3 DEF Contract!LinkStep, c, d
<1>5. QED
  BY <1>4 DEF Contract!LinkNext, Contract!linkVars, c, d

(* maybeConnected either changes no phase, or brings s up with both consents. *)
LEMMA ComesUpConsented ==
  ASSUME LinkInv, LinkInv', NEW s \in Side, MaybeConnected(s), state[s] # "absent",
         state[s] # "closed"
  PROVE  /\ \A t \in Side : t # s => state'[t] = state[t]
         /\ \/ state'[s] = state[s]
            \/ /\ Phase(s) = "opening" /\ Phase(s)' = "up"
               /\ \A t \in Side : Consent(t)' = "yes"
<1>1. state \in [Side -> State]
  BY DEF LinkInv, TypeInv, TypeOK
<1>2. CASE BothApproved(s) /\ state[s] # "connected"
  <2>1. state' = [state EXCEPT ![s] = "connected"]
    BY <1>2 DEF MaybeConnected
  <2>2. \A t \in Side : authorize'[t] = "approved"
    <3>1. Peer(s) \in Side /\ \A t \in Side : t = s \/ t = Peer(s)
      BY PeerFacts
    <3>2. ApprovalsMean(s)' /\ ApprovalsMean(Peer(s))'
      BY <3>1 DEF LinkInv, EndInv
    <3>3. authorize'[s] = "approved" /\ authorize'[Peer(s)] = "approved"
      BY <1>2, <3>2 DEF BothApproved, ApprovalsMean
    <3>4. QED
      BY <3>1, <3>3
  <2>3. QED
    BY <1>1, <1>2, <2>1, <2>2 DEF Phase, Consent
<1>3. CASE ~(BothApproved(s) /\ state[s] # "connected")
  BY <1>3 DEF MaybeConnected
<1>4. QED
  BY <1>2, <1>3

(* Every step of the link is a step of the contract, or none. *)
LEMMA StepImplements ==
  LinkInv /\ LinkInv' /\ [Next]_vars => [Contract!LinkNext]_(Contract!linkVars)
<1> SUFFICES ASSUME LinkInv, LinkInv', [Next]_vars
             PROVE  [Contract!LinkNext]_(Contract!linkVars)
  OBVIOUS
<1>0. /\ state \in [Side -> State] /\ authorize \in [Side -> Promise]
      /\ Initiator \in Side
  BY DEF LinkInv, TypeInv, TypeOK, Side
<1>1. ASSUME state' = state, authorize' = authorize
      PROVE  [Contract!LinkNext]_(Contract!linkVars)
  <2>1. \A t \in Side : Consent(t)' = Consent(t) /\ Phase(t)' = Phase(t)
    BY <1>1 DEF Consent, Phase
  <2>2. QED
    BY <1>0, <2>1, ContractStep
<1>2. ASSUME NEW s \in Side, authorize' = authorize,
             state[s] \in {"absent", "handshaking", "pairing"},
             \E st \in {"handshaking", "pairing"} : state' = [state EXCEPT ![s] = st]
      PROVE  [Contract!LinkNext]_(Contract!linkVars)
  <2>1. \A t \in Side : Consent(t)' = Consent(t) /\ Phase(t)' = Phase(t)
    BY <1>0, <1>2 DEF Consent, Phase
  <2>2. QED
    BY <1>0, <2>1, ContractStep
<1>3. CASE StartResponder
  BY <1>2, <1>3 DEF StartResponder, Side
<1>4. CASE StartInitiator
  BY <1>2, <1>4 DEF StartInitiator, Side
<1>5. ASSUME NEW s \in Side, NEW frames, CloseAfter(s, frames),
             authorize'[s] = authorize[s]
               \/ (authorize[s] = "asking" /\ authorize'[s] \in {"refused", "failed"}),
             \A t \in Side : t # s => authorize'[t] = authorize[t]
      PROVE  [Contract!LinkNext]_(Contract!linkVars)
  <2>1. state' = [state EXCEPT ![s] = "closed"]
    BY <1>5 DEF CloseAfter
  <2>2. \A t \in Side : t # s => Consent(t)' = Consent(t) /\ Phase(t)' = Phase(t)
    BY <1>0, <1>5, <2>1 DEF Consent, Phase
  <2>3. Phase(s)' = "down"
    BY <1>0, <2>1 DEF Phase
  <2>4. \/ Consent(s)' = Consent(s)
        \/ Consent(s) = "undecided" /\ Consent(s)' \in {"yes", "no"}
    BY <1>5 DEF Consent
  <2>5. QED
    BY <2>2, <2>3, <2>4, ContractStep
<1>6. ASSUME NEW s \in Side, RefuseHello(s) \/ ReceivePairReject(s) \/ SocketClosed(s)
                             \/ HandshakeTimeout(s) \/ LocalClose(s)
      PROVE  [Contract!LinkNext]_(Contract!linkVars)
  BY <1>5, <1>6 DEF RefuseHello, ReceivePairReject, SocketClosed, HandshakeTimeout,
                    LocalClose, Close
<1>7. ASSUME NEW s \in Side, AuthorizeRefuses(s) \/ AuthorizeThrows(s)
      PROVE  [Contract!LinkNext]_(Contract!linkVars)
  <2>1. /\ authorize[s] = "asking" /\ authorize'[s] \in {"refused", "failed"}
        /\ \A t \in Side : t # s => authorize'[t] = authorize[t]
        /\ \E frames \in {<<>>, <<"PAIR_REJECT">>} : CloseAfter(s, frames)
    BY <1>0, <1>7 DEF AuthorizeRefuses, AuthorizeThrows, Close
  <2>2. QED
    BY <1>5, <2>1
<1>8. ASSUME NEW s \in Side, AcceptHello(s)
      PROVE  [Contract!LinkNext]_(Contract!linkVars)
  <2>1. /\ state[s] \in {"handshaking", "pairing"} /\ authorize[s] = "none"
        /\ state' = [state EXCEPT ![s] = "pairing"]
        /\ authorize' = [authorize EXCEPT ![s] = "asking"]
    BY <1>0, <1>8 DEF AcceptHello, Receives, Live, LinkInv, EndInv, ApprovalsMean, State
  <2>2. \A t \in Side : Consent(t)' = Consent(t) /\ Phase(t)' = Phase(t)
    BY <1>0, <2>1 DEF Consent, Phase
  <2>3. QED
    BY <1>0, <2>2, ContractStep
<1>9. ASSUME NEW s \in Side, AuthorizeApproves(s)
      PROVE  [Contract!LinkNext]_(Contract!linkVars)
  <2>1. /\ authorize[s] = "asking" /\ authorize' = [authorize EXCEPT ![s] = "approved"]
        /\ MaybeConnected(s) /\ state[s] # "absent" /\ state[s] # "closed"
    BY <1>9 DEF AuthorizeApproves, Live
  <2>2. /\ \A t \in Side : t # s => state'[t] = state[t]
        /\ \/ state'[s] = state[s]
           \/ /\ Phase(s) = "opening" /\ Phase(s)' = "up"
              /\ \A t \in Side : Consent(t)' = "yes"
    BY <2>1, ComesUpConsented
  <2>3. \A t \in Side : t # s => Consent(t)' = Consent(t) /\ Phase(t)' = Phase(t)
    BY <1>0, <2>1, <2>2 DEF Consent, Phase
  <2>4. Consent(s) = "undecided" /\ Consent(s)' = "yes"
    BY <1>0, <2>1 DEF Consent
  <2>5. state'[s] = state[s] => Phase(s)' = Phase(s)
    BY DEF Phase
  <2>6. QED
    BY <2>2, <2>3, <2>4, <2>5, ContractStep
<1>10. ASSUME NEW s \in Side, ReceivePairAccept(s)
       PROVE  [Contract!LinkNext]_(Contract!linkVars)
  <2>1. authorize' = authorize /\ MaybeConnected(s) /\ state[s] # "absent"
        /\ state[s] # "closed"
    BY <1>10 DEF ReceivePairAccept, Receives, Live
  <2>2. /\ \A t \in Side : t # s => state'[t] = state[t]
        /\ \/ state'[s] = state[s]
           \/ /\ Phase(s) = "opening" /\ Phase(s)' = "up"
              /\ \A t \in Side : Consent(t)' = "yes"
    BY <2>1, ComesUpConsented
  <2>3. \A t \in Side : Consent(t)' = Consent(t) /\ (t # s => Phase(t)' = Phase(t))
    BY <2>1, <2>2 DEF Consent, Phase
  <2>4. state'[s] = state[s] => Phase(s)' = Phase(s)
    BY DEF Phase
  <2>5. QED
    BY <2>2, <2>3, <2>4, ContractStep
<1>11. ASSUME NEW s \in Side, AuthorizeTooLate(s)
       PROVE  [Contract!LinkNext]_(Contract!linkVars)
  <2>1. /\ state' = state /\ authorize[s] = "asking"
        /\ authorize'[s] \in {"approved", "refused", "failed"}
        /\ \A t \in Side : t # s => authorize'[t] = authorize[t]
    BY <1>0, <1>11 DEF AuthorizeTooLate
  <2>2. /\ \A t \in Side : Phase(t)' = Phase(t) /\ (t # s => Consent(t)' = Consent(t))
        /\ Consent(s) = "undecided" /\ Consent(s)' \in {"yes", "no"}
    BY <2>1 DEF Consent, Phase
  <2>3. QED
    BY <2>2, ContractStep
<1>12. ASSUME NEW s \in Side, ReceiveMessage(s) \/ DropFrame(s) \/ SendAppMessage(s)
       PROVE  [Contract!LinkNext]_(Contract!linkVars)
  BY <1>1, <1>12 DEF ReceiveMessage, DropFrame, SendAppMessage
<1>13. CASE LineBreaks \/ UNCHANGED vars
  BY <1>1, <1>13 DEF LineBreaks, vars
<1>14. QED
  BY <1>3, <1>4, <1>6, <1>7, <1>8, <1>9, <1>10, <1>11, <1>12, <1>13
     DEF Next, Handles, Answers

(* Refinement: two PeerConnections keep the contract their owners rely on;
   in particular an end that is closed stays closed and never comes up on a
   late answer of authorize. *)
THEOREM Implements == Spec => ImplementsContract
<1>1. Init => Contract!LinkInit
  BY DEF Init, Contract!LinkInit, Consent, Phase
<1>2. QED
  BY <1>1, LinkInvariant, StepImplements, PTL
     DEF Spec, ImplementsContract, Contract!LinkSpec
=============================================================================
