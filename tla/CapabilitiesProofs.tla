------------------------- MODULE CapabilitiesProofs -------------------------
(***************************************************************************)
(* What two devices know of each other, for any number of connections and  *)
(* of systems attached and detached (the bounds of Capabilities may be any *)
(* numbers).                                                               *)
(***************************************************************************)
EXTENDS Capabilities, SequenceTheorems, TLAPS

Frame == [key : {s.tx : s \in Sessions},
          message : [by : Node,
                     envelope : [sender : Node, channel : {"capabilities"}, data : Nat]]]
Data(frame) == frame.message.envelope.data
FrameOf(n) == EncodeEncrypted(session[n], Signed(n, Envelope(n, "capabilities", doc[n])))

(* The inductive invariant, in parts. *)
Typed ==
  /\ conns \in 0 .. MaxConns /\ attaches \in 0 .. MaxAttach
  /\ phase \in [Node -> {"down", "keyed", "up"}]
  /\ session \in [Node -> Sessions \cup {NoSession}]
  /\ \A n \in Node : session[n] = NoSession <=> phase[n] = "down"
  /\ wire \in [Node -> Seq(Frame)]
  /\ doc \in [Node -> 0 .. attaches] /\ remote \in [Node -> 0 .. attaches]
  /\ announced \in [Node -> BOOLEAN]
  /\ early \in [Node -> BOOLEAN] /\ heard \in [Node -> BOOLEAN]

(* Both ends have derived the same keys, and what one seals with the other opens
   with. *)
Paired(s, t) == s.sas = t.sas /\ s.entity = t.entity /\ s.tx # t.tx /\ s.tx = t.rx /\ s.rx = t.tx
Matched ==
  \A n \in Node : session[n] # NoSession /\ session[Other(n)] # NoSession =>
                    Paired(session[n], session[Other(n)])

(* What is on its way opens, is a document there has been, and if it is that of
   the system attached now this one has announced itself. *)
Meant(n, frame) ==
  /\ Opens(session[n], frame, Other(n))
  /\ Data(frame) \in 1 .. attaches
  /\ Data(frame) = doc[Other(n)] => announced[Other(n)]
OnWire ==
  \A n \in Node :
    /\ phase[n] = "down" => wire[n] = <<>>
    /\ \A k \in 1 .. Len(wire[n]) : Meant(n, wire[n][k])

(* A system that has announced itself in this connection is the last the other
   end will hear of, or the last it has heard of, unless that end had no system
   to hear it; the system that it has now has then not announced itself. *)
Told(n) == phase[n] = "up" /\ Attached(n) /\ announced[n] /\ phase[Other(n)] # "down"
Reaches(n) ==
  LET m == Other(n)
  IN \/ wire[m] # <<>> /\ Data(wire[m][Len(wire[m])]) = doc[n]
     \/ /\ wire[m] = <<>> /\ phase[m] = "up"
        /\ remote[m] = doc[n] \/ ~Attached(m) \/ ~announced[m]
Conveyed == \A n \in Node : Told(n) => Reaches(n)

Heard ==
  \A n \in Node : heard[n] =>
    Attached(n) /\ announced[n] /\ Attached(Other(n)) /\ announced[Other(n)]
Early ==
  \A n \in Node : early[n] => Attached(n) /\ (phase[n] = "up" => announced[n])

CapInv == Typed /\ Matched /\ OnWire /\ Conveyed /\ Heard /\ Early

-----------------------------------------------------------------------------
(* The two devices, and the keys of a connection. *)

LEMMA Others ==
  ASSUME NEW n \in Node
  PROVE  /\ Other(n) \in Node /\ Other(n) # n /\ Other(Other(n)) = n
         /\ \A m \in Node : m = n \/ m = Other(n)
<1>1. PICK a \in Node, b \in Node : a # b /\ Node = {a, b}
  BY NodeAssumption
<1>2. Other(a) = b /\ Other(b) = a
  BY <1>1 DEF Other
<1> QED BY <1>1, <1>2

LEMMA KeysPair ==
  ASSUME NEW ours, NEW theirs
  PROVE  /\ Paired(SessionOf("initiator", ours, theirs), SessionOf("responder", theirs, ours))
         /\ Paired(SessionOf("responder", theirs, ours), SessionOf("initiator", ours, theirs))
<1>1. Shared(ours, theirs) = Shared(theirs, ours)
  BY DEF Shared
<1>2. SessionOf("initiator", ours, theirs) =
        [tx |-> Hkdf(Shared(ours, theirs), <<ours, theirs>>, "forth"),
         rx |-> Hkdf(Shared(ours, theirs), <<ours, theirs>>, "back"),
         entity |-> Hkdf(Shared(ours, theirs), <<ours, theirs>>, "entity"),
         sas |-> <<ours, theirs>>]
  BY DEF SessionOf, DeriveSession
<1>3. SessionOf("responder", theirs, ours) =
        [tx |-> Hkdf(Shared(ours, theirs), <<ours, theirs>>, "back"),
         rx |-> Hkdf(Shared(ours, theirs), <<ours, theirs>>, "forth"),
         entity |-> Hkdf(Shared(ours, theirs), <<ours, theirs>>, "entity"),
         sas |-> <<ours, theirs>>]
  BY <1>1 DEF SessionOf, DeriveSession
<1>4. Hkdf(Shared(ours, theirs), <<ours, theirs>>, "forth") #
      Hkdf(Shared(ours, theirs), <<ours, theirs>>, "back")
  BY DEF Hkdf
<1> HIDE DEF Hkdf, Shared
<1> QED BY <1>2, <1>3, <1>4 DEF Paired

-----------------------------------------------------------------------------
(* sendTo(): one frame more, if the other end is there. *)

LEMMA Sent ==
  ASSUME CapInv, NEW n \in Node, phase[n] # "down", Attached(n),
         NEW w \in [Node -> Seq(Frame)], SendTo(n, w)
  PROVE  /\ FrameOf(n) \in Frame /\ Data(FrameOf(n)) = doc[n]
         /\ wire' \in [Node -> Seq(Frame)]
         /\ wire'[n] = w[n]
         /\ wire'[Other(n)] = IF phase[Other(n)] = "down" THEN w[Other(n)]
                              ELSE Append(w[Other(n)], FrameOf(n))
         /\ phase[Other(n)] # "down" => Opens(session[Other(n)], FrameOf(n), n)
<1>1. /\ session[n] \in Sessions /\ doc[n] \in Nat
      /\ session[Other(n)] = NoSession <=> phase[Other(n)] = "down"
      /\ Other(n) \in Node /\ Other(n) # n /\ session[n] # NoSession
  BY Others DEF CapInv, Typed
<1>2. /\ FrameOf(n) = [key |-> session[n].tx,
                       message |-> [by |-> n, envelope |->
                         [sender |-> n, channel |-> "capabilities", data |-> doc[n]]]]
  BY DEF FrameOf, EncodeEncrypted, Signed, Envelope
<1>3. FrameOf(n) \in Frame /\ Data(FrameOf(n)) = doc[n]
  BY <1>1, <1>2 DEF Frame, Data
<1>4. phase[Other(n)] # "down" => Opens(session[Other(n)], FrameOf(n), n)
  BY <1>1, <1>2 DEF CapInv, Matched, Paired, Opens, Decrypts, Authentic
<1>5. wire' = IF phase[Other(n)] = "down" THEN w ELSE [w EXCEPT ![Other(n)] = Append(@, FrameOf(n))]
  BY DEF SendTo, FrameOf
<1> HIDE DEF FrameOf, Frame
<1>6. Append(w[Other(n)], FrameOf(n)) \in Seq(Frame)
  BY <1>1, <1>3
<1> QED BY <1>1, <1>3, <1>4, <1>5, <1>6

LEMMA Appended ==
  ASSUME NEW q \in Seq(Frame), NEW x \in Frame
  PROVE  /\ Append(q, x) # <<>> /\ Append(q, x)[Len(Append(q, x))] = x
         /\ \A k \in 1 .. Len(Append(q, x)) :
              Append(q, x)[k] = x \/ \E j \in 1 .. Len(q) : Append(q, x)[k] = q[j]
<1> HIDE DEF Frame
<1>1. /\ Len(q) \in Nat /\ Len(Append(q, x)) = Len(q) + 1
      /\ Append(q, x)[Len(q) + 1] = x
      /\ \A k \in 1 .. Len(q) : Append(q, x)[k] = q[k]
  OBVIOUS
<1>2. Append(q, x) # <<>>
  BY <1>1, EmptySeq
<1>3. \A k \in 1 .. Len(Append(q, x)) : k = Len(q) + 1 \/ k \in 1 .. Len(q)
  BY <1>1
<1> QED BY <1>1, <1>2, <1>3

LEMMA Consumed ==
  ASSUME NEW q \in Seq(Frame), q # <<>>
  PROVE  /\ Tail(q) \in Seq(Frame) /\ Head(q) \in Frame
         /\ Len(q) \in Nat /\ 1 \in 1 .. Len(q) /\ Head(q) = q[1]
         /\ \A k \in 1 .. Len(Tail(q)) : k + 1 \in 1 .. Len(q) /\ Tail(q)[k] = q[k + 1]
         /\ IF Tail(q) = <<>> THEN Head(q) = q[Len(q)]
                              ELSE Tail(q)[Len(Tail(q))] = q[Len(q)]
<1> HIDE DEF Frame
<1>1. /\ Tail(q) \in Seq(Frame) /\ Head(q) \in Frame /\ Head(q) = q[1]
      /\ Len(q) \in Nat \ {0} /\ Len(Tail(q)) = Len(q) - 1
      /\ \A k \in 1 .. Len(Tail(q)) : Tail(q)[k] = q[k + 1]
  OBVIOUS
<1>2. Tail(q) = <<>> <=> Len(q) = 1
  <2>1. Tail(q) = <<>> <=> Len(Tail(q)) = 0
    BY <1>1, EmptySeq
  <2> QED BY <1>1, <2>1
<1> QED BY <1>1, <1>2

-----------------------------------------------------------------------------
(* The connection. *)

LEMMA HandshakeKeeps ==
  ASSUME CapInv, NEW dialler \in Node, Handshake(dialler)
  PROVE  CapInv'
<1>1. /\ \A n \in Node : phase[n] = "down"
      /\ conns < MaxConns /\ conns' = conns + 1
      /\ phase' = [n \in Node |-> "keyed"]
      /\ session' = [n \in Node |-> SessionOf(IF n = dialler THEN "initiator" ELSE "responder",
                                              <<n, conns'>>, <<Other(n), conns'>>)]
      /\ wire' = [n \in Node |-> <<>>]
      /\ heard' = [n \in Node |-> FALSE]
      /\ UNCHANGED <<attaches, doc, remote, announced, early>>
  BY DEF Handshake, service
<1>2. conns' \in 1 .. MaxConns
  BY <1>1, BoundsAssumption DEF CapInv, Typed
<1>3. \A n \in Node : session'[n] \in Sessions /\ session'[n] # NoSession
  <2> SUFFICES ASSUME NEW n \in Node PROVE session'[n] \in Sessions
    BY SessionAssumption
  <2>1. Other(n) \in Node
    BY Others
  <2> QED BY <1>1, <1>2, <2>1 DEF Sessions
<1>4. Typed'
  <2>1. wire' \in [Node -> Seq(Frame)]
    <3>1. <<>> \in Seq(Frame)
      OBVIOUS
    <3> QED BY <1>1, <3>1
  <2>2. session' \in [Node -> Sessions \cup {NoSession}]
    BY <1>1, <1>3
  <2> QED BY <1>1, <1>2, <1>3, <2>1, <2>2 DEF CapInv, Typed
<1>5. Matched'
  <2> SUFFICES ASSUME NEW n \in Node PROVE Paired(session'[n], session'[Other(n)])
    BY DEF Matched
  <2>1. Other(n) \in Node /\ Other(n) # n /\ Other(Other(n)) = n
        /\ (dialler = n \/ dialler = Other(n))
    BY Others
  <2>2. CASE dialler = n
    BY <1>1, <2>1, <2>2, KeysPair
  <2>3. CASE dialler = Other(n)
    BY <1>1, <2>1, <2>3, KeysPair
  <2> QED BY <2>1, <2>2, <2>3
<1>6. OnWire'
  BY <1>1 DEF OnWire
<1>7. Conveyed' /\ Heard' /\ Early'
  BY <1>1 DEF CapInv, Conveyed, Told, Heard, Early, Attached
<1> QED BY <1>4, <1>5, <1>6, <1>7 DEF CapInv

LEMMA ComesUpKeeps ==
  ASSUME CapInv, NEW n \in Node, ComesUp(n)
  PROVE  CapInv'
<1> DEFINE m == Other(n)
<1>1. /\ phase[n] = "keyed" /\ phase' = [phase EXCEPT ![n] = "up"]
      /\ early' = [early EXCEPT ![n] = Attached(n)]
      /\ IF Attached(n) THEN SendTo(n, wire) /\ announced' = [announced EXCEPT ![n] = TRUE]
                        ELSE UNCHANGED <<wire, announced>>
      /\ UNCHANGED <<conns, session, attaches, doc, remote, heard>>
  BY DEF ComesUp, Subscribed, Announce
<1>2. m \in Node /\ m # n /\ Other(m) = n /\ \A x \in Node : x = n \/ x = m
  BY Others
<1>3. Typed /\ Matched /\ OnWire /\ Conveyed /\ Heard /\ Early
  BY DEF CapInv
<1>4. /\ wire' \in [Node -> Seq(Frame)]
      /\ wire'[n] = wire[n]
      /\ announced' \in [Node -> BOOLEAN] /\ announced'[m] = announced[m]
      /\ announced[n] => announced'[n]
      /\ Attached(n) => announced'[n]
      /\ \/ wire'[m] = wire[m] /\ (Attached(n) => phase[m] = "down")
         \/ /\ wire'[m] = Append(wire[m], FrameOf(n)) /\ FrameOf(n) \in Frame
            /\ Data(FrameOf(n)) = doc[n] /\ Opens(session[m], FrameOf(n), n)
            /\ Attached(n) /\ phase[m] # "down"
  <2>1. CASE Attached(n)
    BY <1>1, <1>2, <1>3, <2>1, Sent DEF Typed
  <2>2. CASE ~Attached(n)
    BY <1>1, <1>2, <1>3, <2>2 DEF Typed
  <2> QED BY <2>1, <2>2
<1> HIDE DEF m
<1>5. /\ phase'[n] = "up" /\ phase'[m] = phase[m] /\ early'[m] = early[m]
      /\ early'[n] = Attached(n)
      /\ doc[n] \in 0 .. attaches /\ attaches \in Nat
  BY <1>1, <1>2, <1>3 DEF Typed
<1>6. Typed'
  <2>1. phase' \in [Node -> {"down", "keyed", "up"}] /\ early' \in [Node -> BOOLEAN]
    BY <1>1, <1>3 DEF Typed, Attached
  <2>2. \A x \in Node : session'[x] = NoSession <=> phase'[x] = "down"
    BY <1>1, <1>2, <1>3, <1>5 DEF Typed
  <2> QED BY <1>1, <1>3, <1>4, <2>1, <2>2 DEF Typed
<1>7. Matched'
  BY <1>1, <1>3 DEF Matched
<1>8. OnWire'
  <2>1. ASSUME NEW k \in 1 .. Len(wire'[n]) PROVE Meant(n, wire[n][k])'
    <3>1. Meant(n, wire[n][k])
      BY <1>3, <1>4, <2>1 DEF OnWire
    <3> QED BY <1>1, <1>2, <1>4, <3>1 DEF Meant, m
  <2>2. ASSUME NEW k \in 1 .. Len(wire'[m]) PROVE Meant(m, wire[m][k])'
    <3>1. CASE wire'[m] = wire[m]
      <4>1. Meant(m, wire[m][k])
        BY <1>2, <1>3, <2>2, <3>1 DEF OnWire
      <4> QED BY <1>1, <1>2, <1>4, <3>1, <4>1 DEF Meant
    <3>2. CASE wire'[m] = Append(wire[m], FrameOf(n)) /\ FrameOf(n) \in Frame
               /\ Data(FrameOf(n)) = doc[n] /\ Opens(session[m], FrameOf(n), n)
               /\ Attached(n)
      <4>1. CASE wire'[m][k] = FrameOf(n)
        BY <1>1, <1>2, <1>4, <1>5, <3>2, <4>1 DEF Meant, Attached
      <4>2. ASSUME NEW j \in 1 .. Len(wire[m]), wire'[m][k] = wire[m][j]
            PROVE  Meant(m, wire[m][k])'
        <5>1. Meant(m, wire[m][j])
          BY <1>2, <1>3 DEF OnWire
        <5> QED BY <1>1, <1>2, <1>4, <4>2, <5>1 DEF Meant
      <4>3. wire[m] \in Seq(Frame)
        BY <1>2, <1>3 DEF Typed
      <4> QED BY <2>2, <3>2, <4>1, <4>2, <4>3, Appended
    <3> QED BY <1>4, <3>1, <3>2
  <2>3. \A x \in Node : phase'[x] = "down" => wire'[x] = <<>>
    BY <1>2, <1>3, <1>4, <1>5 DEF OnWire
  <2> QED BY <1>2, <2>1, <2>2, <2>3 DEF OnWire
<1>9. Conveyed'
  <2>1. Told(n)' => Reaches(n)'
    <3>1. wire[m] \in Seq(Frame)
      BY <1>2, <1>3 DEF Typed
    <3> QED BY <1>1, <1>4, <1>5, <3>1, Appended DEF Told, Reaches, Attached, m
  <2>2. Told(m)' => Reaches(m)'
    BY <1>1, <1>2, <1>3, <1>4, <1>5 DEF Conveyed, Told, Reaches, Attached
  <2> QED BY <1>2, <2>1, <2>2 DEF Conveyed
<1>10. Heard' /\ Early'
  <2>1. ASSUME NEW x \in Node, heard'[x]
        PROVE  (Attached(x) /\ announced[x] /\ Attached(Other(x)) /\ announced[Other(x)])'
    <3>1. Attached(x) /\ announced[x] /\ Attached(Other(x)) /\ announced[Other(x)]
      BY <1>1, <1>3, <2>1 DEF Heard
    <3>2. announced'[x] /\ announced'[Other(x)]
      BY <1>2, <1>4, <3>1, Others DEF m
    <3> QED BY <1>1, <3>1, <3>2 DEF Attached
  <2>2. early'[n] => Attached(n)' /\ announced'[n]
    BY <1>1, <1>4, <1>5 DEF Attached
  <2>3. early'[m] => Attached(m)' /\ (phase'[m] = "up" => announced'[m])
    BY <1>1, <1>2, <1>3, <1>4, <1>5 DEF Early, Attached
  <2> QED BY <1>2, <2>1, <2>2, <2>3 DEF Heard, Early
<1> QED BY <1>6, <1>7, <1>8, <1>9, <1>10 DEF CapInv

LEMMA GoesDownKeeps ==
  ASSUME CapInv, NEW n \in Node, GoesDown(n)
  PROVE  CapInv'
<1> DEFINE m == Other(n)
<1>1. /\ phase' = [phase EXCEPT ![n] = "down"] /\ session' = [session EXCEPT ![n] = NoSession]
      /\ wire' = [wire EXCEPT ![n] = <<>>]
      /\ UNCHANGED <<conns, attaches, doc, remote, announced, early, heard>>
  BY DEF GoesDown, service
<1>2. m \in Node /\ m # n /\ Other(m) = n /\ \A x \in Node : x = n \/ x = m
  BY Others
<1>3. Typed /\ Matched /\ OnWire /\ Conveyed /\ Heard /\ Early
  BY DEF CapInv
<1>4. /\ phase'[n] = "down" /\ phase'[m] = phase[m]
      /\ session'[n] = NoSession /\ session'[m] = session[m]
      /\ wire'[n] = <<>> /\ wire'[m] = wire[m]
  BY <1>1, <1>2, <1>3 DEF Typed
<1>5. Typed'
  <2>1. <<>> \in Seq(Frame)
    OBVIOUS
  <2>2. /\ phase' \in [Node -> {"down", "keyed", "up"}]
        /\ session' \in [Node -> Sessions \cup {NoSession}]
        /\ wire' \in [Node -> Seq(Frame)]
    BY <1>1, <1>3, <2>1 DEF Typed
  <2>3. \A x \in Node : session'[x] = NoSession <=> phase'[x] = "down"
    BY <1>2, <1>3, <1>4 DEF Typed
  <2> QED BY <1>1, <1>3, <2>2, <2>3 DEF Typed
<1>6. Matched'
  BY <1>2, <1>4 DEF Matched
<1>7. OnWire'
  <2>1. \A k \in 1 .. Len(wire'[m]) : Meant(m, wire[m][k])'
    BY <1>1, <1>2, <1>3, <1>4 DEF OnWire, Meant
  <2>2. Len(wire'[n]) = 0
    BY <1>4
  <2>3. phase'[m] = "down" => wire'[m] = <<>>
    BY <1>2, <1>3, <1>4 DEF OnWire
  <2> QED BY <1>2, <1>4, <2>1, <2>2, <2>3 DEF OnWire
<1>8. Conveyed'
  BY <1>2, <1>4 DEF Conveyed, Told
<1>9. Heard' /\ Early'
  BY <1>1, <1>2, <1>3, <1>4 DEF Heard, Early, Attached
<1> QED BY <1>5, <1>6, <1>7, <1>8, <1>9 DEF CapInv

-----------------------------------------------------------------------------
(* The service. *)

LEMMA ReceiveKeeps ==
  ASSUME CapInv, NEW n \in Node, Receive(n)
  PROVE  CapInv'
<1> DEFINE m == Other(n)
           frame == Head(wire[n])
           rest == [wire EXCEPT ![n] = Tail(@)]
<1>1. /\ phase[n] = "up" /\ wire[n] # <<>>
      /\ IF Opens(session[n], frame, m) /\ Attached(n)
         THEN OnCapabilities(n, Data(frame), rest)
         ELSE wire' = rest /\ UNCHANGED <<remote, announced, heard>>
      /\ UNCHANGED <<conns, phase, session, attaches, doc, early>>
  BY DEF Receive, Data
<1>2. m \in Node /\ m # n /\ Other(m) = n /\ \A x \in Node : x = n \/ x = m
  BY Others
<1>3. Typed /\ Matched /\ OnWire /\ Conveyed /\ Heard /\ Early
  BY DEF CapInv
<1>4. wire[n] \in Seq(Frame) /\ wire[m] \in Seq(Frame)
  BY <1>2, <1>3 DEF Typed
<1>5. /\ Tail(wire[n]) \in Seq(Frame)
      /\ 1 \in 1 .. Len(wire[n]) /\ frame = wire[n][1]
      /\ \A k \in 1 .. Len(Tail(wire[n])) :
           k + 1 \in 1 .. Len(wire[n]) /\ Tail(wire[n])[k] = wire[n][k + 1]
      /\ IF Tail(wire[n]) = <<>> THEN frame = wire[n][Len(wire[n])]
         ELSE Tail(wire[n])[Len(Tail(wire[n]))] = wire[n][Len(wire[n])]
  BY <1>1, <1>4, Consumed
<1>6. Meant(n, frame)
  BY <1>3, <1>5 DEF OnWire
<1>7. rest \in [Node -> Seq(Frame)] /\ rest[n] = Tail(wire[n]) /\ rest[m] = wire[m]
  BY <1>2, <1>3, <1>5 DEF Typed
<1> HIDE DEF frame, rest
<1>8. /\ wire' \in [Node -> Seq(Frame)] /\ wire'[n] = Tail(wire[n])
      /\ announced' \in [Node -> BOOLEAN] /\ announced'[m] = announced[m]
      /\ remote' \in [Node -> 0 .. attaches] /\ remote'[m] = remote[m]
      /\ heard' \in [Node -> BOOLEAN] /\ heard'[m] = heard[m]
      /\ announced[n] => announced'[n]
      /\ Attached(n) => remote'[n] = Data(frame)
      /\ heard'[n] => heard[n] \/ (Attached(n) /\ announced'[n] /\ Data(frame) = doc[m])
      /\ \/ wire'[m] = wire[m] /\ announced'[n] = announced[n]
         \/ wire'[m] = wire[m] /\ phase[m] = "down"
         \/ /\ wire'[m] = Append(wire[m], FrameOf(n)) /\ FrameOf(n) \in Frame
            /\ Data(FrameOf(n)) = doc[n] /\ Opens(session[m], FrameOf(n), n)
            /\ Attached(n) /\ phase[m] # "down" /\ announced'[n]
  <2>1. CASE ~Attached(n)
    BY <1>1, <1>2, <1>3, <1>7, <2>1 DEF Typed
  <2>2. ASSUME Attached(n)
        PROVE  /\ remote' = [remote EXCEPT ![n] = Data(frame)]
               /\ heard' = [heard EXCEPT ![n] = Data(frame) = doc[m]]
               /\ IF ~announced[n]
                  THEN SendTo(n, rest) /\ announced' = [announced EXCEPT ![n] = TRUE]
                  ELSE wire' = rest /\ UNCHANGED announced
    BY <1>1, <1>6, <2>2 DEF Meant, OnCapabilities, Answers, Announce, m
  <2>3. Data(frame) \in 0 .. attaches
    BY <1>3, <1>6 DEF Meant, Typed
  <2>4. ASSUME Attached(n)
        PROVE  /\ remote' \in [Node -> 0 .. attaches] /\ remote'[m] = remote[m]
               /\ remote'[n] = Data(frame)
               /\ heard' \in [Node -> BOOLEAN] /\ heard'[m] = heard[m]
               /\ heard'[n] => Data(frame) = doc[m]
    <3>1. /\ remote' = [remote EXCEPT ![n] = Data(frame)]
          /\ heard' = [heard EXCEPT ![n] = Data(frame) = doc[m]]
      BY <2>2, <2>4
    <3>2. /\ remote' \in [Node -> 0 .. attaches] /\ remote'[m] = remote[m]
          /\ remote'[n] = Data(frame)
      BY <1>2, <1>3, <2>3, <3>1 DEF Typed
    <3>3. heard \in [Node -> BOOLEAN] /\ (Data(frame) = doc[m]) \in BOOLEAN
      BY <1>3 DEF Typed
    <3>4. heard' \in [Node -> BOOLEAN] /\ heard'[m] = heard[m] /\ heard'[n] = (Data(frame) = doc[m])
      BY <1>2, <3>1, <3>3
    <3> QED BY <3>2, <3>4
  <2>5. CASE Attached(n) /\ announced[n]
    BY <1>3, <1>7, <2>2, <2>4, <2>5 DEF Typed
  <2>6. CASE Attached(n) /\ ~announced[n]
    <3>1. SendTo(n, rest) /\ phase[n] # "down"
      BY <1>1, <2>2, <2>6
    <3>2. /\ FrameOf(n) \in Frame /\ Data(FrameOf(n)) = doc[n]
          /\ wire' \in [Node -> Seq(Frame)]
          /\ wire'[n] = rest[n]
          /\ wire'[m] = IF phase[m] = "down" THEN rest[m]
                        ELSE Append(rest[m], FrameOf(n))
          /\ phase[m] # "down" => Opens(session[m], FrameOf(n), n)
      BY <1>7, <2>6, <3>1, Sent
    <3>3. /\ announced' \in [Node -> BOOLEAN] /\ announced'[m] = announced[m]
          /\ announced'[n] = TRUE
      BY <1>2, <1>3, <2>2, <2>6 DEF Typed
    <3> QED BY <1>7, <2>4, <2>6, <3>2, <3>3
  <2> QED BY <2>1, <2>5, <2>6
<1> HIDE DEF m
<1>9. Typed'
  BY <1>1, <1>3, <1>8 DEF Typed
<1>10. Matched'
  BY <1>1, <1>3 DEF Matched
<1>11. OnWire'
  <2>1. ASSUME NEW k \in 1 .. Len(wire'[n]) PROVE Meant(n, wire[n][k])'
    <3>1. Meant(n, wire[n][k + 1]) /\ wire'[n][k] = wire[n][k + 1]
      BY <1>3, <1>5, <1>8, <2>1 DEF OnWire
    <3> QED BY <1>1, <1>8, <3>1 DEF Meant, m
  <2>2. ASSUME NEW k \in 1 .. Len(wire'[m]) PROVE Meant(m, wire[m][k])'
    <3>1. CASE wire'[m] = wire[m]
      <4>1. Meant(m, wire[m][k])
        BY <1>2, <1>3, <2>2, <3>1 DEF OnWire
      <4> QED BY <1>1, <1>2, <1>8, <3>1, <4>1 DEF Meant
    <3>2. CASE wire'[m] = Append(wire[m], FrameOf(n)) /\ FrameOf(n) \in Frame
               /\ Data(FrameOf(n)) = doc[n] /\ Opens(session[m], FrameOf(n), n)
               /\ Attached(n) /\ announced'[n]
      <4>1. CASE wire'[m][k] = FrameOf(n)
        <5>1. doc[n] \in 1 .. attaches
          BY <1>3, <3>2 DEF Typed, Attached
        <5> QED BY <1>1, <1>2, <3>2, <4>1, <5>1 DEF Meant
      <4>2. ASSUME NEW j \in 1 .. Len(wire[m]), wire'[m][k] = wire[m][j]
            PROVE  Meant(m, wire[m][k])'
        <5>1. Meant(m, wire[m][j])
          BY <1>2, <1>3 DEF OnWire
        <5> QED BY <1>1, <1>2, <1>8, <4>2, <5>1 DEF Meant
      <4> QED BY <1>4, <2>2, <3>2, <4>1, <4>2, Appended
    <3> QED BY <1>8, <3>1, <3>2
  <2>3. phase'[m] = "down" => wire'[m] = <<>>
    BY <1>1, <1>2, <1>3, <1>8 DEF OnWire
  <2> QED BY <1>1, <1>2, <2>1, <2>2, <2>3 DEF OnWire
<1>12. Conveyed'
  <2>1. Told(n)' => Reaches(n)'
    <3>1. CASE wire'[m] = wire[m] /\ announced'[n] = announced[n]
      <4>1. Told(n)' => Told(n)
        BY <1>1, <3>1 DEF Told, Attached, m
      <4>2. Reaches(n) => Reaches(n)'
        BY <1>1, <1>8, <3>1 DEF Reaches, Attached, m
      <4> QED BY <1>3, <4>1, <4>2 DEF Conveyed
    <3>2. CASE phase[m] = "down"
      BY <1>1, <3>2 DEF Told, m
    <3>3. CASE wire'[m] = Append(wire[m], FrameOf(n)) /\ FrameOf(n) \in Frame
               /\ Data(FrameOf(n)) = doc[n]
      BY <1>1, <1>4, <3>3, Appended DEF Reaches, m
    <3> QED BY <1>8, <3>1, <3>2, <3>3
  <2>2. Told(m)' => Reaches(m)'
    <3> SUFFICES ASSUME Told(m)' PROVE Reaches(m)'
      OBVIOUS
    <3>1. Told(m) /\ Reaches(m)
      BY <1>1, <1>2, <1>3, <1>8 DEF Told, Attached, Conveyed
    <3>2. Data(wire[n][Len(wire[n])]) = doc[m]
      BY <1>1, <1>2, <3>1 DEF Reaches
    <3>3. CASE wire'[n] # <<>>
      BY <1>1, <1>2, <1>5, <1>8, <3>2, <3>3 DEF Reaches
    <3>4. CASE wire'[n] = <<>>
      <4>1. Attached(n) => remote'[n] = doc[m]
        BY <1>5, <1>8, <3>2, <3>4
      <4> QED BY <1>1, <1>2, <3>4, <4>1 DEF Reaches, Attached
    <3> QED BY <3>3, <3>4
  <2> QED BY <1>2, <2>1, <2>2 DEF Conveyed
<1>13. Heard'
  <2>1. heard'[n] => /\ Attached(n) /\ announced'[n]
                     /\ Attached(m) /\ announced[m]
    <3>1. Data(frame) = doc[m] => Attached(m) /\ announced[m]
      BY <1>6 DEF Meant, Attached, m
    <3>2. heard[n] => Attached(n) /\ announced[n] /\ Attached(m) /\ announced[m]
      BY <1>3 DEF Heard, m
    <3> QED BY <1>8, <3>1, <3>2
  <2>2. heard'[m] => /\ Attached(n) /\ announced[n]
                     /\ Attached(m) /\ announced[m]
    BY <1>2, <1>3, <1>8 DEF Heard
  <2>3. Attached(n)' = Attached(n) /\ Attached(m)' = Attached(m)
    BY <1>1 DEF Attached
  <2>4. \A x \in Node : (x = n /\ Other(x) = m) \/ (x = m /\ Other(x) = n)
    BY <1>2 DEF m
  <2> QED BY <1>8, <2>1, <2>2, <2>3, <2>4 DEF Heard
<1>14. Early'
  <2>1. \A x \in Node : announced[x] => announced'[x]
    BY <1>2, <1>8
  <2> QED BY <1>1, <1>3, <2>1 DEF Early, Attached
<1> QED BY <1>9, <1>10, <1>11, <1>12, <1>13, <1>14 DEF CapInv

LEMMA AttachKeeps ==
  ASSUME CapInv, NEW n \in Node, Attach(n) \/ Detach(n)
  PROVE  CapInv'
<1> DEFINE m == Other(n)
<1>1. m \in Node /\ m # n /\ Other(m) = n /\ \A x \in Node : x = n \/ x = m
  BY Others
<1>2. Typed /\ Matched /\ OnWire /\ Conveyed /\ Heard /\ Early
  BY DEF CapInv
<1>3. UNCHANGED <<conns, phase, session, wire>> /\ heard' = [x \in Node |-> FALSE]
  BY DEF Attach, Detach, link
<1>4. /\ doc'[m] = doc[m] /\ announced'[m] = announced[m]
      /\ remote'[m] = remote[m] /\ early'[m] = early[m]
      /\ attaches' \in 0 .. MaxAttach /\ attaches <= attaches'
      /\ doc' \in [Node -> 0 .. attaches'] /\ remote' \in [Node -> 0 .. attaches']
      /\ announced' \in [Node -> BOOLEAN] /\ early' \in [Node -> BOOLEAN]
      /\ doc'[n] \notin 1 .. attaches
      /\ early'[n] => doc'[n] # 0 /\ phase[n] # "up"
      /\ \/ doc'[n] = 0
         \/ ~announced'[n]
  <2>1. attaches \in Nat /\ attaches \in 0 .. MaxAttach
    BY <1>2 DEF Typed
  <2>2. CASE Attach(n)
    <3>1. /\ attaches < MaxAttach /\ attaches' = attaches + 1
          /\ doc' = [doc EXCEPT ![n] = attaches'] /\ remote' = [remote EXCEPT ![n] = 0]
          /\ announced' = [announced EXCEPT ![n] = FALSE]
          /\ early' = [early EXCEPT ![n] = phase[n] # "up"]
      BY <2>2 DEF Attach
    <3>2. attaches' \in 1 .. MaxAttach
      BY <2>1, <3>1, BoundsAssumption
    <3>3. doc' \in [Node -> 0 .. attaches'] /\ remote' \in [Node -> 0 .. attaches']
      <4>1. \A x \in 0 .. attaches : x \in 0 .. attaches'
        BY <2>1, <3>1
      <4> QED BY <1>2, <2>1, <3>1, <3>2, <4>1 DEF Typed
    <3>4. /\ early' \in [Node -> BOOLEAN] /\ early'[m] = early[m]
          /\ early'[n] => phase[n] # "up"
      <4>1. early \in [Node -> BOOLEAN] /\ (phase[n] # "up") \in BOOLEAN
        BY <1>2 DEF Typed
      <4> QED BY <1>1, <3>1, <4>1
    <3>5. /\ announced' \in [Node -> BOOLEAN] /\ announced'[m] = announced[m]
          /\ announced'[n] = FALSE
      BY <1>1, <1>2, <3>1 DEF Typed
    <3>6. /\ doc'[m] = doc[m] /\ doc'[n] = attaches + 1 /\ remote'[m] = remote[m]
      BY <1>1, <1>2, <3>1 DEF Typed
    <3>7. attaches <= attaches' /\ doc'[n] \notin 1 .. attaches /\ doc'[n] # 0
      BY <2>1, <3>1, <3>6
    <3> QED BY <3>2, <3>3, <3>4, <3>5, <3>6, <3>7
  <2>3. CASE Detach(n)
    BY <1>1, <1>2, <2>1, <2>3 DEF Typed, Detach
  <2> QED BY <2>2, <2>3
<1> HIDE DEF m
<1>5. Typed'
  BY <1>2, <1>3, <1>4 DEF Typed
<1>6. Matched'
  BY <1>2, <1>3 DEF Matched
<1>7. OnWire'
  <2>1. ASSUME NEW x \in Node, NEW k \in 1 .. Len(wire[x]) PROVE Meant(x, wire[x][k])'
    <3>1. Meant(x, wire[x][k])
      BY <1>2 DEF OnWire
    <3>2. Data(wire[x][k]) \in 1 .. attaches'
      BY <1>2, <1>4, <3>1 DEF Meant, Typed
    <3>3. Data(wire[x][k]) = doc'[Other(x)] => announced'[Other(x)]
      BY <1>1, <1>4, <3>1 DEF Meant, m
    <3> QED BY <1>3, <3>1, <3>2, <3>3 DEF Meant
  <2> QED BY <1>2, <1>3, <2>1 DEF OnWire
<1>8. Conveyed'
  <2>1. ~Told(n)'
    BY <1>4 DEF Told, Attached
  <2>2. Told(m)' => Reaches(m)'
    <3>1. Told(m)' => Told(m)
      BY <1>1, <1>3, <1>4 DEF Told, Attached
    <3>2. Reaches(m) => Reaches(m)'
      BY <1>1, <1>3, <1>4 DEF Reaches, Attached
    <3> QED BY <1>1, <1>2, <3>1, <3>2 DEF Conveyed
  <2> QED BY <1>1, <2>1, <2>2 DEF Conveyed
<1>9. Heard'
  BY <1>3 DEF Heard
<1>10. Early'
  BY <1>1, <1>2, <1>3, <1>4 DEF Early, Attached
<1> QED BY <1>5, <1>6, <1>7, <1>8, <1>9, <1>10 DEF CapInv

-----------------------------------------------------------------------------
LEMMA CapStarts == Init => CapInv
<1> SUFFICES ASSUME Init PROVE CapInv
  OBVIOUS
<1>1. Typed
  <2>1. <<>> \in Seq(Frame)
    OBVIOUS
  <2> QED BY <2>1, BoundsAssumption DEF Init, Typed
<1>2. Matched /\ Conveyed /\ Heard /\ Early
  BY Others DEF Init, Matched, Conveyed, Told, Heard, Early
<1>3. OnWire
  BY DEF Init, OnWire
<1> QED BY <1>1, <1>2, <1>3 DEF CapInv

LEMMA CapStands ==
  ASSUME CapInv, UNCHANGED vars
  PROVE  CapInv'
<1>1. UNCHANGED <<conns, phase, session, wire, attaches, doc, remote, announced, early, heard>>
  BY DEF vars, link, service
<1>2. (Typed /\ Matched /\ OnWire)'
  BY <1>1 DEF CapInv, Typed, Matched, OnWire, Meant
<1>3. (Conveyed /\ Heard /\ Early)'
  BY <1>1 DEF CapInv, Conveyed, Told, Reaches, Heard, Early, Attached
<1> QED BY <1>2, <1>3 DEF CapInv

(* The inductive invariant, through every connection, announcement, attachment
   and detachment. *)
THEOREM CapabilitiesInvariant == Spec => []CapInv
<1>1. CapInv /\ [Next]_vars => CapInv'
  BY CapStands, HandshakeKeeps, ComesUpKeeps, GoesDownKeeps, ReceiveKeeps, AttachKeeps DEF Next
<1> QED BY <1>1, CapStarts, PTL DEF Spec

(* Both ends of a connection show the same verification code, have the same
   entity key and seal with different keys, and every frame on its way opens at
   its destination (security/session.ts, network/protocol.ts), however often the
   two devices reconnect. *)
THEOREM EveryFrameOpens == Spec => []SessionsMatch
<1>1. CapInv => SessionsMatch
  <2> SUFFICES ASSUME CapInv PROVE SessionsMatch
    OBVIOUS
  <2>1. Typed /\ Matched /\ OnWire
    BY DEF CapInv
  <2>2. ASSUME NEW n \in Node, NEW k \in DOMAIN wire[n]
        PROVE  wire[n][k].message.envelope.channel = "capabilities" /\ k \in 1 .. Len(wire[n])
    <3>1. wire[n] \in Seq(Frame)
      BY <2>1 DEF Typed
    <3>2. wire[n][k] \in Frame /\ k \in 1 .. Len(wire[n])
      BY <3>1
    <3> QED BY <3>2 DEF Frame
  <2>3. TypeOK
    BY <2>1, <2>2 DEF Typed, TypeOK
  <2>4. ASSUME NEW n \in Node, NEW m \in Node, session[n] # NoSession, session[m] # NoSession
        PROVE  /\ session[n].sas = session[m].sas /\ session[n].entity = session[m].entity
               /\ n # m => session[n].tx # session[m].tx
    <3>1. m = n \/ m = Other(n)
      BY Others
    <3> QED BY <2>1, <2>4, <3>1 DEF Matched, Paired
  <2>5. \A n \in Node : \A k \in DOMAIN wire[n] : Opens(session[n], wire[n][k], Other(n))
    BY <2>1, <2>2 DEF OnWire, Meant
  <2> QED BY <2>3, <2>4, <2>5 DEF SessionsMatch, FramesOpen
<1> QED BY <1>1, CapabilitiesInvariant, PTL

(* Once nothing is on its way, two systems that were there when the devices
   connected know each other's document of now, and nowhere is knowledge
   one-sided (capabilityService.ts:64). *)
THEOREM KnowledgeIsMutual == Spec => []CapabilitiesMeet
<1>1. CapInv => CapabilitiesMeet
  <2> SUFFICES ASSUME CapInv, Settled PROVE
         /\ (\A n \in Node : early[n]) => \A n \in Node : remote[n] = doc[Other(n)]
         /\ \A n \in Node : heard[n] => remote[Other(n)] = doc[n]
    BY DEF CapabilitiesMeet
  <2>1. Conveyed /\ Heard /\ Early
    BY DEF CapInv
  <2>2. ASSUME NEW n \in Node, announced[n], announced[Other(n)]
        PROVE  remote[Other(n)] = doc[n]
    <3>1. Other(n) \in Node
      BY Others
    <3>2. Told(n)
      BY <2>2, <3>1 DEF Settled, Told
    <3>3. Reaches(n)
      BY <2>1, <3>2 DEF Conveyed
    <3> QED BY <2>2, <3>1, <3>3 DEF Settled, Reaches
  <2>3. ASSUME NEW n \in Node, \A x \in Node : early[x]
        PROVE  remote[n] = doc[Other(n)]
    <3>1. Other(n) \in Node /\ Other(Other(n)) = n
      BY Others
    <3>2. announced[n] /\ announced[Other(n)]
      BY <2>1, <2>3, <3>1 DEF Settled, Early
    <3> QED BY <2>2, <3>1, <3>2
  <2>4. ASSUME NEW n \in Node, heard[n]
        PROVE  remote[Other(n)] = doc[n]
    BY <2>1, <2>2, <2>4 DEF Heard
  <2> QED BY <2>3, <2>4
<1> QED BY <1>1, CapabilitiesInvariant, PTL
=============================================================================
