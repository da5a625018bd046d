------------------------- MODULE RaknetHandshake_proofs ------------------------
(***************************************************************************)
(* Proofs about RaknetHandshake, for every size, every network and every    *)
(* number of faults: the types, the order in which the server sees the      *)
(* messages of the handshake, and the size of the datagrams agreed on.      *)
(***************************************************************************)
EXTENDS RaknetHandshake, SequenceTheorems, TLAPS

LEMMA ModRange ==
    ASSUME NEW n \in Int, NEW m \in Nat \ {0}
    PROVE  n % m \in 0 .. m - 1
  OBVIOUS

\* A thread that moves leaves pc well typed and the other thread where it is.
LEMMA GotoType ==
    ASSUME pc \in [Threads -> Labels], NEW t \in Threads, NEW label \in Labels,
           Goto(t, label)
    PROVE  /\ pc' \in [Threads -> Labels] /\ pc'[t] = label
           /\ \A u \in Threads : u # t => pc'[u] = pc[u]
  BY DEF Goto

\* Offline requests, and the server's replies to them, are offline datagrams.
LEMMA RequestType ==
    ASSUME NEW mtu \in Mtu, NEW id \in {"OpenConnectionRequest1", "OpenConnectionRequest2"}
    PROVE  SendRequest(id, mtu) \subseteq Offline
  BY DEF SendRequest, Offline

LEMMA OfferedType ==
    ASSUME NEW mtu \in Mtu
    PROVE  Offered(mtu) \in Mtu
<1>1. mtu \in Nat /\ HeaderSize \in Nat /\ ServerMtu \in 0 .. MtuMod - 1 /\ MtuMod \in Nat
  BY SizeAssumption DEF Mtu
<1> QED
  BY <1>1 DEF Offered, Mtu

LEMMA ReplyType ==
    ASSUME NEW d \in Offline, NEW compatible \in BOOLEAN
    PROVE  Reply(d, compatible) \in Offline
<1>1. d.mtu \in Mtu
  BY DEF Offline
<1>2. Offered(d.mtu) \in Mtu
  BY <1>1, OfferedType
<1>3. 0 \in Mtu
  BY SizeAssumption DEF Mtu
<1>4. CASE d.id = "OpenConnectionRequest1" /\ compatible
  BY <1>2, <1>4 DEF Reply, Offline
<1>5. CASE d.id = "OpenConnectionRequest1" /\ ~compatible
  BY <1>3, <1>5 DEF Reply, Offline
<1>6. CASE d.id # "OpenConnectionRequest1"
  BY <1>1, <1>6 DEF Reply, Offline
<1> QED
  BY <1>4, <1>5, <1>6

\* Appending a message keeps a sequence of messages and makes it one longer.
LEMMA AppendType ==
    ASSUME NEW S, NEW s \in Seq(S), NEW e \in S
    PROVE  /\ Append(s, e) \in Seq(S) /\ Len(Append(s, e)) = Len(s) + 1
           /\ Len(s) \in Nat /\ 1 .. Len(s) + 1 = 1 .. Len(Append(s, e))
           /\ \A i \in 1 .. Len(s) : Append(s, e)[i] = s[i]
           /\ Append(s, e)[Len(s) + 1] = e
  OBVIOUS

LEMMA TypeInit == Init => TypeOK
<1> SUFFICES ASSUME Init PROVE TypeOK
  OBVIOUS
<1>1. mtuSize \in Mtu /\ 0 \in Mtu
  BY SizeAssumption DEF Init, Mtu
<1>2. pc \in [Threads -> Labels]
  BY DEF Init, Labels
<1>3. Online("DisconnectNotification") \in {Online(id) : id \in ToClient}
  BY DEF ToClient
<1>4. faults \in 0 .. MaxFaults /\ taken \in 0 .. Len(sent) /\ received \in 0 .. Len(answers)
  BY SizeAssumption DEF Init
<1>5. /\ currentState \in {"DISCOVER_MTU_SIZE", "CONNECTING", "NORMAL"}
      /\ connected \in BOOLEAN /\ isInvalid \in BOOLEAN /\ stop \in BOOLEAN
      /\ timerArmed \in BOOLEAN /\ socketOpen \in BOOLEAN
      /\ connectionMtx \in Threads \cup {"none"}
      /\ serverState \in {"closed", "requested", "connected"}
  BY DEF Init
<1>6. datagram \in Offline \cup {Online(id) : id \in ToClient}
  BY <1>3 DEF Init
<1>7. offline \subseteq Offline /\ sent \in Seq(ToServer) /\ answers \in Seq(ToClient)
  BY DEF Init
<1> QED
  BY <1>1, <1>2, <1>4, <1>5, <1>6, <1>7 DEF TypeOK

\* Every step of the specification keeps the types: one step per action.
LEMMA TypeStep == TypeOK /\ [Next]_vars => TypeOK'
<1> SUFFICES ASSUME TypeOK, [Next]_vars PROVE TypeOK'
  OBVIOUS
<1> USE DEF TypeOK
<1>t. "io" \in Threads /\ "user" \in Threads
  BY DEF Threads
<1>f. Fault => faults' \in 0 .. MaxFaults
  BY SizeAssumption DEF Fault
<1>g. \A t \in Threads, label \in Labels : Goto(t, label) => pc' \in [Threads -> Labels]
  BY GotoType
<1>l. /\ "idle" \in Labels /\ "process" \in Labels /\ "reply2" \in Labels
      /\ "request" \in Labels /\ "setConnected" \in Labels /\ "disconnect" \in Labels
      /\ "notify" \in Labels /\ "clear" \in Labels /\ "close" \in Labels
      /\ "invalidate" \in Labels /\ "done" \in Labels
  BY DEF Labels
<1>m. \A n \in Int : n % MtuMod \in Mtu
  BY ModRange, SizeAssumption DEF Mtu
<1>n. mtuSize - MtuStep \in Int /\ mtuSize + MtuStep \in Int
  BY SizeAssumption DEF Mtu
<1>o. \A d : d \in offline => d \in Offline /\ d.mtu \in Mtu
  BY DEF Offline
<1>r. /\ SendRequest("OpenConnectionRequest1", mtuSize) \subseteq Offline
      /\ SendRequest("OpenConnectionRequest2", mtuSize) \subseteq Offline
  BY RequestType
<1>w. \A id \in ToServer : Write(id) => /\ sent' \in Seq(ToServer)
                                         /\ taken \in 0 .. Len(sent')
  BY AppendType DEF Write
<1>i. /\ "ConnectionRequest" \in ToServer /\ "NewIncomingConnection" \in ToServer
      /\ "DisconnectNotification" \in ToServer
      /\ "ConnectionRequestAccepted" \in ToClient /\ "DisconnectNotification" \in ToClient
  BY DEF ToServer, ToClient
<1>a. \A id \in ToClient : answers' = Append(answers, id) =>
          answers' \in Seq(ToClient) /\ received \in 0 .. Len(answers')
  BY AppendType
<1>1. CASE OnTick_Discover
  BY <1>1, <1>m, <1>n, <1>r DEF OnTick_Discover, Shrunk, Rearmed, serverVars
<1>2. CASE OnTick_Connecting
  BY <1>2, <1>r DEF OnTick_Connecting, Rearmed, serverVars
<1>3. CASE OnTick_Normal
  <2>1. pc' \in [Threads -> Labels] /\ timerArmed' \in BOOLEAN /\ faults' \in 0 .. MaxFaults
    BY <1>3, <1>t, <1>g, <1>l, <1>f DEF OnTick_Normal, Rearmed
  <2> QED
    BY <1>3, <2>1 DEF OnTick_Normal, serverVars
<1>4. ASSUME NEW d \in offline, ReceiveOffline(d)
      PROVE  TypeOK'
  <2>1. pc' \in [Threads -> Labels] /\ faults' \in 0 .. MaxFaults /\ offline' \subseteq Offline
    BY <1>4, <1>t, <1>g, <1>l, <1>f DEF ReceiveOffline, Take
  <2> QED
    BY <1>4, <1>o, <2>1 DEF ReceiveOffline, serverVars
<1>5. CASE ReceiveAnswer
  <2>1. pc' \in [Threads -> Labels]
    BY <1>5, <1>t, <1>g, <1>l DEF ReceiveAnswer
  <2>2. received + 1 \in 1 .. Len(answers) /\ answers[received + 1] \in ToClient
    BY <1>5 DEF ReceiveAnswer
  <2>3. received' \in 0 .. Len(answers')
    BY <1>5, <2>2 DEF ReceiveAnswer
  <2>4. datagram' \in {Online(id) : id \in ToClient}
    BY <1>5, <2>2 DEF ReceiveAnswer
  <2> QED
    BY <1>5, <2>1, <2>3, <2>4 DEF ReceiveAnswer, serverVars
<1>6. CASE ProcessReply1
  <2>1. pc' \in [Threads -> Labels]
    BY <1>6, <1>t, <1>g, <1>l DEF ProcessReply1
  <2>2. datagram \in Offline
    <3>1. datagram.id \notin ToClient
      BY <1>6 DEF ProcessReply1, Processing, ToClient
    <3>2. \A id \in ToClient : Online(id).id \in ToClient
      BY DEF Online
    <3> QED
      BY <3>1, <3>2
  <2>3. datagram.mtu \in Mtu
    BY <2>2 DEF Offline
  <2>4. SendRequest("OpenConnectionRequest2", datagram.mtu) \subseteq Offline
    BY <2>3, RequestType
  <2>5. mtuSize' \in Mtu /\ offline' \subseteq Offline
    BY <1>6, <1>m, <1>n, <2>3, <2>4 DEF ProcessReply1
  <2>6. currentState' \in {"DISCOVER_MTU_SIZE", "CONNECTING", "NORMAL"}
    BY <1>6 DEF ProcessReply1
  <2> QED
    BY <1>6, <2>1, <2>5, <2>6 DEF ProcessReply1, serverVars
<1>7. CASE ProcessDisconnect
  <2>1. pc' \in [Threads -> Labels]
    BY <1>7, <1>t, <1>g, <1>l DEF ProcessDisconnect
  <2> QED
    BY <1>7, <2>1 DEF ProcessDisconnect, networkVars, serverVars
<1>8. CASE ProcessReply2
  <2>1. pc' \in [Threads -> Labels]
    BY <1>8, <1>t, <1>g, <1>l DEF ProcessReply2
  <2>2. datagram \in Offline
    <3>1. datagram.id \notin ToClient
      BY <1>8 DEF ProcessReply2, Processing, ToClient
    <3>2. \A id \in ToClient : Online(id).id \in ToClient
      BY DEF Online
    <3> QED
      BY <3>1, <3>2
  <2>3. mtuSize' \in Mtu
    BY <1>8, <2>2 DEF ProcessReply2, Offline
  <2> QED
    BY <1>8, <2>1, <2>3 DEF ProcessReply2, networkVars, serverVars
<1>9. CASE EnterNormal
  <2>1. pc' \in [Threads -> Labels]
    BY <1>9, <1>t, <1>g, <1>l DEF EnterNormal
  <2> QED
    BY <1>9, <2>1 DEF EnterNormal, networkVars, serverVars
<1>10. CASE RequestConnection
  <2>1. pc' \in [Threads -> Labels] /\ sent' \in Seq(ToServer) /\ taken \in 0 .. Len(sent')
    BY <1>10, <1>t, <1>g, <1>l, <1>w, <1>i DEF RequestConnection
  <2> QED
    BY <1>10, <2>1 DEF RequestConnection, serverVars
<1>11. CASE HandleConnectionRequestAccepted
  <2>1. pc' \in [Threads -> Labels] /\ sent' \in Seq(ToServer) /\ taken \in 0 .. Len(sent')
    BY <1>11, <1>t, <1>g, <1>l, <1>w, <1>i DEF HandleConnectionRequestAccepted
  <2> QED
    BY <1>11, <2>1 DEF HandleConnectionRequestAccepted, serverVars
<1>12. CASE SetConnected
  <2>1. pc' \in [Threads -> Labels]
    BY <1>12, <1>t, <1>g, <1>l DEF SetConnected
  <2> QED
    BY <1>12, <2>1 DEF SetConnected, networkVars, serverVars
<1>13. CASE Ignore
  <2>1. pc' \in [Threads -> Labels]
    BY <1>13, <1>t, <1>g, <1>l DEF Ignore
  <2> QED
    BY <1>13, <2>1 DEF Ignore, networkVars, serverVars
<1>14. CASE UserDisconnect
  <2>1. pc' \in [Threads -> Labels]
    BY <1>14, <1>t, <1>g, <1>l DEF UserDisconnect
  <2> QED
    BY <1>14, <2>1 DEF UserDisconnect, networkVars, serverVars
<1>15. ASSUME NEW t \in Threads, Disconnect(t)
       PROVE  TypeOK'
  <2>1. pc' \in [Threads -> Labels]
    BY <1>15, <1>g, <1>l DEF Disconnect, Disconnect_Lock, Disconnect_Notify,
                             Disconnect_Clear, Disconnect_Close, Disconnect_Invalidate
  <2>2. CASE Disconnect_Lock(t)
    BY <2>1, <2>2 DEF Disconnect_Lock, networkVars, serverVars
  <2>3. CASE Disconnect_Notify(t)
    <3>1. sent' \in Seq(ToServer) /\ taken \in 0 .. Len(sent')
      BY <2>3, <1>i, AppendType DEF Disconnect_Notify
    <3> QED
      BY <2>1, <2>3, <3>1 DEF Disconnect_Notify, serverVars
  <2>4. CASE Disconnect_Clear(t)
    BY <2>1, <2>4 DEF Disconnect_Clear, networkVars, serverVars
  <2>5. CASE Disconnect_Close(t)
    BY <2>1, <2>5 DEF Disconnect_Close, networkVars, serverVars
  <2>6. CASE Disconnect_Invalidate(t)
    BY <2>1, <2>6 DEF Disconnect_Invalidate, networkVars, serverVars
  <2> QED
    BY <1>15, <2>2, <2>3, <2>4, <2>5, <2>6 DEF Disconnect
<1>16. ASSUME NEW d \in offline, ServerReply(d)
       PROVE  TypeOK'
  <2>1. \A compatible \in Compatible : Reply(d, compatible) \in Offline
    BY <1>o, ReplyType, SizeAssumption
  <2>2. offline' \subseteq Offline /\ faults' \in 0 .. MaxFaults
    BY <1>16, <1>f, <2>1 DEF ServerReply, Take
  <2> QED
    BY <1>16, <2>2 DEF ServerReply, clientVars, serverVars
<1>17. ASSUME NEW d \in offline, Lose(d)
       PROVE  TypeOK'
  BY <1>17, <1>f DEF Lose, clientVars, serverVars
<1>18. CASE ServerTake
  <2>1. taken' \in 0 .. Len(sent)
    BY <1>18 DEF ServerTake
  <2>2. answers' \in Seq(ToClient) /\ received \in 0 .. Len(answers')
    BY <1>18, <1>a, <1>i DEF ServerTake
  <2>3. serverState' \in {"closed", "requested", "connected"}
    BY <1>18 DEF ServerTake
  <2> QED
    BY <1>18, <2>1, <2>2, <2>3 DEF ServerTake, clientVars
<1>19. CASE ServerDisconnect
  <2>1. answers' \in Seq(ToClient) /\ received \in 0 .. Len(answers')
    BY <1>19, <1>a, <1>i DEF ServerDisconnect
  <2> QED
    BY <1>19, <1>f, <2>1 DEF ServerDisconnect, clientVars
<1>20. CASE UNCHANGED vars
  BY <1>20 DEF vars
<1> QED
  BY <1>1, <1>2, <1>3, <1>4, <1>5, <1>6, <1>7, <1>8, <1>9, <1>10, <1>11, <1>12, <1>13,
     <1>14, <1>15, <1>16, <1>17, <1>18, <1>19, <1>20 DEF Next, OnTick, Process

\* Every reachable state is well typed; mtuSize stays on 16 bits.
THEOREM TypeCorrect == Spec => []TypeOK
<1> QED
  BY TypeInit, TypeStep, PTL DEF Spec

--------------------------------------------------------------------------------
(* The order of the handshake.                                              *)

\* The length of what was sent tells what it is.
LEMMA Shape ==
    ASSUME HandshakeOrder
    PROVE  /\ Len(sent) \in {0, 1, 2, 3}
           /\ Len(sent) = 0 => sent = <<>>
           /\ Len(sent) = 1 => sent = <<"ConnectionRequest">>
           /\ Len(sent) = 2 => sent = <<"ConnectionRequest", "NewIncomingConnection">>
           /\ \A i \in 1 .. Len(sent) : sent[i] = "ConnectionRequest" => i = 1
           /\ sent = <<>> => Len(sent) = 0
<1>1. CASE sent = <<>>
  BY <1>1
<1>2. CASE sent = <<"ConnectionRequest">>
  BY <1>2
<1>3. CASE sent = <<"ConnectionRequest", "NewIncomingConnection">>
  BY <1>3
<1>4. CASE sent = <<"ConnectionRequest", "NewIncomingConnection", "DisconnectNotification">>
  BY <1>4
<1> QED
  BY <1>1, <1>2, <1>3, <1>4 DEF HandshakeOrder

\* The handshake goes on by one message at a time.
LEMMA Grown ==
    ASSUME NEW a, NEW b, NEW c
    PROVE  /\ Append(<<>>, a) = <<a>> /\ Append(<<a>>, b) = <<a, b>>
           /\ Append(<<a, b>>, c) = <<a, b, c>>
<1>1. Append(<<>>, a) = <<a>>
  OBVIOUS
<1>2. Append(<<a>>, b) = <<a, b>>
  <2>1. <<a>> \in Seq({a, b}) /\ <<a, b>> \in Seq({a, b}) /\ Len(<<a>>) = 1 /\ Len(<<a, b>>) = 2
    OBVIOUS
  <2>2. /\ Append(<<a>>, b) \in Seq({a, b}) /\ Len(Append(<<a>>, b)) = 2
        /\ Append(<<a>>, b)[1] = a /\ Append(<<a>>, b)[2] = b
    OBVIOUS
  <2>3. \A i \in 1 .. 2 : Append(<<a>>, b)[i] = <<a, b>>[i]
    BY <2>2
  <2> QED
    BY <2>1, <2>2, <2>3, SeqEqual
<1>3. Append(<<a, b>>, c) = <<a, b, c>>
  <2>1. /\ <<a, b>> \in Seq({a, b, c}) /\ <<a, b, c>> \in Seq({a, b, c})
        /\ Len(<<a, b>>) = 2 /\ Len(<<a, b, c>>) = 3
    OBVIOUS
  <2>2. /\ Append(<<a, b>>, c) \in Seq({a, b, c}) /\ Len(Append(<<a, b>>, c)) = 3
        /\ Append(<<a, b>>, c)[1] = a /\ Append(<<a, b>>, c)[2] = b
        /\ Append(<<a, b>>, c)[3] = c
    OBVIOUS
  <2>3. \A i \in 1 .. 3 : Append(<<a, b>>, c)[i] = <<a, b, c>>[i]
    BY <2>2
  <2> QED
    BY <2>1, <2>2, <2>3, SeqEqual
<1> QED
  BY <1>1, <1>2, <1>3

\* Steps that leave the stream alone keep AnswerInv unless they take an answer.
LEMMA AnswerKeeps ==
    ASSUME AnswerInv, UNCHANGED <<sent, answers, taken, received>>,
           Handling' => Handling
    PROVE  AnswerInv'
  BY DEF AnswerInv, AcceptedAt

\* Steps outside Disconnect keep MutexInv.
LEMMA MutexKeeps ==
    ASSUME MutexInv, UNCHANGED <<connectionMtx, socketOpen>>,
           \A t \in Threads : \/ pc'[t] = pc[t]
                              \/ pc'[t] \notin {"notify", "clear", "close", "invalidate"}
    PROVE  MutexInv'
  BY DEF MutexInv

\* Steps that neither send nor enter a part of the handshake keep StageInv.
LEMMA StageKeeps ==
    ASSUME StageInv, UNCHANGED <<sent, connected, socketOpen>>,
           currentState = "NORMAL" => currentState' = "NORMAL",
           \A t \in Threads : pc[t] = "clear" => pc'[t] = "clear",
           \/ pc'["io"] = pc["io"]
           \/ pc'["io"] \notin {"reply2", "request", "setConnected"}
    PROVE  StageInv'
  BY DEF StageInv

LEMMA OrderKeeps ==
    ASSUME HandshakeOrder, UNCHANGED sent
    PROVE  HandshakeOrder'
  BY DEF HandshakeOrder

LEMMA HandshakeInit == Init => HandshakeInv
<1> SUFFICES ASSUME Init PROVE HandshakeInv
  OBVIOUS
<1>1. HandshakeOrder /\ Len(sent) = 0
  BY DEF Init, HandshakeOrder
<1>2. MutexInv
  BY DEF Init, MutexInv
<1>3. AcceptedAt = {} /\ ~Handling
  <2>1. Len(answers) = 0 /\ pc["io"] = "idle"
    BY DEF Init, Threads
  <2> QED
    BY <2>1 DEF AcceptedAt, Handling
<1>4. AnswerInv
  BY <1>1, <1>3 DEF AnswerInv
<1>5. StageInv
  BY DEF Init, StageInv, Threads
<1> QED
  BY <1>1, <1>2, <1>4, <1>5 DEF HandshakeInv

\* The steps of the IO thread that neither send nor move the handshake on.
LEMMA QuietStep ==
    ASSUME TypeOK, HandshakeInv,
           UNCHANGED <<sent, answers, taken, connected, socketOpen, connectionMtx>>,
           UNCHANGED received, Handling' => Handling,
           currentState = "NORMAL" => currentState' = "NORMAL",
           pc["io"] \in {"idle", "process"},
           NEW label \in {"idle", "process", "disconnect"},
           Goto("io", label) \/ UNCHANGED pc
    PROVE  HandshakeInv'
<1>1. /\ pc'["io"] \in {"idle", "process", "disconnect"}
      /\ \A t \in Threads : pc'[t] = pc[t] \/ (t = "io" /\ pc'[t] \in {"idle", "process", "disconnect"})
      /\ pc'["user"] = pc["user"]
  <2>1. "io" \in Threads /\ "user" \in Threads /\ "user" # "io" /\ label \in Labels
    BY DEF Threads, Labels
  <2>2. CASE Goto("io", label)
    BY <2>1, <2>2, GotoType DEF TypeOK
  <2>3. CASE UNCHANGED pc
    BY <2>1, <2>3
  <2> QED
    BY <2>2, <2>3
<1>2. HandshakeOrder'
  BY OrderKeeps DEF HandshakeInv
<1>3. MutexInv'
  BY <1>1, MutexKeeps DEF HandshakeInv
<1>4. AnswerInv'
  BY AnswerKeeps DEF HandshakeInv
<1>5. StageInv'
  <2>1. \A t \in Threads : pc[t] = "clear" => pc'[t] = "clear"
    BY <1>1
  <2> QED
    BY <1>1, <2>1, StageKeeps DEF HandshakeInv
<1> QED
  BY <1>2, <1>3, <1>4, <1>5 DEF HandshakeInv

\* Every step keeps the invariant: one step per action, and one per conjunct
\* the action can disturb.
LEMMA HandshakeStep == TypeOK /\ HandshakeInv /\ [Next]_vars => HandshakeInv'
<1> SUFFICES ASSUME TypeOK, HandshakeInv, [Next]_vars PROVE HandshakeInv'
  OBVIOUS
<1>t. "io" \in Threads /\ "user" \in Threads /\ "user" # "io" /\ "none" \notin Threads
      /\ \A t \in Threads : t = "io" \/ t = "user"
  BY DEF Threads
<1>l. /\ "idle" \in Labels /\ "process" \in Labels /\ "reply2" \in Labels
      /\ "request" \in Labels /\ "setConnected" \in Labels /\ "disconnect" \in Labels
      /\ "notify" \in Labels /\ "clear" \in Labels /\ "close" \in Labels
      /\ "invalidate" \in Labels /\ "done" \in Labels
  BY DEF Labels
<1>g. \A t \in Threads, label \in Labels : Goto(t, label) =>
         /\ pc'[t] = label
         /\ \A u \in Threads : u # t => pc'[u] = pc[u]
  BY GotoType DEF TypeOK
<1>h. HandshakeOrder /\ MutexInv /\ AnswerInv /\ StageInv
  BY DEF HandshakeInv
<1>n. /\ Len(sent) \in {0, 1, 2, 3} /\ taken \in 0 .. Len(sent) /\ received \in 0 .. Len(answers)
      /\ answers \in Seq(ToClient) /\ Len(answers) \in Nat
  BY <1>h, Shape DEF TypeOK
<1>1. CASE OnTick_Discover \/ OnTick_Connecting
  BY <1>1, QuietStep DEF OnTick_Discover, OnTick_Connecting, serverVars, Handling
<1>2. CASE OnTick_Normal
  <2>1. pc["io"] = "idle" /\ (Goto("io", "disconnect") \/ UNCHANGED pc)
    BY <1>2 DEF OnTick_Normal
  <2>2. Handling' => Handling
    BY <1>2, <2>1, <1>t, <1>l, <1>g DEF Handling, OnTick_Normal
  <2> QED
    BY <1>2, <2>1, <2>2, QuietStep DEF OnTick_Normal, serverVars
<1>3. ASSUME NEW d \in offline, ReceiveOffline(d)
      PROVE  HandshakeInv'
  <2>1. datagram' = d /\ d.id # "ConnectionRequestAccepted"
    BY <1>3 DEF ReceiveOffline
  <2>2. ~Handling'
    BY <2>1 DEF Handling
  <2> QED
    BY <1>3, <2>2, QuietStep DEF ReceiveOffline, serverVars
<1>4. CASE ReceiveAnswer
  <2>1. /\ received' = received + 1 /\ received < Len(answers)
        /\ UNCHANGED <<sent, answers, taken>>
        /\ datagram' = Online(answers[received + 1]) /\ pc["io"] = "idle"
    BY <1>4 DEF ReceiveAnswer, serverVars
  <2>2. pc'["io"] = "process" /\ pc'["user"] = pc["user"]
    BY <1>4, <1>t, <1>l, <1>g DEF ReceiveAnswer
  <2>3. Handling' => received + 1 \in AcceptedAt
    BY <2>1, <1>n DEF Handling, Online, AcceptedAt
  <2>4. AcceptedAt' = AcceptedAt /\ AcceptedAt \subseteq Int
    BY <2>1 DEF AcceptedAt
  <2>5. received + 1 \in AcceptedAt => taken # 0 /\ Len(sent) = 1
    BY <1>h, <1>n DEF AnswerInv
  <2>6. AnswerInv'
    <3>1. taken' = 0 => AcceptedAt' = {} /\ ~Handling' /\ Len(sent') <= 1
      BY <2>1, <2>3, <2>4, <2>5, <1>h DEF AnswerInv
    <3>2. \A i, j \in AcceptedAt' : i = j
      BY <2>4, <1>h DEF AnswerInv
    <3>3. Handling' => \A i \in AcceptedAt' : i <= received'
      BY <2>1, <2>3, <2>4, <1>h, <1>n DEF AnswerInv
    <3>4. Handling' => Len(sent') = 1
      BY <2>1, <2>3, <2>5
    <3>5. \A i \in AcceptedAt' : received' < i => Len(sent') = 1
      BY <2>1, <2>4, <1>h, <1>n DEF AnswerInv
    <3> QED
      BY <3>1, <3>2, <3>3, <3>4, <3>5 DEF AnswerInv
  <2>7. HandshakeOrder'
    BY <2>1, <1>h, OrderKeeps
  <2>8. MutexInv'
    BY <1>4, <2>2, <1>h, <1>t, MutexKeeps DEF ReceiveAnswer
  <2>9. StageInv'
    BY <1>4, <2>1, <2>2, <1>h, <1>t, StageKeeps DEF ReceiveAnswer
  <2> QED
    BY <2>6, <2>7, <2>8, <2>9 DEF HandshakeInv
<1>5. CASE ProcessReply1
  <2>1. ~Handling' /\ currentState # "NORMAL" /\ pc["io"] = "process"
    BY <1>5, <1>t, <1>l, <1>g DEF ProcessReply1, Processing, Handling
  <2> QED
    BY <1>5, <2>1, QuietStep DEF ProcessReply1, serverVars
<1>6. CASE ProcessDisconnect \/ Ignore
  <2>1. /\ pc["io"] = "process" /\ (Goto("io", "disconnect") \/ Goto("io", "idle"))
        /\ UNCHANGED <<sent, answers, taken, connected, socketOpen, connectionMtx,
                       received, currentState>>
    BY <1>6 DEF ProcessDisconnect, Ignore, Processing, networkVars, serverVars
  <2>2. ~Handling'
    BY <2>1, <1>t, <1>l, <1>g DEF Handling
  <2> QED
    BY <2>1, <2>2, QuietStep
<1>7. CASE ProcessReply2
  <2>1. /\ currentState = "CONNECTING" /\ UNCHANGED <<sent, answers, taken, received>>
        /\ UNCHANGED <<connected, socketOpen, connectionMtx, currentState>>
        /\ pc["io"] = "process"
    BY <1>7 DEF ProcessReply2, Processing, networkVars, serverVars
  <2>2. pc'["io"] = "reply2" /\ pc'["user"] = pc["user"]
    BY <1>7, <1>t, <1>l, <1>g DEF ProcessReply2
  <2>3. HandshakeOrder' /\ AnswerInv'
    BY <2>1, <2>2, <1>h, OrderKeeps, AnswerKeeps DEF Handling
  <2>4. MutexInv'
    BY <2>1, <2>2, <1>h, <1>t, MutexKeeps
  <2>5. StageInv'
    BY <2>1, <2>2, <1>h, <1>t DEF StageInv
  <2> QED
    BY <2>3, <2>4, <2>5 DEF HandshakeInv
<1>8. CASE EnterNormal
  <2>1. /\ currentState' = "NORMAL" /\ UNCHANGED <<sent, answers, taken, received>>
        /\ UNCHANGED <<connected, socketOpen, connectionMtx>> /\ pc["io"] = "reply2"
    BY <1>8 DEF EnterNormal, networkVars, serverVars
  <2>2. pc'["io"] = "request" /\ pc'["user"] = pc["user"]
    BY <1>8, <1>t, <1>l, <1>g DEF EnterNormal
  <2>3. HandshakeOrder' /\ AnswerInv'
    BY <2>1, <2>2, <1>h, OrderKeeps, AnswerKeeps DEF Handling
  <2>4. MutexInv'
    BY <2>1, <2>2, <1>h, <1>t, MutexKeeps
  <2>5. StageInv'
    BY <2>1, <2>2, <1>h, <1>t DEF StageInv
  <2> QED
    BY <2>3, <2>4, <2>5 DEF HandshakeInv
<1>9. CASE RequestConnection
  <2>1. /\ pc["io"] = "request" /\ UNCHANGED <<answers, taken, received, currentState>>
        /\ UNCHANGED <<connected, socketOpen, connectionMtx>>
        /\ sent' = IF socketOpen THEN Append(sent, "ConnectionRequest") ELSE sent
    BY <1>9 DEF RequestConnection, Write, serverVars
  <2>2. pc'["io"] = "idle" /\ pc'["user"] = pc["user"] /\ ~Handling'
    BY <1>9, <1>t, <1>l, <1>g DEF RequestConnection, Handling
  <2>3. MutexInv'
    BY <2>1, <2>2, <1>h, <1>t, MutexKeeps
  <2>4. CASE ~socketOpen
    <3>1. HandshakeOrder' /\ AnswerInv'
      BY <2>1, <2>2, <2>4, <1>h, OrderKeeps, AnswerKeeps
    <3>2. StageInv'
      BY <2>1, <2>4 DEF StageInv
    <3> QED
      BY <2>3, <3>1, <3>2 DEF HandshakeInv
  <2>5. CASE socketOpen
    <3>1. sent = <<>> /\ Len(sent) = 0 /\ currentState = "NORMAL"
      BY <2>1, <2>5, <1>h, Shape DEF StageInv
    <3>2. sent' = <<"ConnectionRequest">> /\ Len(sent') = 1
      BY <2>1, <2>5, <3>1, Grown
    <3>3. ~connected
      BY <2>5, <3>1, <1>h DEF StageInv
    <3>4. HandshakeOrder'
      BY <3>2 DEF HandshakeOrder
    <3>5. taken = 0 /\ AcceptedAt' = {}
      BY <2>1, <3>1, <1>h, <1>n DEF AnswerInv, AcceptedAt
    <3>6. AnswerInv'
      BY <2>2, <3>2, <3>5 DEF AnswerInv
    <3>7. StageInv'
      BY <2>1, <2>2, <3>1, <3>3 DEF StageInv
    <3> QED
      BY <2>3, <3>4, <3>6, <3>7 DEF HandshakeInv
  <2> QED
    BY <2>4, <2>5
<1>10. CASE HandleConnectionRequestAccepted
  <2>1. /\ currentState = "NORMAL" /\ Handling
        /\ UNCHANGED <<answers, taken, received, currentState>>
        /\ UNCHANGED <<connected, socketOpen, connectionMtx>>
        /\ sent' = IF socketOpen THEN Append(sent, "NewIncomingConnection") ELSE sent
    BY <1>10 DEF HandleConnectionRequestAccepted, Write, serverVars, Processing, Handling
  <2>2. pc'["io"] = "setConnected" /\ pc'["user"] = pc["user"] /\ ~Handling'
    BY <1>10, <1>t, <1>l, <1>g DEF HandleConnectionRequestAccepted, Handling
  <2>3. MutexInv'
    BY <2>1, <2>2, <1>h, <1>t, MutexKeeps
  <2>4. CASE ~socketOpen
    <3>1. HandshakeOrder' /\ AnswerInv'
      BY <2>1, <2>2, <2>4, <1>h, OrderKeeps, AnswerKeeps
    <3>2. StageInv'
      BY <2>1, <2>4 DEF StageInv
    <3> QED
      BY <2>3, <3>1, <3>2 DEF HandshakeInv
  <2>5. CASE socketOpen
    <3>1. Len(sent) = 1 /\ sent = <<"ConnectionRequest">> /\ taken # 0
      BY <2>1, <1>h, Shape DEF AnswerInv
    <3>2. sent' = <<"ConnectionRequest", "NewIncomingConnection">> /\ Len(sent') = 2
      BY <2>1, <2>5, <3>1, Grown
    <3>3. ~connected
      BY <2>5, <3>1, <1>h DEF StageInv
    <3>4. HandshakeOrder'
      BY <3>2 DEF HandshakeOrder
    <3>5. AcceptedAt' = AcceptedAt /\ AcceptedAt \subseteq Int
      BY <2>1 DEF AcceptedAt
    <3>6. \A i \in AcceptedAt : ~(received < i)
      BY <2>1, <3>5, <1>h, <1>n DEF AnswerInv
    <3>7. AnswerInv'
      BY <2>1, <2>2, <3>1, <3>5, <3>6, <1>h DEF AnswerInv
    <3>8. StageInv'
      BY <2>1, <2>2, <3>2, <3>3 DEF StageInv
    <3> QED
      BY <2>3, <3>4, <3>7, <3>8 DEF HandshakeInv
  <2> QED
    BY <2>4, <2>5
<1>11. CASE SetConnected
  <2>1. /\ pc["io"] = "setConnected" /\ UNCHANGED <<sent, answers, taken, received>>
        /\ UNCHANGED <<currentState, socketOpen, connectionMtx>>
    BY <1>11 DEF SetConnected, networkVars, serverVars
  <2>2. pc'["io"] = "idle" /\ pc'["user"] = pc["user"] /\ ~Handling'
    BY <1>11, <1>t, <1>l, <1>g DEF SetConnected, Handling
  <2>3. HandshakeOrder' /\ AnswerInv'
    BY <2>1, <2>2, <1>h, OrderKeeps, AnswerKeeps
  <2>4. MutexInv'
    BY <2>1, <2>2, <1>h, <1>t, MutexKeeps
  <2>5. StageInv'
    BY <2>1, <2>2, <1>h DEF StageInv
  <2> QED
    BY <2>3, <2>4, <2>5 DEF HandshakeInv
<1>12. CASE UserDisconnect
  <2>1. /\ pc["user"] = "idle" /\ UNCHANGED <<sent, answers, taken, received, datagram>>
        /\ UNCHANGED <<connected, currentState, socketOpen, connectionMtx>>
    BY <1>12 DEF UserDisconnect, networkVars, serverVars
  <2>2. pc'["user"] = "disconnect" /\ pc'["io"] = pc["io"]
    BY <1>12, <1>t, <1>l, <1>g DEF UserDisconnect
  <2>3. HandshakeOrder' /\ AnswerInv'
    BY <2>1, <2>2, <1>h, OrderKeeps, AnswerKeeps DEF Handling
  <2>4. MutexInv'
    BY <2>1, <2>2, <1>h, <1>t, MutexKeeps
  <2>5. StageInv'
    BY <2>1, <2>2, <1>h, <1>t, StageKeeps
  <2> QED
    BY <2>3, <2>4, <2>5 DEF HandshakeInv
<1>13. ASSUME NEW t \in Threads, Disconnect(t)
       PROVE  HandshakeInv'
  <2>u. \A u \in Threads : u # t => pc'[u] = pc[u]
    BY <1>13, <1>g, <1>l DEF Disconnect, Disconnect_Lock, Disconnect_Notify,
                             Disconnect_Clear, Disconnect_Close, Disconnect_Invalidate
  <2>1. CASE Disconnect_Lock(t)
    <3>1. /\ pc[t] = "disconnect" /\ UNCHANGED <<sent, answers, taken, received, datagram>>
          /\ UNCHANGED <<connected, currentState, socketOpen>>
          /\ connectionMtx = "none" /\ connectionMtx' = t
      BY <2>1 DEF Disconnect_Lock, networkVars, serverVars
    <3>2. pc'[t] = "notify"
      BY <2>1, <1>l, <1>g DEF Disconnect_Lock
    <3>3. HandshakeOrder' /\ AnswerInv'
      BY <3>1, <3>2, <2>u, <1>t, <1>h, OrderKeeps, AnswerKeeps DEF Handling
    <3>4. MutexInv'
      BY <3>1, <3>2, <2>u, <1>h, <1>t DEF MutexInv
    <3>5. StageInv'
      BY <3>1, <3>2, <2>u, <1>h, <1>t, StageKeeps
    <3> QED
      BY <3>3, <3>4, <3>5 DEF HandshakeInv
  <2>2. CASE Disconnect_Notify(t)
    <3>1. /\ pc[t] = "notify" /\ UNCHANGED <<answers, taken, received, datagram>>
          /\ UNCHANGED <<connected, currentState, socketOpen, connectionMtx>>
          /\ sent' = IF connected /\ socketOpen
                       THEN Append(sent, "DisconnectNotification") ELSE sent
      BY <2>2 DEF Disconnect_Notify, serverVars
    <3>2. pc'[t] = "clear"
      BY <2>2, <1>l, <1>g DEF Disconnect_Notify
    <3>3. MutexInv'
      BY <3>1, <3>2, <2>u, <1>h DEF MutexInv
    <3>4. CASE ~(connected /\ socketOpen)
      <4>1. HandshakeOrder' /\ AnswerInv'
        BY <3>1, <3>2, <3>4, <2>u, <1>t, <1>h, OrderKeeps, AnswerKeeps DEF Handling
      <4>2. StageInv'
        BY <3>1, <3>2, <3>4, <2>u, <1>h, <1>t, StageKeeps
      <4> QED
        BY <3>3, <4>1, <4>2 DEF HandshakeInv
    <3>5. CASE connected /\ socketOpen
      <4>1. \A u \in Threads : pc[u] # "clear"
        BY <3>1, <1>h, <1>t DEF MutexInv
      <4>2. Len(sent) = 2 /\ sent = <<"ConnectionRequest", "NewIncomingConnection">>
        BY <3>5, <4>1, <1>h, Shape DEF StageInv
      <4>3. /\ sent' = <<"ConnectionRequest", "NewIncomingConnection", "DisconnectNotification">>
            /\ Len(sent') = 3
        <5>1. sent' = Append(sent, "DisconnectNotification")
          BY <3>1, <3>5
        <5>2. sent' = <<"ConnectionRequest", "NewIncomingConnection",
                        "DisconnectNotification">>
          BY <4>2, <5>1, Grown, Zenon
        <5> QED
          BY <5>2
      <4>4. HandshakeOrder'
        BY <4>3 DEF HandshakeOrder
      <4>5. AcceptedAt' = AcceptedAt /\ (Handling' => Handling)
        BY <3>1, <3>2, <2>u, <1>t DEF AcceptedAt, Handling
      <4>6. AnswerInv'
        BY <3>1, <4>2, <4>5, <1>h DEF AnswerInv
      <4>7. pc["io"] \notin {"reply2", "request", "setConnected"} /\ currentState = "NORMAL"
        BY <3>5, <4>2, <1>h, Shape DEF StageInv
      <4>8. StageInv'
        BY <3>1, <3>2, <4>3, <4>7, <2>u, <1>t DEF StageInv
      <4> QED
        BY <3>3, <4>4, <4>6, <4>8 DEF HandshakeInv
    <3> QED
      BY <3>4, <3>5
  <2>3. CASE Disconnect_Clear(t)
    <3>1. /\ pc[t] = "clear" /\ UNCHANGED <<sent, answers, taken, received, datagram>>
          /\ UNCHANGED <<currentState, socketOpen, connectionMtx>> /\ connected' = FALSE
      BY <2>3 DEF Disconnect_Clear, networkVars, serverVars
    <3>2. pc'[t] = "close"
      BY <2>3, <1>l, <1>g DEF Disconnect_Clear
    <3>3. HandshakeOrder' /\ AnswerInv'
      BY <3>1, <3>2, <2>u, <1>t, <1>h, OrderKeeps, AnswerKeeps DEF Handling
    <3>4. MutexInv'
      BY <3>1, <3>2, <2>u, <1>h DEF MutexInv
    <3>5. StageInv'
      BY <3>1, <3>2, <2>u, <1>h, <1>t DEF StageInv
    <3> QED
      BY <3>3, <3>4, <3>5 DEF HandshakeInv
  <2>4. CASE Disconnect_Close(t)
    <3>1. /\ pc[t] = "close" /\ UNCHANGED <<sent, answers, taken, received, datagram>>
          /\ UNCHANGED connectionMtx /\ socketOpen' = FALSE
      BY <2>4 DEF Disconnect_Close, networkVars, serverVars
    <3>2. pc'[t] = "invalidate"
      BY <2>4, <1>l, <1>g DEF Disconnect_Close
    <3>3. HandshakeOrder' /\ AnswerInv'
      BY <3>1, <3>2, <2>u, <1>t, <1>h, OrderKeeps, AnswerKeeps DEF Handling
    <3>4. MutexInv'
      BY <3>1, <3>2, <2>u, <1>h DEF MutexInv
    <3>5. StageInv'
      BY <3>1 DEF StageInv
    <3> QED
      BY <3>3, <3>4, <3>5 DEF HandshakeInv
  <2>5. CASE Disconnect_Invalidate(t)
    <3>1. /\ pc[t] = "invalidate" /\ UNCHANGED <<sent, answers, taken, received, datagram>>
          /\ UNCHANGED socketOpen
      BY <2>5 DEF Disconnect_Invalidate, networkVars, serverVars
    <3>2. pc'[t] \in {"idle", "done"}
      BY <2>5, <1>l, <1>g DEF Disconnect_Invalidate
    <3>3. ~socketOpen /\ connectionMtx = t
      BY <3>1, <1>h DEF MutexInv
    <3>4. HandshakeOrder' /\ AnswerInv'
      BY <3>1, <3>2, <2>u, <1>t, <1>h, OrderKeeps, AnswerKeeps DEF Handling
    <3>5. MutexInv'
      BY <3>1, <3>2, <3>3, <2>u, <1>h DEF MutexInv
    <3>6. StageInv'
      BY <3>1, <3>3 DEF StageInv
    <3> QED
      BY <3>4, <3>5, <3>6 DEF HandshakeInv
  <2> QED
    BY <1>13, <2>1, <2>2, <2>3, <2>4, <2>5 DEF Disconnect
<1>14. ASSUME NEW d \in offline, ServerReply(d) \/ Lose(d)
       PROVE  HandshakeInv'
  <2>1. UNCHANGED <<currentState, connected, socketOpen, connectionMtx, pc, datagram,
                    sent, answers, taken, received>>
    BY <1>14 DEF ServerReply, Lose, clientVars, serverVars
  <2> QED
    BY <2>1, <1>h DEF HandshakeInv, HandshakeOrder, MutexInv, AnswerInv, AcceptedAt,
                      Handling, StageInv
<1>15. CASE ServerTake
  <2>1. /\ UNCHANGED <<currentState, connected, socketOpen, connectionMtx, pc, datagram,
                       sent, received>>
        /\ taken' = taken + 1 /\ taken < Len(sent)
    BY <1>15 DEF ServerTake, clientVars
  <2>2. HandshakeOrder' /\ MutexInv' /\ StageInv' /\ Handling' = Handling
    BY <2>1, <1>h DEF HandshakeOrder, MutexInv, StageInv, Handling
  <2>3. taken' # 0
    BY <2>1, <1>n
  <2>4. CASE sent[taken + 1] = "ConnectionRequest"
    <3>1. taken + 1 \in 1 .. Len(sent)
      BY <2>1, <1>n
    <3>2. taken = 0
      BY <2>4, <3>1, <1>h, <1>n, Shape
    <3>3. AcceptedAt = {} /\ ~Handling /\ Len(sent) = 1
      BY <2>1, <3>2, <1>h, <1>n DEF AnswerInv
    <3>4. answers' = Append(answers, "ConnectionRequestAccepted")
      BY <1>15, <2>4 DEF ServerTake
    <3>5. AcceptedAt' \subseteq AcceptedAt \cup {Len(answers) + 1}
      BY <3>4, <1>n, AppendType DEF AcceptedAt, ToClient
    <3>6. \A i, j \in AcceptedAt' : i = j
      BY <3>3, <3>5
    <3>7. AnswerInv'
      BY <2>1, <2>2, <2>3, <3>3, <3>6 DEF AnswerInv
    <3> QED
      BY <2>2, <3>7 DEF HandshakeInv
  <2>5. CASE sent[taken + 1] # "ConnectionRequest"
    <3>1. UNCHANGED answers
      BY <1>15, <2>5 DEF ServerTake
    <3>2. AcceptedAt' = AcceptedAt
      BY <3>1 DEF AcceptedAt
    <3>3. AnswerInv'
      BY <2>1, <2>2, <2>3, <3>2, <1>h DEF AnswerInv
    <3> QED
      BY <2>2, <3>3 DEF HandshakeInv
  <2> QED
    BY <2>4, <2>5
<1>16. CASE ServerDisconnect
  <2>1. /\ UNCHANGED <<currentState, connected, socketOpen, connectionMtx, pc, datagram,
                       sent, received, taken>>
        /\ answers' = Append(answers, "DisconnectNotification")
    BY <1>16 DEF ServerDisconnect, clientVars
  <2>2. HandshakeOrder' /\ MutexInv' /\ StageInv' /\ Handling' = Handling
    BY <2>1, <1>h DEF HandshakeOrder, MutexInv, StageInv, Handling
  <2>3. AcceptedAt' = AcceptedAt
    BY <2>1, <1>n, AppendType DEF AcceptedAt, ToClient
  <2>4. AnswerInv'
    BY <2>1, <2>2, <2>3, <1>h DEF AnswerInv
  <2> QED
    BY <2>2, <2>4 DEF HandshakeInv
<1>17. CASE UNCHANGED vars
  BY <1>17, <1>h DEF vars, HandshakeInv, HandshakeOrder, MutexInv, AnswerInv, AcceptedAt,
                     Handling, StageInv
<1> QED
  BY <1>1, <1>2, <1>3, <1>4, <1>5, <1>6, <1>7, <1>8, <1>9, <1>10, <1>11, <1>12, <1>13,
     <1>14, <1>15, <1>16, <1>17 DEF Next, OnTick, Process

\* HandshakeInv is an invariant: where the client is and what it has sent agree,
\* whoever disconnects at whatever step.
THEOREM HandshakeInvariant == Spec => []HandshakeInv
<1> QED
  BY HandshakeInit, HandshakeStep, TypeCorrect, PTL DEF Spec

\* The server sees the handshake in order and each message once.
THEOREM HandshakeOrdered == Spec => []HandshakeOrder
<1>1. HandshakeInv => HandshakeOrder
  BY DEF HandshakeInv
<1> QED
  BY <1>1, HandshakeInvariant, PTL

--------------------------------------------------------------------------------
(* The size the two ends agree on.                                          *)

LEMMA MtuInit == Init => MtuInv
<1> SUFFICES ASSUME Init PROVE MtuInv
  OBVIOUS
<1>1. offline = {} /\ datagram.id = "DisconnectNotification"
  BY DEF Init, Online
<1>2. currentState = "DISCOVER_MTU_SIZE" /\ pc["io"] = "idle"
  BY DEF Init, Threads
<1> QED
  BY <1>1, <1>2 DEF MtuInv

\* A step that puts nothing on the network, processes nothing new and goes no
\* further in the handshake than the client was keeps MtuInv.
LEMMA MtuKeeps ==
    ASSUME MtuInv, offline' \subseteq offline, datagram' \in offline \cup {datagram},
           UNCHANGED mtuSize,
           \/ currentState' = "DISCOVER_MTU_SIZE"
           \/ currentState' = currentState
           \/ pc["io"] = "reply2",
           pc'["io"] # "reply2" \/ pc["io"] = "reply2"
    PROVE  MtuInv'
  BY DEF MtuInv

\* A second request of a size that a server offers is one of that size.
LEMMA RequestKeepsMtu ==
    ASSUME TypeOK, MtuInv, NEW mtu \in Mtu, mtu <= ServerMtu,
           offline' \subseteq offline \cup SendRequest("OpenConnectionRequest2", mtu),
           UNCHANGED <<datagram, mtuSize, currentState>>,
           pc'["io"] # "reply2"
    PROVE  MtuInv'
<1>1. \A d \in SendRequest("OpenConnectionRequest2", mtu) :
         d.id = "OpenConnectionRequest2" /\ 0 < d.mtu /\ d.mtu <= ServerMtu
  BY DEF SendRequest
<1> QED
  BY <1>1 DEF MtuInv

LEMMA MtuKept == TypeOK /\ MtuInv /\ [Next]_vars => MtuInv'
<1> SUFFICES ASSUME TypeOK, MtuInv, [Next]_vars PROVE MtuInv'
  OBVIOUS
<1>s. /\ MtuMin \in Nat /\ 0 < MtuMin /\ ServerMtu \in Nat /\ mtuSize \in Mtu
      /\ pc \in [Threads -> Labels] /\ datagram.mtu \in Mtu /\ Mtu \subseteq Nat
      /\ "io" \in Threads /\ offline \subseteq Offline
  BY SizeAssumption DEF TypeOK, Mtu, Threads, Offline, Online
<1>1. CASE OnTick_Discover
  <2>1. \A d \in SendRequest("OpenConnectionRequest1", mtuSize) :
           d.id = "OpenConnectionRequest1"
    BY DEF SendRequest
  <2>2. currentState' = "DISCOVER_MTU_SIZE" /\ pc'["io"] # "reply2" /\ UNCHANGED datagram
    BY <1>1 DEF OnTick_Discover, Probing
  <2> QED
    BY <1>1, <2>1, <2>2 DEF OnTick_Discover, MtuInv
<1>2. CASE OnTick_Connecting
  <2>1. mtuSize <= ServerMtu
    BY <1>2 DEF OnTick_Connecting, MtuInv
  <2> QED
    BY <1>2, <1>s, <2>1, RequestKeepsMtu DEF OnTick_Connecting
<1>3. CASE OnTick_Normal
  BY <1>3, <1>s, MtuKeeps DEF OnTick_Normal, Goto
<1>4. CASE ProcessReply1
  <2>1. datagram.mtu <= ServerMtu
    BY <1>4 DEF ProcessReply1, Processing, MtuInv
  <2>2. currentState = "DISCOVER_MTU_SIZE" /\ pc'["io"] = "idle" /\ UNCHANGED datagram
    BY <1>4, <1>s DEF ProcessReply1, Processing, Goto
  <2>3. CASE Accepted(datagram.mtu)
    <3>1. mtuSize' = datagram.mtu /\ UNCHANGED offline
      BY <1>4, <2>3 DEF ProcessReply1
    <3>2. datagram.mtu \in Nat /\ 0 < datagram.mtu
      <4>1. datagram.mtu \in Nat
        BY <1>s
      <4>2. MtuMin <= datagram.mtu /\ MtuMin \in Nat /\ 0 < MtuMin
        BY <1>s, <2>3 DEF Accepted
      <4> QED
        BY <4>1, <4>2
    <3> QED
      BY <2>1, <2>2, <3>1, <3>2 DEF MtuInv
  <2>4. CASE ~Accepted(datagram.mtu)
    <3>1. /\ offline' = offline \cup SendRequest("OpenConnectionRequest2", datagram.mtu)
          /\ UNCHANGED currentState
      BY <1>4, <2>4 DEF ProcessReply1
    <3>2. \A d \in SendRequest("OpenConnectionRequest2", datagram.mtu) :
             d.id = "OpenConnectionRequest2" /\ 0 < d.mtu /\ d.mtu <= ServerMtu
      BY <2>1 DEF SendRequest
    <3> QED
      BY <2>2, <3>1, <3>2 DEF MtuInv
  <2> QED
    BY <2>3, <2>4
<1>5. CASE ProcessDisconnect
  BY <1>5, <1>s, MtuKeeps DEF ProcessDisconnect, networkVars, Goto
<1>6. CASE ProcessReply2
  <2>1. 0 < datagram.mtu /\ datagram.mtu <= ServerMtu
    BY <1>6 DEF ProcessReply2, Processing, MtuInv
  <2> QED
    BY <1>6, <2>1 DEF ProcessReply2, networkVars, MtuInv
<1>7. CASE EnterNormal
  BY <1>7, <1>s DEF EnterNormal, networkVars, Goto, MtuInv
<1>8. CASE RequestConnection \/ HandleConnectionRequestAccepted
  BY <1>8, <1>s, MtuKeeps DEF RequestConnection, HandleConnectionRequestAccepted, Goto
<1>9. CASE SetConnected \/ Ignore
  BY <1>9, <1>s, MtuKeeps DEF SetConnected, Ignore, networkVars, Goto
<1>10. CASE ReceiveAnswer
  <2>1. pc'["io"] = "process" /\ datagram'.id \in ToClient
    <3>1. received + 1 \in 1 .. Len(answers) /\ answers \in Seq(ToClient)
      BY <1>10 DEF ReceiveAnswer, TypeOK
    <3> QED
      BY <1>10, <1>s, <3>1 DEF ReceiveAnswer, Goto, Online
  <2> QED
    BY <1>10, <2>1 DEF ReceiveAnswer, MtuInv, ToClient
<1>11. ASSUME NEW d \in offline, ReceiveOffline(d) PROVE MtuInv'
  <2>1. offline' \subseteq offline /\ pc'["io"] = "process"
    BY <1>11, <1>s DEF ReceiveOffline, Take, Goto
  <2> QED
    BY <1>11, <2>1, MtuKeeps DEF ReceiveOffline
<1>12. ASSUME NEW d \in offline, ServerReply(d) PROVE MtuInv'
  <2>1. PICK compatible \in Compatible : Take(d, {Reply(d, compatible)})
    BY <1>12 DEF ServerReply
  <2>2. offline' \subseteq offline \cup {Reply(d, compatible)}
    BY <2>1 DEF Take
  <2>3. CASE d.id = "OpenConnectionRequest1"
    <3>1. Offered(d.mtu) <= ServerMtu
      BY <1>s, SizeAssumption DEF Offered, Offline
    <3>2. \/ Reply(d, compatible) = [id |-> "OpenConnectionReply1", mtu |-> Offered(d.mtu)]
          \/ Reply(d, compatible).id = "IncompatibleProtocolVersion"
      BY <2>3, SizeAssumption DEF Reply
    <3> QED
      BY <1>12, <2>2, <3>1, <3>2 DEF ServerReply, clientVars, MtuInv
  <2>4. CASE d.id = "OpenConnectionRequest2"
    <3>1. Reply(d, compatible) = [id |-> "OpenConnectionReply2", mtu |-> d.mtu]
      BY <2>4 DEF Reply
    <3> QED
      BY <1>12, <2>2, <2>4, <3>1 DEF ServerReply, clientVars, MtuInv
  <2> QED
    BY <1>12, <2>3, <2>4 DEF ServerReply
<1>13. ASSUME NEW d \in offline, Lose(d) PROVE MtuInv'
  BY <1>13, MtuKeeps DEF Lose, clientVars
<1>14. CASE UserDisconnect
  BY <1>14, <1>s, MtuKeeps DEF UserDisconnect, networkVars, Goto, Threads
<1>15. ASSUME NEW t \in Threads, Disconnect(t) PROVE MtuInv'
  <2>1. CASE Disconnect_Lock(t)
    BY <1>s, <2>1, MtuKeeps DEF Disconnect_Lock, networkVars, Goto
  <2>2. CASE Disconnect_Notify(t)
    BY <1>s, <2>2, MtuKeeps DEF Disconnect_Notify, Goto
  <2>3. CASE Disconnect_Clear(t)
    BY <1>s, <2>3, MtuKeeps DEF Disconnect_Clear, networkVars, Goto
  <2>4. CASE Disconnect_Close(t)
    BY <1>s, <2>4, MtuKeeps DEF Disconnect_Close, networkVars, Goto
  <2>5. CASE Disconnect_Invalidate(t)
    BY <1>s, <2>5, MtuKeeps DEF Disconnect_Invalidate, networkVars, Goto
  <2> QED
    BY <1>15, <2>1, <2>2, <2>3, <2>4, <2>5 DEF Disconnect
<1>16. CASE ServerTake \/ ServerDisconnect
  BY <1>16, MtuKeeps DEF ServerTake, ServerDisconnect, clientVars
<1>17. CASE UNCHANGED vars
  BY <1>17, MtuKeeps DEF vars
<1> QED
  BY <1>1, <1>2, <1>3, <1>4, <1>5, <1>6, <1>7, <1>8, <1>9, <1>10, <1>11, <1>12, <1>13,
     <1>14, <1>15, <1>16, <1>17 DEF Next, OnTick, Process

\* After the discovery the size in use is one that the server offers and not zero,
\* whatever replies come late, twice or while another thread disconnects.
THEOREM MtuCorrect == Spec => []MtuAgreed
<1>1. MtuInv => MtuAgreed
  BY DEF MtuInv, MtuAgreed
<1> QED
  BY <1>1, MtuInit, MtuKept, TypeCorrect, PTL DEF Spec
================================================================================
