---------------------------- MODULE RaknetHandshake ----------------------------
(***************************************************************************)
(* How a RakNet client connects and disconnects                             *)
(* (libs/protorock/src/raknet/state.cpp): the discovery of the path's MTU,   *)
(* the two offline requests, the ConnectionRequest and its answer, and       *)
(* Disconnect, which any thread may call at any moment.                      *)
(*                                                                          *)
(* The IO thread runs the timer and process(); connectionMtx is held by      *)
(* Write and Disconnect only, so what process() reads and assigns outside    *)
(* them interleaves with a Disconnect of the user's thread.  Each such step  *)
(* is an action, and pc says where a thread is.                              *)
(*                                                                          *)
(* Offline datagrams are lost, duplicated and reordered, and dropped when    *)
(* they are larger than the path lets through.  Messages on the connection   *)
(* travel on the stream of module RaknetStream: in order and not twice.  The *)
(* server is external.  Sizes are numbers of bytes, on 16 bits (MtuMod).     *)
(***************************************************************************)
EXTENDS Integers, Sequences, FiniteSets

CONSTANTS
    InitialMtu,      \* 1400, the size of the first probe
    MtuStep,         \* 40
    MtuMin, MtuMax,  \* 400 and 1500, the sizes a client accepts in a reply
    MtuMod,          \* 2^16
    HeaderSize,      \* 28, what a server adds to the size of a probe
    PathMtu,         \* the largest datagram the network lets through
    ServerMtu,       \* the largest size the server offers
    Compatible,      \* whether the server speaks the client's protocol version: both
                     \* values when it may be restarted with another version
    MaxInFlight,     \* bound on the offline datagrams in flight (not in the code)
    MaxFaults        \* bound on losses, duplications and peer failures

ASSUME SizeAssumption ==
    /\ MtuMod \in Nat \ {0}
    /\ {InitialMtu, MtuStep, MtuMin, MtuMax, PathMtu, ServerMtu} \subseteq 0 .. MtuMod - 1
    /\ 0 < MtuMin
    /\ HeaderSize \in Nat /\ MaxInFlight \in Nat /\ MaxFaults \in Nat
    /\ Compatible \subseteq BOOLEAN

VARIABLES
    \* the client
    currentState, mtuSize, connected, isInvalid, stop,
    timerArmed,      \* the timer will run onTick again
    socketOpen,
    connectionMtx,   \* the thread that holds it, or "none"
    pc,              \* where each thread is
    datagram,        \* what the IO thread received and processes
    \* the network
    offline,         \* offline datagrams in flight
    sent, answers,   \* the stream, both directions: messages ever put on it
    received,        \* how many of the answers the client took
    faults,
    \* the server
    taken,           \* how many of the sent messages the server took
    serverState

vars == <<currentState, mtuSize, connected, isInvalid, stop, timerArmed, socketOpen,
          connectionMtx, pc, datagram, offline, sent, answers, received, faults,
          taken, serverState>>
clientVars  == <<currentState, mtuSize, connected, isInvalid, stop, timerArmed,
                 socketOpen, connectionMtx, pc, datagram>>
networkVars == <<offline, sent, answers, received, faults>>
serverVars  == <<taken, serverState>>

Threads == {"io", "user"}
Mtu     == 0 .. MtuMod - 1
Offline == [id : {"OpenConnectionRequest1", "OpenConnectionReply1",
                  "OpenConnectionRequest2", "OpenConnectionReply2",
                  "IncompatibleProtocolVersion"}, mtu : Mtu]
Online(id) == [id |-> id, mtu |-> 0]
ToServer == {"ConnectionRequest", "NewIncomingConnection", "DisconnectNotification"}
ToClient == {"ConnectionRequestAccepted", "DisconnectNotification"}
Labels   == {"idle", "process", "reply2", "request", "newIncoming", "setConnected",
             "disconnect", "notify", "clear", "close", "invalidate", "done"}

Goto(t, label) == pc' = [pc EXCEPT ![t] = label]

Init ==
    /\ currentState = "DISCOVER_MTU_SIZE" /\ mtuSize = InitialMtu
    /\ connected = FALSE /\ isInvalid = FALSE /\ stop = FALSE
    /\ timerArmed = TRUE /\ socketOpen = TRUE
    /\ connectionMtx = "none" /\ pc = [t \in Threads |-> "idle"]
    /\ datagram = Online("DisconnectNotification")
    /\ offline = {} /\ sent = <<>> /\ answers = <<>> /\ received = 0 /\ faults = 0
    /\ taken = 0 /\ serverState = "closed"

--------------------------------------------------------------------------------
(* Sending.  An offline request is padded to its size; nothing is sent on a *)
(* closed socket, and no empty datagram.                                    *)

SendRequest(id, mtu) ==
    IF socketOpen /\ 0 < mtu /\ mtu <= PathMtu THEN {[id |-> id, mtu |-> mtu]} ELSE {}

\* The bound on what the timer puts in flight; a closed socket sends nothing.
Room == socketOpen => Cardinality(offline) < MaxInFlight

\* state::Write: takes connectionMtx, so not while a Disconnect runs.
Write(id) ==
    /\ connectionMtx = "none"
    /\ sent' = IF socketOpen THEN Append(sent, id) ELSE sent

Fault == faults < MaxFaults /\ faults' = faults + 1

Take(d, replies) ==
    \/ offline' = (offline \ {d}) \cup replies /\ UNCHANGED faults
    \/ Fault /\ offline' = offline \cup replies

--------------------------------------------------------------------------------
(* The timer.                                                               *)

\* Mutant of Shrunk: the size is not kept on 16 bits.
Shrunk_NoWrap == mtuSize - MtuStep

Shrunk == (mtuSize - MtuStep) % MtuMod

\* Mutant of Probing: onTick does not return before the CONNECTING case.
Probing_FallsThrough == currentState # "NORMAL"

Probing == currentState = "DISCOVER_MTU_SIZE"

\* Mutants of Rearmed: the timer is armed whether or not it was stopped; the
\* second request is sent once only.
Rearmed_Always == TRUE
Rearmed_NotConnecting == ~stop /\ currentState # "CONNECTING"

Rearmed == ~stop

OnTick_Discover ==
    /\ pc["io"] = "idle" /\ timerArmed /\ Probing
    /\ Room
    /\ offline' = offline \cup SendRequest("OpenConnectionRequest1", mtuSize)
    /\ mtuSize' = Shrunk
    /\ timerArmed' = Rearmed
    /\ UNCHANGED <<currentState, connected, isInvalid, stop, socketOpen, connectionMtx,
                   pc, datagram, sent, answers, received, faults, serverVars>>

OnTick_Connecting ==
    /\ pc["io"] = "idle" /\ timerArmed /\ currentState = "CONNECTING"
    /\ Room
    /\ offline' = offline \cup SendRequest("OpenConnectionRequest2", mtuSize)
    /\ timerArmed' = Rearmed
    /\ UNCHANGED <<currentState, mtuSize, connected, isInvalid, stop, socketOpen,
                   connectionMtx, pc, datagram, sent, answers, received, faults, serverVars>>

\* In NORMAL the timer serves the stream; checkResend gives up on a peer that
\* no longer answers, which is a fault of the peer.
OnTick_Normal ==
    /\ pc["io"] = "idle" /\ timerArmed /\ currentState = "NORMAL"
    /\ \/ timerArmed' = Rearmed /\ UNCHANGED <<pc, faults>>
       \/ Fault /\ Goto("io", "disconnect") /\ timerArmed' = FALSE
    /\ UNCHANGED <<currentState, mtuSize, connected, isInvalid, stop, socketOpen,
                   connectionMtx, datagram, offline, sent, answers, received, serverVars>>

--------------------------------------------------------------------------------
(* Receiving: the socket hands the IO thread a datagram, then process() runs. *)

ReceiveOffline(d) ==
    /\ pc["io"] = "idle" /\ socketOpen
    /\ d \in offline /\ d.id \in {"OpenConnectionReply1", "OpenConnectionReply2",
                                  "IncompatibleProtocolVersion"}
    /\ Take(d, {})
    /\ datagram' = d /\ Goto("io", "process")
    /\ UNCHANGED <<currentState, mtuSize, connected, isInvalid, stop, timerArmed,
                   socketOpen, connectionMtx, sent, answers, received, serverVars>>

ReceiveAnswer ==
    /\ pc["io"] = "idle" /\ socketOpen /\ received < Len(answers)
    /\ received' = received + 1
    /\ datagram' = Online(answers[received + 1]) /\ Goto("io", "process")
    /\ UNCHANGED <<currentState, mtuSize, connected, isInvalid, stop, timerArmed,
                   socketOpen, connectionMtx, offline, sent, answers, faults, serverVars>>

\* Mutant of Processing: a reply is processed in whatever state.
Processing_AnyState(state, id) == pc["io"] = "process" /\ datagram.id = id

Processing(state, id) ==
    pc["io"] = "process" /\ currentState = state /\ datagram.id = id

Accepted(mtu) == MtuMin <= mtu /\ mtu <= MtuMax

ProcessReply1 ==
    /\ Processing("DISCOVER_MTU_SIZE", "OpenConnectionReply1")
    /\ IF Accepted(datagram.mtu)
       THEN /\ mtuSize' = datagram.mtu /\ currentState' = "CONNECTING"
            /\ UNCHANGED offline
       ELSE /\ mtuSize' = (mtuSize + MtuStep) % MtuMod
            /\ offline' = offline \cup SendRequest("OpenConnectionRequest2", datagram.mtu)
            /\ UNCHANGED currentState
    /\ Goto("io", "idle")
    /\ UNCHANGED <<connected, isInvalid, stop, timerArmed, socketOpen, connectionMtx,
                   datagram, sent, answers, received, faults, serverVars>>

\* An IncompatibleProtocolVersion and the server's DisconnectNotification.
ProcessDisconnect ==
    /\ \/ Processing("DISCOVER_MTU_SIZE", "IncompatibleProtocolVersion")
       \/ Processing("NORMAL", "DisconnectNotification")
    /\ Goto("io", "disconnect")
    /\ UNCHANGED <<currentState, mtuSize, connected, isInvalid, stop, timerArmed,
                   socketOpen, connectionMtx, datagram, networkVars, serverVars>>

ProcessReply2 ==
    /\ Processing("CONNECTING", "OpenConnectionReply2")
    /\ mtuSize' = datagram.mtu
    /\ Goto("io", "reply2")
    /\ UNCHANGED <<currentState, connected, isInvalid, stop, timerArmed, socketOpen,
                   connectionMtx, datagram, networkVars, serverVars>>

EnterNormal ==
    /\ pc["io"] = "reply2"
    /\ currentState' = "NORMAL"
    /\ Goto("io", "request")
    /\ UNCHANGED <<mtuSize, connected, isInvalid, stop, timerArmed, socketOpen,
                   connectionMtx, datagram, networkVars, serverVars>>

RequestConnection ==
    /\ pc["io"] = "request"
    /\ Write("ConnectionRequest")
    /\ Goto("io", "idle")
    /\ UNCHANGED <<currentState, mtuSize, connected, isInvalid, stop, timerArmed,
                   socketOpen, connectionMtx, datagram, offline, answers, received,
                   faults, serverVars>>

HandleConnectionRequestAccepted ==
    /\ Processing("NORMAL", "ConnectionRequestAccepted")
    /\ Write("NewIncomingConnection")
    /\ Goto("io", "setConnected")
    /\ UNCHANGED <<currentState, mtuSize, connected, isInvalid, stop, timerArmed,
                   socketOpen, connectionMtx, datagram, offline, answers, received,
                   faults, serverVars>>

SetConnected ==
    /\ pc["io"] = "setConnected"
    /\ connected' = TRUE
    /\ Goto("io", "idle")
    /\ UNCHANGED <<currentState, mtuSize, isInvalid, stop, timerArmed, socketOpen,
                   connectionMtx, datagram, networkVars, serverVars>>

\* The datagrams process() looks at in a state; any other is ignored.
Expected(state) ==
    CASE state = "DISCOVER_MTU_SIZE" -> {"OpenConnectionReply1", "IncompatibleProtocolVersion"}
      [] state = "CONNECTING"        -> {"OpenConnectionReply2"}
      [] state = "NORMAL"            -> ToClient

Ignore ==
    /\ pc["io"] = "process" /\ datagram.id \notin Expected(currentState)
    /\ Goto("io", "idle")
    /\ UNCHANGED <<currentState, mtuSize, connected, isInvalid, stop, timerArmed,
                   socketOpen, connectionMtx, datagram, networkVars, serverVars>>

--------------------------------------------------------------------------------
(* Disconnect, under connectionMtx from its first step to its last.         *)

UserDisconnect ==
    /\ pc["user"] = "idle"
    /\ Goto("user", "disconnect")
    /\ UNCHANGED <<currentState, mtuSize, connected, isInvalid, stop, timerArmed,
                   socketOpen, connectionMtx, datagram, networkVars, serverVars>>

Disconnect_Lock(t) ==
    /\ pc[t] = "disconnect" /\ connectionMtx = "none"
    /\ connectionMtx' = t /\ stop' = TRUE
    /\ Goto(t, "notify")
    /\ UNCHANGED <<currentState, mtuSize, connected, isInvalid, timerArmed, socketOpen,
                   datagram, networkVars, serverVars>>

Disconnect_Notify(t) ==
    /\ pc[t] = "notify"
    /\ sent' = IF connected /\ socketOpen THEN Append(sent, "DisconnectNotification")
                                          ELSE sent
    /\ Goto(t, "clear")
    /\ UNCHANGED <<currentState, mtuSize, connected, isInvalid, stop, timerArmed,
                   socketOpen, connectionMtx, datagram, offline, answers, received,
                   faults, serverVars>>

Disconnect_Clear(t) ==
    /\ pc[t] = "clear"
    /\ connected' = FALSE
    /\ Goto(t, "close")
    /\ UNCHANGED <<currentState, mtuSize, isInvalid, stop, timerArmed, socketOpen,
                   connectionMtx, datagram, networkVars, serverVars>>

Disconnect_Close(t) ==
    /\ pc[t] = "close"
    /\ socketOpen' = FALSE
    /\ Goto(t, "invalidate")
    /\ UNCHANGED <<currentState, mtuSize, connected, isInvalid, stop, timerArmed,
                   connectionMtx, datagram, networkVars, serverVars>>

Disconnect_Invalidate(t) ==
    /\ pc[t] = "invalidate"
    /\ currentState' = "DISCOVER_MTU_SIZE" /\ isInvalid' = TRUE
    /\ connectionMtx' = "none"
    /\ Goto(t, IF t = "io" THEN "idle" ELSE "done")
    /\ UNCHANGED <<mtuSize, connected, stop, timerArmed, socketOpen, datagram,
                   networkVars, serverVars>>

Disconnect(t) ==
    \/ Disconnect_Lock(t) \/ Disconnect_Notify(t) \/ Disconnect_Clear(t)
    \/ Disconnect_Close(t) \/ Disconnect_Invalidate(t)

--------------------------------------------------------------------------------
(* The server and the network.  A server counts the headers into the size   *)
(* of a probe (message.h, OpenConnectionRequest1::Read), answers with what  *)
(* it offers at most, and grants what the second request prefers.           *)

Offered(mtu) == IF mtu + HeaderSize <= ServerMtu THEN mtu + HeaderSize ELSE ServerMtu

Reply(d, compatible) ==
    CASE d.id = "OpenConnectionRequest1" /\ compatible ->
           [id |-> "OpenConnectionReply1", mtu |-> Offered(d.mtu)]
      [] d.id = "OpenConnectionRequest1" /\ ~compatible ->
           [id |-> "IncompatibleProtocolVersion", mtu |-> 0]
      [] OTHER -> [id |-> "OpenConnectionReply2", mtu |-> d.mtu]

ServerReply(d) ==
    /\ d \in offline /\ d.id \in {"OpenConnectionRequest1", "OpenConnectionRequest2"}
    /\ \E compatible \in Compatible : Take(d, {Reply(d, compatible)})
    /\ UNCHANGED <<clientVars, sent, answers, received, serverVars>>

ServerTake ==
    /\ taken < Len(sent) /\ taken' = taken + 1
    /\ CASE sent[taken + 1] = "ConnectionRequest" ->
              /\ serverState' = "requested"
              /\ answers' = Append(answers, "ConnectionRequestAccepted")
         [] sent[taken + 1] = "NewIncomingConnection" ->
              serverState' = "connected" /\ UNCHANGED answers
         [] OTHER -> serverState' = "closed" /\ UNCHANGED answers
    /\ UNCHANGED <<clientVars, offline, sent, received, faults>>

ServerDisconnect ==
    /\ serverState # "closed" /\ Fault
    /\ serverState' = "closed"
    /\ answers' = Append(answers, "DisconnectNotification")
    /\ UNCHANGED <<clientVars, offline, sent, received, taken>>

Lose(d) ==
    /\ d \in offline /\ Fault /\ offline' = offline \ {d}
    /\ UNCHANGED <<clientVars, sent, answers, received, serverVars>>

--------------------------------------------------------------------------------
OnTick  == OnTick_Discover \/ OnTick_Connecting \/ OnTick_Normal
Process == \/ ProcessReply1 \/ ProcessDisconnect \/ ProcessReply2 \/ EnterNormal
           \/ RequestConnection \/ HandleConnectionRequestAccepted \/ SetConnected
           \/ Ignore

Next ==
    \/ OnTick \/ Process \/ ReceiveAnswer
    \/ \E d \in offline : ReceiveOffline(d) \/ ServerReply(d) \/ Lose(d)
    \/ UserDisconnect \/ \E t \in Threads : Disconnect(t)
    \/ ServerTake \/ ServerDisconnect

Spec == Init /\ [][Next]_vars

\* The IO thread runs what is ready, a thread inside Disconnect goes on, the
\* server answers, and a datagram the network does not lose is delivered.
\* Nothing makes a user disconnect.
Fairness ==
    /\ WF_vars(OnTick) /\ WF_vars(Process) /\ WF_vars(ReceiveAnswer) /\ WF_vars(ServerTake)
    /\ \A d \in Offline : WF_vars(ReceiveOffline(d)) /\ WF_vars(ServerReply(d))
    /\ \A t \in Threads : WF_vars(Disconnect(t))

FairSpec == Spec /\ Fairness

--------------------------------------------------------------------------------
\* Every variable keeps its type.
TypeOK ==
    /\ currentState \in {"DISCOVER_MTU_SIZE", "CONNECTING", "NORMAL"}
    /\ mtuSize \in Mtu /\ connected \in BOOLEAN /\ isInvalid \in BOOLEAN
    /\ stop \in BOOLEAN /\ timerArmed \in BOOLEAN /\ socketOpen \in BOOLEAN
    /\ connectionMtx \in Threads \cup {"none"} /\ pc \in [Threads -> Labels]
    /\ datagram \in Offline \cup {Online(id) : id \in ToClient}
    /\ offline \subseteq Offline /\ sent \in Seq(ToServer) /\ answers \in Seq(ToClient)
    /\ received \in 0 .. Len(answers) /\ faults \in 0 .. MaxFaults
    /\ taken \in 0 .. Len(sent) /\ serverState \in {"closed", "requested", "connected"}

\* Whatever is lost, sent twice or overtaken, and whoever disconnects when, the
\* server sees one ConnectionRequest, then one NewIncomingConnection, then at
\* most one DisconnectNotification: a Reply2 that comes again opens nothing.
HandshakeOrder ==
    sent \in {<<>>, <<"ConnectionRequest">>,
              <<"ConnectionRequest", "NewIncomingConnection">>,
              <<"ConnectionRequest", "NewIncomingConnection", "DisconnectNotification">>}

(* Why HandshakeOrder holds, part by part.                                  *)

\* Inside Disconnect a thread holds connectionMtx, and the socket is closed
\* before the state is left.
MutexInv ==
    \A t \in Threads :
       /\ pc[t] \in {"notify", "clear", "close", "invalidate"} => connectionMtx = t
       /\ pc[t] = "invalidate" => ~socketOpen

AcceptedAt == {i \in 1 .. Len(answers) : answers[i] = "ConnectionRequestAccepted"}
Handling   == pc["io"] = "process" /\ datagram.id = "ConnectionRequestAccepted"

\* The server accepts once, after it took the request, and as long as its
\* answer is on the way or being handled the client has sent the request only.
AnswerInv ==
    /\ taken = 0 => AcceptedAt = {} /\ ~Handling /\ Len(sent) <= 1
    /\ \A i, j \in AcceptedAt : i = j
    /\ Handling => \A i \in AcceptedAt : i <= received
    /\ Handling => Len(sent) = 1
    /\ \A i \in AcceptedAt : received < i => Len(sent) = 1

\* While the socket is open, where the client is tells what it has sent.
StageInv ==
    socketOpen =>
       /\ currentState # "NORMAL" => sent = <<>>
       /\ pc["io"] \in {"reply2", "request"} => sent = <<>>
       /\ pc["io"] = "request" => currentState = "NORMAL"
       /\ pc["io"] = "setConnected" => Len(sent) = 2 /\ ~connected
       /\ connected => \/ Len(sent) = 2
                       \/ Len(sent) = 3 /\ \E t \in Threads : pc[t] = "clear"

\* What a Disconnect at any step of the handshake leaves true: the invariant
\* that makes HandshakeOrder inductive.
HandshakeInv == HandshakeOrder /\ MutexInv /\ AnswerInv /\ StageInv

\* Once a reply was accepted the client never uses a datagram size above what
\* a server offers, nor zero, so the timer no longer shrinks it.
MtuAgreed ==
    currentState # "DISCOVER_MTU_SIZE" => 0 < mtuSize /\ mtuSize <= ServerMtu

\* Why: no reply carries more than the server offers, so neither does a second
\* request, and none is sent with zero; a Reply2 that is being processed may find
\* the client back in DISCOVER_MTU_SIZE and take it to NORMAL all the same.
MtuInv ==
    /\ \A d \in offline \cup {datagram} :
          /\ d.id = "OpenConnectionReply1" => d.mtu <= ServerMtu
          /\ d.id \in {"OpenConnectionRequest2", "OpenConnectionReply2"} =>
                0 < d.mtu /\ d.mtu <= ServerMtu
    /\ currentState # "DISCOVER_MTU_SIZE" \/ pc["io"] = "reply2" =>
          0 < mtuSize /\ mtuSize <= ServerMtu

\* A client that neither disconnects nor is disconnected gets connected
\* (Minecraft::Client::Connect waits for it without a timeout).
EventuallyConnects == <>(connected \/ stop)

\* The same of the behaviours in which at most one datagram is lost or doubled
\* and the server speaks the version of the client.
ConnectsDespiteOneFault ==
    [](faults <= 1 /\ \A d \in offline : d.id # "IncompatibleProtocolVersion")
       => EventuallyConnects

\* After Disconnect the timer ends: onTick does not arm it again.
TimerEnds == stop ~> ~timerArmed

\* A state that Disconnect made invalid is not connected, so that a Read of it
\* throws "not connected" instead of waiting for ever (state::Read).
InvalidIsNotConnected == isInvalid => ~connected

\* No probe is larger than the first one (maxMTUSize).
ProbesShrink ==
    \A d \in offline : d.id = "OpenConnectionRequest1" => d.mtu <= InitialMtu
================================================================================
