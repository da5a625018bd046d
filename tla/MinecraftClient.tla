---------------------------- MODULE MinecraftClient ----------------------------
(***************************************************************************)
(* Minecraft::Client (client.cpp, clientHandlers.cpp) with its encoder and  *)
(* decoder: the login over an established RakNet connection.                *)
(*                                                                          *)
(* Three threads run the code: the caller of Connect, listen (listenLoop)   *)
(* and flush (flushLoop).  WritePacket and flush take sendMtx; encryption   *)
(* is switched on without it.  A batch is what Encode makes of bufferedSend: *)
(* its packets, whether it is encrypted, and the counter its checksum was   *)
(* made with.  The connection below is module RaknetStream: batches arrive  *)
(* in the order of their conn->Write.                                       *)
(*                                                                          *)
(* The server is external: it reacts as a Bedrock server does, and rejects  *)
(* a client whose batch has a wrong encryption or counter, or whose packet  *)
(* it does not wait for.                                                    *)
(***************************************************************************)
EXTENDS Integers, Sequences, FiniteSets, SequencesExt

CONSTANTS
    Replies,         \* what the server may do with a Login
    MaxNoise         \* bound on the packets of no concern to the login

ASSUME ReplyAssumption ==
    /\ Replies \subseteq {"secure", "plain", "refuse", "forge"}
    /\ MaxNoise \in Nat

VARIABLES
    pc,              \* where each thread is
    sendMtx,         \* the thread that holds it, or "none"
    bufferedSend,
    encrypt, sendCounter,         \* of the encoder
    decrypt, receiveCounter,      \* of the decoder
    encoded,         \* thread -> the batch it has encoded and not yet written
    expectedIds, deferredPackets,
    packets,         \* what listenLoop has decoded and not yet handled
    conn,            \* the RakNet connection: "connected" or "stopped"
    written,         \* history: the packets given to WritePacket
    handled,         \* history: the packets given to handleInternalPacket
    up, down,        \* batches on the connection, not yet taken
    stage,           \* what the server waits for
    inbox,           \* packets the server has to look at
    serverEncrypt, serverCounter, clientCounter,
    taken,           \* history: the packets the server found in batches it could decode
    sent,            \* history: the packets the server sent
    noise

clientVars == <<pc, sendMtx, bufferedSend, encrypt, sendCounter, decrypt, receiveCounter,
                encoded, expectedIds, deferredPackets, packets, conn,
                written, handled>>
serverVars == <<stage, inbox, serverEncrypt, serverCounter, clientCounter, taken, sent,
                noise>>
vars == <<clientVars, up, down, serverVars>>

Threads == {"connect", "listen", "flush"}
FromClient == {"Login", "ClientToServerHandshake", "ClientCacheStatus",
               "AllPacksDownloaded", "Completed", "SetLocalPlayerAsInitialised"}
FromServer == {"ServerToClientHandshake", "ForgedHandshake", "LoginSuccess", "LoginFailed",
               "PlayerSpawn", "ResourcePacksInfo", "ResourcePackStack", "StartGame",
               "Text", "Disconnect"}
Ids == {"ServerToClientHandshake", "PlayStatus", "ResourcePacksInfo",
        "ResourcePackStack", "StartGame", "Text", "Disconnect"}
Labels == {"off", "handshake", "login", "start", "wait", "sleep", "read",
           "receive", "reply", "lock", "encode", "write", "clear", "closed"}

\* PlayStatus carries a code, and a handshake may carry a bad signature.
Id(packet) ==
    CASE packet \in {"LoginSuccess", "LoginFailed", "PlayerSpawn"} -> "PlayStatus"
      [] packet = "ForgedHandshake" -> "ServerToClientHandshake"
      [] OTHER -> packet

Batch == [packets : Seq(FromClient \cup FromServer), encrypted : BOOLEAN, counter : Nat]
NoBatch == [packets |-> <<>>, encrypted |-> FALSE, counter |-> 0]

Goto(t, label) == pc' = [pc EXCEPT ![t] = label]

Init ==
    /\ pc = [connect |-> "handshake", listen |-> "off", flush |-> "off"]
    /\ sendMtx = "none" /\ bufferedSend = <<>>
    /\ encrypt = FALSE /\ sendCounter = 0 /\ decrypt = FALSE /\ receiveCounter = 0
    /\ encoded = [t \in Threads |-> NoBatch]
    /\ expectedIds = {} /\ deferredPackets = <<>> /\ packets = <<>>
    /\ conn = "connected"
    /\ written = <<>> /\ handled = <<>> /\ up = <<>> /\ down = <<>>
    /\ stage = "login" /\ inbox = <<>> /\ serverEncrypt = FALSE
    /\ serverCounter = 0 /\ clientCounter = 0 /\ taken = <<>> /\ sent = <<>> /\ noise = 0

--------------------------------------------------------------------------------
(* WritePacket and flush, of any thread.                                    *)

WritePacket(p) ==
    /\ sendMtx = "none"
    /\ bufferedSend' = Append(bufferedSend, p) /\ written' = Append(written, p)

\* flush: nothing to do when the buffer is empty.
Return(t) ==
    CASE t = "connect" -> "start" [] t = "listen" -> "receive" [] t = "flush" -> "sleep"

Flush_Lock(t) ==
    /\ pc[t] = "lock" /\ sendMtx = "none"
    /\ IF bufferedSend = <<>>
       THEN Goto(t, Return(t)) /\ UNCHANGED sendMtx
       ELSE Goto(t, "encode") /\ sendMtx' = t
    /\ UNCHANGED <<bufferedSend, encrypt, sendCounter, decrypt, receiveCounter, encoded,
                   expectedIds, deferredPackets, packets, conn, written,
                   handled, up, down, serverVars>>

\* Minecrypt::Encrypt: the counter is part of the checksum, and counts the batch.
Encrypted(packs) == [packets |-> packs, encrypted |-> TRUE, counter |-> sendCounter]
Plain(packs)     == [packets |-> packs, encrypted |-> FALSE, counter |-> 0]

\* Encoder::Encode.
Flush_Encode(t) ==
    /\ pc[t] = "encode"
    /\ encoded' = [encoded EXCEPT ![t] = IF encrypt THEN Encrypted(bufferedSend)
                                                    ELSE Plain(bufferedSend)]
    /\ sendCounter' = IF encrypt THEN sendCounter + 1 ELSE sendCounter
    /\ Goto(t, "write")
    /\ UNCHANGED <<sendMtx, bufferedSend, encrypt, decrypt, receiveCounter, expectedIds,
                   deferredPackets, packets, conn, written, handled,
                   up, down, serverVars>>

\* Mutant of Flush_Write: the lock is given up before the batch is on its way.
Flush_Write_Unlocked(t) ==
    \/ /\ pc[t] = "write" /\ sendMtx = t
       /\ sendMtx' = "none" /\ bufferedSend' = <<>>
       /\ UNCHANGED <<pc, encoded, up, encrypt, sendCounter, decrypt, receiveCounter,
                      expectedIds, deferredPackets, packets, conn, written,
                      handled, down, serverVars>>
    \/ /\ pc[t] = "write" /\ sendMtx # t
       /\ up' = IF conn = "connected" THEN Append(up, encoded[t]) ELSE up
       /\ encoded' = [encoded EXCEPT ![t] = NoBatch]
       /\ Goto(t, Return(t))
       /\ UNCHANGED <<sendMtx, bufferedSend, encrypt, sendCounter, decrypt, receiveCounter,
                      expectedIds, deferredPackets, packets, conn, written,
                      handled, down, serverVars>>

\* Mutant of Flush_Write: the batch is made and cleared, and not given to the connection.
Flush_Write_Unsent(t) ==
    /\ pc[t] = "write"
    /\ encoded' = [encoded EXCEPT ![t] = NoBatch]
    /\ Goto(t, "clear")
    /\ UNCHANGED <<sendMtx, bufferedSend, up, encrypt, sendCounter, decrypt, receiveCounter,
                   expectedIds, deferredPackets, packets, conn, written,
                   handled, down, serverVars>>

\* conn->Write: a stopped connection swallows it.
Flush_Write(t) ==
    /\ pc[t] = "write"
    /\ up' = IF conn = "connected" THEN Append(up, encoded[t]) ELSE up
    /\ encoded' = [encoded EXCEPT ![t] = NoBatch]
    /\ Goto(t, "clear")
    /\ UNCHANGED <<sendMtx, bufferedSend, encrypt, sendCounter, decrypt, receiveCounter,
                   expectedIds, deferredPackets, packets, conn, written,
                   handled, down, serverVars>>

Flush_Clear(t) ==
    /\ pc[t] = "clear"
    /\ bufferedSend' = <<>> /\ sendMtx' = "none"
    /\ Goto(t, Return(t))
    /\ UNCHANGED <<encrypt, sendCounter, decrypt, receiveCounter, encoded, expectedIds,
                   deferredPackets, packets, conn, written, handled,
                   up, down, serverVars>>

Flush(t) == Flush_Lock(t) \/ Flush_Encode(t) \/ Flush_Write(t) \/ Flush_Clear(t)

--------------------------------------------------------------------------------
(* Connect, once RakNet is connected.                                       *)

Connect_Login ==
    /\ pc["connect"] = "handshake" /\ WritePacket("Login")
    /\ expectedIds' = {"ServerToClientHandshake", "PlayStatus"}
    /\ Goto("connect", "lock")
    /\ UNCHANGED <<sendMtx, encrypt, sendCounter, decrypt, receiveCounter, encoded,
                   deferredPackets, packets, conn, handled, up, down,
                   serverVars>>

\* The threads are started.  Connect then waits for which no line
\* of the program sets: it stays in "wait".
Connect_Start ==
    /\ pc["connect"] = "start"
    /\ pc' = [connect |-> "wait", listen |-> "read", flush |-> "sleep"]
    /\ UNCHANGED <<sendMtx, bufferedSend, encrypt, sendCounter, decrypt, receiveCounter,
                   encoded, expectedIds, deferredPackets, packets, conn,
                   written, handled, up, down, serverVars>>

\* flushLoop: every 50 ms, which changes something only if there is something.
FlushLoop ==
    /\ pc["flush"] = "sleep" /\ bufferedSend # <<>>
    /\ Goto("flush", "lock")
    /\ UNCHANGED <<sendMtx, bufferedSend, encrypt, sendCounter, decrypt, receiveCounter,
                   encoded, expectedIds, deferredPackets, packets, conn,
                   written, handled, up, down, serverVars>>

--------------------------------------------------------------------------------
(* listenLoop: Read, Decode, and each packet of the batch.                  *)

Decodes(batch) == batch.encrypted = decrypt /\ (decrypt => batch.counter = receiveCounter)

\* A batch that cannot be decoded ends the loop.
ListenLoop_Read ==
    /\ pc["listen"] = "read" /\ conn = "connected" /\ down # <<>>
    /\ IF Decodes(Head(down))
       THEN Goto("listen", "receive") /\ packets' = Head(down).packets
       ELSE Goto("listen", "closed") /\ UNCHANGED packets
    /\ down' = Tail(down)
    /\ receiveCounter' = IF decrypt THEN receiveCounter + 1 ELSE receiveCounter
    /\ UNCHANGED <<sendMtx, bufferedSend, encrypt, sendCounter, decrypt, encoded,
                   expectedIds, deferredPackets, conn, written, handled,
                   up, serverVars>>

ListenLoop_NotConnected ==
    /\ pc["listen"] = "read" /\ conn = "stopped"
    /\ Goto("listen", "closed")
    /\ UNCHANGED <<sendMtx, bufferedSend, encrypt, sendCounter, decrypt, receiveCounter,
                   encoded, expectedIds, deferredPackets, packets, conn,
                   written, handled, up, down, serverVars>>

ListenLoop_Next ==
    /\ pc["listen"] = "receive" /\ packets = <<>>
    /\ Goto("listen", "read")
    /\ UNCHANGED <<sendMtx, bufferedSend, encrypt, sendCounter, decrypt, receiveCounter,
                   encoded, expectedIds, deferredPackets, packets, conn,
                   written, handled, up, down, serverVars>>

Receives(S) ==
    /\ pc["listen"] = "receive" /\ packets # <<>> /\ Head(packets) \in S
    /\ packets' = Tail(packets)

IsExpected(p) == Id(p) \in expectedIds

HandleDisconnect ==
    /\ Receives({"Disconnect"})
    /\ conn' = "stopped"
    /\ UNCHANGED <<pc, sendMtx, bufferedSend, encrypt, sendCounter, decrypt, receiveCounter,
                   encoded, expectedIds, deferredPackets, written,
                   handled, up, down, serverVars>>

\* Mutant of DeferPacket: a packet that is not expected is forgotten.
DeferPacket_Forget ==
    /\ Receives(FromServer \ {"Disconnect"}) /\ ~IsExpected(Head(packets))
    /\ UNCHANGED <<pc, sendMtx, bufferedSend, encrypt, sendCounter, decrypt, receiveCounter,
                   encoded, expectedIds, deferredPackets, conn, written,
                   handled, up, down, serverVars>>

DeferPacket ==
    /\ Receives(FromServer \ {"Disconnect"}) /\ ~IsExpected(Head(packets))
    /\ deferredPackets' = Append(deferredPackets, Head(packets))
    /\ UNCHANGED <<pc, sendMtx, bufferedSend, encrypt, sendCounter, decrypt, receiveCounter,
                   encoded, expectedIds, conn, written, handled, up, down,
                   serverVars>>

\* handleInternalPacket: an expected packet, and the flush at its end.
Handles(S) ==
    /\ Receives(S) /\ IsExpected(Head(packets))
    /\ handled' = Append(handled, Head(packets))

\* Mutant of HandleServerToClientHandshake: the decoder is forgotten.
HandleServerToClientHandshake_EncoderOnly ==
    /\ Handles({"ServerToClientHandshake"})
    /\ encrypt' = TRUE /\ sendCounter' = 0
    /\ Goto("listen", "reply")
    /\ UNCHANGED <<sendMtx, bufferedSend, decrypt, receiveCounter, encoded, expectedIds,
                   deferredPackets, conn, written, up, down, serverVars>>

\* A new Minecrypt on either side counts from zero.
EnableEncryption ==
    /\ encrypt' = TRUE /\ sendCounter' = 0
    /\ decrypt' = TRUE /\ receiveCounter' = 0

\* EnableEncryption on encoder and decoder, without sendMtx; then the reply.
HandleServerToClientHandshake ==
    /\ Handles({"ServerToClientHandshake"}) /\ EnableEncryption
    /\ Goto("listen", "reply")
    /\ UNCHANGED <<sendMtx, bufferedSend, encoded, expectedIds, deferredPackets, conn,
                   written, up, down, serverVars>>

ReplyToHandshake ==
    /\ pc["listen"] = "reply" /\ WritePacket("ClientToServerHandshake")
    /\ Goto("listen", "lock")
    /\ UNCHANGED <<sendMtx, encrypt, sendCounter, decrypt, receiveCounter, encoded,
                   expectedIds, deferredPackets, packets, conn, handled,
                   up, down, serverVars>>

\* A signature that does not verify ends the loop.
RefuseHandshake ==
    /\ Handles({"ForgedHandshake"})
    /\ Goto("listen", "closed")
    /\ UNCHANGED <<sendMtx, bufferedSend, encrypt, sendCounter, decrypt, receiveCounter,
                   encoded, expectedIds, deferredPackets, conn, written,
                   up, down, serverVars>>

\* The packets whose handler writes one packet and waits for another kind.
Answer(p) ==
    CASE p = "LoginSuccess"      -> "ClientCacheStatus"
      [] p = "PlayerSpawn"       -> "SetLocalPlayerAsInitialised"
      [] p = "ResourcePacksInfo" -> "AllPacksDownloaded"
      [] p = "ResourcePackStack" -> "Completed"

\* Mutant of ExpectedAfter: a login that succeeded still expects a PlayStatus only.
ExpectedAfter_PlayStatus(p) ==
    CASE p = "LoginSuccess"      -> {"PlayStatus"}
      [] p = "PlayerSpawn"       -> expectedIds
      [] p = "ResourcePacksInfo" -> {"ResourcePackStack"}
      [] p = "ResourcePackStack" -> {"StartGame"}

ExpectedAfter(p) ==
    CASE p = "LoginSuccess"      -> {"ResourcePacksInfo"}
      [] p = "PlayerSpawn"       -> expectedIds
      [] p = "ResourcePacksInfo" -> {"ResourcePackStack"}
      [] p = "ResourcePackStack" -> {"StartGame"}

HandleAndAnswer ==
    /\ Handles({"LoginSuccess", "PlayerSpawn", "ResourcePacksInfo", "ResourcePackStack"})
    /\ WritePacket(Answer(Head(packets)))
    /\ expectedIds' = ExpectedAfter(Head(packets))
    /\ Goto("listen", "lock")
    /\ UNCHANGED <<sendMtx, encrypt, sendCounter, decrypt, receiveCounter, encoded,
                   deferredPackets, conn, up, down, serverVars>>

HandleLoginFailed ==
    /\ Handles({"LoginFailed"})
    /\ conn' = "stopped" /\ Goto("listen", "lock")
    /\ UNCHANGED <<sendMtx, bufferedSend, encrypt, sendCounter, decrypt, receiveCounter,
                   encoded, expectedIds, deferredPackets, written, up, down,
                   serverVars>>

\* Expected, but its case does nothing.
HandleStartGame ==
    /\ Handles({"StartGame"})
    /\ Goto("listen", "lock")
    /\ UNCHANGED <<sendMtx, bufferedSend, encrypt, sendCounter, decrypt, receiveCounter,
                   encoded, expectedIds, deferredPackets, conn, written,
                   up, down, serverVars>>

Listen ==
    \/ ListenLoop_Read \/ ListenLoop_NotConnected \/ ListenLoop_Next
    \/ HandleDisconnect \/ DeferPacket \/ HandleServerToClientHandshake
    \/ ReplyToHandshake \/ RefuseHandshake \/ HandleAndAnswer \/ HandleLoginFailed
    \/ HandleStartGame

--------------------------------------------------------------------------------
(* The server.                                                              *)

ServerSends(batches) ==
    /\ down' = down \o [i \in 1 .. Len(batches) |->
                           [packets |-> batches[i], encrypted |-> serverEncrypt,
                            counter |-> IF serverEncrypt THEN serverCounter + i - 1 ELSE 0]]
    /\ serverCounter' = IF serverEncrypt THEN serverCounter + Len(batches) ELSE serverCounter
    /\ sent' = sent \o FlattenSeq(batches)

\* A batch is taken when its encryption and its counter are right.
ServerTake ==
    /\ inbox = <<>> /\ up # <<>> /\ stage # "rejected"
    /\ LET batch == Head(up) IN
       IF batch.encrypted = serverEncrypt /\ (serverEncrypt => batch.counter = clientCounter)
       THEN inbox' = batch.packets /\ taken' = taken \o batch.packets /\ UNCHANGED stage
       ELSE stage' = "rejected" /\ UNCHANGED <<inbox, taken>>
    /\ up' = Tail(up)
    /\ clientCounter' = IF serverEncrypt THEN clientCounter + 1 ELSE clientCounter
    /\ UNCHANGED <<clientVars, down, serverEncrypt, serverCounter, sent, noise>>

\* The two packets that follow a login may share a batch.
Welcome == {<<<<"LoginSuccess">>, <<"ResourcePacksInfo">>>>,
            <<<<"LoginSuccess", "ResourcePacksInfo">>>>}

ServerAnswersLogin(reply) ==
    CASE reply = "secure" ->
           /\ ServerSends(<<<<"ServerToClientHandshake">>>>)
           /\ serverEncrypt' = TRUE /\ stage' = "handshake"
      [] reply = "plain" ->
           /\ \E batches \in Welcome : ServerSends(batches)
           /\ stage' = "cache" /\ UNCHANGED serverEncrypt
      [] reply = "refuse" ->
           /\ ServerSends(<<<<"LoginFailed">>>>)
           /\ stage' = "refused" /\ UNCHANGED serverEncrypt
      [] reply = "forge" ->
           /\ ServerSends(<<<<"ForgedHandshake">>>>)
           /\ stage' = "refused" /\ UNCHANGED serverEncrypt

ServerHandle ==
    /\ inbox # <<>> /\ inbox' = Tail(inbox)
    /\ CASE stage = "login" /\ Head(inbox) = "Login" ->
              \E reply \in Replies : ServerAnswersLogin(reply)
         [] stage = "handshake" /\ Head(inbox) = "ClientToServerHandshake" ->
              /\ \E batches \in Welcome : ServerSends(batches)
              /\ stage' = "cache" /\ UNCHANGED serverEncrypt
         [] stage = "cache" /\ Head(inbox) = "ClientCacheStatus" ->
              stage' = "packs" /\ UNCHANGED <<down, serverCounter, serverEncrypt, sent>>
         [] stage = "packs" /\ Head(inbox) = "AllPacksDownloaded" ->
              /\ ServerSends(<<<<"ResourcePackStack">>>>)
              /\ stage' = "stack" /\ UNCHANGED serverEncrypt
         [] stage = "stack" /\ Head(inbox) = "Completed" ->
              /\ ServerSends(<<<<"StartGame">>, <<"PlayerSpawn">>>>)
              /\ stage' = "spawn" /\ UNCHANGED serverEncrypt
         [] stage = "spawn" /\ Head(inbox) = "SetLocalPlayerAsInitialised" ->
              stage' = "playing" /\ UNCHANGED <<down, serverCounter, serverEncrypt, sent>>
         [] OTHER -> stage' = "rejected" /\ UNCHANGED <<down, serverCounter, serverEncrypt, sent>>
    /\ UNCHANGED <<clientVars, up, clientCounter, taken, noise>>

\* A packet of no concern to the login, or a kick, once the login went through.
ServerNoise ==
    /\ stage \in {"cache", "packs", "stack", "spawn"} /\ noise < MaxNoise
    /\ noise' = noise + 1
    /\ \E p \in {"Text", "Disconnect"} : ServerSends(<<<<p>>>>)
    /\ UNCHANGED <<clientVars, up, stage, inbox, serverEncrypt, clientCounter, taken>>

Server == ServerTake \/ ServerHandle \/ ServerNoise

Connect == Connect_Login \/ Connect_Start

Next == Connect \/ FlushLoop \/ Listen \/ Server \/ \E t \in Threads : Flush(t)

Spec == Init /\ [][Next]_vars

\* The three threads run, and the server answers.
FairSpec ==
    /\ Spec /\ WF_vars(Connect) /\ WF_vars(FlushLoop) /\ WF_vars(Listen)
    /\ WF_vars(ServerTake \/ ServerHandle)
    /\ \A t \in Threads : WF_vars(Flush(t))

--------------------------------------------------------------------------------
\* Every variable keeps its type, and sendMtx is held by the thread that flushes.
TypeOK ==
    /\ pc \in [Threads -> Labels]
    /\ sendMtx \in Threads \cup {"none"}
    /\ \A t \in Threads : sendMtx = t => pc[t] \in {"encode", "write", "clear"}
    /\ bufferedSend \in Seq(FromClient) /\ encrypt \in BOOLEAN /\ decrypt \in BOOLEAN
    /\ {sendCounter, receiveCounter, serverCounter, clientCounter} \subseteq Nat
    /\ encoded \in [Threads -> Batch] /\ expectedIds \subseteq Ids
    /\ deferredPackets \in Seq(FromServer) /\ packets \in Seq(FromServer)
    /\ conn \in {"connected", "stopped"}
    /\ written \in Seq(FromClient) /\ handled \in Seq(FromServer)
    /\ up \in Seq(Batch) /\ down \in Seq(Batch) /\ inbox \in Seq(FromClient)
    /\ taken \in Seq(FromClient) /\ sent \in Seq(FromServer)
    /\ serverEncrypt \in BOOLEAN /\ noise \in 0 .. MaxNoise

\* WritePacket, flush, EnableEncryption: whichever threads flush, a batch reaches the
\* server with the encryption and the counter the server expects, and the packets
\* reach it in the order of the login.
ServerUnderstands == stage # "rejected"

\* Decoder::Decode: the listen loop never meets a batch it cannot decode, though
\* encryption is switched on between two batches.
ClientUnderstands ==
    pc["listen"] = "read" /\ conn = "connected" /\ down # <<>> => Decodes(Head(down))

PacketsOf(batches) == FlattenSeq([i \in DOMAIN batches |-> batches[i].packets])

\* flush against WritePacket: as long as the connection is up, the server has taken what
\* was given to WritePacket, each packet once and in this order, up to what is under way
\* in batches and what is still in the buffer.
Unsent == IF \E t \in Threads : pc[t] = "clear" THEN <<>> ELSE bufferedSend
NothingLost == conn = "connected" => written = taken \o PacketsOf(up) \o Unsent

Occurrences(p, s) == Cardinality({i \in DOMAIN s : s[i] = p})

\* handlePacket: each packet the server sent is handled, deferred or still to come,
\* exactly once, while the client listens: one that is early is not dropped.
NothingForgotten ==
    conn = "connected" /\ pc["listen"] # "closed" =>
       \A p \in FromServer :
          Occurrences(p, sent) =
             Occurrences(p, handled \o deferredPackets \o packets \o PacketsOf(down))

\* Once the server has let the client in, the client gets to StartGame, however its
\* packets are batched, unless it is kicked.
ReachesStartGame == stage = "cache" ~> Contains(handled, "StartGame") \/ conn = "stopped"

\* The server that lets the client in and spawns it hears that the player is
\* initialised ("Player spawned"), which is what Connect waits for ("Wait login").
Spawns == <>(stage = "playing")

\* After a disconnect both loops end ("Listen loop closed", "Flush loop closed").
LoopsClose == conn = "stopped" ~> pc["listen"] = "closed" /\ pc["flush"] = "closed"
================================================================================
