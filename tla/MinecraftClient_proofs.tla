------------------------ MODULE MinecraftClient_proofs ------------------------
(***************************************************************************)
(* Proofs about MinecraftClient, and about the login of ClientConnect, for  *)
(* any replies of the server and any number of packets of no concern to the *)
(* login: every batch is decoded by the side that gets it, and the server   *)
(* gets the packets it waits for; what either side writes is handled by the *)
(* other, none of it lost, doubled or out of its order.                     *)
(*                                                                          *)
(* The argument numbers what the client writes: the number of a packet,     *)
(* with whether the server encrypts (secure), tells which one it is, whether *)
(* it is encrypted and with which counter.  Then come what precedes the     *)
(* login, the answer of the ping and the token of the account, and, at the  *)
(* end, the packets followed through the queues and the types of all.       *)
(***************************************************************************)
EXTENDS ClientConnect, SequenceLemmas, TLAPS

\* ClientToServerHandshake is written to a server that encrypts.
Extra(secure) == IF secure THEN 1 ELSE 0

\* The k-th packet of the client, and the ids it expects once it wrote k packets.
Due(k, secure) ==
    CASE k = 1                     -> "Login"
      [] k = 2 /\ secure           -> "ClientToServerHandshake"
      [] k = 2 + Extra(secure)     -> "ClientCacheStatus"
      [] k = 3 + Extra(secure)     -> "AllPacksDownloaded"
      [] k = 4 + Extra(secure)     -> "Completed"

Expecting(k, secure) ==
    CASE k = 0                     -> {}
      [] k \in {1, 1 + Extra(secure)} -> {"ServerToClientHandshake", "PlayStatus"}
      [] k = 2 + Extra(secure)     -> {"ResourcePacksInfo"}
      [] k = 3 + Extra(secure)     -> {"ResourcePackStack"}
      [] k = 4 + Extra(secure)     -> {"StartGame"}

\* How many packets the server has handled when it is at a stage.
Taken(at, secure) ==
    CASE at = "login"                    -> 0
      [] at \in {"handshake", "refused"} -> 1
      [] at = "cache"                    -> 1 + Extra(secure)
      [] at = "packs"                    -> 2 + Extra(secure)
      [] at = "stack"                    -> 3 + Extra(secure)
      [] at = "spawn"                    -> 4 + Extra(secure)

\* A batch is what Encode makes of the k-th packet alone.
Carries(batch, k, secure) ==
    /\ batch.packets = <<Due(k, secure)>>
    /\ batch.encrypted = (secure /\ k > 1)
    /\ secure /\ k > 1 => batch.counter = k - 2

n == Len(written)
arrived == Taken(stage, serverEncrypt) + Len(inbox)
InFlush(t) == pc[t] \in {"encode", "write", "clear"}

Stages == {"login", "handshake", "refused", "cache", "packs", "stack", "spawn"}

TypeInv ==
    /\ pc \in [Threads -> Labels] /\ sendMtx \in Threads \cup {"none"}
    /\ bufferedSend \in Seq(FromClient) /\ written \in Seq(FromClient)
    /\ {encrypt, decrypt, serverEncrypt} \subseteq BOOLEAN
    /\ {sendCounter, receiveCounter, serverCounter, clientCounter} \subseteq Nat
    /\ encoded \in [Threads -> Batch] /\ packets \in Seq(FromServer)
    /\ up \in Seq(Batch) /\ down \in Seq(Batch) /\ inbox \in Seq(FromClient)
    /\ stage \in Stages

\* Where the threads are: a packet in the buffer is flushed by the thread that
\* wrote it, or by flushLoop before this thread goes on.
ThreadsInv ==
    /\ \A t \in Threads : InFlush(t) <=> sendMtx = t
    /\ sendMtx # "none" => bufferedSend # <<>>
    /\ bufferedSend # <<>> => \E t \in {"connect", "listen"} : pc[t] = "lock" \/ InFlush(t)
    /\ pc["connect"] = "handshake" <=> n = 0
    /\ pc["connect"] \in {"handshake", "lock", "encode", "write", "clear", "start", "wait"}
    /\ pc["connect"] # "wait" => pc["listen"] = "off" /\ pc["flush"] = "off" /\ n <= 1
    /\ pc["connect"] = "wait" => pc["listen"] # "off"

\* What was given to WritePacket, and where the last of it is.
WrittenInv ==
    /\ n \in 0 .. 4 + Extra(serverEncrypt)
    /\ expectedIds = Expecting(n, serverEncrypt)
    /\ bufferedSend = <<>> \/ bufferedSend = <<Due(n, serverEncrypt)>>
    /\ \A t \in Threads : pc[t] = "write" => Carries(encoded[t], n, serverEncrypt)

\* The last packet is not yet written to the connection, or not even encoded.
Unwritten == bufferedSend # <<>> /\ \A t \in Threads : pc[t] # "clear"
Unencoded == Unwritten /\ \A t \in Threads : pc[t] # "write"

\* The way up: the batches on it, the counters of its ends.
UpInv ==
    /\ inbox = <<>> \/ inbox = <<Due(Taken(stage, serverEncrypt) + 1, serverEncrypt)>>
    /\ \A i \in 1 .. Len(up) : Carries(up[i], arrived + i, serverEncrypt)
    /\ arrived + Len(up) <= n
    /\ conn = "connected" => arrived + Len(up) = n - (IF Unwritten THEN 1 ELSE 0)
    /\ clientCounter = IF serverEncrypt THEN arrived - 1 ELSE 0
    /\ encrypt <=> serverEncrypt /\ (n > 1 \/ pc["listen"] = "reply")
    /\ encrypt => sendCounter = n - 1 - (IF Unencoded THEN 1 ELSE 0)

\* The way down.
DownInv ==
    /\ decrypt = encrypt
    /\ \A i \in 1 .. Len(down) : /\ down[i].encrypted = decrypt
                                 /\ decrypt => down[i].counter = receiveCounter + i - 1
    /\ serverCounter = IF decrypt THEN receiveCounter + Len(down) ELSE 0

\* The packets the server sent, and the client has not yet looked at, are in S.
Coming(S) ==
    /\ \A i \in 1 .. Len(packets) : packets[i] \in S
    /\ \A j \in 1 .. Len(down) : \A i \in 1 .. Len(down[j].packets) : down[j].packets[i] \in S

\* The ServerToClientHandshake is on its way, or was handled.
Shake == <<"ServerToClientHandshake">>
ShakeInv ==
    \/ encrypt /\ packets = <<>> /\ down = <<>>
    \/ ~encrypt /\ packets = Shake /\ down = <<>>
    \/ ~encrypt /\ packets = <<>> /\ Len(down) = 1 /\ down[1].packets = Shake

\* What the client may still get at each stage of the server.
Later == FromServer \ {"ServerToClientHandshake", "ForgedHandshake", "LoginFailed"}
StageInv ==
    /\ pc["listen"] = "reply" => stage = "handshake" /\ n = 1
    /\ stage = "login" => ~serverEncrypt /\ packets = <<>> /\ down = <<>> /\ n <= 1
    /\ stage = "refused" => ~serverEncrypt /\ n = 1 /\ Coming({"LoginFailed", "ForgedHandshake"})
    /\ stage = "handshake" => serverEncrypt /\ n <= 2 /\ ShakeInv
    /\ stage \in {"cache", "packs", "stack"} => Coming(Later \ {"PlayerSpawn"})
    /\ stage = "spawn" => Coming(Later)

LoginInv == TypeInv /\ ThreadsInv /\ WrittenInv /\ UpInv /\ DownInv /\ StageInv

--------------------------------------------------------------------------------
(* Numbers and packets.                                                     *)

LEMMA ExtraIs == ASSUME NEW s \in BOOLEAN
                 PROVE  Extra(s) \in {0, 1} /\ (s <=> Extra(s) = 1)
  BY DEF Extra

LEMMA DueIs ==
    ASSUME NEW s \in BOOLEAN
    PROVE  /\ Due(1, s) = "Login"
           /\ s => Due(2, s) = "ClientToServerHandshake"
           /\ Due(2 + Extra(s), s) = "ClientCacheStatus"
           /\ Due(3 + Extra(s), s) = "AllPacksDownloaded"
           /\ Due(4 + Extra(s), s) = "Completed"
           /\ \A k \in 1 .. 4 + Extra(s) : Due(k, s) \in FromClient
<1>1. CASE s
  BY <1>1 DEF Due, Extra, FromClient
<1>2. CASE ~s
  BY <1>2 DEF Due, Extra, FromClient
<1> QED
  BY <1>1, <1>2

\* What the client expects tells how many packets it wrote.
LEMMA ExpectingIs ==
    ASSUME NEW s \in BOOLEAN, NEW k \in 0 .. 4 + Extra(s)
    PROVE  /\ "PlayStatus" \in Expecting(k, s) => k = 1 \/ k = 1 + Extra(s)
           /\ "ServerToClientHandshake" \in Expecting(k, s) => k = 1 \/ k = 1 + Extra(s)
           /\ "ResourcePacksInfo" \in Expecting(k, s) => k = 2 + Extra(s)
           /\ "ResourcePackStack" \in Expecting(k, s) => k = 3 + Extra(s)
<1>1. CASE s
  BY <1>1 DEF Expecting, Extra
<1>2. CASE ~s
  BY <1>2 DEF Expecting, Extra
<1> QED
  BY <1>1, <1>2

LEMMA ExpectingOf ==
    ASSUME NEW s \in BOOLEAN
    PROVE  /\ Expecting(0, s) = {}
           /\ Expecting(1, s) = {"ServerToClientHandshake", "PlayStatus"}
           /\ Expecting(1 + Extra(s), s) = {"ServerToClientHandshake", "PlayStatus"}
           /\ Expecting(2 + Extra(s), s) = {"ResourcePacksInfo"}
           /\ Expecting(3 + Extra(s), s) = {"ResourcePackStack"}
           /\ Expecting(4 + Extra(s), s) = {"StartGame"}
<1>1. CASE s
  BY <1>1 DEF Expecting, Extra
<1>2. CASE ~s
  BY <1>2 DEF Expecting, Extra
<1> QED
  BY <1>1, <1>2

LEMMA TakenIs ==
    ASSUME NEW s \in BOOLEAN
    PROVE  /\ Taken("login", s) = 0 /\ Taken("handshake", s) = 1 /\ Taken("refused", s) = 1
           /\ Taken("cache", s) = 1 + Extra(s) /\ Taken("packs", s) = 2 + Extra(s)
           /\ Taken("stack", s) = 3 + Extra(s) /\ Taken("spawn", s) = 4 + Extra(s)
           /\ \A at \in Stages : Taken(at, s) \in 0 .. 4 + Extra(s)
  BY ExtraIs DEF Taken, Stages

LEMMA CarriesIs ==
    ASSUME NEW b, NEW k, NEW s \in BOOLEAN, Carries(b, k, s)
    PROVE  /\ b.packets = <<Due(k, s)>> /\ b.encrypted = (s /\ k > 1)
           /\ s /\ k > 1 => b.counter = k - 2
  BY Zenon DEF Carries

\* The numbers of the invariant are numbers.
LEMMA NumbersAre ==
    ASSUME LoginInv
    PROVE  /\ n \in Nat /\ arrived \in Nat /\ Taken(stage, serverEncrypt) \in Nat
           /\ Len(up) \in Nat /\ Len(inbox) \in Nat
<1>1. serverEncrypt \in BOOLEAN /\ stage \in Stages
  BY DEF LoginInv, TypeInv
<1>2. Taken(stage, serverEncrypt) \in 0 .. 4 + Extra(serverEncrypt)
  BY <1>1, TakenIs
<1>3. Extra(serverEncrypt) \in {0, 1}
  BY <1>1, ExtraIs
<1>4. Taken(stage, serverEncrypt) \in Nat
  BY <1>2, <1>3
<1>5. Len(written) \in Nat /\ Len(up) \in Nat /\ Len(inbox) \in Nat
  BY DEF LoginInv, TypeInv
<1>6. arrived \in Nat
  BY <1>4, <1>5 DEF arrived
<1> QED
  BY <1>4, <1>5, <1>6 DEF n

LEMMA MoveThread ==
    ASSUME NEW t \in Threads, NEW l \in Labels, pc \in [Threads -> Labels], Goto(t, l)
    PROVE  /\ pc' \in [Threads -> Labels] /\ pc'[t] = l
           /\ \A u \in Threads \ {t} : pc'[u] = pc[u]
  BY DEF Goto

--------------------------------------------------------------------------------
(* What a step leaves alone.                                                *)

LEMMA ThreadsKept ==
    ASSUME ThreadsInv, UNCHANGED <<pc, sendMtx, bufferedSend, written>>
    PROVE  ThreadsInv'
  BY DEF ThreadsInv, InFlush, n

LEMMA WrittenKept ==
    ASSUME WrittenInv, UNCHANGED <<written, expectedIds, bufferedSend, encoded, serverEncrypt>>,
           \A t \in Threads : pc'[t] = "write" => pc[t] = "write"
    PROVE  WrittenInv'
  BY DEF WrittenInv, n

LEMMA UpKept ==
    ASSUME UpInv, UNCHANGED <<inbox, up, stage, serverEncrypt, conn, written, clientCounter,
                              encrypt, sendCounter, bufferedSend>>,
           \A t \in Threads : /\ pc'[t] = "clear" <=> pc[t] = "clear"
                              /\ pc'[t] = "write" <=> pc[t] = "write",
           pc'["listen"] = "reply" <=> pc["listen"] = "reply"
    PROVE  UpInv'
  BY DEF UpInv, n, arrived, Unwritten, Unencoded

LEMMA DownKept ==
    ASSUME DownInv, UNCHANGED <<encrypt, decrypt, down, receiveCounter, serverCounter>>
    PROVE  DownInv'
  BY DEF DownInv

LEMMA StageKept ==
    ASSUME StageInv, UNCHANGED <<stage, serverEncrypt, packets, down, encrypt, written>>,
           pc'["listen"] = "reply" => pc["listen"] = "reply"
    PROVE  StageInv'
  BY DEF StageInv, ShakeInv, Coming, n

--------------------------------------------------------------------------------
(* flush, of any thread.                                                    *)

LEMMA LockKeeps ==
    ASSUME LoginInv, NEW t \in Threads, Flush_Lock(t)
    PROVE  LoginInv'
<1>1. /\ pc' \in [Threads -> Labels] /\ \A u \in Threads \ {t} : pc'[u] = pc[u]
      /\ pc'[t] = IF bufferedSend = <<>> THEN Return(t) ELSE "encode"
      /\ pc[t] = "lock" /\ sendMtx = "none"
      /\ sendMtx' = IF bufferedSend = <<>> THEN sendMtx ELSE t
      /\ pc'[t] \in {"start", "receive", "sleep", "encode"}
  <2>1. Return(t) \in {"start", "receive", "sleep"}
    BY DEF Return, Threads
  <2> QED
    BY <2>1, MoveThread DEF LoginInv, TypeInv, Flush_Lock, Labels, Goto
<1>2. TypeInv'
  BY <1>1 DEF LoginInv, TypeInv, Flush_Lock, serverVars
<1>3. ThreadsInv'
  BY <1>1 DEF LoginInv, ThreadsInv, TypeInv, InFlush, Flush_Lock, n, Threads, Return
<1>4. WrittenInv'
  BY <1>1, WrittenKept DEF LoginInv, Flush_Lock, serverVars
<1>5. UpInv'
  BY <1>1, UpKept DEF LoginInv, Flush_Lock, serverVars, Threads
<1>6. DownInv'
  BY DownKept DEF LoginInv, Flush_Lock, serverVars
<1>7. StageInv'
  BY <1>1, StageKept DEF LoginInv, Flush_Lock, serverVars, Threads
<1> QED
  BY <1>2, <1>3, <1>4, <1>5, <1>6, <1>7 DEF LoginInv

LEMMA EncodeKeeps ==
    ASSUME LoginInv, NEW t \in Threads, Flush_Encode(t)
    PROVE  LoginInv'
<1> DEFINE batch == IF encrypt THEN Encrypted(bufferedSend) ELSE Plain(bufferedSend)
<1>1. /\ pc' \in [Threads -> Labels] /\ \A u \in Threads \ {t} : pc'[u] = pc[u]
      /\ pc'[t] = "write" /\ pc[t] = "encode" /\ sendMtx = t
      /\ encoded' = [encoded EXCEPT ![t] = batch]
      /\ sendCounter' = IF encrypt THEN sendCounter + 1 ELSE sendCounter
  BY MoveThread DEF LoginInv, TypeInv, ThreadsInv, InFlush, Flush_Encode, Labels
<1>2. bufferedSend = <<Due(n, serverEncrypt)>>
  BY <1>1 DEF LoginInv, ThreadsInv, WrittenInv, InFlush, Threads
<1>3. \A u \in Threads \ {t} : ~InFlush(u)
  BY <1>1 DEF LoginInv, ThreadsInv
<1>4. batch \in Batch /\ Carries(batch, n, serverEncrypt)
  <2>1. Unencoded
    BY <1>1, <1>2, <1>3 DEF Unencoded, Unwritten, InFlush
  <2>2. pc["listen"] = "reply" => bufferedSend = <<>>
    BY <1>1, <1>3 DEF LoginInv, ThreadsInv, InFlush, Threads
  <2>3. encrypt <=> serverEncrypt /\ n > 1
    BY <1>2, <2>2 DEF LoginInv, UpInv
  <2>4. encrypt => sendCounter = n - 2
    BY <2>1 DEF LoginInv, UpInv, WrittenInv
  <2>5. batch.packets = <<Due(n, serverEncrypt)>>
    BY <1>2 DEF Encrypted, Plain
  <2>6. batch.encrypted = encrypt /\ (encrypt => batch.counter = sendCounter)
    BY DEF Encrypted, Plain, LoginInv, TypeInv
  <2>7. encrypt \in BOOLEAN /\ serverEncrypt \in BOOLEAN
    BY DEF LoginInv, TypeInv
  <2>8. batch \in Batch
    BY DEF Encrypted, Plain, LoginInv, TypeInv, Batch
  <2> QED
    BY <2>3, <2>4, <2>5, <2>6, <2>7, <2>8 DEF Carries
<1> HIDE DEF batch
<1>5. TypeInv'
  <2>1. encoded' \in [Threads -> Batch] /\ sendCounter' \in Nat
    BY <1>1, <1>4 DEF LoginInv, TypeInv
  <2> QED
    BY <1>1, <2>1 DEF LoginInv, TypeInv, Flush_Encode, serverVars
<1>6. ThreadsInv'
  BY <1>1, <1>2 DEF LoginInv, ThreadsInv, TypeInv, InFlush, Flush_Encode, n, Threads
<1>7. WrittenInv'
  BY <1>1, <1>3, <1>4 DEF LoginInv, TypeInv, WrittenInv, InFlush, Flush_Encode, n, serverVars
<1>8. UpInv'
  <2>1. Unwritten /\ Unwritten' /\ Unencoded /\ ~Unencoded'
    BY <1>1, <1>2, <1>3 DEF Unwritten, Unencoded, InFlush, Flush_Encode
  <2>2. pc'["listen"] = "reply" <=> pc["listen"] = "reply"
    BY <1>1 DEF Threads
  <2>3. n \in Nat /\ sendCounter \in Nat
    BY DEF LoginInv, TypeInv, n
  <2> QED
    BY <1>1, <2>1, <2>2, <2>3 DEF LoginInv, UpInv, Flush_Encode, n, arrived, serverVars
<1>9. DownInv'
  BY DownKept DEF LoginInv, Flush_Encode, serverVars
<1>10. StageInv'
  BY <1>1, StageKept DEF LoginInv, Flush_Encode, serverVars, Threads
<1> QED
  BY <1>5, <1>6, <1>7, <1>8, <1>9, <1>10 DEF LoginInv

LEMMA WriteKeeps ==
    ASSUME LoginInv, NEW t \in Threads, Flush_Write(t)
    PROVE  LoginInv'
<1>1. /\ pc' \in [Threads -> Labels] /\ \A u \in Threads \ {t} : pc'[u] = pc[u]
      /\ pc'[t] = "clear" /\ pc[t] = "write" /\ sendMtx = t
      /\ encoded' = [encoded EXCEPT ![t] = NoBatch]
      /\ up' = IF conn = "connected" THEN Append(up, encoded[t]) ELSE up
  BY MoveThread DEF LoginInv, TypeInv, ThreadsInv, InFlush, Flush_Write, Labels
<1>2. \A u \in Threads \ {t} : ~InFlush(u)
  BY <1>1 DEF LoginInv, ThreadsInv
<1>3. encoded[t] \in Batch /\ Carries(encoded[t], n, serverEncrypt)
  BY <1>1 DEF LoginInv, TypeInv, WrittenInv
<1>4. TypeInv'
  <2>1. NoBatch \in Batch
    BY DEF NoBatch, Batch
  <2>2. up' \in Seq(Batch)
    BY <1>1, <1>3 DEF LoginInv, TypeInv
  <2> QED
    BY <1>1, <2>1, <2>2 DEF LoginInv, TypeInv, Flush_Write, serverVars
<1>5. ThreadsInv'
  BY <1>1 DEF LoginInv, ThreadsInv, TypeInv, InFlush, Flush_Write, n, Threads
<1>6. WrittenInv'
  BY <1>1, <1>2 DEF LoginInv, TypeInv, WrittenInv, InFlush, Flush_Write, n, serverVars
<1>7. UpInv'
  <2>1. Unwritten /\ ~Unwritten' /\ ~Unencoded /\ ~Unencoded'
    <3>1. bufferedSend # <<>> /\ bufferedSend' # <<>>
      BY <1>1 DEF LoginInv, ThreadsInv, Flush_Write, Threads
    <3> QED
      BY <1>1, <1>2, <3>1 DEF Unwritten, Unencoded, InFlush
  <2>2. pc'["listen"] = "reply" <=> pc["listen"] = "reply"
    BY <1>1 DEF Threads
  <2>3. n \in Nat /\ arrived \in Nat /\ Len(up) \in Nat /\ up \in Seq(Batch)
    BY NumbersAre DEF LoginInv, TypeInv
  <2>4. /\ \A i \in 1 .. Len(up') : Carries(up'[i], arrived + i, serverEncrypt)
        /\ arrived + Len(up') <= n
        /\ conn = "connected" => arrived + Len(up') = n
    <3>1. CASE conn = "connected"
      <4>1. arrived + Len(up) = n - 1
        BY <2>1, <3>1 DEF LoginInv, UpInv
      <4>2. /\ Len(up') = Len(up) + 1 /\ up'[Len(up) + 1] = encoded[t]
            /\ \A i \in 1 .. Len(up) : up'[i] = up[i]
        BY <1>1, <1>3, <2>3, <3>1
      <4>3. arrived + (Len(up) + 1) = n
        BY <2>3, <4>1
      <4>4. ASSUME NEW i \in 1 .. Len(up')
            PROVE  Carries(up'[i], arrived + i, serverEncrypt)
        <5>1. CASE i \in 1 .. Len(up)
          BY <4>2, <5>1 DEF LoginInv, UpInv
        <5>2. CASE i = Len(up) + 1
          <6>1. arrived + i = n /\ up'[i] = encoded[t]
            BY <4>2, <4>3, <5>2
          <6> QED
            BY <1>3, <6>1, Zenon
        <5> QED
          BY <2>3, <4>2, <5>1, <5>2
      <4> QED
        BY <2>3, <4>2, <4>3, <4>4
    <3>2. CASE conn # "connected"
      BY <1>1, <3>2 DEF LoginInv, UpInv
    <3> QED
      BY <3>1, <3>2
  <2> QED
    BY <2>1, <2>2, <2>3, <2>4 DEF LoginInv, UpInv, Flush_Write, n, arrived, serverVars
<1>8. DownInv'
  BY DownKept DEF LoginInv, Flush_Write, serverVars
<1>9. StageInv'
  BY <1>1, StageKept DEF LoginInv, Flush_Write, serverVars, Threads
<1> QED
  BY <1>4, <1>5, <1>6, <1>7, <1>8, <1>9 DEF LoginInv

LEMMA ClearKeeps ==
    ASSUME LoginInv, NEW t \in Threads, Flush_Clear(t)
    PROVE  LoginInv'
<1>1. /\ pc' \in [Threads -> Labels] /\ \A u \in Threads \ {t} : pc'[u] = pc[u]
      /\ pc'[t] = Return(t) /\ pc[t] = "clear" /\ sendMtx = t
      /\ pc'[t] \in {"start", "receive", "sleep"}
      /\ bufferedSend' = <<>> /\ sendMtx' = "none"
  <2>1. Return(t) \in {"start", "receive", "sleep"}
    BY DEF Return, Threads
  <2> QED
    BY <2>1, MoveThread DEF LoginInv, TypeInv, ThreadsInv, InFlush, Flush_Clear, Labels
<1>2. \A u \in Threads \ {t} : ~InFlush(u)
  BY <1>1 DEF LoginInv, ThreadsInv
<1>3. TypeInv'
  BY <1>1 DEF LoginInv, TypeInv, Flush_Clear, serverVars
<1>4. ThreadsInv'
  BY <1>1, <1>2 DEF LoginInv, ThreadsInv, TypeInv, InFlush, Flush_Clear, n, Threads, Return
<1>5. WrittenInv'
  BY <1>1 DEF LoginInv, TypeInv, WrittenInv, Flush_Clear, n, serverVars
<1>6. UpInv'
  <2>1. ~Unwritten /\ ~Unwritten' /\ ~Unencoded /\ ~Unencoded'
    BY <1>1 DEF Unwritten, Unencoded
  <2>2. pc'["listen"] = "reply" <=> pc["listen"] = "reply"
    BY <1>1 DEF Threads
  <2> QED
    BY <2>1, <2>2 DEF LoginInv, UpInv, Flush_Clear, n, arrived, serverVars
<1>7. DownInv'
  BY DownKept DEF LoginInv, Flush_Clear, serverVars
<1>8. StageInv'
  BY <1>1, StageKept DEF LoginInv, Flush_Clear, serverVars, Threads
<1> QED
  BY <1>3, <1>4, <1>5, <1>6, <1>7, <1>8 DEF LoginInv

--------------------------------------------------------------------------------
(* Connect and flushLoop.                                                   *)

LEMMA ConnectLoginKeeps == ASSUME LoginInv, Connect_Login PROVE LoginInv'
<1>1. /\ pc' \in [Threads -> Labels] /\ \A u \in Threads \ {"connect"} : pc'[u] = pc[u]
      /\ pc'["connect"] = "lock" /\ pc["connect"] = "handshake" /\ sendMtx = "none"
      /\ pc["listen"] = "off" /\ pc["flush"] = "off"
  BY MoveThread DEF LoginInv, TypeInv, ThreadsInv, Connect_Login, Labels, Threads, WritePacket
<1>2. n = 0 /\ bufferedSend = <<>> /\ n' = 1 /\ bufferedSend' = <<"Login">>
  <2>1. n = 0 /\ bufferedSend = <<>>
    BY <1>1 DEF LoginInv, ThreadsInv, InFlush, Threads
  <2>2. "Login" \in FromClient
    BY DEF FromClient
  <2> QED
    BY <2>1, <2>2 DEF LoginInv, TypeInv, Connect_Login, WritePacket, n
<1>3. /\ stage = "login" /\ ~serverEncrypt /\ inbox = <<>> /\ up = <<>> /\ arrived = 0
      /\ serverEncrypt' = serverEncrypt /\ stage' = stage /\ ~encrypt
  <2>1. serverEncrypt \in BOOLEAN /\ stage \in Stages /\ up \in Seq(Batch)
        /\ inbox \in Seq(FromClient) /\ arrived + Len(up) <= 0
    BY <1>2 DEF LoginInv, TypeInv, UpInv
  <2>2. Taken(stage, serverEncrypt) \in Nat
    BY <2>1, TakenIs
  <2>3. Taken(stage, serverEncrypt) = 0 /\ Len(inbox) = 0 /\ Len(up) = 0
    BY <2>1, <2>2 DEF arrived
  <2>4. stage = "login"
    BY <2>1, <2>3, TakenIs, ExtraIs DEF Stages
  <2>5. ~serverEncrypt /\ ~encrypt
    BY <2>4 DEF LoginInv, StageInv, UpInv
  <2> QED
    BY <2>1, <2>3, <2>4, <2>5 DEF Connect_Login, serverVars, arrived
<1>4. TypeInv'
  <2>1. "Login" \in FromClient
    BY DEF FromClient
  <2> QED
    BY <1>1, <2>1 DEF LoginInv, TypeInv, Connect_Login, WritePacket, serverVars
<1>5. ThreadsInv'
  BY <1>1, <1>2 DEF LoginInv, ThreadsInv, TypeInv, InFlush, Connect_Login, Threads
<1>6. WrittenInv'
  BY <1>1, <1>2, <1>3, DueIs, ExpectingOf
     DEF LoginInv, WrittenInv, TypeInv, Connect_Login, Threads, Extra
<1>7. UpInv'
  <2>1. Unwritten'
    BY <1>1, <1>2 DEF Unwritten, Threads
  <2> QED
    BY <1>1, <1>2, <1>3, <2>1 DEF LoginInv, UpInv, Connect_Login, serverVars, arrived
<1>8. DownInv'
  BY DownKept DEF LoginInv, Connect_Login, serverVars
<1>9. StageInv'
  BY <1>1, <1>2, <1>3 DEF LoginInv, StageInv, Connect_Login, serverVars, Threads
<1> QED
  BY <1>4, <1>5, <1>6, <1>7, <1>8, <1>9 DEF LoginInv

LEMMA ConnectStartKeeps == ASSUME LoginInv, Connect_Start PROVE LoginInv'
<1>1. /\ pc' \in [Threads -> Labels] /\ pc'["connect"] = "wait" /\ pc'["listen"] = "read"
      /\ pc'["flush"] = "sleep" /\ pc["connect"] = "start"
      /\ pc["listen"] = "off" /\ pc["flush"] = "off"
  BY DEF LoginInv, ThreadsInv, Connect_Start, Labels, Threads
<1>2. sendMtx = "none" /\ bufferedSend = <<>>
  BY <1>1 DEF LoginInv, TypeInv, ThreadsInv, InFlush, Threads
<1>3. TypeInv'
  BY <1>1 DEF LoginInv, TypeInv, Connect_Start, serverVars
<1>4. ThreadsInv'
  BY <1>1, <1>2 DEF LoginInv, ThreadsInv, InFlush, Connect_Start, Threads, n
<1>5. WrittenInv'
  BY <1>1, WrittenKept DEF LoginInv, Connect_Start, serverVars, Threads
<1>6. UpInv'
  BY <1>1, UpKept DEF LoginInv, Connect_Start, serverVars, Threads
<1>7. DownInv'
  BY DownKept DEF LoginInv, Connect_Start, serverVars
<1>8. StageInv'
  BY <1>1, StageKept DEF LoginInv, Connect_Start, serverVars
<1> QED
  BY <1>3, <1>4, <1>5, <1>6, <1>7, <1>8 DEF LoginInv

LEMMA FlushLoopKeeps == ASSUME LoginInv, FlushLoop PROVE LoginInv'
<1>1. /\ pc' \in [Threads -> Labels] /\ \A u \in Threads \ {"flush"} : pc'[u] = pc[u]
      /\ pc'["flush"] = "lock" /\ pc["flush"] = "sleep"
  BY MoveThread DEF LoginInv, TypeInv, FlushLoop, Labels, Threads
<1>2. TypeInv'
  BY <1>1 DEF LoginInv, TypeInv, FlushLoop, serverVars
<1>3. ThreadsInv'
  BY <1>1 DEF LoginInv, ThreadsInv, InFlush, FlushLoop, Threads, n
<1>4. WrittenInv'
  BY <1>1, WrittenKept DEF LoginInv, FlushLoop, serverVars, Threads
<1>5. UpInv'
  BY <1>1, UpKept DEF LoginInv, FlushLoop, serverVars, Threads
<1>6. DownInv'
  BY DownKept DEF LoginInv, FlushLoop, serverVars
<1>7. StageInv'
  BY <1>1, StageKept DEF LoginInv, FlushLoop, serverVars, Threads
<1> QED
  BY <1>2, <1>3, <1>4, <1>5, <1>6, <1>7 DEF LoginInv

--------------------------------------------------------------------------------
(* listenLoop.                                                              *)

\* When the listen thread does not flush, nothing is in the buffer.
LEMMA NothingToFlush ==
    ASSUME LoginInv, pc["listen"] \in {"read", "receive", "reply"}
    PROVE  /\ pc["connect"] = "wait" /\ bufferedSend = <<>> /\ sendMtx = "none"
           /\ \A t \in Threads : ~InFlush(t)
           /\ ~Unwritten /\ ~Unencoded
<1>1. pc["connect"] = "wait"
  BY DEF LoginInv, ThreadsInv
<1>2. bufferedSend = <<>>
  BY <1>1 DEF LoginInv, ThreadsInv, InFlush
<1>3. sendMtx = "none"
  BY <1>2 DEF LoginInv, ThreadsInv
<1>4. \A t \in Threads : ~InFlush(t)
  BY <1>3 DEF LoginInv, ThreadsInv, Threads
<1> QED
  BY <1>1, <1>2, <1>3, <1>4 DEF Unwritten, Unencoded

\* The listen thread moves on without a flush, and writes nothing.
LEMMA ListenMoves ==
    ASSUME LoginInv, NEW l \in {"read", "receive", "lock", "closed"},
           pc["listen"] \in {"read", "receive"}, Goto("listen", l),
           UNCHANGED <<sendMtx, bufferedSend, written, expectedIds, encoded, serverEncrypt>>
    PROVE  /\ pc' \in [Threads -> Labels] /\ ThreadsInv' /\ WrittenInv'
           /\ pc'["listen"] # "reply"
           /\ \A t \in Threads : /\ pc'[t] = "clear" <=> pc[t] = "clear"
                                 /\ pc'[t] = "write" <=> pc[t] = "write"
<1>1. /\ pc' \in [Threads -> Labels] /\ \A u \in Threads \ {"listen"} : pc'[u] = pc[u]
      /\ pc'["listen"] = l
  BY MoveThread DEF LoginInv, TypeInv, Labels, Threads
<1>2. pc["connect"] = "wait" /\ bufferedSend = <<>> /\ sendMtx = "none"
  BY NothingToFlush
<1>3. ThreadsInv'
  BY <1>1, <1>2 DEF LoginInv, ThreadsInv, InFlush, Threads, n
<1>4. WrittenInv'
  BY <1>1, WrittenKept DEF LoginInv, Threads
<1> QED
  BY <1>1, <1>3, <1>4 DEF Threads

\* The next packet is one of those the server sent, and those after it are too.
LEMMA NextPacket ==
    ASSUME LoginInv, packets # <<>>, packets' = Tail(packets)
    PROVE  /\ Head(packets) \in FromServer /\ packets' \in Seq(FromServer)
           /\ \A S : Coming(S) => Head(packets) \in S
           /\ \A S : Coming(S) => \A i \in 1 .. Len(packets') : packets'[i] \in S
<1>1. packets \in Seq(FromServer)
  BY DEF LoginInv, TypeInv
<1>2. /\ Len(packets) \in Nat \ {0} /\ Head(packets) = packets[1]
      /\ Len(packets') = Len(packets) - 1 /\ packets' \in Seq(FromServer)
      /\ \A i \in 1 .. Len(packets') : packets'[i] = packets[i + 1]
  BY <1>1
<1>3. packets[1] \in FromServer
  BY <1>1, <1>2
<1>4. \A i \in 1 .. Len(packets') : i + 1 \in 1 .. Len(packets)
  BY <1>2
<1> QED
  BY <1>2, <1>3, <1>4 DEF Coming

\* Taking a packet that is no ServerToClientHandshake.
LEMMA TakeKeepsStage ==
    ASSUME LoginInv, packets # <<>>, packets' = Tail(packets),
           Head(packets) # "ServerToClientHandshake", pc'["listen"] # "reply",
           UNCHANGED <<stage, serverEncrypt, down, encrypt, written>>
    PROVE  StageInv'
<1>1. \A S : Coming(S) => Coming(S)'
  BY NextPacket DEF Coming
<1>2. stage # "login"
  BY DEF LoginInv, StageInv
<1>3. stage # "handshake"
  <2>1. packets = Shake => Head(packets) = "ServerToClientHandshake"
    BY DEF Shake
  <2> QED
    BY <2>1 DEF LoginInv, StageInv, ShakeInv
<1> QED
  BY <1>1, <1>2, <1>3 DEF LoginInv, StageInv, n

\* Decoder::Decode: a batch that is next can be decoded.
LEMMA NextDecodes ==
    ASSUME LoginInv, down # <<>>
    PROVE  Decodes(Head(down))
<1>1. down \in Seq(Batch) /\ receiveCounter \in Nat
  BY DEF LoginInv, TypeInv
<1>2. Len(down) \in Nat \ {0} /\ Head(down) = down[1]
  BY <1>1
<1>3. 1 \in 1 .. Len(down) /\ receiveCounter + 1 - 1 = receiveCounter
  BY <1>1, <1>2
<1>4. down[1].encrypted = decrypt /\ (decrypt => down[1].counter = receiveCounter + 1 - 1)
  BY <1>3 DEF LoginInv, DownInv
<1> QED
  BY <1>2, <1>3, <1>4 DEF Decodes

LEMMA ReadKeeps == ASSUME LoginInv, ListenLoop_Read PROVE LoginInv'
<1>1. /\ pc["listen"] = "read" /\ down # <<>> /\ down' = Tail(down)
      /\ Goto("listen", "receive") /\ packets' = Head(down).packets
      /\ receiveCounter' = IF decrypt THEN receiveCounter + 1 ELSE receiveCounter
  BY NextDecodes DEF ListenLoop_Read
<1>2. /\ pc' \in [Threads -> Labels] /\ ThreadsInv' /\ WrittenInv'
      /\ pc'["listen"] # "reply"
      /\ \A t \in Threads : /\ pc'[t] = "clear" <=> pc[t] = "clear"
                            /\ pc'[t] = "write" <=> pc[t] = "write"
  BY <1>1, ListenMoves DEF ListenLoop_Read, serverVars
<1>3. /\ down \in Seq(Batch) /\ Len(down) \in Nat \ {0} /\ Head(down) = down[1]
      /\ down[1] \in Batch
      /\ down' \in Seq(Batch) /\ Len(down') = Len(down) - 1
      /\ \A i \in 1 .. Len(down') : down'[i] = down[i + 1] /\ i + 1 \in 1 .. Len(down)
      /\ receiveCounter \in Nat
  BY <1>1 DEF LoginInv, TypeInv
<1>4. \A S : Coming(S) => Coming(S)'
  BY <1>1, <1>3 DEF Coming
<1>5. StageInv'
  <2>1. stage # "login"
    BY <1>1 DEF LoginInv, StageInv
  <2>2. stage = "handshake" => ShakeInv'
    <3>1. stage = "handshake" => ~encrypt /\ Len(down) = 1 /\ down[1].packets = Shake
      BY <1>1 DEF LoginInv, StageInv, ShakeInv
    <3>2. Len(down) = 1 => down' = <<>>
      BY <1>3
    <3> QED
      BY <1>1, <1>3, <3>1, <3>2 DEF ShakeInv, ListenLoop_Read
  <2> QED
    BY <1>2, <1>4, <2>1, <2>2 DEF LoginInv, StageInv, ListenLoop_Read, serverVars, n
<1>6. packets' \in Seq(FromServer)
  <2>1. down[1].packets \in Seq(FromClient \cup FromServer)
    BY <1>3 DEF Batch
  <2>2. \A i \in 1 .. Len(packets') : packets'[i] \in FromServer
    <3>1. ASSUME NEW S \in SUBSET FromServer, Coming(S)
          PROVE  \A i \in 1 .. Len(packets') : packets'[i] \in FromServer
      BY <1>4, <3>1 DEF Coming
    <3>2. {"LoginFailed", "ForgedHandshake"} \subseteq FromServer
          /\ Later \subseteq FromServer /\ Later \ {"PlayerSpawn"} \subseteq FromServer
      BY DEF FromServer, Later
    <3>3. stage \in Stages /\ stage # "login"
      BY <1>1 DEF LoginInv, TypeInv, StageInv
    <3>4. CASE stage = "handshake"
      <4>1. packets' = Shake
        BY <1>1, <1>3, <3>4 DEF LoginInv, StageInv, ShakeInv
      <4> QED
        BY <4>1 DEF Shake, FromServer
    <3>5. CASE stage = "refused"
      BY <3>1, <3>2, <3>5 DEF LoginInv, StageInv
    <3>6. CASE stage \in {"cache", "packs", "stack"}
      BY <3>1, <3>2, <3>6 DEF LoginInv, StageInv
    <3>7. CASE stage = "spawn"
      BY <3>1, <3>2, <3>7 DEF LoginInv, StageInv
    <3> QED
      BY <3>3, <3>4, <3>5, <3>6, <3>7 DEF Stages
  <2> QED
    BY <1>1, <1>3, <2>1, <2>2
<1>7. TypeInv'
  BY <1>1, <1>2, <1>3, <1>6 DEF LoginInv, TypeInv, ListenLoop_Read, serverVars
<1>8. UpInv'
  BY <1>1, <1>2, UpKept DEF LoginInv, ListenLoop_Read, serverVars
<1>9. DownInv'
  <2>1. ASSUME NEW i \in 1 .. Len(down')
        PROVE  /\ down'[i].encrypted = decrypt
               /\ decrypt => down'[i].counter = receiveCounter' + i - 1
    <3>1. /\ down[i + 1].encrypted = decrypt
          /\ decrypt => down[i + 1].counter = receiveCounter + (i + 1) - 1
      BY <1>3 DEF LoginInv, DownInv
    <3> QED
      BY <1>1, <1>3, <3>1
  <2>2. decrypt => serverCounter = receiveCounter' + Len(down')
    BY <1>1, <1>3 DEF LoginInv, DownInv
  <2> QED
    BY <2>1, <2>2 DEF LoginInv, DownInv, ListenLoop_Read, serverVars
<1> QED
  BY <1>2, <1>5, <1>7, <1>8, <1>9 DEF LoginInv

\* The steps of listenLoop that read no batch and take no packet.
LEMMA LoopKeeps ==
    ASSUME LoginInv, ListenLoop_NotConnected \/ ListenLoop_Next
    PROVE  LoginInv'
<1>1. /\ pc["listen"] \in {"read", "receive"}
      /\ Goto("listen", "closed") \/ Goto("listen", "read")
      /\ UNCHANGED <<sendMtx, bufferedSend, encrypt, sendCounter, decrypt, receiveCounter,
                     encoded, expectedIds, deferredPackets, packets, conn,
                     written, handled, up, down, serverVars>>
  BY DEF ListenLoop_NotConnected, ListenLoop_Next
<1>2. /\ pc' \in [Threads -> Labels] /\ ThreadsInv' /\ WrittenInv'
      /\ pc'["listen"] # "reply"
      /\ \A t \in Threads : /\ pc'[t] = "clear" <=> pc[t] = "clear"
                            /\ pc'[t] = "write" <=> pc[t] = "write"
  BY <1>1, ListenMoves DEF serverVars
<1>3. TypeInv'
  BY <1>1, <1>2 DEF LoginInv, TypeInv, serverVars
<1>4. UpInv'
  BY <1>1, <1>2, UpKept DEF LoginInv, serverVars
<1>5. DownInv'
  BY <1>1, DownKept DEF LoginInv, serverVars
<1>6. StageInv'
  BY <1>1, <1>2, StageKept DEF LoginInv, serverVars
<1> QED
  BY <1>2, <1>3, <1>4, <1>5, <1>6 DEF LoginInv

\* A ServerToClientHandshake comes once, to a client that wrote its Login only.
LEMMA ShakeOnce ==
    ASSUME LoginInv, packets # <<>>, Head(packets) = "ServerToClientHandshake"
    PROVE  /\ stage = "handshake" /\ serverEncrypt /\ ~encrypt /\ n = 1
           /\ packets = Shake /\ down = <<>>
<1>1. /\ packets \in Seq(FromServer) /\ stage \in Stages /\ serverEncrypt \in BOOLEAN
      /\ n \in Nat /\ Len(inbox) \in Nat /\ Len(up) \in Nat
  BY DEF LoginInv, TypeInv, n
<1>2. Len(packets) \in Nat \ {0} /\ packets[1] = "ServerToClientHandshake"
  BY <1>1
<1>3. ASSUME NEW S, Coming(S) PROVE "ServerToClientHandshake" \in S
  BY <1>2, <1>3 DEF Coming
<1>4. stage = "handshake"
  <2>1. stage # "login"
    BY DEF LoginInv, StageInv
  <2>2. stage # "refused"
    BY <1>3 DEF LoginInv, StageInv
  <2>3. stage \notin {"cache", "packs", "stack", "spawn"}
    BY <1>3 DEF LoginInv, StageInv, Later
  <2> QED
    BY <1>1, <2>1, <2>2, <2>3 DEF Stages
<1>5. serverEncrypt /\ ~encrypt /\ packets = Shake /\ down = <<>>
  BY <1>4 DEF LoginInv, StageInv, ShakeInv
<1>6. n = 1
  <2>1. n <= 1
    BY <1>1, <1>5 DEF LoginInv, UpInv
  <2>2. arrived = 1 + Len(inbox)
    BY <1>4, <1>5, TakenIs DEF arrived
  <2>3. arrived + Len(up) <= n
    BY DEF LoginInv, UpInv
  <2> QED
    BY <1>1, <2>1, <2>2, <2>3
<1> QED
  BY <1>4, <1>5, <1>6

\* The steps that take a packet and write none.
LEMMA TakeKeeps ==
    ASSUME LoginInv, NEW l \in {"receive", "lock", "closed"},
           pc["listen"] = "receive", Goto("listen", l),
           packets # <<>>, packets' = Tail(packets),
           Head(packets) # "ServerToClientHandshake",
           conn' \in {conn, "stopped"},
           UNCHANGED <<sendMtx, bufferedSend, encrypt, sendCounter, decrypt, receiveCounter,
                       encoded, expectedIds, written, up, down, serverVars>>
    PROVE  LoginInv'
<1>1. /\ pc' \in [Threads -> Labels] /\ ThreadsInv' /\ WrittenInv'
      /\ pc'["listen"] # "reply"
      /\ \A t \in Threads : /\ pc'[t] = "clear" <=> pc[t] = "clear"
                            /\ pc'[t] = "write" <=> pc[t] = "write"
  BY ListenMoves DEF serverVars
<1>2. TypeInv'
  BY <1>1, NextPacket DEF LoginInv, TypeInv, serverVars
<1>3. UpInv'
  <2>1. (Unwritten' <=> Unwritten) /\ (Unencoded' <=> Unencoded)
    BY <1>1 DEF Unwritten, Unencoded
  <2>2. conn' = "connected" => conn = "connected"
    OBVIOUS
  <2> QED
    BY <1>1, <2>1, <2>2 DEF LoginInv, UpInv, n, arrived, serverVars
<1>4. DownInv'
  BY DownKept DEF LoginInv, serverVars
<1>5. StageInv'
  BY <1>1, TakeKeepsStage DEF serverVars
<1> QED
  BY <1>1, <1>2, <1>3, <1>4, <1>5 DEF LoginInv

LEMMA TakingKeeps ==
    ASSUME LoginInv,
           HandleDisconnect \/ DeferPacket \/ RefuseHandshake \/ HandleLoginFailed
              \/ HandleStartGame
    PROVE  LoginInv'
<1>1. UNCHANGED pc /\ pc["listen"] = "receive" => Goto("listen", "receive")
  BY DEF LoginInv, TypeInv, Goto, Threads
<1>2. CASE HandleDisconnect
  BY <1>1, <1>2, TakeKeeps DEF HandleDisconnect, Receives
<1>3. CASE DeferPacket
  <2>1. Head(packets) # "ServerToClientHandshake"
    <3>1. ASSUME Head(packets) = "ServerToClientHandshake"
          PROVE  FALSE
      <4>1. n = 1 /\ serverEncrypt
        BY <1>3, <3>1, ShakeOnce DEF DeferPacket, Receives
      <4>2. expectedIds = {"ServerToClientHandshake", "PlayStatus"}
        BY <4>1, ExpectingOf DEF LoginInv, TypeInv, WrittenInv
      <4> QED
        BY <1>3, <3>1, <4>2 DEF DeferPacket, IsExpected, Id
    <3> QED
      BY <3>1
  <2> QED
    BY <1>1, <1>3, <2>1, TakeKeeps DEF DeferPacket, Receives
<1>4. CASE RefuseHandshake
  BY <1>4, TakeKeeps DEF RefuseHandshake, Handles, Receives
<1>5. CASE HandleLoginFailed
  BY <1>5, TakeKeeps DEF HandleLoginFailed, Handles, Receives
<1>6. CASE HandleStartGame
  BY <1>6, TakeKeeps DEF HandleStartGame, Handles, Receives
<1> QED
  BY <1>2, <1>3, <1>4, <1>5, <1>6

\* Encryption is switched on with nothing on the way, up or down.
LEMMA HandshakeKeeps == ASSUME LoginInv, HandleServerToClientHandshake PROVE LoginInv'
<1>1. /\ stage = "handshake" /\ serverEncrypt /\ ~encrypt /\ n = 1
      /\ packets = Shake /\ down = <<>> /\ pc["listen"] = "receive"
      /\ packets' = Tail(packets)
  BY ShakeOnce DEF HandleServerToClientHandshake, Handles, Receives
<1>2. /\ encrypt' = TRUE /\ sendCounter' = 0 /\ decrypt' = TRUE /\ receiveCounter' = 0
  BY DEF HandleServerToClientHandshake, EnableEncryption
<1>3. packets' = <<>>
  BY <1>1 DEF Shake
<1>4. /\ pc' \in [Threads -> Labels] /\ \A u \in Threads \ {"listen"} : pc'[u] = pc[u]
      /\ pc'["listen"] = "reply"
  BY MoveThread DEF LoginInv, TypeInv, HandleServerToClientHandshake, Labels, Threads
<1>5. /\ pc["connect"] = "wait" /\ bufferedSend = <<>> /\ sendMtx = "none"
      /\ ~Unwritten /\ ~Unencoded
  BY <1>1, NothingToFlush
<1>6. UNCHANGED <<sendMtx, bufferedSend, encoded, expectedIds, deferredPackets, conn,
                  written, up, down, serverVars>>
  BY DEF HandleServerToClientHandshake
<1>7. TypeInv'
  BY <1>2, <1>3, <1>4, <1>6 DEF LoginInv, TypeInv, serverVars
<1>8. ThreadsInv'
  BY <1>1, <1>4, <1>5, <1>6 DEF LoginInv, ThreadsInv, InFlush, Threads, n
<1>9. WrittenInv'
  BY <1>4, <1>6, WrittenKept DEF LoginInv, serverVars, Threads
<1>10. UpInv'
  <2>1. ~Unwritten' /\ ~Unencoded'
    BY <1>5, <1>6 DEF Unwritten, Unencoded
  <2>2. n' = n /\ arrived' = arrived
    BY <1>6 DEF n, arrived, serverVars
  <2>3. encrypt' <=> serverEncrypt' /\ (n' > 1 \/ pc'["listen"] = "reply")
    BY <1>1, <1>2, <1>4, <1>6 DEF serverVars
  <2>4. sendCounter' = n' - 1 - (IF Unencoded' THEN 1 ELSE 0)
    <3>1. (IF Unencoded' THEN 1 ELSE 0) = 0
      BY <2>1, Zenon
    <3>2. n' = 1 /\ sendCounter' = 0
      BY <1>1, <1>2, <2>2
    <3>3. 0 = 1 - 1 - 0
      OBVIOUS
    <3> QED
      BY <3>1, <3>2, <3>3, Zenon
  <2>5. conn = "connected" => arrived + Len(up) = n - (IF Unwritten' THEN 1 ELSE 0)
    BY <1>5, <2>1 DEF LoginInv, UpInv
  <2> QED
    BY <1>6, <2>2, <2>3, <2>4, <2>5 DEF LoginInv, UpInv, serverVars
<1>11. DownInv'
  BY <1>1, <1>2, <1>6 DEF LoginInv, DownInv, serverVars
<1>12. StageInv'
  BY <1>1, <1>2, <1>3, <1>4, <1>6 DEF LoginInv, StageInv, ShakeInv, serverVars, n
<1> QED
  BY <1>7, <1>8, <1>9, <1>10, <1>11, <1>12 DEF LoginInv

\* The client writes its next packet: the listen thread goes on to flush it.
LEMMA WritingKeeps ==
    ASSUME LoginInv, pc["listen"] \in {"receive", "reply"}, Goto("listen", "lock"),
           n < 4 + Extra(serverEncrypt), n > 0,
           WritePacket(Due(n + 1, serverEncrypt)),
           expectedIds' = Expecting(n + 1, serverEncrypt),
           encrypt <=> serverEncrypt,
           UNCHANGED <<sendMtx, encrypt, sendCounter, decrypt, receiveCounter, encoded,
                       conn, up, down, serverVars>>
    PROVE  /\ pc' \in [Threads -> Labels] /\ n' = n + 1
           /\ bufferedSend' \in Seq(FromClient) /\ written' \in Seq(FromClient)
           /\ ThreadsInv' /\ WrittenInv' /\ UpInv' /\ DownInv'
<1>1. /\ pc' \in [Threads -> Labels] /\ \A u \in Threads \ {"listen"} : pc'[u] = pc[u]
      /\ pc'["listen"] = "lock"
  BY MoveThread DEF LoginInv, TypeInv, Labels, Threads
<1>2. /\ pc["connect"] = "wait" /\ bufferedSend = <<>> /\ sendMtx = "none"
      /\ ~Unwritten /\ ~Unencoded /\ \A t \in Threads : ~InFlush(t)
  BY NothingToFlush
<1>3. n \in Nat /\ serverEncrypt \in BOOLEAN /\ Extra(serverEncrypt) \in {0, 1}
  BY ExtraIs DEF LoginInv, TypeInv, n
<1>4. Due(n + 1, serverEncrypt) \in FromClient
  BY <1>3, DueIs
<1>5. /\ n' = n + 1 /\ written' \in Seq(FromClient)
      /\ bufferedSend' = <<Due(n + 1, serverEncrypt)>> /\ bufferedSend' \in Seq(FromClient)
      /\ bufferedSend' # <<>>
  BY <1>2, <1>4 DEF LoginInv, TypeInv, WritePacket, n
<1>6. \A t \in Threads : pc'[t] # "clear" /\ pc'[t] # "write" /\ ~InFlush(t)'
  BY <1>1, <1>2 DEF InFlush
<1>7. ThreadsInv'
  BY <1>1, <1>2, <1>3, <1>5, <1>6 DEF LoginInv, ThreadsInv, Threads
<1>8. WrittenInv'
  BY <1>3, <1>5, <1>6 DEF LoginInv, WrittenInv, serverVars
<1>9. UpInv'
  <2>1. Unwritten' /\ Unencoded'
    BY <1>5, <1>6 DEF Unwritten, Unencoded
  <2>2. arrived \in Int /\ Len(up) \in Nat /\ arrived + Len(up) <= n
        /\ (conn = "connected" => arrived + Len(up) = n)
    BY <1>2, <1>3, NumbersAre DEF LoginInv, UpInv
  <2>3. encrypt => sendCounter = n' - 2
    BY <1>2, <1>3, <1>5 DEF LoginInv, UpInv
  <2> QED
    BY <1>1, <1>3, <1>5, <2>1, <2>2, <2>3 DEF LoginInv, UpInv, arrived, serverVars
<1>10. DownInv'
  BY DownKept DEF LoginInv, serverVars
<1> QED
  BY <1>1, <1>5, <1>7, <1>8, <1>9, <1>10

LEMMA ReplyKeeps == ASSUME LoginInv, ReplyToHandshake PROVE LoginInv'
<1>1. /\ pc["listen"] = "reply" /\ stage = "handshake" /\ n = 1 /\ serverEncrypt /\ encrypt
      /\ Extra(serverEncrypt) = 1 /\ packets = <<>> /\ down = <<>>
  BY ExtraIs DEF LoginInv, StageInv, UpInv, ShakeInv, ReplyToHandshake
<1>2. /\ Due(n + 1, serverEncrypt) = "ClientToServerHandshake"
      /\ expectedIds = Expecting(n + 1, serverEncrypt)
  <2>1. serverEncrypt \in BOOLEAN /\ n + 1 = 2 /\ 1 + Extra(serverEncrypt) = 2
    <3>1. n = 1 /\ Extra(serverEncrypt) = 1
      BY <1>1
    <3> QED
      BY <3>1 DEF LoginInv, TypeInv
  <2>2. expectedIds = Expecting(1, serverEncrypt)
    BY <1>1 DEF LoginInv, WrittenInv
  <2>3. Expecting(2, serverEncrypt) = Expecting(1, serverEncrypt)
    BY <2>1, ExpectingOf
  <2> QED
    BY <1>1, <2>1, <2>2, <2>3, DueIs
<1>3. /\ pc' \in [Threads -> Labels] /\ n' = n + 1
      /\ bufferedSend' \in Seq(FromClient) /\ written' \in Seq(FromClient)
      /\ ThreadsInv' /\ WrittenInv' /\ UpInv' /\ DownInv'
  <2>1. n < 4 + Extra(serverEncrypt) /\ n > 0 /\ (encrypt <=> serverEncrypt)
    <3>1. n = 1 /\ Extra(serverEncrypt) = 1
      BY <1>1
    <3>2. encrypt <=> serverEncrypt
      BY <1>1
    <3>3. n < 4 + Extra(serverEncrypt) /\ n > 0
      BY <3>1
    <3> QED
      BY <3>2, <3>3
  <2>2. /\ Goto("listen", "lock") /\ WritePacket(Due(n + 1, serverEncrypt))
        /\ expectedIds' = Expecting(n + 1, serverEncrypt)
        /\ UNCHANGED <<sendMtx, encrypt, sendCounter, decrypt, receiveCounter, encoded,
                       conn, up, down, serverVars>>
    BY <1>2 DEF ReplyToHandshake
  <2> QED
    BY <1>1, <2>1, <2>2, WritingKeeps
<1>4. TypeInv'
  BY <1>3 DEF LoginInv, TypeInv, ReplyToHandshake, serverVars
<1>5. StageInv'
  <2>1. pc'["listen"] = "lock"
    BY DEF LoginInv, TypeInv, ReplyToHandshake, Goto, Threads
  <2> QED
    BY <1>1, <1>3, <2>1 DEF LoginInv, StageInv, ShakeInv, ReplyToHandshake, serverVars
<1> QED
  BY <1>3, <1>4, <1>5 DEF LoginInv

LEMMA AnswerKeeps == ASSUME LoginInv, HandleAndAnswer PROVE LoginInv'
<1> DEFINE p == Head(packets)
<1>1. /\ pc["listen"] = "receive" /\ packets # <<>> /\ packets' = Tail(packets)
      /\ p \in {"LoginSuccess", "PlayerSpawn", "ResourcePacksInfo", "ResourcePackStack"}
      /\ Id(p) \in expectedIds
      /\ WritePacket(Answer(p)) /\ expectedIds' = ExpectedAfter(p) /\ Goto("listen", "lock")
      /\ UNCHANGED <<sendMtx, encrypt, sendCounter, decrypt, receiveCounter, encoded,
                     deferredPackets, conn, up, down, serverVars>>
  BY DEF HandleAndAnswer, Handles, Receives, IsExpected
<1> HIDE DEF p
<1>2. /\ serverEncrypt \in BOOLEAN /\ Extra(serverEncrypt) \in {0, 1} /\ stage \in Stages
      /\ n \in 0 .. 4 + Extra(serverEncrypt) /\ expectedIds = Expecting(n, serverEncrypt)
      /\ Len(inbox) \in Nat /\ Len(up) \in Nat
  BY ExtraIs DEF LoginInv, TypeInv, WrittenInv
<1>3. \A S : Coming(S) => p \in S
  BY <1>1, NextPacket DEF p
<1>4. stage \in {"cache", "packs", "stack", "spawn"} /\ (p = "PlayerSpawn" => stage = "spawn")
  <2>1. stage # "login"
    BY <1>1 DEF LoginInv, StageInv
  <2>2. stage # "refused"
    BY <1>1, <1>3 DEF LoginInv, StageInv
  <2>3. stage # "handshake"
    BY <1>1 DEF LoginInv, StageInv, ShakeInv, Shake, p
  <2>4. p = "PlayerSpawn" => stage \notin {"cache", "packs", "stack"}
    BY <1>3 DEF LoginInv, StageInv
  <2> QED
    BY <1>2, <2>1, <2>2, <2>3, <2>4 DEF Stages
<1>5. Taken(stage, serverEncrypt) \in Nat /\ Taken(stage, serverEncrypt) <= n
  <2>1. Taken(stage, serverEncrypt) \in Nat
    BY <1>2, TakenIs
  <2> QED
    BY <1>2, <2>1 DEF LoginInv, UpInv, arrived
<1>6. /\ 1 + Extra(serverEncrypt) <= n
      /\ stage = "spawn" => 4 + Extra(serverEncrypt) <= n
  BY <1>2, <1>4, <1>5, TakenIs
<1>7. /\ n < 4 + Extra(serverEncrypt)
      /\ Answer(p) = Due(n + 1, serverEncrypt)
      /\ ExpectedAfter(p) = Expecting(n + 1, serverEncrypt)
  <2>1. CASE p = "LoginSuccess"
    <3>1. "PlayStatus" \in Expecting(n, serverEncrypt)
      BY <1>1, <1>2, <2>1 DEF Id
    <3>2. n = 1 + Extra(serverEncrypt)
      BY <1>2, <1>6, <3>1, ExpectingIs
    <3>3. n + 1 = 2 + Extra(serverEncrypt)
      BY <1>2, <3>2
    <3>4. Answer(p) = "ClientCacheStatus" /\ ExpectedAfter(p) = {"ResourcePacksInfo"}
      BY <2>1 DEF Answer, ExpectedAfter
    <3> QED
      BY <1>2, <3>2, <3>3, <3>4, DueIs, ExpectingOf
  <2>2. CASE p = "PlayerSpawn"
    <3>1. "PlayStatus" \in Expecting(n, serverEncrypt)
      BY <1>1, <1>2, <2>2 DEF Id
    <3>2. n <= 1 + Extra(serverEncrypt)
      BY <1>2, <3>1, ExpectingIs
    <3> QED
      BY <1>2, <1>4, <1>6, <2>2, <3>2
  <2>3. CASE p = "ResourcePacksInfo"
    <3>1. "ResourcePacksInfo" \in Expecting(n, serverEncrypt)
      BY <1>1, <1>2, <2>3 DEF Id
    <3>2. n = 2 + Extra(serverEncrypt)
      BY <1>2, <3>1, ExpectingIs
    <3>3. n + 1 = 3 + Extra(serverEncrypt)
      BY <1>2, <3>2
    <3>4. Answer(p) = "AllPacksDownloaded" /\ ExpectedAfter(p) = {"ResourcePackStack"}
      BY <2>3 DEF Answer, ExpectedAfter
    <3> QED
      BY <1>2, <3>2, <3>3, <3>4, DueIs, ExpectingOf
  <2>4. CASE p = "ResourcePackStack"
    <3>1. "ResourcePackStack" \in Expecting(n, serverEncrypt)
      BY <1>1, <1>2, <2>4 DEF Id
    <3>2. n = 3 + Extra(serverEncrypt)
      BY <1>2, <3>1, ExpectingIs
    <3>3. n + 1 = 4 + Extra(serverEncrypt)
      BY <1>2, <3>2
    <3>4. Answer(p) = "Completed" /\ ExpectedAfter(p) = {"StartGame"}
      BY <2>4 DEF Answer, ExpectedAfter
    <3> QED
      BY <1>2, <3>2, <3>3, <3>4, DueIs, ExpectingOf
  <2> QED
    BY <1>1, <2>1, <2>2, <2>3, <2>4
<1>8. encrypt <=> serverEncrypt
  <2>1. ASSUME serverEncrypt PROVE n > 1
    <3>1. Extra(serverEncrypt) = 1
      BY <1>2, <2>1, ExtraIs
    <3> QED
      BY <1>2, <1>6, <3>1
  <2> QED
    BY <2>1 DEF LoginInv, UpInv
<1>9. /\ pc' \in [Threads -> Labels] /\ n' = n + 1
      /\ bufferedSend' \in Seq(FromClient) /\ written' \in Seq(FromClient)
      /\ ThreadsInv' /\ WrittenInv' /\ UpInv' /\ DownInv'
  <2>1. n > 0
    BY <1>2, <1>6
  <2> QED
    BY <1>1, <1>7, <1>8, <2>1, WritingKeeps
<1>10. TypeInv'
  BY <1>1, <1>9, NextPacket DEF LoginInv, TypeInv, serverVars
<1>11. StageInv'
  <2>1. pc'["listen"] = "lock"
    BY <1>1 DEF LoginInv, TypeInv, Goto, Threads
  <2>2. \A S : Coming(S) => Coming(S)'
    BY <1>1, NextPacket DEF Coming
  <2> QED
    BY <1>1, <1>4, <2>1, <2>2 DEF LoginInv, StageInv, serverVars
<1> QED
  BY <1>9, <1>10, <1>11 DEF LoginInv

--------------------------------------------------------------------------------
(* The server.                                                              *)

LEMMA ServerTakeKeeps == ASSUME LoginInv, ServerTake PROVE LoginInv'
<1> DEFINE k == Taken(stage, serverEncrypt)
<1>1. /\ serverEncrypt \in BOOLEAN /\ stage \in Stages /\ k \in Nat
      /\ inbox = <<>> /\ up # <<>> /\ up \in Seq(Batch) /\ arrived = k /\ n \in Nat
  <2>1. inbox = <<>> /\ up # <<>>
    BY DEF ServerTake
  <2>2. k \in Nat /\ n \in Nat
    BY NumbersAre
  <2>3. arrived = k
    BY <2>1, <2>2 DEF arrived
  <2> QED
    BY <2>1, <2>2, <2>3 DEF LoginInv, TypeInv
<1>2. /\ Len(up) \in Nat \ {0} /\ Head(up) = up[1] /\ up[1] \in Batch
      /\ up' = Tail(up) /\ up' \in Seq(Batch) /\ Len(up') = Len(up) - 1
      /\ \A i \in 1 .. Len(up') : up'[i] = up[i + 1] /\ i + 1 \in 1 .. Len(up)
  BY <1>1 DEF ServerTake
<1> HIDE DEF k
<1>3. Carries(up[1], k + 1, serverEncrypt) /\ k + 1 <= n
  BY <1>1, <1>2 DEF LoginInv, UpInv
<1>4. /\ up[1].encrypted = serverEncrypt
      /\ serverEncrypt => up[1].counter = clientCounter
      /\ up[1].packets = <<Due(k + 1, serverEncrypt)>>
  <2>1. ASSUME serverEncrypt PROVE k > 0
    <3>1. stage # "login"
      BY <2>1 DEF LoginInv, StageInv
    <3>2. Extra(serverEncrypt) \in {0, 1}
      BY <1>1, ExtraIs
    <3> QED
      BY <1>1, <3>1, <3>2, TakenIs DEF k, Stages
  <2>2. serverEncrypt => clientCounter = k - 1
    BY <1>1 DEF LoginInv, UpInv
  <2>3. k > 0 => k + 1 > 1
    BY <1>1
  <2>4. up[1].encrypted = (serverEncrypt /\ k + 1 > 1)
    BY <1>3 DEF Carries
  <2>5. up[1].encrypted = serverEncrypt
    BY <1>1, <2>1, <2>3, <2>4
  <2>6. ASSUME serverEncrypt PROVE up[1].counter = (k + 1) - 2
    <3>1. k + 1 > 1
      BY <2>1, <2>3, <2>6
    <3> QED
      BY <1>1, <1>3, <2>6, <3>1, CarriesIs, Zenon
  <2>7. (k + 1) - 2 = k - 1
    BY <1>1
  <2> QED
    BY <1>3, <2>2, <2>5, <2>6, <2>7 DEF Carries
<1>5. /\ inbox' = <<Due(k + 1, serverEncrypt)>> /\ stage' = stage
      /\ clientCounter' = IF serverEncrypt THEN clientCounter + 1 ELSE clientCounter
      /\ UNCHANGED <<clientVars, down, serverEncrypt, serverCounter, sent, noise>>
  BY <1>2, <1>4 DEF ServerTake
<1>6. TypeInv'
  <2>1. Due(k + 1, serverEncrypt) \in FromClient
    <3>1. Extra(serverEncrypt) \in {0, 1} /\ n <= 4 + Extra(serverEncrypt)
      BY <1>1, ExtraIs DEF LoginInv, WrittenInv
    <3>2. k + 1 \in 1 .. 4 + Extra(serverEncrypt)
      BY <1>1, <1>3, <3>1
    <3> QED
      BY <1>1, <3>2, DueIs
  <2> QED
    BY <1>2, <1>5, <2>1 DEF LoginInv, TypeInv, clientVars
<1>7. ThreadsInv' /\ WrittenInv'
  BY <1>5, ThreadsKept, WrittenKept DEF LoginInv, clientVars
<1>8. UpInv'
  <2>1. arrived' = k + 1 /\ n' = n /\ (Unwritten' <=> Unwritten) /\ (Unencoded' <=> Unencoded)
    BY <1>1, <1>5 DEF arrived, n, Unwritten, Unencoded, clientVars, k
  <2>2. \A i \in 1 .. Len(up') : Carries(up'[i], k + 1 + i, serverEncrypt)
    <3>1. ASSUME NEW i \in 1 .. Len(up')
          PROVE  Carries(up'[i], k + 1 + i, serverEncrypt)
      <4>1. Carries(up[i + 1], k + (i + 1), serverEncrypt)
        BY <1>1, <1>2 DEF LoginInv, UpInv
      <4>2. k + (i + 1) = k + 1 + i
        BY <1>1, <1>2
      <4> QED
        BY <1>2, <4>1, <4>2
    <3> QED
      BY <3>1
  <2>3. k + 1 + Len(up') = arrived + Len(up)
    BY <1>1, <1>2
  <2>4. clientCounter' = IF serverEncrypt THEN (k + 1) - 1 ELSE 0
    BY <1>1, <1>5 DEF LoginInv, UpInv
  <2>5. inbox' = <<Due(Taken(stage', serverEncrypt') + 1, serverEncrypt')>>
    BY <1>5 DEF k
  <2>6. UNCHANGED <<serverEncrypt, stage, conn, encrypt, sendCounter, pc>>
    BY <1>5 DEF clientVars
  <2>7. /\ arrived' + Len(up') <= n'
        /\ conn' = "connected" => arrived' + Len(up') = n' - (IF Unwritten' THEN 1 ELSE 0)
    BY <2>1, <2>3, <2>6 DEF LoginInv, UpInv
  <2>8. /\ encrypt' <=> serverEncrypt' /\ (n' > 1 \/ pc'["listen"] = "reply")
        /\ encrypt' => sendCounter' = n' - 1 - (IF Unencoded' THEN 1 ELSE 0)
    BY <2>1, <2>6 DEF LoginInv, UpInv
  <2>9. /\ \A i \in 1 .. Len(up') : Carries(up'[i], arrived' + i, serverEncrypt')
        /\ clientCounter' = IF serverEncrypt' THEN arrived' - 1 ELSE 0
    <3>1. arrived' = k + 1 /\ serverEncrypt' = serverEncrypt
      BY <2>1, <2>6
    <3>2. \A i \in 1 .. Len(up') : Carries(up'[i], arrived' + i, serverEncrypt')
      BY <2>2, <3>1
    <3>3. clientCounter' = IF serverEncrypt' THEN arrived' - 1 ELSE 0
      <4>1. CASE serverEncrypt
        BY <2>4, <3>1, <4>1, Zenon
      <4>2. CASE ~serverEncrypt
        BY <2>4, <3>1, <4>2, Zenon
      <4> QED
        BY <4>1, <4>2
    <3> QED
      BY <3>2, <3>3
  <2> QED
    BY <2>5, <2>7, <2>8, <2>9 DEF UpInv
<1>9. DownInv'
  BY <1>5, DownKept DEF LoginInv, clientVars
<1>10. StageInv'
  BY <1>5, StageKept DEF LoginInv, clientVars
<1> QED
  BY <1>6, <1>7, <1>8, <1>9, <1>10 DEF LoginInv

\* What the server sends is decoded in its turn.
LEMMA SendsKeep ==
    ASSUME LoginInv, NEW B \in Seq(Seq(FromServer)), ServerSends(B), decrypt = serverEncrypt,
           UNCHANGED <<encrypt, decrypt, receiveCounter, packets>>
    PROVE  /\ down' \in Seq(Batch) /\ serverCounter' \in Nat /\ DownInv'
           /\ \A S : Coming(S) /\ B \in Seq(Seq(S)) => Coming(S)'
<1> DEFINE more == [i \in 1 .. Len(B) |->
                       [packets |-> B[i], encrypted |-> serverEncrypt,
                        counter |-> IF serverEncrypt THEN serverCounter + i - 1 ELSE 0]]
<1>1. /\ down \in Seq(Batch) /\ Len(down) \in Nat /\ Len(B) \in Nat
      /\ serverCounter \in Nat /\ receiveCounter \in Nat /\ serverEncrypt \in BOOLEAN
      /\ \A i \in 1 .. Len(B) : B[i] \in Seq(FromServer)
  BY DEF LoginInv, TypeInv
<1>2. \A i \in 1 .. Len(B) : more[i] \in Batch
  BY <1>1 DEF Batch
<1>3. more \in Seq(Batch) /\ Len(more) = Len(B)
  BY <1>1, <1>2
<1>4. \A i \in 1 .. Len(B) :
         /\ more[i].packets = B[i] /\ more[i].encrypted = decrypt
         /\ decrypt => more[i].counter = serverCounter + i - 1
  OBVIOUS
<1>5. down' = down \o more
  BY DEF ServerSends
<1> HIDE DEF more
<1>6. /\ down' \in Seq(Batch) /\ Len(down') = Len(down) + Len(B)
      /\ \A i \in 1 .. Len(down) : down'[i] = down[i]
      /\ \A i \in 1 .. Len(down') :
            i > Len(down) => down'[i] = more[i - Len(down)] /\ i - Len(down) \in 1 .. Len(B)
  <2>1. down' \in Seq(Batch) /\ Len(down') = Len(down) + Len(B)
    BY <1>1, <1>3, <1>5
  <2>2. \A i \in 1 .. Len(down) : down'[i] = down[i]
    BY <1>1, <1>3, <1>5
  <2>3. ASSUME NEW i \in 1 .. Len(down'), i > Len(down)
        PROVE  down'[i] = more[i - Len(down)] /\ i - Len(down) \in 1 .. Len(B)
    <3>1. i \in 1 .. Len(down) + Len(B)
      BY <2>1
    <3>2. down'[i] = more[i - Len(down)]
      BY <1>1, <1>3, <1>5, <2>3, <3>1
    <3>3. i - Len(down) \in 1 .. Len(B)
      BY <1>1, <2>3, <3>1
    <3> QED
      BY <3>2, <3>3
  <2> QED
    BY <2>1, <2>2, <2>3
<1>7. serverCounter' = IF decrypt THEN serverCounter + Len(B) ELSE serverCounter
  BY DEF ServerSends
<1>8. serverCounter' \in Nat
  BY <1>1, <1>7
<1>9. DownInv'
  <2>1. \A i \in 1 .. Len(down') : down'[i].encrypted = decrypt
    <3>1. ASSUME NEW i \in 1 .. Len(down') PROVE down'[i].encrypted = decrypt
      <4>1. CASE i <= Len(down)
        <5>1. i \in 1 .. Len(down) /\ down'[i] = down[i]
          BY <1>1, <1>6, <4>1
        <5> QED
          BY <5>1 DEF LoginInv, DownInv
      <4>2. CASE i > Len(down)
        <5>1. i - Len(down) \in 1 .. Len(B) /\ down'[i] = more[i - Len(down)]
          BY <1>6, <4>2
        <5> QED
          BY <1>4, <5>1
      <4> QED
        BY <1>1, <1>6, <4>1, <4>2
    <3> QED
      BY <3>1
  <2>2. ASSUME decrypt
        PROVE  /\ \A i \in 1 .. Len(down') : down'[i].counter = receiveCounter + i - 1
               /\ serverCounter' = receiveCounter + Len(down')
    <3>1. serverCounter = receiveCounter + Len(down)
      BY <2>2 DEF LoginInv, DownInv
    <3>2. ASSUME NEW i \in 1 .. Len(down')
          PROVE  down'[i].counter = receiveCounter + i - 1
      <4>1. CASE i <= Len(down)
        <5>1. i \in 1 .. Len(down) /\ down'[i] = down[i]
          BY <1>1, <1>6, <4>1
        <5> QED
          BY <2>2, <5>1 DEF LoginInv, DownInv
      <4>2. CASE i > Len(down)
        <5>1. i - Len(down) \in 1 .. Len(B) /\ down'[i] = more[i - Len(down)]
          BY <1>6, <4>2
        <5>2. more[i - Len(down)].counter = serverCounter + (i - Len(down)) - 1
          BY <1>4, <2>2, <5>1
        <5> QED
          BY <1>1, <3>1, <5>1, <5>2
      <4> QED
        BY <1>1, <1>6, <4>1, <4>2
    <3>3. serverCounter' = serverCounter + Len(B)
      BY <1>7, <2>2
    <3> QED
      BY <1>1, <1>6, <3>1, <3>2, <3>3
  <2>3. ASSUME ~decrypt PROVE serverCounter' = 0
    BY <1>7, <2>3 DEF LoginInv, DownInv
  <2>4. decrypt' = encrypt' /\ decrypt' = decrypt /\ receiveCounter' = receiveCounter
    BY DEF LoginInv, DownInv
  <2> QED
    BY <2>1, <2>2, <2>3, <2>4 DEF DownInv
<1>10. ASSUME NEW S, Coming(S), B \in Seq(Seq(S))
       PROVE  Coming(S)'
  <2>1. ASSUME NEW j \in 1 .. Len(down')
        PROVE  \A i \in 1 .. Len(down'[j].packets) : down'[j].packets[i] \in S
    <3>1. CASE j <= Len(down)
      <4>1. j \in 1 .. Len(down) /\ down'[j] = down[j]
        BY <1>1, <1>6, <3>1
      <4> QED
        BY <1>10, <4>1 DEF Coming
    <3>2. CASE j > Len(down)
      <4>1. j - Len(down) \in 1 .. Len(B) /\ down'[j].packets = B[j - Len(down)]
        <5>1. j - Len(down) \in 1 .. Len(B) /\ down'[j] = more[j - Len(down)]
          BY <1>6, <3>2
        <5> QED
          BY <1>4, <5>1
      <4>2. B[j - Len(down)] \in Seq(S)
        BY <1>10, <4>1
      <4> QED
        BY <4>1, <4>2
    <3> QED
      BY <1>1, <1>6, <3>1, <3>2
  <2> QED
    BY <1>10, <2>1 DEF Coming
<1> QED
  BY <1>6, <1>8, <1>9, <1>10

\* The server handles the packet that is due, at a stage that waits for one.
LEMMA HandlesDue ==
    ASSUME LoginInv, inbox # <<>>
    PROVE  /\ stage \in {"login", "handshake", "cache", "packs", "stack"}
           /\ Head(inbox) = Due(Taken(stage, serverEncrypt) + 1, serverEncrypt)
           /\ Tail(inbox) = <<>> /\ Len(inbox) = 1
           /\ Taken(stage, serverEncrypt) \in Nat /\ Taken(stage, serverEncrypt) + 1 <= n
<1> DEFINE k == Taken(stage, serverEncrypt)
<1>1. /\ serverEncrypt \in BOOLEAN /\ stage \in Stages /\ k \in Nat
      /\ Len(up) \in Nat /\ n \in Nat /\ Extra(serverEncrypt) \in {0, 1}
  <2>1. serverEncrypt \in BOOLEAN /\ stage \in Stages
    BY DEF LoginInv, TypeInv
  <2> QED
    BY <2>1, NumbersAre, ExtraIs
<1>2. inbox = <<Due(k + 1, serverEncrypt)>>
  BY DEF LoginInv, UpInv
<1> HIDE DEF k
<1>3. Head(inbox) = Due(k + 1, serverEncrypt) /\ Tail(inbox) = <<>> /\ Len(inbox) = 1
  BY <1>2
<1>4. k + 1 <= n
  <2>1. arrived = k + 1 /\ arrived + Len(up) <= n
    BY <1>3 DEF arrived, k, LoginInv, UpInv
  <2> QED
    BY <1>1, <2>1
<1>5. stage # "refused"
  BY <1>1, <1>4, TakenIs DEF LoginInv, StageInv, k
<1>6. stage # "spawn"
  BY <1>1, <1>4, TakenIs DEF LoginInv, WrittenInv, k
<1> QED
  BY <1>1, <1>3, <1>4, <1>5, <1>6 DEF k, Stages

LEMMA EmptyInbox == <<>> \in Seq(FromClient)
  OBVIOUS

\* What is on the way up stays in step when the server goes to the next stage.
LEMMA AdvanceKeeps ==
    ASSUME LoginInv, inbox # <<>>, inbox' = Tail(inbox), stage' \in Stages,
           Taken(stage', serverEncrypt) = Taken(stage, serverEncrypt) + 1,
           UNCHANGED <<clientVars, up, clientCounter, serverEncrypt>>
    PROVE  ThreadsInv' /\ WrittenInv' /\ UpInv' /\ inbox' \in Seq(FromClient)
<1>1. inbox' = <<>> /\ arrived' = arrived /\ inbox' \in Seq(FromClient)
  <2>1. inbox' = <<>> /\ Len(inbox) = 1 /\ Taken(stage, serverEncrypt) \in Nat
    BY HandlesDue
  <2>2. Len(inbox') = 0 /\ inbox' \in Seq(FromClient)
    <3>1. <<>> \in Seq(FromClient) /\ Len(<<>>) = 0
      OBVIOUS
    <3> QED
      BY <2>1, <3>1, Zenon
  <2>3. arrived' = Taken(stage, serverEncrypt) + 1 + Len(inbox')
    BY Zenon DEF arrived
  <2>4. arrived = Taken(stage, serverEncrypt) + 1
    BY <2>1, Zenon DEF arrived
  <2> QED
    BY <2>1, <2>2, <2>3, <2>4
<1>2. (Unwritten' <=> Unwritten) /\ (Unencoded' <=> Unencoded) /\ n' = n
  BY DEF Unwritten, Unencoded, n, clientVars
<1>3. UpInv'
  BY <1>1, <1>2 DEF LoginInv, UpInv, clientVars
<1>4. ThreadsInv' /\ WrittenInv'
  BY ThreadsKept, WrittenKept DEF LoginInv, clientVars
<1> QED
  BY <1>1, <1>3, <1>4

LEMMA PairOf ==
    ASSUME NEW S, NEW x \in S, NEW y \in S
    PROVE  <<x>> \in Seq(S) /\ <<x, y>> \in Seq(S)
  OBVIOUS

\* The two ways in which a server lets the client in.
LEMMA WelcomeIs ==
    ASSUME NEW B \in Welcome
    PROVE  B \in Seq(Seq(FromServer)) /\ B \in Seq(Seq(Later \ {"PlayerSpawn"}))
<1>1. ASSUME NEW S, "LoginSuccess" \in S, "ResourcePacksInfo" \in S
      PROVE  B \in Seq(Seq(S))
  <2>1. <<"LoginSuccess">> \in Seq(S) /\ <<"ResourcePacksInfo">> \in Seq(S)
    BY <1>1
  <2>2. <<"LoginSuccess", "ResourcePacksInfo">> \in Seq(S)
    BY <1>1
  <2>3. CASE B = <<<<"LoginSuccess">>, <<"ResourcePacksInfo">>>>
    BY <2>1, <2>3, PairOf
  <2>4. CASE B = <<<<"LoginSuccess", "ResourcePacksInfo">>>>
    BY <2>2, <2>4, PairOf
  <2> QED
    BY <2>3, <2>4 DEF Welcome
<1> QED
  BY <1>1 DEF FromServer, Later

LEMMA TypeSent ==
    ASSUME LoginInv, down' \in Seq(Batch), serverCounter' \in Nat, inbox' \in Seq(FromClient),
           stage' \in Stages, serverEncrypt' \in BOOLEAN,
           UNCHANGED <<clientVars, up, clientCounter>>
    PROVE  TypeInv'
  BY DEF LoginInv, TypeInv, clientVars

\* The server answers the Login.
LEMMA AnswerLoginKeeps ==
    ASSUME LoginInv, ServerHandle, inbox # <<>>, stage = "login",
           NEW reply \in Replies, ServerAnswersLogin(reply), inbox' = Tail(inbox),
           UNCHANGED <<clientVars, up, clientCounter, noise>>
    PROVE  LoginInv'
<1>1. /\ ~serverEncrypt /\ ~encrypt /\ ~decrypt /\ packets = <<>> /\ down = <<>>
      /\ n = 1 /\ pc["listen"] # "reply" /\ serverEncrypt = FALSE /\ decrypt = serverEncrypt
      /\ Extra(FALSE) = 0
  <2>1. ~serverEncrypt /\ packets = <<>> /\ down = <<>> /\ n <= 1
    BY DEF LoginInv, StageInv
  <2>2. n >= 1 /\ n \in Nat
    <3>1. /\ Taken(stage, serverEncrypt) \in Nat /\ Taken(stage, serverEncrypt) + 1 <= n
          /\ n \in Nat
      BY HandlesDue, NumbersAre
    <3> QED
      BY <3>1
  <2>3. pc["listen"] # "reply"
    BY DEF LoginInv, StageInv
  <2>4. ~encrypt /\ encrypt \in BOOLEAN /\ decrypt = encrypt /\ serverEncrypt \in BOOLEAN
    BY <2>1 DEF LoginInv, UpInv, DownInv, TypeInv
  <2> QED
    BY <2>1, <2>2, <2>3, <2>4 DEF Extra
<1>2. ASSUME NEW S PROVE Coming(S)
  BY <1>1 DEF Coming
<1>3. UNCHANGED <<encrypt, decrypt, receiveCounter, packets, pc, written>>
  BY DEF clientVars
<1>4. n' = n
  BY <1>3 DEF n
<1>5. reply \in {"secure", "plain", "refuse", "forge"}
  BY ReplyAssumption
<1>6. CASE reply = "plain"
  <2>1. PICK B \in Welcome : ServerSends(B)
    BY <1>6 DEF ServerAnswersLogin
  <2>2. stage' = "cache" /\ serverEncrypt' = serverEncrypt
    BY <1>6 DEF ServerAnswersLogin
  <2>3. /\ down' \in Seq(Batch) /\ serverCounter' \in Nat /\ DownInv'
        /\ Coming(Later \ {"PlayerSpawn"})'
    BY <1>1, <1>2, <1>3, <2>1, WelcomeIs, SendsKeep
  <2>4. ThreadsInv' /\ WrittenInv' /\ UpInv' /\ inbox' \in Seq(FromClient)
    <3>1. Taken("cache", FALSE) = 1 /\ Taken("login", FALSE) = 0
      BY DEF Taken, Extra
    <3>2. Taken(stage, serverEncrypt) = 0 /\ Taken(stage', serverEncrypt) = 1
      BY <1>1, <2>2, <3>1, Zenon
    <3>3. stage' \in Stages
      BY <2>2 DEF Stages
    <3> QED
      BY <2>2, <3>2, <3>3, AdvanceKeeps
  <2>5. TypeInv'
    BY <1>1, <2>2, <2>3, <2>4, TypeSent DEF Stages
  <2>6. StageInv'
    BY <1>1, <1>3, <2>2, <2>3 DEF StageInv
  <2> QED
    BY <2>3, <2>4, <2>5, <2>6 DEF LoginInv
<1>7. CASE reply \in {"refuse", "forge"}
  <2>1. PICK B \in {<<<<"LoginFailed">>>>, <<<<"ForgedHandshake">>>>} : ServerSends(B)
    BY <1>7 DEF ServerAnswersLogin
  <2>2. stage' = "refused" /\ serverEncrypt' = serverEncrypt
    BY <1>7 DEF ServerAnswersLogin
  <2>3. B \in Seq(Seq(FromServer)) /\ B \in Seq(Seq({"LoginFailed", "ForgedHandshake"}))
    BY <2>1, PairOf DEF FromServer
  <2>4. /\ down' \in Seq(Batch) /\ serverCounter' \in Nat /\ DownInv'
        /\ Coming({"LoginFailed", "ForgedHandshake"})'
    BY <1>1, <1>2, <1>3, <2>1, <2>3, SendsKeep
  <2>5. ThreadsInv' /\ WrittenInv' /\ UpInv' /\ inbox' \in Seq(FromClient)
    <3>1. Taken("refused", FALSE) = 1 /\ Taken("login", FALSE) = 0
      BY <1>1, TakenIs
    <3>2. Taken(stage, serverEncrypt) = 0 /\ Taken(stage', serverEncrypt) = 1
      BY <1>1, <2>2, <3>1, Zenon
    <3>3. stage' \in Stages
      BY <2>2 DEF Stages
    <3> QED
      BY <2>2, <3>2, <3>3, AdvanceKeeps
  <2>6. TypeInv'
    BY <1>1, <2>2, <2>4, <2>5, TypeSent DEF Stages
  <2>7. StageInv'
    BY <1>1, <1>3, <1>4, <2>2, <2>4 DEF StageInv
  <2> QED
    BY <2>4, <2>5, <2>6, <2>7 DEF LoginInv
<1>8. CASE reply = "secure"
  <2>1. ServerSends(<<Shake>>) /\ stage' = "handshake" /\ serverEncrypt' = TRUE
    BY <1>8 DEF ServerAnswersLogin, Shake
  <2>2. <<Shake>> \in Seq(Seq(FromServer))
    BY DEF Shake, FromServer
  <2>3. down' \in Seq(Batch) /\ serverCounter' \in Nat /\ DownInv'
    BY <1>1, <1>3, <2>1, <2>2, SendsKeep
  <2>4. Len(down') = 1 /\ down'[1].packets = Shake
    BY <1>1, <2>1 DEF ServerSends
  <2>5. inbox' = <<>> /\ inbox' \in Seq(FromClient)
    BY HandlesDue, EmptyInbox
  <2>6. TypeInv'
    BY <2>1, <2>3, <2>5, TypeSent DEF Stages
  <2>7. ThreadsInv'
    BY ThreadsKept DEF LoginInv, clientVars
  <2>8. ASSUME NEW b, Carries(b, 1, FALSE) PROVE Carries(b, 1, TRUE)
    <3>1. Due(1, TRUE) = Due(1, FALSE)
      BY DueIs
    <3>2. ~(1 > 1)
      OBVIOUS
    <3> QED
      BY <2>8, <3>1, <3>2, Zenon DEF Carries
  <2>9. WrittenInv'
    <3>1. Expecting(1, TRUE) = Expecting(1, FALSE) /\ Due(1, TRUE) = Due(1, FALSE)
      BY ExpectingOf, DueIs
    <3>2. 1 \in 0 .. 4 + Extra(TRUE)
      BY DEF Extra
    <3>3. /\ expectedIds = Expecting(1, FALSE)
          /\ bufferedSend = <<>> \/ bufferedSend = <<Due(1, FALSE)>>
          /\ \A t \in Threads : pc[t] = "write" => Carries(encoded[t], 1, FALSE)
      BY <1>1 DEF LoginInv, WrittenInv
    <3> QED
      BY <1>1, <1>4, <2>1, <2>8, <3>1, <3>2, <3>3 DEF WrittenInv, clientVars
  <2>10. UpInv'
    <3>1. arrived = 1 /\ arrived' = 1 /\ Len(up) \in Nat
      <4>1. Taken("login", FALSE) = 0 /\ Taken("handshake", TRUE) = 1
        BY TakenIs
      <4>2. Len(inbox) = 1 /\ Len(inbox') = 0 /\ Len(up) \in Nat
        BY <2>5, HandlesDue DEF LoginInv, TypeInv
      <4>3. arrived = 0 + Len(inbox)
        BY <1>1, <4>1, Zenon DEF arrived
      <4>4. arrived' = 1 + Len(inbox')
        BY <2>1, <4>1, Zenon DEF arrived
      <4> QED
        BY <4>2, <4>3, <4>4
    <3>2. Len(up) = 0
      BY <1>1, <3>1 DEF LoginInv, UpInv
    <3>3. (Unwritten' <=> Unwritten) /\ (Unencoded' <=> Unencoded)
      BY DEF Unwritten, Unencoded, clientVars
    <3>4. clientCounter' = IF serverEncrypt' THEN arrived' - 1 ELSE 0
      <4>1. clientCounter = 0
        BY <1>1 DEF LoginInv, UpInv
      <4>2. arrived' - 1 = 0
        BY <3>1
      <4> QED
        BY <2>1, <4>1, <4>2
    <3>5. /\ arrived' + Len(up') <= n'
          /\ conn' = "connected" => arrived' + Len(up') = n' - (IF Unwritten' THEN 1 ELSE 0)
      BY <1>4, <3>1, <3>3 DEF LoginInv, UpInv, clientVars
    <3>6. /\ encrypt' <=> serverEncrypt' /\ (n' > 1 \/ pc'["listen"] = "reply")
          /\ ~encrypt'
      BY <1>1, <1>3, <1>4
    <3> QED
      BY <2>5, <3>2, <3>4, <3>5, <3>6 DEF UpInv
  <2>11. StageInv'
    BY <1>1, <1>3, <1>4, <2>1, <2>4 DEF StageInv, ShakeInv
  <2> QED
    BY <2>3, <2>6, <2>7, <2>9, <2>10, <2>11 DEF LoginInv
<1> QED
  BY <1>5, <1>6, <1>7, <1>8

\* Once the client is in, both sides agree on encryption.
LEMMA AgreeWhenIn ==
    ASSUME LoginInv, stage \in {"cache", "packs", "stack", "spawn"}
    PROVE  decrypt = serverEncrypt /\ pc["listen"] # "reply"
<1>1. /\ pc["listen"] # "reply" /\ serverEncrypt \in BOOLEAN /\ encrypt \in BOOLEAN
      /\ decrypt = encrypt
  BY DEF LoginInv, TypeInv, StageInv, DownInv
<1>2. ASSUME serverEncrypt PROVE encrypt
  <2>1. Taken(stage, serverEncrypt) \in Nat /\ Taken(stage, serverEncrypt) > 1
    <3>1. /\ Taken("cache", TRUE) = 2 /\ Taken("packs", TRUE) = 3
          /\ Taken("stack", TRUE) = 4 /\ Taken("spawn", TRUE) = 5
      BY DEF Taken, Extra
    <3>2. serverEncrypt = TRUE
      BY <1>1, <1>2
    <3>3. Taken(stage, serverEncrypt) \in {2, 3, 4, 5}
      BY <3>1, <3>2
    <3> QED
      BY <3>3
  <2>2. Len(inbox) \in Nat /\ Len(up) \in Nat /\ n \in Nat
    BY DEF LoginInv, TypeInv, n
  <2>3. arrived + Len(up) <= n /\ arrived = Taken(stage, serverEncrypt) + Len(inbox)
    BY DEF LoginInv, UpInv, arrived
  <2>4. n > 1
    BY <2>1, <2>2, <2>3
  <2> QED
    BY <1>2, <2>4 DEF LoginInv, UpInv
<1>3. ASSUME ~serverEncrypt PROVE ~encrypt
  BY <1>3 DEF LoginInv, UpInv
<1> QED
  BY <1>1, <1>2, <1>3

\* The server lets the client in, or answers it on its way in.
LEMMA SendAdvanceKeeps ==
    ASSUME LoginInv, inbox # <<>>, inbox' = Tail(inbox),
           NEW B \in Seq(Seq(FromServer)), ServerSends(B),
           stage' \in {"cache", "stack", "spawn"},
           Taken(stage', serverEncrypt) = Taken(stage, serverEncrypt) + 1,
           UNCHANGED <<clientVars, up, clientCounter, serverEncrypt>>,
           decrypt = serverEncrypt, pc["listen"] # "reply",
           NEW S, Coming(S), B \in Seq(Seq(S)),
           S = IF stage' = "spawn" THEN Later ELSE Later \ {"PlayerSpawn"}
    PROVE  LoginInv'
<1>1. UNCHANGED <<encrypt, decrypt, receiveCounter, packets, pc>>
  BY DEF clientVars
<1>2. /\ down' \in Seq(Batch) /\ serverCounter' \in Nat /\ DownInv'
      /\ Coming(S)'
  BY <1>1, SendsKeep
<1>3. stage' \in Stages
  BY DEF Stages
<1>4. ThreadsInv' /\ WrittenInv' /\ UpInv' /\ inbox' \in Seq(FromClient)
  BY <1>3, AdvanceKeeps
<1>5. serverEncrypt' \in BOOLEAN
  BY DEF LoginInv, TypeInv
<1>6. TypeInv'
  BY <1>2, <1>3, <1>4, <1>5, TypeSent
<1>7. StageInv'
  <2>1. CASE stage' = "spawn"
    <3>1. Coming(Later)'
      BY <1>2, <2>1
    <3> QED
      BY <1>1, <2>1, <3>1 DEF StageInv
  <2>2. CASE stage' \in {"cache", "stack"}
    <3>1. Coming(Later \ {"PlayerSpawn"})'
      BY <1>2, <2>2
    <3> QED
      BY <1>1, <2>2, <3>1 DEF StageInv
  <2> QED
    BY <2>1, <2>2
<1> QED
  BY <1>2, <1>4, <1>6, <1>7 DEF LoginInv

\* The server has taken a packet: it is the one it waits for.
LEMMA ServerHandleKeeps ==
    ASSUME LoginInv, ServerHandle
    PROVE  LoginInv'
<1> DEFINE k == Taken(stage, serverEncrypt)
<1>1. /\ inbox # <<>> /\ inbox' = Tail(inbox)
      /\ UNCHANGED <<clientVars, up, clientCounter, noise>>
  BY DEF ServerHandle
<1>2. /\ stage \in {"login", "handshake", "cache", "packs", "stack"}
      /\ Head(inbox) = Due(k + 1, serverEncrypt)
      /\ k \in Nat /\ k + 1 <= n /\ serverEncrypt \in BOOLEAN
  BY <1>1, HandlesDue DEF LoginInv, TypeInv
<1>3. /\ Due(1, serverEncrypt) = "Login"
      /\ serverEncrypt => Due(2, serverEncrypt) = "ClientToServerHandshake"
      /\ Due(2 + Extra(serverEncrypt), serverEncrypt) = "ClientCacheStatus"
      /\ Due(3 + Extra(serverEncrypt), serverEncrypt) = "AllPacksDownloaded"
      /\ Due(4 + Extra(serverEncrypt), serverEncrypt) = "Completed"
      /\ Extra(serverEncrypt) \in {0, 1}
  BY <1>2, DueIs, ExtraIs
<1>4. /\ Taken("login", serverEncrypt) = 0 /\ Taken("handshake", serverEncrypt) = 1
      /\ Taken("cache", serverEncrypt) = 1 + Extra(serverEncrypt)
      /\ Taken("packs", serverEncrypt) = 2 + Extra(serverEncrypt)
      /\ Taken("stack", serverEncrypt) = 3 + Extra(serverEncrypt)
      /\ Taken("spawn", serverEncrypt) = 4 + Extra(serverEncrypt)
  BY <1>2, TakenIs
<1>5. CASE stage = "login"
  <2>1. Head(inbox) = "Login"
    <3>1. k + 1 = 1
      BY <1>4, <1>5
    <3> QED
      BY <1>2, <1>3, <3>1, Zenon
  <2>2. PICK reply \in Replies : ServerAnswersLogin(reply)
    BY <1>5, <2>1 DEF ServerHandle
  <2> QED
    BY <1>1, <1>5, <2>2, AnswerLoginKeeps
<1>6. CASE stage = "handshake"
  <2>1. serverEncrypt /\ n = 2 /\ encrypt /\ decrypt /\ packets = <<>> /\ down = <<>>
    <3>1. serverEncrypt /\ n <= 2 /\ ShakeInv
      BY <1>6 DEF LoginInv, StageInv
    <3>2. n = 2
      <4>1. n \in Nat /\ k + 1 = 2
        BY <1>4, <1>6 DEF LoginInv, TypeInv, n
      <4>2. n <= 2 /\ k + 1 <= n
        BY <1>2, <3>1, Zenon
      <4> QED
        BY <4>1, <4>2
    <3>3. n > 1
      BY <3>2
    <3>4. encrypt /\ decrypt = encrypt
      BY <3>1, <3>3 DEF LoginInv, UpInv, DownInv
    <3> QED
      BY <3>1, <3>2, <3>4 DEF ShakeInv
  <2>2. Head(inbox) = "ClientToServerHandshake"
    <3>1. k + 1 = 2
      BY <1>4, <1>6
    <3> QED
      BY <1>2, <1>3, <2>1, <3>1, Zenon
  <2>3. /\ \E B \in Welcome : ServerSends(B)
        /\ stage' = "cache" /\ serverEncrypt' = serverEncrypt
    BY <1>6, <2>2 DEF ServerHandle
  <2>4. PICK B \in Welcome : ServerSends(B)
    BY <2>3
  <2>5. Coming(Later \ {"PlayerSpawn"})
    BY <2>1 DEF Coming
  <2>6. decrypt = serverEncrypt
    BY <2>1 DEF LoginInv, TypeInv
  <2>7. pc["listen"] # "reply"
    BY <2>1 DEF LoginInv, StageInv
  <2>8. Taken(stage', serverEncrypt) = k + 1
    <3>1. Extra(serverEncrypt) = 1
      BY <2>1 DEF Extra
    <3>2. Taken(stage', serverEncrypt) = 1 + Extra(serverEncrypt) /\ k = 1
      BY <1>4, <1>6, <2>3
    <3> QED
      BY <3>1, <3>2
  <2>9. stage' \in {"cache", "stack", "spawn"} /\ stage' # "spawn"
    BY <2>3
  <2>10. B \in Seq(Seq(FromServer)) /\ B \in Seq(Seq(Later \ {"PlayerSpawn"}))
    BY WelcomeIs
  <2>11. Later \ {"PlayerSpawn"}
            = IF stage' = "spawn" THEN Later ELSE Later \ {"PlayerSpawn"}
    BY <2>9
  <2> HIDE DEF k
  <2> QED
    BY <1>1, <2>3, <2>4, <2>5, <2>6, <2>7, <2>8, <2>9, <2>10, <2>11, SendAdvanceKeeps DEF k
<1>7. CASE stage = "cache"
  <2>1. Head(inbox) = "ClientCacheStatus"
    <3>1. k + 1 = 2 + Extra(serverEncrypt)
      BY <1>3, <1>4, <1>7
    <3> QED
      BY <1>2, <1>3, <3>1, Zenon
  <2>2. stage' = "packs" /\ UNCHANGED <<down, serverCounter, serverEncrypt, sent>>
    BY <1>7, <2>1 DEF ServerHandle
  <2>3. Taken(stage', serverEncrypt) = k + 1 /\ stage' \in Stages
    BY <1>3, <1>4, <1>7, <2>2 DEF Stages
  <2>4. ThreadsInv' /\ WrittenInv' /\ UpInv' /\ inbox' \in Seq(FromClient)
    BY <1>1, <2>2, <2>3, AdvanceKeeps
  <2>5. TypeInv'
    BY <1>1, <1>2, <2>2, <2>3, <2>4, TypeSent DEF LoginInv, TypeInv
  <2>6. DownInv'
    BY <1>1, <2>2, DownKept DEF LoginInv, clientVars
  <2>7. StageInv'
    BY <1>1, <1>7, <2>2 DEF LoginInv, StageInv, Coming, clientVars
  <2> QED
    BY <2>4, <2>5, <2>6, <2>7 DEF LoginInv
<1>8. CASE stage = "packs"
  <2>1. Head(inbox) = "AllPacksDownloaded"
    <3>1. k + 1 = 3 + Extra(serverEncrypt)
      BY <1>3, <1>4, <1>8
    <3> QED
      BY <1>2, <1>3, <3>1, Zenon
  <2>2. /\ ServerSends(<<<<"ResourcePackStack">>>>)
        /\ stage' = "stack" /\ serverEncrypt' = serverEncrypt
    BY <1>8, <2>1 DEF ServerHandle
  <2>3. Taken(stage', serverEncrypt) = k + 1
    BY <1>3, <1>4, <1>8, <2>2
  <2>4. decrypt = serverEncrypt /\ pc["listen"] # "reply"
    BY <1>8, AgreeWhenIn
  <2>5. Coming(Later \ {"PlayerSpawn"})
    BY <1>8 DEF LoginInv, StageInv
  <2>6. /\ <<<<"ResourcePackStack">>>> \in Seq(Seq(FromServer))
        /\ <<<<"ResourcePackStack">>>> \in Seq(Seq(Later \ {"PlayerSpawn"}))
    BY PairOf DEF FromServer, Later
  <2>7. stage' \in {"cache", "stack", "spawn"} /\ stage' # "spawn"
    BY <2>2
  <2>8. Later \ {"PlayerSpawn"}
            = IF stage' = "spawn" THEN Later ELSE Later \ {"PlayerSpawn"}
    BY <2>7
  <2> HIDE DEF k
  <2> QED
    BY <1>1, <2>2, <2>3, <2>4, <2>5, <2>6, <2>7, <2>8, SendAdvanceKeeps DEF k
<1>9. CASE stage = "stack"
  <2>1. Head(inbox) = "Completed"
    <3>1. k + 1 = 4 + Extra(serverEncrypt)
      BY <1>3, <1>4, <1>9
    <3> QED
      BY <1>2, <1>3, <3>1, Zenon
  <2>2. /\ ServerSends(<<<<"StartGame">>, <<"PlayerSpawn">>>>)
        /\ stage' = "spawn" /\ serverEncrypt' = serverEncrypt
    BY <1>9, <2>1 DEF ServerHandle
  <2>3. Taken(stage', serverEncrypt) = k + 1
    BY <1>3, <1>4, <1>9, <2>2
  <2>4. decrypt = serverEncrypt /\ pc["listen"] # "reply"
    BY <1>9, AgreeWhenIn
  <2>5. Coming(Later)
    <3>1. Coming(Later \ {"PlayerSpawn"})
      BY <1>9 DEF LoginInv, StageInv
    <3> QED
      BY <3>1 DEF Coming
  <2>6. /\ <<<<"StartGame">>, <<"PlayerSpawn">>>> \in Seq(Seq(FromServer))
        /\ <<<<"StartGame">>, <<"PlayerSpawn">>>> \in Seq(Seq(Later))
    BY PairOf DEF FromServer, Later
  <2>7. stage' \in {"cache", "stack", "spawn"}
    BY <2>2
  <2>8. Later = IF stage' = "spawn" THEN Later ELSE Later \ {"PlayerSpawn"}
    BY <2>2
  <2> HIDE DEF k
  <2> QED
    BY <1>1, <2>2, <2>3, <2>4, <2>5, <2>6, <2>7, <2>8, SendAdvanceKeeps DEF k
<1> QED
  BY <1>2, <1>5, <1>6, <1>7, <1>8, <1>9

\* A packet of no concern to the login.
LEMMA ServerNoiseKeeps ==
    ASSUME LoginInv, ServerNoise
    PROVE  LoginInv'
<1>1. PICK p \in {"Text", "Disconnect"} : ServerSends(<<<<p>>>>)
  BY DEF ServerNoise
<1>2. UNCHANGED <<clientVars, up, stage, inbox, serverEncrypt, clientCounter>>
  BY DEF ServerNoise
<1>3. stage \in {"cache", "packs", "stack", "spawn"}
  BY DEF ServerNoise
<1>4. decrypt = serverEncrypt /\ UNCHANGED <<encrypt, decrypt, receiveCounter, packets>>
  BY <1>2, <1>3, AgreeWhenIn DEF clientVars
<1>5. /\ <<<<p>>>> \in Seq(Seq(FromServer)) /\ <<<<p>>>> \in Seq(Seq(Later))
      /\ <<<<p>>>> \in Seq(Seq(Later \ {"PlayerSpawn"}))
  <2>1. p \in FromServer /\ p \in Later /\ p \in Later \ {"PlayerSpawn"}
    BY <1>1 DEF FromServer, Later
  <2> QED
    BY <2>1, PairOf
<1>6. /\ down' \in Seq(Batch) /\ serverCounter' \in Nat /\ DownInv'
      /\ Coming(Later) => Coming(Later)'
      /\ Coming(Later \ {"PlayerSpawn"}) => Coming(Later \ {"PlayerSpawn"})'
  BY <1>1, <1>4, <1>5, SendsKeep
<1>7. TypeInv'
  BY <1>2, <1>6, TypeSent DEF LoginInv, TypeInv
<1>8. ThreadsInv' /\ WrittenInv'
  BY <1>2, ThreadsKept, WrittenKept DEF LoginInv, clientVars
<1>9. UpInv'
  BY <1>2, UpKept DEF LoginInv, clientVars
<1>10. StageInv'
  BY <1>2, <1>3, <1>6 DEF LoginInv, StageInv, clientVars, n
<1> QED
  BY <1>6, <1>7, <1>8, <1>9, <1>10 DEF LoginInv

--------------------------------------------------------------------------------
(* The login is understood.                                                 *)

LEMMA LoginInit == Init => LoginInv
<1> SUFFICES ASSUME Init PROVE LoginInv
  OBVIOUS
<1>1. /\ pc = [connect |-> "handshake", listen |-> "off", flush |-> "off"]
      /\ sendMtx = "none" /\ bufferedSend = <<>>
      /\ encrypt = FALSE /\ sendCounter = 0 /\ decrypt = FALSE /\ receiveCounter = 0
      /\ encoded = [t \in Threads |-> NoBatch] /\ expectedIds = {} /\ packets = <<>>
      /\ written = <<>> /\ up = <<>> /\ down = <<>>
      /\ stage = "login" /\ inbox = <<>> /\ serverEncrypt = FALSE
      /\ serverCounter = 0 /\ clientCounter = 0
  BY DEF Init
<1>2. n = 0 /\ Taken("login", FALSE) = 0 /\ Expecting(0, FALSE) = {} /\ Extra(FALSE) = 0
  BY <1>1 DEF n, Taken, Expecting, Extra
<1>3. arrived = 0 /\ Len(up) = 0 /\ Len(down) = 0
  <2>1. Len(up) = 0 /\ Len(down) = 0 /\ Len(inbox) = 0
    BY <1>1
  <2>2. arrived = 0 + Len(inbox)
    BY <1>1, <1>2, Zenon DEF arrived
  <2> QED
    BY <2>1, <2>2
<1>4. ~Unwritten /\ ~Unencoded
  BY <1>1 DEF Unwritten, Unencoded
<1>5. TypeInv
  <2>1. NoBatch \in Batch
    BY DEF NoBatch, Batch
  <2>2. pc \in [Threads -> Labels]
    BY <1>1 DEF Threads, Labels
  <2>3. /\ bufferedSend \in Seq(FromClient) /\ written \in Seq(FromClient)
        /\ packets \in Seq(FromServer) /\ inbox \in Seq(FromClient)
        /\ up \in Seq(Batch) /\ down \in Seq(Batch)
    BY <1>1
  <2>4. encoded \in [Threads -> Batch]
    BY <1>1, <2>1
  <2>5. /\ {encrypt, decrypt, serverEncrypt} \subseteq BOOLEAN
        /\ {sendCounter, receiveCounter, serverCounter, clientCounter} \subseteq Nat
    <3>1. {encrypt, decrypt, serverEncrypt} \subseteq BOOLEAN
      BY <1>1
    <3>2. /\ sendCounter = 0 /\ receiveCounter = 0
          /\ serverCounter = 0 /\ clientCounter = 0
      BY <1>1
    <3> QED
      BY <3>1, <3>2
  <2>6. sendMtx \in Threads \cup {"none"} /\ stage \in Stages
    BY <1>1 DEF Stages
  <2> QED
    BY <2>2, <2>3, <2>4, <2>5, <2>6 DEF TypeInv
<1>6. ThreadsInv
  BY <1>1, <1>2 DEF ThreadsInv, InFlush, Threads
<1>7. WrittenInv
  <2>1. n \in 0 .. 4 + Extra(serverEncrypt)
    <3>1. 0 \in 0 .. 4 + 0
      OBVIOUS
    <3> QED
      BY <1>1, <1>2, <3>1, Zenon
  <2>2. expectedIds = Expecting(n, serverEncrypt)
    BY <1>1, <1>2, Zenon
  <2>3. \A t \in Threads : pc[t] # "write"
    BY <1>1 DEF Threads
  <2> QED
    BY <1>1, <2>1, <2>2, <2>3 DEF WrittenInv
<1>8. UpInv
  <2>1. \A i \in 1 .. Len(up) : Carries(up[i], arrived + i, serverEncrypt)
    BY <1>3
  <2>2. /\ arrived + Len(up) <= n
        /\ arrived + Len(up) = n - (IF Unwritten THEN 1 ELSE 0)
    <3>1. n = 0 /\ arrived + Len(up) = 0
      BY <1>2, <1>3
    <3>2. (IF Unwritten THEN 1 ELSE 0) = 0
      BY <1>4
    <3> QED
      BY <3>1, <3>2
  <2>3. ~encrypt /\ ~serverEncrypt /\ clientCounter = 0 /\ inbox = <<>>
    BY <1>1
  <2> QED
    BY <2>1, <2>2, <2>3 DEF UpInv
<1>9. DownInv
  <2>1. 1 .. Len(down) = {}
    BY <1>3
  <2>2. decrypt = encrypt
    BY <1>1, Zenon
  <2>3. serverCounter = IF decrypt THEN receiveCounter + Len(down) ELSE 0
    BY <1>1
  <2> QED
    BY <2>1, <2>2, <2>3, Zenon DEF DownInv
<1>10. StageInv
  BY <1>1, <1>2 DEF StageInv
<1> QED
  BY <1>5, <1>6, <1>7, <1>8, <1>9, <1>10 DEF LoginInv

LEMMA LoginStep == LoginInv /\ [Next]_vars => LoginInv'
<1> SUFFICES ASSUME LoginInv, [Next]_vars PROVE LoginInv'
  OBVIOUS
<1>1. CASE Connect
  BY <1>1, ConnectLoginKeeps, ConnectStartKeeps DEF Connect
<1>2. CASE FlushLoop
  BY <1>2, FlushLoopKeeps
<1>3. CASE Listen
  BY <1>3, ReadKeeps, LoopKeeps, TakingKeeps, HandshakeKeeps, ReplyKeeps, AnswerKeeps
     DEF Listen
<1>4. CASE Server
  BY <1>4, ServerTakeKeeps, ServerHandleKeeps, ServerNoiseKeeps DEF Server
<1>5. CASE \E t \in Threads : Flush(t)
  BY <1>5, LockKeeps, EncodeKeeps, WriteKeeps, ClearKeeps DEF Flush
<1>6. CASE UNCHANGED vars
  <2>1. ThreadsInv' /\ WrittenInv' /\ UpInv' /\ DownInv' /\ StageInv'
    BY <1>6, ThreadsKept, WrittenKept, UpKept, DownKept, StageKept
       DEF LoginInv, vars, clientVars, serverVars
  <2>2. TypeInv'
    BY <1>6 DEF LoginInv, TypeInv, vars, clientVars, serverVars
  <2> QED
    BY <2>1, <2>2 DEF LoginInv
<1> QED
  BY <1>1, <1>2, <1>3, <1>4, <1>5, <1>6 DEF Next

\* Client, WritePacket and flush: at every step each packet the client wrote is where
\* its number says, and both directions agree on encryption and counters.
THEOREM LoginInvariant == Spec => []LoginInv
  BY LoginInit, LoginStep, PTL DEF Spec

\* Connect from its start: what comes before the Login, and a restart, leave the
\* connection of the login alone.
THEOREM ConnectLogsIn == ConnectSpec => Spec
<1>1. AccountInit => Init
  BY DEF AccountInit
<1>2. [ConnectNext]_allVars => [Next]_vars
  BY DEF ConnectNext, Play, InLogin, SendLogin, Next, Connect, allVars
<1> QED
  BY <1>1, <1>2, PTL DEF ConnectSpec, Spec

\* WritePacket, flush and EnableEncryption: no thread that flushes makes the server
\* reject the client, by a wrong counter, a wrong encryption or a packet out of turn.
THEOREM ServerUnderstood == ConnectSpec => []ServerUnderstands
<1>1. LoginInv => ServerUnderstands
  BY DEF LoginInv, TypeInv, Stages, ServerUnderstands
<1> QED
  BY <1>1, ConnectLogsIn, LoginInvariant, PTL

\* Decoder::Decode: the listen loop can decode each batch it is about to read.
THEOREM ClientUnderstood == ConnectSpec => []ClientUnderstands
<1>1. LoginInv => ClientUnderstands
  BY NextDecodes DEF ClientUnderstands
<1> QED
  BY <1>1, ConnectLogsIn, LoginInvariant, PTL

\* handlePlayStatus: after StartGame nothing expects a PlayStatus, so that the server
\* never hears that the player is initialised, whatever it replies.
THEOREM NeverInitialised == ConnectSpec => [](stage # "playing")
<1>1. LoginInv => stage # "playing"
  BY DEF LoginInv, TypeInv, Stages
<1> QED
  BY <1>1, ConnectLogsIn, LoginInvariant, PTL

--------------------------------------------------------------------------------
(* Before the Login: the ping and the token.                                *)

\* cbOnReceived of Ping: the data is written before it is said to be ready, by an answer
\* that found none, and no answer begins to write it after that, whoever is told.
PongInv ==
    /\ dataReady => data = "pong" /\ io \in {"idle", "called"}
    /\ io = "ready" => data = "pong"
    /\ main = "cleanup" => dataReady

\* The token file of a run that got past the service: without a token in it only if an
\* answer was not read.
PastService == {"save", "saveNew", "write", "ping", "pong", "cleanup", "deviceToken", "xblToken",
                "chain", "raknet", "encode", "parse", "login"}
TokenInv == main \in PastService /\ tkn = "none" => unread

LEMMA TerminateKeeps == ASSUME Terminate PROVE PongInv' /\ TokenInv'
  BY DEF Terminate, PongInv, TokenInv, PastService

\* The steps of the main thread with the token and with the requests.
LEMMA TokenKeeps ==
    ASSUME PongInv, TokenInv, Main \/ Approve \/ Restart \/ Faults
    PROVE  PongInv' /\ TokenInv'
<1>1. CASE Load \/ RefreshToken \/ RefreshToken_Refused \/ Save_Open \/ Save_Write
  BY <1>1, TerminateKeeps
     DEF Load, RefreshToken, RefreshToken_Refused, Save_Open, Save_Write, PongInv, TokenInv,
         PastService, pingVars
<1>2. CASE StartDeviceAuth \/ PollDeviceAuth
  BY <1>2, TerminateKeeps
     DEF StartDeviceAuth, PollDeviceAuth, PongInv, TokenInv, PastService, pingVars
<1>3. CASE Ping_Send \/ Ping_Cleanup \/ Ping_Return \/ Ping_Deadline
  BY <1>3, TerminateKeeps
     DEF Ping_Send, Ping_Cleanup, Ping_Return, Ping_Deadline, PongInv, TokenInv, PastService,
         pingVars
<1>4. CASE ObtainDeviceToken \/ ObtainXBLToken \/ RequestMinecraftChain
  <2>1. ASSUME NEW at \in PastService, NEW then, then # "cleanup", Requests(at, then)
        PROVE  PongInv' /\ TokenInv'
    BY <2>1, TerminateKeeps DEF Requests, PongInv, TokenInv, pingVars
  <2>2. {"deviceToken", "xblToken", "chain"} \subseteq PastService
    BY DEF PastService
  <2> QED
    BY <1>4, <2>1, <2>2 DEF ObtainDeviceToken, ObtainXBLToken, RequestMinecraftChain
<1>5. CASE RaknetConnected \/ EncodeRequest \/ ParseRequest \/ EncodeRequest_Offline
  BY <1>5, TerminateKeeps
     DEF RaknetConnected, EncodeRequest, ParseRequest, EncodeRequest_Offline, PongInv,
         TokenInv, PastService, pingVars
<1>6. CASE Approve \/ Restart
  BY <1>6 DEF Approve, Restart, PongInv, TokenInv, PastService, pingVars
<1>7. CASE Faults
  BY <1>7, TerminateKeeps
     DEF Faults, Crash, Expire, RefreshToken_Unread, Save_Fails, PollDeviceAuth_Unread,
         PollDeviceAuth_Error, LosePing, PongInv, TokenInv, PastService, pingVars
<1> QED
  BY <1>1, <1>2, <1>3, <1>4, <1>5, <1>6, <1>7 DEF Main

LEMMA AccountStep ==
    PongInv /\ TokenInv /\ [ConnectNext]_allVars => PongInv' /\ TokenInv'
<1> SUFFICES ASSUME PongInv, TokenInv, [ConnectNext]_allVars PROVE PongInv' /\ TokenInv'
  OBVIOUS
<1>1. CASE Main \/ Approve \/ Restart \/ Faults
  BY <1>1, TokenKeeps
<1>2. CASE Ping_IO
  BY <1>2, TerminateKeeps
     DEF Ping_IO, ServerPong, OnReceived, OnReceived_Called, OnReceived_Late,
         OnReceived_Copy, OnReceived_Ready, PongInv, TokenInv
<1>3. CASE SendLogin
  BY <1>3 DEF SendLogin, PongInv, TokenInv, PastService, pingVars
<1>4. CASE UNCHANGED accountVars
  BY <1>4 DEF accountVars, PongInv, TokenInv
<1> QED
  BY <1>1, <1>2, <1>3, <1>4 DEF ConnectNext, Play, InLogin, allVars

\* The program from its start, with any number of faults: what the ping hands over is
\* whole, and a run past the service has a token or a reason for none.
THEOREM AccountInvariant == ConnectSpec => [](PongInv /\ TokenInv)
<1>1. AccountInit => PongInv /\ TokenInv
  BY DEF AccountInit, Fresh, PongInv, TokenInv, PastService
<1> QED
  BY <1>1, AccountStep, PTL DEF ConnectSpec

\* Ping: from the moment the data is said to be ready until Ping returns, it is a whole
\* answer that no other one writes over, though the callback may be called again.
THEOREM PingIsComplete == ConnectSpec => []PingComplete
<1>1. PongInv => PingComplete
  BY DEF PongInv, PingComplete
<1> QED
  BY <1>1, AccountInvariant, PTL

\* main: a login without the account has an answer that could not be read behind it,
\* however many crashes left whatever in the token file.
THEOREM OfflineIsForAReason == ConnectSpec => []OfflineForAReason
<1>1. TokenInv => OfflineForAReason
  BY DEF TokenInv, OfflineForAReason, PastService
<1> QED
  BY <1>1, AccountInvariant, PTL

--------------------------------------------------------------------------------
(* Nothing that was written is lost.                                        *)

\* Every packet the client wrote is the one its number says.
DueInv == \A i \in 1 .. n : written[i] = Due(i, serverEncrypt)

LEMMA WritesDue ==
    ASSUME LoginInv, LoginInv', DueInv, bufferedSend = <<>>, NEW p, WritePacket(p),
           serverEncrypt' = serverEncrypt
    PROVE  DueInv'
<1>1. /\ written \in Seq(FromClient) /\ written' \in Seq(FromClient) /\ n \in Nat
      /\ written' = Append(written, p) /\ bufferedSend' = <<p>>
  BY DEF LoginInv, TypeInv, WritePacket, n
<1>2. n' = n + 1
  BY <1>1 DEF n
<1>3. bufferedSend' = <<Due(n', serverEncrypt')>>
  BY <1>1 DEF LoginInv, WrittenInv
<1>4. p = Due(n', serverEncrypt)
  BY <1>1, <1>3
<1>5. p \in FromClient
  <2>1. written'[n + 1] \in FromClient
    BY <1>1, <1>2 DEF n
  <2> QED
    BY <1>1, <2>1 DEF n
<1>6. written'[n + 1] = p /\ \A i \in 1 .. n : written'[i] = written[i]
  BY <1>1, <1>5 DEF n
<1>7. ASSUME NEW i \in 1 .. n' PROVE written'[i] = Due(i, serverEncrypt')
  <2>1. CASE i = n + 1
    BY <1>2, <1>4, <1>6, <2>1
  <2>2. CASE i \in 1 .. n
    BY <1>6, <2>2 DEF DueInv
  <2>3. i \in 1 .. n + 1
    BY <1>2
  <2>4. i = n + 1 \/ i \in 1 .. n
    BY <1>1, <2>3
  <2> QED
    BY <2>1, <2>2, <2>4
<1> QED
  BY <1>7 DEF DueInv

LEMMA DueKept ==
    ASSUME DueInv, UNCHANGED <<written, serverEncrypt>>
    PROVE  DueInv'
  BY DEF DueInv, n

\* Whether the server encrypts is decided when there is but the Login.
LEMMA DueDecided ==
    ASSUME LoginInv, LoginInv', DueInv, ServerHandle
    PROVE  DueInv'
<1>1. written' = written /\ n' = n
  BY DEF ServerHandle, clientVars, n
<1>2. CASE stage = "login"
  <2>1. n \in Nat /\ n <= 1 /\ serverEncrypt \in BOOLEAN /\ serverEncrypt' \in BOOLEAN
    BY <1>2 DEF LoginInv, StageInv, TypeInv, n
  <2>2. Due(1, serverEncrypt) = Due(1, serverEncrypt')
    BY <2>1, DueIs
  <2> QED
    BY <1>1, <2>1, <2>2 DEF DueInv
<1>3. CASE stage # "login"
  <2>1. serverEncrypt' = serverEncrypt
    BY <1>3 DEF ServerHandle
  <2> QED
    BY <1>1, <2>1, DueKept
<1> QED
  BY <1>2, <1>3

LEMMA DueStep == LoginInv /\ LoginInv' /\ DueInv /\ [Next]_vars => DueInv'
<1> SUFFICES ASSUME LoginInv, LoginInv', DueInv, [Next]_vars PROVE DueInv'
  OBVIOUS
<1>1. CASE Connect
  <2>1. CASE Connect_Login
    <3>1. n = 0 /\ bufferedSend = <<>>
      BY <2>1 DEF Connect_Login, LoginInv, ThreadsInv, InFlush
    <3>2. WritePacket("Login") /\ serverEncrypt' = serverEncrypt
      BY <2>1 DEF Connect_Login, serverVars
    <3> QED
      BY <3>1, <3>2, WritesDue
  <2>2. CASE Connect_Start
    BY <2>2, DueKept DEF Connect_Start, serverVars
  <2> QED
    BY <1>1, <2>1, <2>2 DEF Connect
<1>2. CASE FlushLoop
  BY <1>2, DueKept DEF FlushLoop, serverVars
<1>3. CASE Listen
  <2>1. CASE ReplyToHandshake
    BY <2>1, NothingToFlush, WritesDue DEF ReplyToHandshake, serverVars
  <2>2. CASE HandleAndAnswer
    <3>1. pc["listen"] = "receive" /\ WritePacket(Answer(Head(packets)))
      BY <2>2 DEF HandleAndAnswer, Handles, Receives
    <3> QED
      BY <2>2, <3>1, NothingToFlush, WritesDue DEF HandleAndAnswer, serverVars
  <2>3. CASE ListenLoop_Read \/ ListenLoop_NotConnected \/ ListenLoop_Next
    BY <2>3, DueKept DEF ListenLoop_Read, ListenLoop_NotConnected, ListenLoop_Next, serverVars
  <2>4. CASE HandleDisconnect \/ DeferPacket \/ HandleServerToClientHandshake
    BY <2>4, DueKept
       DEF HandleDisconnect, DeferPacket, HandleServerToClientHandshake, serverVars
  <2>5. CASE RefuseHandshake \/ HandleLoginFailed \/ HandleStartGame
    BY <2>5, DueKept DEF RefuseHandshake, HandleLoginFailed, HandleStartGame, serverVars
  <2> QED
    BY <1>3, <2>1, <2>2, <2>3, <2>4, <2>5 DEF Listen
<1>4. CASE Server
  <2>1. CASE ServerTake \/ ServerNoise
    BY <2>1, DueKept DEF ServerTake, ServerNoise, clientVars
  <2> QED
    BY <1>4, <2>1, DueDecided DEF Server
<1>5. CASE \E t \in Threads : Flush(t)
  BY <1>5, DueKept
     DEF Flush, Flush_Lock, Flush_Encode, Flush_Write, Flush_Clear, serverVars
<1>6. CASE UNCHANGED vars
  BY <1>6, DueKept DEF vars, clientVars, serverVars
<1> QED
  BY <1>1, <1>2, <1>3, <1>4, <1>5, <1>6 DEF Next

Packets == FromClient \cup FromServer

\* What is on the way up, batch by batch.
LEMMA PacketsUp ==
    ASSUME LoginInv
    PROVE  /\ PacketsOf(up) \in Seq(Packets) /\ Len(PacketsOf(up)) = Len(up)
           /\ \A i \in 1 .. Len(up) : PacketsOf(up)[i] = Due(arrived + i, serverEncrypt)
<1> DEFINE r == [i \in DOMAIN up |-> up[i].packets]
<1>1. /\ up \in Seq(Batch) /\ DOMAIN up = 1 .. Len(up) /\ Len(up) \in Nat
      /\ \A i \in 1 .. Len(up) : Carries(up[i], arrived + i, serverEncrypt)
  BY DEF LoginInv, TypeInv, UpInv
<1>2. \A i \in 1 .. Len(up) : r[i] = <<Due(arrived + i, serverEncrypt)>>
  BY <1>1 DEF Carries
<1>3. \A i \in 1 .. Len(up) : r[i] \in Seq(Packets)
  <2>1. \A i \in 1 .. Len(up) : up[i] \in Batch
    BY <1>1
  <2>2. \A i \in 1 .. Len(up) : up[i].packets \in Seq(Packets)
    BY <2>1 DEF Batch, Packets
  <2> QED
    BY <1>1, <2>2
<1>4. r \in Seq(Seq(Packets)) /\ Len(r) = Len(up)
  BY <1>1, <1>3
<1>5. PacketsOf(up) = FlattenSeq(r)
  BY DEF PacketsOf
<1> HIDE DEF r
<1>6. \A i \in 1 .. Len(r) : Len(r[i]) = 1 /\ r[i][1] = Due(arrived + i, serverEncrypt)
  <2>1. \A x : Len(<<x>>) = 1 /\ <<x>>[1] = x
    OBVIOUS
  <2> QED
    BY <1>2, <1>4, <2>1
<1>7. /\ Len(FlattenSeq(r)) = Len(r)
      /\ \A i \in 1 .. Len(r) : FlattenSeq(r)[i] = r[i][1]
  BY <1>4, <1>6, FlattenSingles
<1>8. FlattenSeq(r) \in Seq(Packets)
  BY <1>4, FlattenType
<1> QED
  BY <1>4, <1>5, <1>6, <1>7, <1>8

\* What is in the buffer and not under way is the last packet, or nothing.
LEMMA UnsentIs ==
    ASSUME LoginInv
    PROVE  /\ Unwritten => Unsent = <<Due(n, serverEncrypt)>>
           /\ ~Unwritten => Unsent = <<>>
           /\ Unsent \in Seq(Packets)
<1>1. bufferedSend \in Seq(FromClient)
  BY DEF LoginInv, TypeInv
<1>2. Unwritten => Unsent = bufferedSend /\ bufferedSend # <<>>
  BY DEF Unsent, Unwritten
<1>3. ~Unwritten => Unsent = <<>>
  BY DEF Unsent, Unwritten
<1>4. bufferedSend = <<>> \/ bufferedSend = <<Due(n, serverEncrypt)>>
  BY DEF LoginInv, WrittenInv
<1>5. bufferedSend \in Seq(Packets) /\ <<>> \in Seq(Packets)
  BY <1>1 DEF Packets
<1> QED
  BY <1>2, <1>3, <1>4, <1>5

\* The numbers of three sequences one after the other.
LEMMA ThreeParts ==
    ASSUME NEW X, NEW a \in Seq(X), NEW b \in Seq(X), NEW c \in Seq(X)
    PROVE  /\ a \o b \o c \in Seq(X) /\ Len(a \o b \o c) = Len(a) + Len(b) + Len(c)
           /\ \A i \in 1 .. Len(a) : (a \o b \o c)[i] = a[i]
           /\ \A i \in 1 .. Len(b) : (a \o b \o c)[Len(a) + i] = b[i]
           /\ \A i \in 1 .. Len(c) : (a \o b \o c)[Len(a) + Len(b) + i] = c[i]
<1>0. /\ a \o b \in Seq(X) /\ Len(a \o b) = Len(a) + Len(b)
      /\ \A i \in 1 .. Len(a) : (a \o b)[i] = a[i]
      /\ \A i \in 1 .. Len(b) : (a \o b)[Len(a) + i] = b[i]
  BY ConcatProperties
<1>1. PICK d \in Seq(X) : /\ d = a \o b /\ Len(d) = Len(a) + Len(b)
                          /\ \A i \in 1 .. Len(a) : d[i] = a[i]
                          /\ \A i \in 1 .. Len(b) : d[Len(a) + i] = b[i]
  BY <1>0, Zenon
<1>2. /\ d \o c \in Seq(X) /\ Len(d \o c) = Len(d) + Len(c)
      /\ \A i \in 1 .. Len(d) : (d \o c)[i] = d[i]
      /\ \A i \in 1 .. Len(c) : (d \o c)[Len(d) + i] = c[i]
  BY ConcatProperties
<1>3. Len(a) \in Nat /\ Len(b) \in Nat
  OBVIOUS
<1> QED
  BY <1>1, <1>2, <1>3

\* What the server has taken, while the connection is up: the packets up to the last one
\* that arrived, each as its number says.
TakenInv ==
    /\ taken \in Seq(FromClient)
    /\ conn = "connected" =>
          /\ Len(taken) = arrived
          /\ \A i \in 1 .. Len(taken) : taken[i] = Due(i, serverEncrypt)

LEMMA TakenKept ==
    ASSUME TakenInv, UNCHANGED <<taken, stage, inbox, serverEncrypt>>,
           conn' = "connected" => conn = "connected"
    PROVE  TakenInv'
  BY DEF TakenInv, arrived

\* The server takes the batch of the packet that is due.
LEMMA TakesDue ==
    ASSUME LoginInv, LoginInv', TakenInv, ServerTake
    PROVE  TakenInv'
<1> DEFINE d == Due(arrived + 1, serverEncrypt)
<1>1. /\ stage' = stage /\ inbox' = Head(up).packets /\ taken' = taken \o Head(up).packets
      /\ conn' = conn /\ serverEncrypt' = serverEncrypt /\ inbox = <<>> /\ up # <<>>
  <2>1. stage' # "rejected"
    BY DEF LoginInv, TypeInv, Stages
  <2> QED
    BY <2>1 DEF ServerTake, clientVars
<1>2. arrived \in Nat /\ Head(up).packets = <<d>>
  <2>1. up \in Seq(Batch) /\ Head(up) = up[1] /\ 1 \in 1 .. Len(up)
    BY <1>1 DEF LoginInv, TypeInv
  <2>2. Carries(up[1], arrived + 1, serverEncrypt)
    BY <2>1 DEF LoginInv, UpInv
  <2>3. Len(inbox) = 0 /\ Taken(stage, serverEncrypt) \in Nat
    BY <1>1, NumbersAre
  <2> QED
    BY <2>1, <2>2, <2>3 DEF arrived, Carries
<1> HIDE DEF d
<1>3. /\ d \in FromClient /\ taken \in Seq(FromClient)
      /\ inbox' = <<d>> /\ taken' = Append(taken, d)
  <2>1. inbox' \in Seq(FromClient) /\ inbox' = <<d>>
    BY <1>1, <1>2 DEF LoginInv, TypeInv
  <2>2. taken \in Seq(FromClient) /\ d \in FromClient
    <3>1. inbox'[1] \in FromClient /\ inbox'[1] = d
      BY <2>1
    <3> QED
      BY <3>1 DEF TakenInv
  <2>3. taken' = taken \o <<d>>
    BY <1>1, <1>2
  <2>4. taken \o <<d>> = Append(taken, d)
    BY <2>2
  <2> QED
    BY <2>1, <2>2, <2>3, <2>4
<1>4. /\ taken' \in Seq(FromClient) /\ Len(taken') = Len(taken) + 1 /\ Len(taken) \in Nat
      /\ taken'[Len(taken) + 1] = d /\ \A i \in 1 .. Len(taken) : taken'[i] = taken[i]
  BY <1>3
<1>5. arrived' = arrived + 1
  <2>1. Len(inbox') = 1 /\ Len(inbox) = 0 /\ Taken(stage, serverEncrypt) \in Nat
    BY <1>1, <1>3, NumbersAre
  <2>2. Taken(stage', serverEncrypt') = Taken(stage, serverEncrypt)
    BY <1>1
  <2>3. arrived' = Taken(stage', serverEncrypt') + Len(inbox')
    BY Zenon DEF arrived
  <2>4. arrived = Taken(stage, serverEncrypt) + Len(inbox)
    BY DEF arrived
  <2> QED
    BY <2>1, <2>2, <2>3, <2>4
<1>6. ASSUME conn' = "connected"
      PROVE  /\ Len(taken') = arrived'
             /\ \A i \in 1 .. Len(taken') : taken'[i] = Due(i, serverEncrypt')
  <2>1. Len(taken) = arrived /\ \A i \in 1 .. Len(taken) : taken[i] = Due(i, serverEncrypt)
    BY <1>1, <1>6 DEF TakenInv
  <2>2. taken'[Len(taken) + 1] = Due(Len(taken) + 1, serverEncrypt)
    BY <1>4, <2>1 DEF d
  <2>3. \A i \in 1 .. Len(taken') : i = Len(taken) + 1 \/ i \in 1 .. Len(taken)
    BY <1>4
  <2> QED
    BY <1>1, <1>4, <1>5, <2>1, <2>2, <2>3
<1> QED
  BY <1>4, <1>6 DEF TakenInv

\* What has arrived is the same once the server has handled a packet; whether the server
\* encrypts is decided when there is but the Login.
LEMMA HandledStaysTaken ==
    ASSUME LoginInv, LoginInv', TakenInv, ServerHandle
    PROVE  TakenInv'
<1>1. UNCHANGED <<written, pc, bufferedSend, up, conn, taken>>
  BY DEF ServerHandle, clientVars
<1>2. ASSUME conn = "connected" PROVE arrived' = arrived
  <2>1. n' = n /\ Unwritten' = Unwritten /\ conn' = "connected"
    BY <1>1, <1>2 DEF n, Unwritten
  <2>2. arrived + Len(up) = n - (IF Unwritten THEN 1 ELSE 0)
    BY <1>2 DEF LoginInv, UpInv
  <2>3. arrived' + Len(up) = n - (IF Unwritten THEN 1 ELSE 0)
    BY <1>1, <2>1 DEF LoginInv, UpInv
  <2>4. arrived \in Nat /\ arrived' \in Nat /\ Len(up) \in Nat
    <3>1. Taken(stage, serverEncrypt) \in Nat /\ Taken(stage', serverEncrypt') \in Nat
      <4>1. serverEncrypt' \in BOOLEAN /\ stage' \in Stages /\ Extra(serverEncrypt') \in {0, 1}
        BY ExtraIs DEF LoginInv, TypeInv
      <4> QED
        BY <4>1, TakenIs, NumbersAre DEF Stages
    <3>2. inbox \in Seq(FromClient) /\ inbox' \in Seq(FromClient) /\ up \in Seq(Batch)
      BY DEF LoginInv, TypeInv
    <3>3. Len(inbox) \in Nat /\ Len(inbox') \in Nat /\ Len(up) \in Nat
      BY <3>2
    <3>4. arrived' = Taken(stage', serverEncrypt') + Len(inbox')
      BY Zenon DEF arrived
    <3> QED
      BY <3>1, <3>3, <3>4 DEF arrived
  <2> QED
    BY <2>2, <2>3, <2>4
<1>3. ASSUME conn = "connected", NEW i \in 1 .. Len(taken)
      PROVE  Due(i, serverEncrypt') = Due(i, serverEncrypt)
  <2>1. CASE stage = "login"
    <3>1. n \in Nat /\ n <= 1 /\ serverEncrypt \in BOOLEAN /\ serverEncrypt' \in BOOLEAN
      BY <2>1 DEF LoginInv, StageInv, TypeInv, n
    <3>2. Len(taken) = arrived /\ arrived + Len(up) <= n /\ Len(up) \in Nat /\ Len(taken) \in Nat
      <4>1. Len(taken) = arrived /\ taken \in Seq(FromClient)
        BY <1>3 DEF TakenInv
      <4>2. arrived + Len(up) <= n /\ up \in Seq(Batch)
        BY DEF LoginInv, UpInv, TypeInv
      <4> QED
        BY <4>1, <4>2
    <3>3. i = 1
      BY <3>1, <3>2
    <3>4. Due(1, serverEncrypt) = Due(1, serverEncrypt')
      BY <3>1, DueIs
    <3> QED
      BY <3>3, <3>4
  <2>2. CASE stage # "login"
    BY <2>2 DEF ServerHandle
  <2> QED
    BY <2>1, <2>2
<1> QED
  BY <1>1, <1>2, <1>3 DEF TakenInv

\* The steps of the client leave what the server keeps alone.
LEMMA ClientSteps ==
    ASSUME Connect \/ FlushLoop \/ Listen \/ \E t \in Threads : Flush(t)
    PROVE  UNCHANGED serverVars /\ (conn' = "connected" => conn = "connected")
<1>1. CASE Connect \/ FlushLoop
  BY <1>1 DEF Connect, Connect_Login, Connect_Start, FlushLoop
<1>2. CASE Listen
  BY <1>2 DEF Listen, ListenLoop_Read, ListenLoop_NotConnected, ListenLoop_Next,
              HandleDisconnect, DeferPacket, HandleServerToClientHandshake, ReplyToHandshake,
              RefuseHandshake, HandleAndAnswer, HandleLoginFailed, HandleStartGame
<1>3. CASE \E t \in Threads : Flush(t)
  BY <1>3 DEF Flush, Flush_Lock, Flush_Encode, Flush_Write, Flush_Clear
<1> QED
  BY <1>1, <1>2, <1>3

LEMMA TakenStep == LoginInv /\ LoginInv' /\ TakenInv /\ [Next]_vars => TakenInv'
<1> SUFFICES ASSUME LoginInv, LoginInv', TakenInv, [Next]_vars PROVE TakenInv'
  OBVIOUS
<1>1. CASE Connect \/ FlushLoop \/ Listen \/ \E t \in Threads : Flush(t)
  BY <1>1, ClientSteps, TakenKept DEF serverVars
<1>2. CASE Server
  <2>1. CASE ServerNoise
    BY <2>1, TakenKept DEF ServerNoise, clientVars
  <2> QED
    BY <1>2, <2>1, TakesDue, HandledStaysTaken DEF Server
<1>3. CASE UNCHANGED vars
  BY <1>3, TakenKept DEF vars, clientVars, serverVars
<1> QED
  BY <1>1, <1>2, <1>3 DEF Next

LEMMA TakenInit == Init => TakenInv
<1> SUFFICES ASSUME Init PROVE TakenInv
  OBVIOUS
<1>1. taken = <<>> /\ inbox = <<>> /\ stage = "login"
  BY DEF Init
<1>2. arrived = 0 /\ Len(taken) = 0 /\ taken \in Seq(FromClient)
  BY <1>1 DEF arrived, Taken
<1> QED
  BY <1>2 DEF TakenInv

\* The packets of the client have their places at every step.
THEOREM WritesInvariant == Spec => [](DueInv /\ TakenInv)
<1>1. Init => DueInv
  BY DEF Init, DueInv, n
<1> QED
  BY <1>1, TakenInit, LoginInvariant, DueStep, TakenStep, PTL DEF Spec

\* What was taken, what is on the way up and what is in the buffer, one after the other.
LEMMA WholeOfWritten == LoginInv /\ DueInv /\ TakenInv => NothingLost
<1> SUFFICES ASSUME LoginInv, DueInv, TakenInv, conn = "connected"
             PROVE  written = taken \o PacketsOf(up) \o Unsent
  BY DEF NothingLost
<1> DEFINE q == taken \o PacketsOf(up) \o Unsent
<1>1. /\ n \in Nat /\ Len(taken) \in Nat /\ Len(up) \in Nat /\ arrived = Len(taken)
      /\ taken \in Seq(Packets) /\ written \in Seq(Packets) /\ Len(written) = n
      /\ \A i \in 1 .. Len(taken) : taken[i] = Due(i, serverEncrypt)
  <2>1. taken \in Seq(FromClient) /\ written \in Seq(FromClient) /\ up \in Seq(Batch)
    BY DEF LoginInv, TypeInv, TakenInv
  <2>2. taken \in Seq(Packets) /\ written \in Seq(Packets)
    BY <2>1 DEF Packets
  <2> QED
    BY <2>1, <2>2 DEF TakenInv, n
<1>3. /\ PacketsOf(up) \in Seq(Packets) /\ Len(PacketsOf(up)) = Len(up)
      /\ \A i \in 1 .. Len(up) : PacketsOf(up)[i] = Due(arrived + i, serverEncrypt)
  BY PacketsUp
<1>4. /\ Unsent \in Seq(Packets)
      /\ Len(taken) + Len(up) + Len(Unsent) = n
      /\ \A i \in 1 .. Len(Unsent) : i = 1 /\ Unsent[i] = Due(n, serverEncrypt)
  <2>1. arrived + Len(up) = n - (IF Unwritten THEN 1 ELSE 0)
    BY DEF LoginInv, UpInv
  <2>2. CASE Unwritten
    <3>1. Unsent = <<Due(n, serverEncrypt)>> /\ Unsent \in Seq(Packets)
      BY <2>2, UnsentIs
    <3>2. Len(Unsent) = 1 /\ Unsent[1] = Due(n, serverEncrypt)
      BY <3>1
    <3>3. arrived + Len(up) = n - 1
      BY <2>1, <2>2
    <3> QED
      BY <1>1, <3>1, <3>2, <3>3
  <2>3. CASE ~Unwritten
    <3>1. Unsent = <<>> /\ Unsent \in Seq(Packets) /\ Len(Unsent) = 0
      BY <2>3, UnsentIs
    <3>2. arrived + Len(up) = n - 0
      BY <2>1, <2>3
    <3> QED
      BY <1>1, <3>1, <3>2
  <2> QED
    BY <2>2, <2>3
<1>5. /\ q \in Seq(Packets) /\ Len(q) = Len(taken) + Len(up) + Len(Unsent)
      /\ \A i \in 1 .. Len(taken) : q[i] = taken[i]
      /\ \A i \in 1 .. Len(up) : q[Len(taken) + i] = PacketsOf(up)[i]
      /\ \A i \in 1 .. Len(Unsent) : q[Len(taken) + Len(up) + i] = Unsent[i]
  <2>1. PICK b \in Seq(Packets) : b = PacketsOf(up)
    BY <1>3
  <2>2. PICK c \in Seq(Packets) : c = Unsent
    BY <1>4
  <2>3. /\ taken \o b \o c \in Seq(Packets)
        /\ Len(taken \o b \o c) = Len(taken) + Len(b) + Len(c)
        /\ \A i \in 1 .. Len(taken) : (taken \o b \o c)[i] = taken[i]
        /\ \A i \in 1 .. Len(b) : (taken \o b \o c)[Len(taken) + i] = b[i]
        /\ \A i \in 1 .. Len(c) : (taken \o b \o c)[Len(taken) + Len(b) + i] = c[i]
    <3>1. taken \in Seq(Packets)
      BY <1>1
    <3> QED
      BY <3>1, ThreeParts
  <2>4. q = taken \o b \o c /\ Len(b) = Len(up)
    BY <1>3, <2>1, <2>2
  <2> HIDE DEF q
  <2> QED
    BY <2>1, <2>2, <2>3, <2>4
<1> HIDE DEF q
<1>6. Len(Unsent) \in Nat
  BY <1>4
<1>7. ASSUME NEW i \in 1 .. n PROVE q[i] = Due(i, serverEncrypt)
  <2>1. CASE i <= Len(taken)
    <3>1. i \in 1 .. Len(taken)
      BY <2>1
    <3> QED
      BY <1>1, <1>5, <3>1
  <2>2. CASE i > Len(taken) /\ i <= Len(taken) + Len(up)
    <3>1. PICK j \in 1 .. Len(up) : i = Len(taken) + j
      <4>1. i - Len(taken) \in 1 .. Len(up) /\ i = Len(taken) + (i - Len(taken))
        BY <1>1, <2>2
      <4> QED
        BY <4>1
    <3> QED
      BY <1>1, <1>3, <1>5, <3>1
  <2>3. CASE i > Len(taken) + Len(up)
    <3>1. PICK j \in 1 .. Len(Unsent) : i = Len(taken) + Len(up) + j
      <4>1. /\ i - (Len(taken) + Len(up)) \in 1 .. Len(Unsent)
            /\ i = Len(taken) + Len(up) + (i - (Len(taken) + Len(up)))
        BY <1>1, <1>4, <1>6, <2>3
      <4> QED
        BY <4>1
    <3>2. j = 1 /\ Unsent[j] = Due(n, serverEncrypt)
      BY <1>4, <3>1
    <3>3. i = n
      BY <1>1, <1>4, <1>6, <3>1, <3>2
    <3> QED
      BY <1>5, <3>1, <3>2, <3>3
  <2> QED
    BY <1>1, <2>1, <2>2, <2>3
<1>8. Len(q) = Len(written)
  BY <1>1, <1>4, <1>5
<1>9. \A i \in 1 .. Len(written) : written[i] = q[i]
  BY <1>1, <1>7 DEF DueInv
<1>10. written = q
  BY <1>1, <1>5, <1>8, <1>9, SameSequence
<1> QED
  BY <1>10 DEF q

\* WritePacket and flush of three threads: as long as the connection is up, what was
\* written is what the server has taken, then what is on its way, then what is in the
\* buffer, in this order and once, for any replies and any noise.
THEOREM NothingIsLost == ConnectSpec => []NothingLost
  BY WritesInvariant, ConnectLogsIn, LoginInvariant, WholeOfWritten, PTL

--------------------------------------------------------------------------------
(* Nothing that was sent is forgotten.                                      *)

\* Every packet the server sent has a place; listenLoop reads a batch once it has
\* handled the one before.
HistoryInv ==
    /\ sent \in Seq(FromServer) /\ handled \in Seq(FromServer)
    /\ deferredPackets \in Seq(FromServer)
    /\ pc["listen"] \in {"off", "read"} => packets = <<>>

Times(p, s) == Cardinality(PlacesOf(p, s))

HeldInv ==
    conn = "connected" /\ pc["listen"] # "closed" =>
       \A p \in FromServer :
          Times(p, sent) = Times(p, handled) + Times(p, deferredPackets) + Times(p, packets)
                              + Times(p, PacketsOf(down))

LEMMA TimesOf ==
    ASSUME NEW p, NEW s \in Seq(Packets)
    PROVE  Times(p, s) \in Nat
  BY PlacesFinite DEF Times

LEMMA TimesConcat ==
    ASSUME NEW p, NEW s \in Seq(Packets), NEW t \in Seq(Packets)
    PROVE  Times(p, s \o t) = Times(p, s) + Times(p, t)
  BY PlacesConcat DEF Times

\* The first packet of some, put behind others.
LEMMA TimesMove ==
    ASSUME NEW p, NEW s \in Seq(Packets), NEW t \in Seq(Packets), s # <<>>
    PROVE  Times(p, Append(t, Head(s))) + Times(p, Tail(s)) = Times(p, t) + Times(p, s)
<1>1. PICK h \in Packets, r \in Seq(Packets) :
         h = Head(s) /\ r = Tail(s) /\ s = <<h>> \o r /\ Append(t, h) = t \o <<h>>
  <2>1. /\ Head(s) \in Packets /\ Tail(s) \in Seq(Packets) /\ s = <<Head(s)>> \o Tail(s)
        /\ Append(t, Head(s)) = t \o <<Head(s)>>
    OBVIOUS
  <2> QED
    BY <2>1, Zenon
<1>2. <<h>> \in Seq(Packets)
  OBVIOUS
<1>3. Times(p, <<h>> \o r) = Times(p, <<h>>) + Times(p, r)
  BY <1>2, TimesConcat
<1>4. Times(p, t \o <<h>>) = Times(p, t) + Times(p, <<h>>)
  BY <1>2, TimesConcat
<1>5. Times(p, t) \in Nat /\ Times(p, r) \in Nat /\ Times(p, <<h>>) \in Nat
  BY <1>2, TimesOf
<1>6. /\ Times(p, s) = Times(p, <<h>>) + Times(p, r) /\ Times(p, Tail(s)) = Times(p, r)
      /\ Times(p, Append(t, Head(s))) = Times(p, t) + Times(p, <<h>>)
  BY <1>1, <1>3, <1>4, Zenon
<1> DEFINE a == Times(p, t)
           b == Times(p, r)
           c == Times(p, <<h>>)
<1>7. (a + c) + b = a + (c + b)
  <2>1. a \in Nat /\ b \in Nat /\ c \in Nat
    BY <1>5
  <2> HIDE DEF a, b, c
  <2> QED
    BY <2>1
<1> QED
  BY <1>6, <1>7, Zenon

\* The packets of a batch, as part of those of several.
LEMMA PacketsOfIs ==
    ASSUME NEW s \in Seq(Batch)
    PROVE  /\ [i \in DOMAIN s |-> s[i].packets] \in Seq(Seq(Packets))
           /\ PacketsOf(s) \in Seq(Packets)
<1> DEFINE r == [i \in DOMAIN s |-> s[i].packets]
<1>1. \A i \in 1 .. Len(s) : s[i].packets \in Seq(Packets)
  <2>1. \A b \in Batch : b.packets \in Seq(Packets)
    BY DEF Batch, Packets
  <2> QED
    BY <2>1
<1>2. r \in Seq(Seq(Packets))
  BY <1>1
<1> HIDE DEF r
<1>3. FlattenSeq(r) \in Seq(Packets)
  BY <1>2, FlattenType
<1> QED
  BY <1>2, <1>3 DEF PacketsOf, r

\* The sequences of packets of batches, by number.
LEMMA EachPackets ==
    ASSUME NEW s \in Seq(Batch)
    PROVE  \E r \in Seq(Seq(Packets)) :
              /\ r = [i \in DOMAIN s |-> s[i].packets] /\ Len(r) = Len(s)
              /\ \A i \in 1 .. Len(s) : r[i] = s[i].packets
              /\ PacketsOf(s) = FlattenSeq(r)
<1> DEFINE r == [i \in DOMAIN s |-> s[i].packets]
<1>1. r \in Seq(Seq(Packets)) /\ PacketsOf(s) = FlattenSeq(r)
  BY PacketsOfIs DEF PacketsOf
<1>2. Len(r) = Len(s) /\ \A i \in 1 .. Len(s) : r[i] = s[i].packets
  OBVIOUS
<1> QED
  BY <1>1, <1>2

LEMMA PacketsOfConcat ==
    ASSUME NEW s \in Seq(Batch), NEW t \in Seq(Batch)
    PROVE  PacketsOf(s \o t) = PacketsOf(s) \o PacketsOf(t)
<1>1. PICK a \in Seq(Seq(Packets)) : /\ Len(a) = Len(s) /\ PacketsOf(s) = FlattenSeq(a)
                                     /\ \A i \in 1 .. Len(s) : a[i] = s[i].packets
  BY EachPackets
<1>2. PICK b \in Seq(Seq(Packets)) : /\ Len(b) = Len(t) /\ PacketsOf(t) = FlattenSeq(b)
                                     /\ \A i \in 1 .. Len(t) : b[i] = t[i].packets
  BY EachPackets
<1>3. /\ s \o t \in Seq(Batch) /\ Len(s \o t) = Len(s) + Len(t)
      /\ \A i \in 1 .. Len(s) : (s \o t)[i] = s[i]
      /\ \A i \in 1 .. Len(t) : (s \o t)[Len(s) + i] = t[i]
      /\ Len(s) \in Nat /\ Len(t) \in Nat
  BY ConcatProperties
<1>4. PICK c \in Seq(Seq(Packets)) :
         /\ Len(c) = Len(s \o t) /\ PacketsOf(s \o t) = FlattenSeq(c)
         /\ \A i \in 1 .. Len(s \o t) : c[i] = (s \o t)[i].packets
  BY <1>3, EachPackets
<1>5. /\ a \o b \in Seq(Seq(Packets)) /\ Len(a \o b) = Len(a) + Len(b)
      /\ \A i \in 1 .. Len(a) : (a \o b)[i] = a[i]
      /\ \A i \in 1 .. Len(b) : (a \o b)[Len(a) + i] = b[i]
  BY ConcatProperties
<1>6. ASSUME NEW i \in 1 .. Len(c) PROVE c[i] = (a \o b)[i]
  <2>1. CASE i \in 1 .. Len(s)
    <3>1. c[i] = s[i].packets
      BY <1>3, <1>4, <2>1
    <3>2. (a \o b)[i] = a[i] /\ a[i] = s[i].packets
      BY <1>1, <1>5, <2>1
    <3> QED
      BY <3>1, <3>2
  <2>2. CASE i \notin 1 .. Len(s)
    <3>1. PICK j \in 1 .. Len(t) : i = Len(s) + j
      <4>1. i - Len(s) \in 1 .. Len(t) /\ i = Len(s) + (i - Len(s))
        BY <1>3, <1>4, <2>2
      <4> QED
        BY <4>1
    <3>2. c[i] = t[j].packets
      BY <1>3, <1>4, <3>1
    <3>3. (a \o b)[i] = b[j]
      BY <1>1, <1>2, <1>5, <3>1
    <3> QED
      BY <1>2, <3>2, <3>3
  <2> QED
    BY <2>1, <2>2
<1>7. c = a \o b
  <2>1. Len(c) = Len(a \o b)
    BY <1>1, <1>2, <1>3, <1>4, <1>5
  <2> QED
    BY <1>5, <1>6, <2>1, SeqEqual
<1>8. FlattenSeq(a \o b) = FlattenSeq(a) \o FlattenSeq(b)
  BY FlattenConcat
<1> QED
  BY <1>1, <1>2, <1>4, <1>7, <1>8

LEMMA PacketsOfHead ==
    ASSUME NEW s \in Seq(Batch), s # <<>>
    PROVE  /\ PacketsOf(s) = Head(s).packets \o PacketsOf(Tail(s))
           /\ Head(s).packets \in Seq(Packets) /\ Tail(s) \in Seq(Batch)
<1> DEFINE P(b) == [i \in DOMAIN b |-> b[i].packets]
<1>1. Tail(s) \in Seq(Batch) /\ Head(s) \in Batch
  OBVIOUS
<1>2. P(s) \in Seq(Seq(Packets)) /\ P(s) # <<>>
  BY PacketsOfIs
<1>3. Head(P(s)) = Head(s).packets /\ Tail(P(s)) = P(Tail(s))
  OBVIOUS
<1>4. FlattenSeq(P(s)) = Head(P(s)) \o FlattenSeq(Tail(P(s)))
  <2> HIDE DEF P
  <2> QED
    BY <1>2, FlattenHead
<1>5. Head(s).packets \in Seq(Packets)
  BY <1>1 DEF Batch, Packets
<1> QED
  BY <1>1, <1>3, <1>4, <1>5 DEF PacketsOf

LEMMA InPackets == Seq(FromServer) \subseteq Seq(Packets) /\ Seq(FromClient) \subseteq Seq(Packets)
  BY DEF Packets

\* The sequences the packets of the server are counted in.
LEMMA HeldIn ==
    ASSUME LoginInv, HistoryInv
    PROVE  /\ sent \in Seq(Packets) /\ handled \in Seq(Packets)
           /\ deferredPackets \in Seq(Packets) /\ packets \in Seq(Packets)
           /\ down \in Seq(Batch) /\ PacketsOf(down) \in Seq(Packets)
           /\ \A p : /\ Times(p, sent) \in Nat /\ Times(p, handled) \in Nat
                     /\ Times(p, deferredPackets) \in Nat /\ Times(p, packets) \in Nat
                     /\ Times(p, PacketsOf(down)) \in Nat
<1>1. down \in Seq(Batch) /\ packets \in Seq(FromServer)
  BY DEF LoginInv, TypeInv
<1>2. /\ sent \in Seq(Packets) /\ handled \in Seq(Packets)
      /\ deferredPackets \in Seq(Packets) /\ packets \in Seq(Packets)
  BY <1>1, InPackets DEF HistoryInv
<1>3. PacketsOf(down) \in Seq(Packets)
  BY <1>1, PacketsOfIs
<1> QED
  BY <1>1, <1>2, <1>3, TimesOf

LEMMA HeldKept ==
    ASSUME HeldInv, HistoryInv, UNCHANGED <<sent, handled, deferredPackets, packets, down>>,
           conn' = "connected" => conn = "connected",
           pc["listen"] = "closed" => pc'["listen"] = "closed",
           pc'["listen"] \in {"off", "read"} => packets = <<>>
    PROVE  HeldInv' /\ HistoryInv'
  BY DEF HeldInv, HistoryInv, PacketsOf

\* listenLoop takes the next packet, to handle it or to keep it for later.
LEMMA TakeHolds ==
    ASSUME LoginInv, HeldInv, HistoryInv, packets # <<>>, packets' = Tail(packets),
           pc["listen"] = "receive", pc'["listen"] \notin {"off", "read"},
           conn' = "connected" => conn = "connected", UNCHANGED <<sent, down>>,
           \/ handled' = Append(handled, Head(packets)) /\ UNCHANGED deferredPackets
           \/ deferredPackets' = Append(deferredPackets, Head(packets)) /\ UNCHANGED handled
    PROVE  HeldInv' /\ HistoryInv'
<1>1. Head(packets) \in FromServer
  BY NextPacket
<1>2. HistoryInv'
  <2>1. handled' \in Seq(FromServer) /\ deferredPackets' \in Seq(FromServer)
    <3>1. \A s \in Seq(FromServer) : Append(s, Head(packets)) \in Seq(FromServer)
      BY <1>1
    <3> QED
      BY <3>1 DEF HistoryInv
  <2> QED
    BY <2>1 DEF HistoryInv
<1>3. ASSUME conn' = "connected", NEW p \in FromServer
      PROVE  Times(p, sent) = Times(p, handled') + Times(p, deferredPackets')
                                + Times(p, packets') + Times(p, PacketsOf(down))
  <2>1. /\ Times(p, sent) = Times(p, handled) + Times(p, deferredPackets) + Times(p, packets)
                                + Times(p, PacketsOf(down))
    BY <1>3 DEF HeldInv
  <2>2. /\ Times(p, handled) \in Nat /\ Times(p, deferredPackets) \in Nat
        /\ Times(p, packets) \in Nat /\ Times(p, PacketsOf(down)) \in Nat
        /\ handled \in Seq(Packets) /\ deferredPackets \in Seq(Packets)
        /\ packets \in Seq(Packets)
    BY HeldIn
  <2>3. Times(p, packets') \in Nat
    BY NextPacket, InPackets, TimesOf
  <2>4. CASE handled' = Append(handled, Head(packets)) /\ UNCHANGED deferredPackets
    <3>1. Times(p, handled') + Times(p, packets') = Times(p, handled) + Times(p, packets)
      BY <2>2, <2>4, TimesMove
    <3>2. Times(p, handled') \in Nat
      <4>1. handled' \in Seq(Packets)
        BY <1>2, InPackets DEF HistoryInv
      <4> QED
        BY <4>1, TimesOf
    <3>3. Times(p, deferredPackets') = Times(p, deferredPackets)
      BY <2>4
    <3>4. Times(p, handled) + Times(p, deferredPackets) + Times(p, packets)
                                                        + Times(p, PacketsOf(down))
             = Times(p, handled') + Times(p, deferredPackets') + Times(p, packets')
                                                              + Times(p, PacketsOf(down))
      <4> DEFINE a == Times(p, handled)
                 b == Times(p, deferredPackets)
                 c == Times(p, packets)
                 d == Times(p, PacketsOf(down))
                 x == Times(p, handled')
                 y == Times(p, packets')
      <4>1. /\ a \in Nat /\ b \in Nat /\ c \in Nat /\ d \in Nat /\ x \in Nat /\ y \in Nat
            /\ x + y = a + c
        BY <2>2, <2>3, <3>1, <3>2
      <4> HIDE DEF a, b, c, d, x, y
      <4>2. a + b + c + d = x + b + y + d /\ b + a + c + d = b + x + y + d
        BY <4>1
      <4> QED
        BY <3>3, <4>2, Zenon DEF a, b, c, d, x, y
    <3> QED
      BY <2>1, <3>4, Zenon
  <2>5. CASE deferredPackets' = Append(deferredPackets, Head(packets)) /\ UNCHANGED handled
    <3>1. Times(p, deferredPackets') + Times(p, packets')
             = Times(p, deferredPackets) + Times(p, packets)
      BY <2>2, <2>5, TimesMove
    <3>2. Times(p, deferredPackets') \in Nat
      <4>1. deferredPackets' \in Seq(Packets)
        BY <1>2, InPackets DEF HistoryInv
      <4> QED
        BY <4>1, TimesOf
    <3>3. Times(p, handled') = Times(p, handled)
      BY <2>5
    <3>4. Times(p, handled) + Times(p, deferredPackets) + Times(p, packets)
                                                        + Times(p, PacketsOf(down))
             = Times(p, handled') + Times(p, deferredPackets') + Times(p, packets')
                                                              + Times(p, PacketsOf(down))
      <4> DEFINE a == Times(p, deferredPackets)
                 b == Times(p, handled)
                 c == Times(p, packets)
                 d == Times(p, PacketsOf(down))
                 x == Times(p, deferredPackets')
                 y == Times(p, packets')
      <4>1. /\ a \in Nat /\ b \in Nat /\ c \in Nat /\ d \in Nat /\ x \in Nat /\ y \in Nat
            /\ x + y = a + c
        BY <2>2, <2>3, <3>1, <3>2
      <4> HIDE DEF a, b, c, d, x, y
      <4>2. a + b + c + d = x + b + y + d /\ b + a + c + d = b + x + y + d
        BY <4>1
      <4> QED
        BY <3>3, <4>2, Zenon DEF a, b, c, d, x, y
    <3> QED
      BY <2>1, <3>4, Zenon
  <2> QED
    BY <2>4, <2>5
<1>4. PacketsOf(down)' = PacketsOf(down) /\ sent' = sent
  BY DEF PacketsOf
<1> QED
  BY <1>2, <1>3, <1>4 DEF HeldInv

LEMMA ReadHolds ==
    ASSUME LoginInv, HeldInv, HistoryInv, ListenLoop_Read
    PROVE  HeldInv' /\ HistoryInv'
<1>1. /\ pc["listen"] = "read" /\ conn = "connected" /\ down # <<>> /\ down' = Tail(down)
      /\ Goto("listen", "receive") /\ packets' = Head(down).packets
      /\ UNCHANGED <<sent, handled, deferredPackets, conn>>
  BY NextDecodes DEF ListenLoop_Read, serverVars
<1>2. pc'["listen"] = "receive" /\ packets = <<>>
  BY <1>1 DEF LoginInv, TypeInv, Goto, Threads, HistoryInv
<1>3. HistoryInv'
  BY <1>1, <1>2 DEF HistoryInv
<1>4. /\ down \in Seq(Batch) /\ PacketsOf(down) = Head(down).packets \o PacketsOf(Tail(down))
      /\ Head(down).packets \in Seq(Packets) /\ PacketsOf(Tail(down)) \in Seq(Packets)
  BY <1>1, PacketsOfHead, PacketsOfIs DEF LoginInv, TypeInv
<1>5. ASSUME NEW p \in FromServer
      PROVE  Times(p, sent) = Times(p, handled) + Times(p, deferredPackets)
                                + Times(p, packets') + Times(p, PacketsOf(down)')
  <2>1. /\ Times(p, sent) = Times(p, handled) + Times(p, deferredPackets) + Times(p, packets)
                                + Times(p, PacketsOf(down))
    BY <1>1 DEF HeldInv
  <2>2. Times(p, packets) = 0
    BY <1>2, FS_EmptySet DEF Times, PlacesOf
  <2>3. Times(p, PacketsOf(down)) = Times(p, packets') + Times(p, PacketsOf(Tail(down)))
    BY <1>1, <1>4, TimesConcat
  <2>4. PacketsOf(down)' = PacketsOf(Tail(down))
    BY <1>1 DEF PacketsOf
  <2>5. /\ Times(p, handled) \in Nat /\ Times(p, deferredPackets) \in Nat
        /\ Times(p, packets') \in Nat /\ Times(p, PacketsOf(Tail(down))) \in Nat
    BY <1>1, <1>4, HeldIn, TimesOf
  <2> QED
    BY <2>1, <2>2, <2>3, <2>4, <2>5
<1> QED
  BY <1>1, <1>3, <1>5 DEF HeldInv

\* What the server sends is on the way down.
LEMMA SendHolds ==
    ASSUME LoginInv, LoginInv', HeldInv, HistoryInv, NEW B \in Seq(Seq(FromServer)),
           ServerSends(B), UNCHANGED clientVars
    PROVE  HeldInv' /\ HistoryInv'
<1> DEFINE more == [i \in 1 .. Len(B) |->
                       [packets |-> B[i], encrypted |-> serverEncrypt,
                        counter |-> IF serverEncrypt THEN serverCounter + i - 1 ELSE 0]]
<1>1. /\ down' = down \o more /\ sent' = sent \o FlattenSeq(B)
      /\ UNCHANGED <<handled, deferredPackets, packets, conn, pc>>
  BY DEF ServerSends, clientVars
<1>2. more \in Seq(Batch) /\ PacketsOf(more) = FlattenSeq(B)
  <2>1. /\ serverEncrypt \in BOOLEAN /\ serverCounter \in Nat
        /\ Len(B) \in Nat /\ \A i \in 1 .. Len(B) : B[i] \in Seq(FromServer)
    <3>1. serverEncrypt \in BOOLEAN /\ serverCounter \in Nat
      BY DEF LoginInv, TypeInv
    <3>2. Len(B) \in Nat /\ \A i \in 1 .. Len(B) : B[i] \in Seq(FromServer)
      OBVIOUS
    <3> QED
      BY <3>1, <3>2
  <2>2. \A i \in 1 .. Len(B) : more[i] \in Batch
    BY <2>1 DEF Batch
  <2>3. more \in Seq(Batch)
    BY <2>1, <2>2
  <2>4. [i \in DOMAIN more |-> more[i].packets] = B
    BY <2>1
  <2> QED
    BY <2>3, <2>4 DEF PacketsOf
<1> HIDE DEF more
<1>3. FlattenSeq(B) \in Seq(FromServer) /\ FlattenSeq(B) \in Seq(Packets)
  BY FlattenType, InPackets
<1>4. HistoryInv'
  BY <1>1, <1>3 DEF HistoryInv
<1>5. PacketsOf(down)' = PacketsOf(down) \o FlattenSeq(B)
  <2>1. PacketsOf(down \o more) = PacketsOf(down) \o PacketsOf(more)
    BY <1>2, PacketsOfConcat DEF LoginInv, TypeInv
  <2>2. PacketsOf(down)' = PacketsOf(down \o more)
    BY <1>1 DEF PacketsOf
  <2> QED
    BY <1>2, <2>1, <2>2
<1>6. ASSUME conn = "connected", pc["listen"] # "closed", NEW p \in FromServer
      PROVE  Times(p, sent') = Times(p, handled) + Times(p, deferredPackets)
                                 + Times(p, packets) + Times(p, PacketsOf(down)')
  <2>1. /\ Times(p, sent) = Times(p, handled) + Times(p, deferredPackets) + Times(p, packets)
                                + Times(p, PacketsOf(down))
    BY <1>6 DEF HeldInv
  <2>2. /\ Times(p, sent') = Times(p, sent) + Times(p, FlattenSeq(B))
        /\ Times(p, PacketsOf(down)') = Times(p, PacketsOf(down)) + Times(p, FlattenSeq(B))
    BY <1>1, <1>3, <1>5, HeldIn, TimesConcat
  <2>3. /\ Times(p, handled) \in Nat /\ Times(p, deferredPackets) \in Nat
        /\ Times(p, packets) \in Nat /\ Times(p, PacketsOf(down)) \in Nat
        /\ Times(p, FlattenSeq(B)) \in Nat /\ Times(p, sent) \in Nat
    BY <1>3, HeldIn, TimesOf
  <2> QED
    BY <2>1, <2>2, <2>3
<1> QED
  BY <1>1, <1>4, <1>6 DEF HeldInv

LEMMA ServerHolds ==
    ASSUME LoginInv, LoginInv', HeldInv, HistoryInv, Server
    PROVE  HeldInv' /\ HistoryInv'
<1>1. UNCHANGED clientVars
  BY DEF Server, ServerTake, ServerHandle, ServerNoise
<1>2. CASE UNCHANGED <<down, sent>>
  BY <1>1, <1>2, HeldKept DEF clientVars, HistoryInv
<1>3. CASE \E B \in Seq(Seq(FromServer)) : ServerSends(B)
  BY <1>1, <1>3, SendHolds
<1>4. UNCHANGED <<down, sent>> \/ \E B \in Seq(Seq(FromServer)) : ServerSends(B)
  <2>1. \A B \in Welcome : B \in Seq(Seq(FromServer))
    BY WelcomeIs
  <2>2. \A p \in FromServer : <<<<p>>>> \in Seq(Seq(FromServer))
    BY PairOf
  <2>3. <<<<"StartGame">>, <<"PlayerSpawn">>>> \in Seq(Seq(FromServer))
    BY PairOf DEF FromServer
  <2>4. CASE ServerTake
    BY <2>4 DEF ServerTake
  <2>5. CASE ServerNoise
    BY <2>2, <2>5 DEF ServerNoise, FromServer
  <2>6. CASE ServerHandle
    <3>1. ASSUME NEW reply \in Replies, ServerAnswersLogin(reply)
          PROVE  \E B \in Seq(Seq(FromServer)) : ServerSends(B)
      <4>1. reply \in {"secure", "plain", "refuse", "forge"}
        BY ReplyAssumption
      <4> QED
        BY <2>1, <2>2, <3>1, <4>1 DEF ServerAnswersLogin, FromServer
    <3>2. CASE stage = "login"
      BY <2>6, <3>1, <3>2 DEF ServerHandle
    <3>3. CASE stage # "login"
      BY <2>1, <2>2, <2>3, <2>6, <3>3 DEF ServerHandle, FromServer
    <3> QED
      BY <3>2, <3>3
  <2> QED
    BY <2>4, <2>5, <2>6 DEF Server
<1> QED
  BY <1>2, <1>3, <1>4

LEMMA HeldStep ==
    LoginInv /\ LoginInv' /\ HeldInv /\ HistoryInv /\ [Next]_vars => HeldInv' /\ HistoryInv'
<1> SUFFICES ASSUME LoginInv, LoginInv', HeldInv, HistoryInv, [Next]_vars
             PROVE  HeldInv' /\ HistoryInv'
  OBVIOUS
<1>0. pc \in [Threads -> Labels]
  BY DEF LoginInv, TypeInv
<1>1. CASE Connect
  <2>1. CASE Connect_Login
    <3>1. pc'["listen"] = pc["listen"]
      BY <1>0, <2>1 DEF Connect_Login, Goto, Threads
    <3> QED
      BY <2>1, <3>1, HeldKept DEF Connect_Login, serverVars, HistoryInv
  <2>2. CASE Connect_Start
    <3>1. pc["listen"] = "off" /\ pc'["listen"] = "read"
      BY <2>2 DEF Connect_Start, LoginInv, ThreadsInv
    <3> QED
      BY <2>2, <3>1, HeldKept DEF Connect_Start, serverVars, HistoryInv
  <2> QED
    BY <1>1, <2>1, <2>2 DEF Connect
<1>2. CASE FlushLoop
  <2>1. pc'["listen"] = pc["listen"]
    BY <1>0, <1>2 DEF FlushLoop, Goto, Threads
  <2> QED
    BY <1>2, <2>1, HeldKept DEF FlushLoop, serverVars, HistoryInv
<1>3. CASE Listen
  <2>1. CASE ListenLoop_Read
    BY <2>1, ReadHolds
  <2>2. CASE ListenLoop_NotConnected \/ ListenLoop_Next
    BY <1>0, <2>2, HeldKept
       DEF ListenLoop_NotConnected, ListenLoop_Next, Goto, Threads, serverVars, HistoryInv
  <2>3. CASE ReplyToHandshake
    BY <1>0, <2>3, HeldKept DEF ReplyToHandshake, Goto, Threads, serverVars, HistoryInv
  <2>4. CASE HandleDisconnect
    BY <2>4 DEF HandleDisconnect, Receives, serverVars, HistoryInv, HeldInv
  <2>5. CASE DeferPacket
    BY <2>5, TakeHolds DEF DeferPacket, Receives, serverVars
  <2>6. CASE HandleServerToClientHandshake \/ RefuseHandshake
    BY <1>0, <2>6, TakeHolds
       DEF HandleServerToClientHandshake, RefuseHandshake, Handles, Receives, Goto, Threads,
           serverVars
  <2>7. CASE HandleAndAnswer
    BY <1>0, <2>7, TakeHolds DEF HandleAndAnswer, Handles, Receives, Goto, Threads, serverVars
  <2>8. CASE HandleLoginFailed \/ HandleStartGame
    BY <1>0, <2>8, TakeHolds
       DEF HandleLoginFailed, HandleStartGame, Handles, Receives, Goto, Threads, serverVars
  <2> QED
    BY <1>3, <2>1, <2>2, <2>3, <2>4, <2>5, <2>6, <2>7, <2>8 DEF Listen
<1>4. CASE Server
  BY <1>4, ServerHolds
<1>5. CASE \E t \in Threads : Flush(t)
  <2>1. PICK t \in Threads : Flush(t)
    BY <1>5
  <2>2. /\ UNCHANGED <<sent, handled, deferredPackets, packets, down, conn>>
        /\ pc[t] \in {"lock", "encode", "write", "clear"}
        /\ Goto(t, "encode") \/ Goto(t, "write") \/ Goto(t, "clear") \/ Goto(t, Return(t))
    BY <2>1 DEF Flush, Flush_Lock, Flush_Encode, Flush_Write, Flush_Clear, serverVars
  <2>3. pc["listen"] = "closed" => pc'["listen"] = "closed"
    BY <1>0, <2>2 DEF Goto, Threads
  <2>4. pc'["listen"] \in {"off", "read"} => pc'["listen"] = pc["listen"]
    BY <1>0, <2>2 DEF Goto, Threads, Return
  <2> QED
    BY <2>2, <2>3, <2>4, HeldKept DEF HistoryInv
<1>6. CASE UNCHANGED vars
  BY <1>6, HeldKept DEF vars, clientVars, serverVars, HistoryInv
<1> QED
  BY <1>1, <1>2, <1>3, <1>4, <1>5, <1>6 DEF Next

LEMMA HeldNotForgotten == LoginInv /\ HistoryInv /\ HeldInv => NothingForgotten
<1> SUFFICES ASSUME LoginInv, HistoryInv, HeldInv,
                    conn = "connected", pc["listen"] # "closed", NEW p \in FromServer
             PROVE  Occurrences(p, sent) =
                       Occurrences(p, handled \o deferredPackets \o packets \o PacketsOf(down))
  BY DEF NothingForgotten
<1>1. \A s : Occurrences(p, s) = Times(p, s)
  BY DEF Occurrences, Times, PlacesOf
<1>2. PICK a \in Seq(Packets), b \in Seq(Packets), c \in Seq(Packets), d \in Seq(Packets) :
         a = handled /\ b = deferredPackets /\ c = packets /\ d = PacketsOf(down)
  BY HeldIn
<1>3. a \o b \in Seq(Packets) /\ a \o b \o c \in Seq(Packets)
  OBVIOUS
<1>4. /\ Times(p, a \o b) = Times(p, a) + Times(p, b)
      /\ Times(p, a \o b \o c) = Times(p, a \o b) + Times(p, c)
      /\ Times(p, a \o b \o c \o d) = Times(p, a \o b \o c) + Times(p, d)
  BY <1>3, TimesConcat
<1>5. Times(p, sent) = Times(p, a) + Times(p, b) + Times(p, c) + Times(p, d)
  BY <1>2 DEF HeldInv
<1> QED
  BY <1>1, <1>2, <1>4, <1>5

\* The packets of the server have their places at every step.
THEOREM HistoryInvariant == Spec => [](HeldInv /\ HistoryInv)
<1>1. Init => HeldInv /\ HistoryInv
  <2> SUFFICES ASSUME Init PROVE HeldInv /\ HistoryInv
    OBVIOUS
  <2>1. /\ sent = <<>> /\ handled = <<>> /\ deferredPackets = <<>> /\ packets = <<>>
        /\ down = <<>>
    BY DEF Init
  <2>2. PacketsOf(down) = <<>>
    BY <2>1, FlattenEmpty DEF PacketsOf
  <2>3. \A p : Times(p, <<>>) = 0
    BY FS_EmptySet DEF Times, PlacesOf
  <2> QED
    BY <2>1, <2>2, <2>3 DEF HeldInv, HistoryInv
<1> QED
  BY <1>1, LoginInvariant, HeldStep, PTL DEF Spec

\* handlePacket: while the client listens, each packet the server sent is handled,
\* deferred or still to come, exactly once, however the server batches its packets.
THEOREM NothingIsForgotten == ConnectSpec => []NothingForgotten
  BY HistoryInvariant, ConnectLogsIn, LoginInvariant, HeldNotForgotten, PTL

--------------------------------------------------------------------------------
(* Every variable keeps its type.                                           *)

\* What LoginInv and HistoryInv do not say.
ConnInv == conn \in {"connected", "stopped"} /\ noise \in 0 .. MaxNoise

LEMMA ConnStep == ConnInv /\ [Next]_vars => ConnInv'
<1> SUFFICES ASSUME ConnInv, [Next]_vars PROVE ConnInv'
  OBVIOUS
<1>1. CASE UNCHANGED <<conn, noise>>
  BY <1>1 DEF ConnInv
<1>2. CASE ServerNoise
  BY <1>2, ReplyAssumption DEF ServerNoise, ConnInv, clientVars
<1>3. CASE HandleDisconnect \/ HandleLoginFailed
  BY <1>3 DEF HandleDisconnect, HandleLoginFailed, ConnInv, serverVars
<1>4. CASE Connect \/ FlushLoop \/ UNCHANGED vars
  BY <1>1, <1>4 DEF Connect, Connect_Login, Connect_Start, FlushLoop, vars, clientVars, serverVars
<1>5. CASE Listen
  <2>1. CASE ListenLoop_Read \/ ListenLoop_NotConnected \/ ListenLoop_Next
    BY <1>1, <2>1 DEF ListenLoop_Read, ListenLoop_NotConnected, ListenLoop_Next, serverVars
  <2>2. CASE DeferPacket \/ HandleServerToClientHandshake \/ ReplyToHandshake
    BY <1>1, <2>2 DEF DeferPacket, HandleServerToClientHandshake, ReplyToHandshake, serverVars
  <2>3. CASE RefuseHandshake \/ HandleAndAnswer \/ HandleStartGame
    BY <1>1, <2>3 DEF RefuseHandshake, HandleAndAnswer, HandleStartGame, serverVars
  <2> QED
    BY <1>3, <1>5, <2>1, <2>2, <2>3 DEF Listen
<1>6. CASE ServerTake \/ ServerHandle
  BY <1>1, <1>6 DEF ServerTake, ServerHandle, clientVars
<1>7. CASE \E t \in Threads : Flush(t)
  BY <1>1, <1>7 DEF Flush, Flush_Lock, Flush_Encode, Flush_Write, Flush_Clear, serverVars
<1> QED
  BY <1>2, <1>4, <1>5, <1>6, <1>7 DEF Next, Server

LEMMA LoginTypes == LoginInv /\ TakenInv /\ HistoryInv /\ ConnInv => TypeOK
<1> SUFFICES ASSUME LoginInv, TakenInv, HistoryInv, ConnInv PROVE TypeOK
  OBVIOUS
<1>1. expectedIds \subseteq Ids
  <2>1. expectedIds = Expecting(n, serverEncrypt) /\ serverEncrypt \in BOOLEAN
        /\ n \in 0 .. 4 + Extra(serverEncrypt)
    BY DEF LoginInv, TypeInv, WrittenInv
  <2>2. CASE serverEncrypt
    BY <2>1, <2>2 DEF Expecting, Extra, Ids
  <2>3. CASE ~serverEncrypt
    BY <2>1, <2>3 DEF Expecting, Extra, Ids
  <2> QED
    BY <2>2, <2>3
<1>2. \A t \in Threads : sendMtx = t => pc[t] \in {"encode", "write", "clear"}
  BY DEF LoginInv, ThreadsInv, InFlush
<1>3. taken \in Seq(FromClient)
  BY DEF TakenInv
<1> QED
  BY <1>1, <1>2, <1>3 DEF LoginInv, TypeInv, HistoryInv, ConnInv, TypeOK

PingTypes ==
    /\ pings \in 0 .. 1 /\ pongs \in 0 .. 2 /\ dataReady \in BOOLEAN
    /\ io \in {"idle", "called", "read", "copying", "ready"} /\ data \in {"none", "torn", "pong"}

RunTypes ==
    /\ main \in Mains /\ file \in {"absent"} \cup Tokens /\ tkn \in Tokens
    /\ device \in {"none", "shown", "approved"} /\ unread \in BOOLEAN
    /\ faults \in 0 .. MaxFaults

AccountTypes == PingTypes /\ RunTypes

\* A ping that did not begin, or is over.
LEMMA NoPingTypes ==
    ASSUME pings' \in {0, 1}, pongs' = 0, io' = "idle", dataReady' = FALSE, data' = "none"
    PROVE  PingTypes'
<1>1. pings' \in 0 .. 1 /\ pongs' \in 0 .. 2
  OBVIOUS
<1>2. dataReady' \in BOOLEAN
  OBVIOUS
<1> QED
  BY <1>1, <1>2 DEF PingTypes

LEMMA PingTypesKept == ASSUME PingTypes, UNCHANGED pingVars PROVE PingTypes'
  BY DEF PingTypes, pingVars

LEMMA TerminateTypes ==
    ASSUME AccountTypes, Terminate, faults' \in 0 .. MaxFaults
    PROVE  AccountTypes'
<1>1. RunTypes'
  BY DEF AccountTypes, RunTypes, Terminate, Mains, Tokens
<1>2. PingTypes'
  BY NoPingTypes DEF Terminate
<1> QED
  BY <1>1, <1>2 DEF AccountTypes

LEMMA FaultTypes ==
    ASSUME AccountTypes, Fault
    PROVE  faults' \in 0 .. MaxFaults
  BY FaultAssumption DEF AccountTypes, RunTypes, Fault

LEMMA TokenTypes ==
    ASSUME AccountTypes, Main \/ Approve \/ Restart \/ Faults
    PROVE  AccountTypes'
<1>0. PingTypes /\ RunTypes
  BY DEF AccountTypes
<1>1. CASE Load \/ RefreshToken \/ Save_Open \/ Save_Write \/ Approve \/ Restart
  <2>1. RunTypes'
    BY <1>0, <1>1 DEF Load, RefreshToken, Save_Open, Save_Write, Approve, Restart, RunTypes,
                      Mains, Tokens
  <2>2. UNCHANGED pingVars
    BY <1>1 DEF Load, RefreshToken, Save_Open, Save_Write, Approve, Restart
  <2> QED
    BY <1>0, <2>1, <2>2, PingTypesKept DEF AccountTypes
<1>2. CASE RefreshToken_Refused \/ PollDeviceAuth
  <2>1. RunTypes'
    BY <1>0, <1>2, FaultTypes DEF RefreshToken_Refused, PollDeviceAuth, RunTypes, Mains, Tokens
  <2>2. UNCHANGED pingVars
    BY <1>2 DEF RefreshToken_Refused, PollDeviceAuth
  <2> QED
    BY <1>0, <2>1, <2>2, PingTypesKept DEF AccountTypes
<1>3. CASE StartDeviceAuth
  <2>1. CASE main' = "poll" /\ device' = "shown" /\ UNCHANGED <<faults, file, tkn, pingVars, unread>>
    <3>1. RunTypes'
      BY <1>0, <2>1 DEF RunTypes, Mains
    <3> QED
      BY <1>0, <2>1, <3>1, PingTypesKept DEF AccountTypes
  <2>2. CASE Fault /\ Terminate
    BY <2>2, FaultTypes, TerminateTypes
  <2> QED
    BY <1>3, <2>1, <2>2 DEF StartDeviceAuth
<1>4. CASE Ping_Send \/ Ping_Cleanup \/ Ping_Return
  <2>1. RunTypes'
    BY <1>0, <1>4 DEF Ping_Send, Ping_Cleanup, Ping_Return, RunTypes, Mains
  <2>2. CASE Ping_Send
    BY <1>0, <2>1, <2>2 DEF Ping_Send, PingTypes, AccountTypes
  <2>3. CASE Ping_Cleanup
    BY <1>0, <2>1, <2>3, PingTypesKept DEF Ping_Cleanup, AccountTypes
  <2>4. CASE Ping_Return
    <3>1. pings' \in 0 .. 1 /\ pongs' \in 0 .. 2 /\ dataReady' \in BOOLEAN
      <4>1. pings' = 0 /\ pongs' = 0 /\ dataReady' = FALSE
        BY <2>4 DEF Ping_Return
      <4>2. pings' \in 0 .. 1 /\ pongs' \in 0 .. 2
        BY <4>1
      <4> QED
        BY <4>1, <4>2
    <3>2. io' = io /\ data' = "none"
      BY <2>4 DEF Ping_Return
    <3> QED
      BY <1>0, <2>1, <3>1, <3>2 DEF PingTypes, AccountTypes
  <2> QED
    BY <1>4, <2>2, <2>3, <2>4
<1>5. CASE Ping_Deadline
  BY <1>0, <1>5, TerminateTypes DEF Ping_Deadline, RunTypes
<1>6. CASE ObtainDeviceToken \/ ObtainXBLToken \/ RequestMinecraftChain
  <2>1. ASSUME NEW at, NEW then \in Mains, Requests(at, then)
        PROVE  AccountTypes'
    <3>1. CASE main' = then /\ UNCHANGED <<file, tkn, device, pingVars, unread, faults>>
      <4>1. RunTypes'
        BY <1>0, <3>1 DEF RunTypes
      <4> QED
        BY <1>0, <3>1, <4>1, PingTypesKept DEF AccountTypes
    <3>2. CASE Fault /\ Terminate
      BY <3>2, FaultTypes, TerminateTypes
    <3> QED
      BY <2>1, <3>1, <3>2 DEF Requests
  <2>2. {"xblToken", "chain", "raknet"} \subseteq Mains
    BY DEF Mains
  <2> QED
    BY <1>6, <2>1, <2>2 DEF ObtainDeviceToken, ObtainXBLToken, RequestMinecraftChain
<1>7. CASE RaknetConnected \/ EncodeRequest \/ EncodeRequest_Offline
  <2>1. RunTypes'
    BY <1>0, <1>7 DEF RaknetConnected, EncodeRequest, EncodeRequest_Offline, RunTypes, Mains
  <2>2. UNCHANGED pingVars
    BY <1>7 DEF RaknetConnected, EncodeRequest, EncodeRequest_Offline
  <2> QED
    BY <1>0, <2>1, <2>2, PingTypesKept DEF AccountTypes
<1>8. CASE ParseRequest
  <2>1. CASE Parses(request)
    <3>1. RunTypes' /\ UNCHANGED pingVars
      BY <1>0, <1>8, <2>1 DEF ParseRequest, RunTypes, Mains
    <3> QED
      BY <1>0, <3>1, PingTypesKept DEF AccountTypes
  <2>2. CASE ~Parses(request)
    BY <1>0, <1>8, <2>2, TerminateTypes DEF ParseRequest, RunTypes
  <2> QED
    BY <2>1, <2>2
<1>9. CASE Crash \/ PollDeviceAuth_Error
  BY <1>9, FaultTypes, TerminateTypes DEF Crash, PollDeviceAuth_Error
<1>10. CASE Save_Fails
  <2>1. CASE main' = "ping" /\ UNCHANGED <<file, tkn, device, pingVars, unread>>
    <3>1. faults' \in 0 .. MaxFaults
      BY <1>10, FaultTypes DEF Save_Fails
    <3>2. RunTypes'
      BY <1>0, <2>1, <3>1 DEF RunTypes, Mains
    <3> QED
      BY <1>0, <2>1, <3>2, PingTypesKept DEF AccountTypes
  <2>2. CASE Fault /\ Terminate
    BY <2>2, FaultTypes, TerminateTypes
  <2> QED
    BY <1>10, <2>1, <2>2 DEF Save_Fails
<1>11. CASE Expire \/ RefreshToken_Unread \/ PollDeviceAuth_Unread \/ LosePing
  <2>1. faults' \in 0 .. MaxFaults
    BY <1>11, FaultTypes DEF Expire, RefreshToken_Unread, PollDeviceAuth_Unread, LosePing
  <2>2. RunTypes'
    BY <1>0, <1>11, <2>1
       DEF Expire, RefreshToken_Unread, PollDeviceAuth_Unread, LosePing, RunTypes, Mains, Tokens
  <2>3. CASE LosePing
    BY <1>0, <2>2, <2>3 DEF LosePing, PingTypes, AccountTypes
  <2>4. CASE Expire \/ RefreshToken_Unread \/ PollDeviceAuth_Unread
    <3>1. UNCHANGED pingVars
      BY <2>4 DEF Expire, RefreshToken_Unread, PollDeviceAuth_Unread
    <3> QED
      BY <1>0, <2>2, <3>1, PingTypesKept DEF AccountTypes
  <2> QED
    BY <1>11, <2>3, <2>4
<1> QED
  BY <1>1, <1>2, <1>3, <1>4, <1>5, <1>6, <1>7, <1>8, <1>9, <1>10, <1>11 DEF Main, Faults

\* The login begins when it was requested, and the program stays in it: no callback of
\* the ping is left to be called once RakNet is connected.
OutsideInv ==
    /\ main # "connected" => written = <<>> /\ pc["listen"] = "off"
    /\ main \in {"encode", "parse", "login", "connected"} => io = "idle"

LEMMA OutsideStep ==
    ASSUME OutsideInv, Main \/ Approve \/ Restart \/ Faults \/ Ping_IO, UNCHANGED vars
    PROVE  OutsideInv'
<1> DEFINE Ends == {"encode", "parse", "login", "connected"}
<1>1. /\ main # "connected" \/ UNCHANGED main
      /\ main' \in Ends => io' = "idle"
  <2>0. main \in Ends => io = "idle"
    BY DEF OutsideInv
  <2>1. CASE Main
    <3>1. CASE Load \/ RefreshToken \/ RefreshToken_Refused \/ Save_Open \/ Save_Write
      BY <3>1 DEF Load, RefreshToken, RefreshToken_Refused, Save_Open, Save_Write
    <3>2. CASE StartDeviceAuth \/ PollDeviceAuth \/ Ping_Send \/ Ping_Cleanup
      BY <3>2 DEF StartDeviceAuth, PollDeviceAuth, Ping_Send, Ping_Cleanup, Terminate
    <3>3. CASE Ping_Return \/ Ping_Deadline \/ RaknetConnected
      BY <3>3 DEF Ping_Return, Ping_Deadline, RaknetConnected, pingVars, Terminate
    <3>4. CASE ObtainDeviceToken \/ ObtainXBLToken \/ RequestMinecraftChain
      BY <3>4 DEF ObtainDeviceToken, ObtainXBLToken, RequestMinecraftChain, Requests, Terminate
    <3>5. CASE EncodeRequest \/ ParseRequest \/ EncodeRequest_Offline
      BY <2>0, <3>5
         DEF EncodeRequest, ParseRequest, EncodeRequest_Offline, pingVars, Terminate
    <3> QED
      BY <2>1, <3>1, <3>2, <3>3, <3>4, <3>5 DEF Main
  <2>2. CASE Approve \/ Restart
    BY <2>0, <2>2 DEF Approve, Restart, pingVars
  <2>3. CASE Ping_IO
    BY <2>0, <2>3 DEF Ping_IO, ServerPong, OnReceived, OnReceived_Called, OnReceived_Late,
                      OnReceived_Copy, OnReceived_Ready, Terminate
  <2>4. CASE Faults
    BY <2>0, <2>4
       DEF Faults, Crash, Expire, RefreshToken_Unread, Save_Fails, PollDeviceAuth_Unread,
           PollDeviceAuth_Error, LosePing, Terminate, pingVars
  <2> QED
    BY <2>1, <2>2, <2>3, <2>4
<1>2. UNCHANGED <<written, pc>>
  BY DEF vars, clientVars
<1> QED
  BY <1>1, <1>2 DEF OutsideInv

LEMMA AccountTypesStep ==
    AccountTypes /\ OutsideInv /\ [ConnectNext]_allVars => AccountTypes' /\ OutsideInv'
<1> SUFFICES ASSUME AccountTypes, OutsideInv, [ConnectNext]_allVars
             PROVE  AccountTypes' /\ OutsideInv'
  OBVIOUS
<1>1. CASE (Main \/ Ping_IO \/ Approve \/ Restart \/ Faults) /\ UNCHANGED vars
  <2>1. CASE Ping_IO
    <3>0. CASE Fault /\ Terminate
      BY <1>1, <2>1, <3>0, FaultTypes, TerminateTypes, OutsideStep
    <3>1. CASE ServerPong \/ OnReceived \/ OnReceived_Called
      BY <1>1, <2>1, <3>1, OutsideStep
         DEF ServerPong, OnReceived, OnReceived_Called, AccountTypes, RunTypes, PingTypes
    <3>2. CASE OnReceived_Copy \/ OnReceived_Ready
      BY <1>1, <2>1, <3>2, OutsideStep
         DEF OnReceived_Copy, OnReceived_Ready, AccountTypes, RunTypes, PingTypes
    <3>3. CASE OnReceived_Late
      BY <1>1, <2>1, <3>0, <3>3, OutsideStep
         DEF OnReceived_Late, AccountTypes, RunTypes, PingTypes
    <3> QED
      BY <2>1, <3>1, <3>2, <3>3 DEF Ping_IO
  <2> QED
    BY <1>1, <2>1, TokenTypes, OutsideStep
<1>2. CASE SendLogin
  <2>1. main' = "connected" /\ device' = "none" /\ faults' = MaxFaults /\ UNCHANGED <<file, tkn>>
    BY <1>2 DEF SendLogin
  <2>2. unread' \in BOOLEAN
    BY <1>2 DEF SendLogin
  <2>3. UNCHANGED pingVars
    BY <1>2 DEF SendLogin
  <2>4. file \in {"absent"} \cup Tokens /\ tkn \in Tokens
    BY DEF AccountTypes, RunTypes
  <2>5. faults' \in 0 .. MaxFaults
    BY <2>1, FaultAssumption
  <2>6. main' \in Mains /\ device' \in {"none", "shown", "approved"}
    BY <2>1 DEF Mains
  <2>7. RunTypes'
    BY <2>1, <2>2, <2>4, <2>5, <2>6 DEF RunTypes
  <2>8. OutsideInv'
    BY <1>2, <2>1, <2>3 DEF OutsideInv, SendLogin, pingVars
  <2> QED
    BY <2>3, <2>7, <2>8, PingTypesKept DEF AccountTypes
<1>3. CASE Play
  BY <1>3 DEF Play, InLogin, accountVars, AccountTypes, RunTypes, PingTypes, OutsideInv
<1>4. CASE UNCHANGED allVars
  BY <1>4 DEF allVars, vars, clientVars, accountVars, AccountTypes, RunTypes, PingTypes, OutsideInv
<1> QED
  BY <1>1, <1>2, <1>3, <1>4 DEF ConnectNext

\* The whole program, from its start, through crashes and restarts, into the game: each
\* variable keeps its type, and no login begins before it was requested.
THEOREM ConnectTypeCorrect == ConnectSpec => []ConnectTypeOK
<1>1. AccountInit => AccountTypes /\ OutsideInv
  <2> SUFFICES ASSUME AccountInit PROVE AccountTypes /\ OutsideInv
    OBVIOUS
  <2>1. RunTypes
    <3>1. main \in Mains /\ tkn \in Tokens /\ device \in {"none", "shown", "approved"}
      BY DEF AccountInit, Fresh, Mains, Tokens
    <3>2. unread \in BOOLEAN
      BY DEF AccountInit, Fresh
    <3>3. faults \in 0 .. MaxFaults
      BY FaultAssumption DEF AccountInit
    <3>4. file \in {"absent"} \cup Tokens
      BY DEF AccountInit
    <3> QED
      BY <3>1, <3>2, <3>3, <3>4 DEF RunTypes
  <2>5. OutsideInv
    BY DEF AccountInit, Init, OutsideInv
  <2>2. pings \in 0 .. 1 /\ pongs \in 0 .. 2
    BY DEF AccountInit, Fresh
  <2>3. dataReady \in BOOLEAN /\ io = "idle" /\ data = "none"
    BY DEF AccountInit, Fresh
  <2> QED
    BY <2>1, <2>2, <2>3, <2>5 DEF AccountTypes, PingTypes
<1>2. ConnectSpec => [](AccountTypes /\ OutsideInv)
  BY <1>1, AccountTypesStep, PTL DEF ConnectSpec
<1>3. Init => ConnInv
  BY ReplyAssumption DEF Init, ConnInv
<1>4. Spec => []ConnInv
  BY <1>3, ConnStep, PTL DEF Spec
<1>5. LoginInv /\ TakenInv /\ HistoryInv /\ ConnInv /\ AccountTypes /\ OutsideInv => ConnectTypeOK
  BY LoginTypes DEF AccountTypes, RunTypes, PingTypes, OutsideInv, ConnectTypeOK
<1> QED
  BY <1>2, <1>4, <1>5, ConnectLogsIn, LoginInvariant, WritesInvariant, HistoryInvariant, PTL

================================================================================
