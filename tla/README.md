# CraftClient: TLA+ models, checks and proofs

CraftClient is a Minecraft Bedrock client in C++: `libs/protorock` speaks RakNet
and the Bedrock protocol, `libs/craftblock` holds chunks and meshes, `src/`
draws them.  This directory models the parts of it whose behaviour is hard to
test, checks the models with TLC and proves the most important facts with TLAPS.
Paths below are relative to the repository, unless they name a file of this
directory; `raknet/` and `minecraft/` stand for the two source directories of
`libs/protorock/src`.

## 1. Inventory

| Component | State | Operations | What is hard | What makes it correct |
|---|---|---|---|---|
| Ordered stream (`raknet/state.cpp`, its three queues, `packet.cpp`) | `seq`, `orderIndex`, `splitId`, `recQueue`, `dataQueue`, `packQueue`, `splits`, `datagramsReceived`, `resends` | `Write`, `receiveDatagram`, `handleACK`, `handleNACK`, `flushACKs`, `checkResend`, `Disconnect` | loss, duplication, reordering, a timer that resends what was received, numbers that wrap | messages are handled once, in order, unmixed; nothing acknowledged is lost; everything arrives |
| Handshake and disconnect (`raknet/state.cpp`, `message.h`) | `currentState`, `mtuSize`, `connected`, `isInvalid`, `stop`, the timer | `onTick`, `process`, `handleConnectionRequestAccepted`, `Disconnect` | probes and replies lost, doubled or late; a `Disconnect` of another thread between two steps | the server sees one request, one connection, one notification; the size is one the server offered; the client connects or stops |
| RaknetClient, UDPClient, mutexes (`raknet/raknet.cpp`, `udpClient.cpp`) | `connMtx`, `connectionMtx`, `datagramsRecvMtx`, `sendMtx`, the socket, the chain of receives | `Connect`, `DisconnectAndStop`, `ReceiveAsync`, `SendTo` and their callbacks | four threads, callbacks under locks, errors of the socket | no deadlock, no unprotected use, a receive always pending, `DisconnectAndStop` returns |
| Minecraft client login (`minecraft/client.cpp`, `clientHandlers.cpp`, encoder, decoder) | `bufferedSend`, `expectedIds`, `deferredPackets`, encryption and its two counters | `Connect`, `WritePacket`, `flush`, `flushLoop`, `listenLoop`, the handlers | encryption switched on between batches while another thread flushes; packets before they are expected | both sides decode every batch; no packet is lost, doubled or dropped; the login goes through |
| Ping (`raknet/raknet.cpp` 99-173) | `dataReady`, `errored`, `data`, the callbacks | `Ping` | callbacks on the IO thread use the caller's locals; one datagram, no repeat | an answer that `Ping` returns is complete, and one thread at a time has it |
| ACK codec (`raknet/packet.cpp`) | none | `acknowledgement::write`, `read`, `sendAcknowledgement` | ranges, duplicates, the size of a datagram, the reader's limit of 8192 | exactly the datagrams that came are acknowledged |
| Wire codec (`packetbuff.cpp`, `common.h`, `reader.h`, `writer.h`, `message.h`) | none | `Read...`, `Write...`, `Serialize`, `Deserialize` | widths, signs, variable lengths, reads narrower than the writes | what is read is what was written, as far as the code can keep it |
| Minecraft packets (`protocol/packet/`, `encoder.cpp`, `decoder.cpp`, compressor) | `bufferedSend`, the compressor's buffer | `WritePacket`, `Encode`, `split`, `Decode`, `Deserialize` | lists read in another width, a second buffer that is too small, batches cut anywhere | packets arrive whole, in order, with their values; the loop ends for a reason |
| Pools (`packetPool.h`, `objectpool.h`) | lists of free objects | `Get`, `Return` | stale contents, an object returned and still used | an object has one owner |
| NBT (`protocol/nbt/`) | the value of a tag | `Serialize`, `Deserialize`, `createTag` | tags without type or name on the wire, lists of lists, a double written as a float | the reader stays in step |
| Login chains and keys (`login.cpp`, `clientData.cpp`, `crypto.cpp`, `json.cpp`, `base64.cpp`) | the chain, the keys | `Encode`, `EncodeOffline`, `Parse`, `Validate` | a chain moved in place, two forms of a key, Base64 at its ends | a server that checks it takes the login |
| Accounts (`live.cpp`, `xbl.cpp`, `token.h`, `testprog/test.cpp`) | the live token and its file | `RefreshToken`, `StartDeviceAuth`, `PollDeviceAuth`, `Save`, `RequestMinecraftChain` | answers that are no JSON, a crash between two steps, a token the service took back | the client logs in at last, and without the account only for a reason |
| Chunk and mesh (`chunk.cpp`, `mineblock.cpp`, `mesh.cpp`, `blocks.cpp`, `blockgeom.cpp`, `meshtools.cpp`) | `blocks`, `needsUpdate`, `faces`, `needsRecompute`, the vertices drawn | `PutBlock`, `Update`, `SetShowFace`, `recompute`, `Render` | dirty flags, the borders of the chunk, types without a geometry | what is drawn is what the blocks are; every offset is inside the chunk and its own |
| Texture atlas (`texture.cpp`) | `rows`, `textureIndex` | `BuildTextureAtlasFromFiles`, `operator[]` | sizes that do not divide each other | an image is found where it was copied, inside the atlas |
| Window, camera, objects, GUI (`main.cpp`, `camera.cpp`, `object.cpp`, `gui.cpp`, `matrix.cpp`) | positions, matrices, dirty flags | the frame loop, the events | flags forgotten, matrices in the wrong order | what is drawn has the last position, seen from where the camera is |

How they interact.  `Client::Connect` pings, connects `RaknetClient`, waits for
`IsConnected`, then starts two threads: `listenLoop` reads the ordered stream and
runs the handlers, `flushLoop` encodes what was given to `WritePacket` and writes
it to the stream.  `RaknetClient` owns a third thread, which runs the handlers of
the socket and the timer: `process` (handshake and stream) and `onTick` (probes,
ACKs, resends).  A thread of the user may call `DisconnectAndStop` at any time.
The renderer runs on the main thread and does not yet use the network.

## 2. Modules

    ReliableOrderedStream        what a connection promises
         ^ implements
    RaknetStream     <-- RaknetStream_proofs     MC_RaknetStream
    RaknetHandshake  <-- RaknetHandshake_proofs  MC_RaknetHandshake
    ConnectionLocks  <-- ConnectionLocks_proofs  MC_ConnectionLocks

    WireCodec <- RaknetMessages
              <- DatagramExchange <-- DatagramExchange_proofs
    DatagramExchange, TagExchange <- MC_Wire
    WireCodec <- TagExchange
    WireCodec <- PacketLayouts, RaknetMessages
              <- PacketExchange <-- PacketExchange_proofs, MC_PacketExchange

    MinecraftClient, LoginChain
              <- ClientConnect <-- MinecraftClient_proofs, MC_ClientConnect

    BlockTables <- ChunkMesh, Matrices
              <- Scene <-- Scene_proofs, MC_Scene

    SequenceLemmas   <- MinecraftClient_proofs, Scene_proofs, DatagramExchange_proofs

(`A <- B`: B extends A; `A <-- P`: P proves theorems about A.)

The models cut one program at its interfaces.  The handshake ends where the
stream begins (`currentState` NORMAL); the stream is what carries the batches of
MinecraftClient, in the order of `conn->Write`, which is what `HandledInOrder`
says; ConnectionLocks takes the operations of the others as sequences of
locks, uses and sends, and asks what the others take as given: that each critical
section is one step.  The modules over WireCodec take the same messages byte by byte.

**ReliableOrderedStream** is the comment of `raknet/packet.h:32` as a state
machine: messages are written, and taken out once each, in this order.

**RaknetStream** has two ends, a writer and a reader, of one direction; the real
connection is two of these.  Variables are the fields of `state` and its queues;
`written`, `fetched`, `skipped` and `splitOwner` are history: what was written, what `fetch`
took out of the ordering queue, and those of it that no handler saw because the handler of
one before them threw (`MayThrow`).  Actions: `Write`, `Disconnect`
(user, peer, or `checkResend` giving up), `CheckResend` (the timer picks packets
whose time is over: the times are left out, any packet may be picked), `FlushACKs`,
`HandleACK`, `HandleNACK`, `ReceiveDatagram` with the window, the NACK of gaps,
reassembly and the ordering queue, and the network (`Fault`: loss, duplicate; a set
of datagrams in flight is already unordered).  Widths are constants: `WireMod` for
the 24-bit order index, `SplitIdMod` for the 16-bit split id.  `Spec` is this with resends and
disconnects at any time; `PatientSpec`, for liveness, is a session without `Disconnect` whose
timer waits (section 3).

**RaknetHandshake** is the client's state machine from the first probe to
`connected`, with its timer, offline datagrams that are lost, doubled and late, and
`Disconnect` one step at a time on the IO thread and on a user's thread (`pc`).
The server is external; its replies are those of the `message.h` definitions, and
with `Compatible = {TRUE, FALSE}` it may answer that it speaks another version.

**ConnectionLocks** has `todo`, what each thread still has to do, as a sequence of
lock, unlock, use, send and change instructions, and one action for each kind of
instruction.  `TimerExpires`, `DatagramArrives`, `ReceiveError`, `ClientRuns` and
`ClientDisconnects` put the instructions of an operation of the source there.  A
callback is put in front of the rest of the operation that runs it, locks held.  `OnTick` and
`Process` have the sends of the handshake too, and `ProcessThrows` is an exception that `process`
does not catch, which ends the program.  Its fields are the five that a mutex is there for.

**MinecraftClient** starts where RakNet is connected.  `pc` says where the threads
`connect`, `listen` and `flush` are; `flush` is four steps (lock, encode, write,
clear), because what other threads do in between is the question.  A batch carries
its packets, whether it is encrypted and the counter of its checksum.  Nothing in
the program sets `loggedInBefore`, so there is no action in which `Connect` returns.

**ClientConnect** puts the rest of the program around MinecraftClient: `main` is where
the main thread is, from reading the token file to the last line of `Client::Connect`;
`file` and `tkn` are the token on disk and in memory; `io`, `dataReady` and `data` are
the two threads of `Ping`: the IO thread tests `cbOnReceived`, calls it, reads the answer and
says that it is ready, and the main thread empties the callbacks (`Ping_Cleanup`) and returns
(`Ping_Return`), so that a callback may be called that was tested before it was emptied
(`OnReceived_Late`).  One action per call that blocks and per way it fails: an
answer that is no JSON, a refusal, an exception nobody catches, a file that cannot be
opened or is written only in part.  `Crash` and `Restart` are the user's.  When Connect
reaches its threads, `InLogin` runs MinecraftClient's own actions.

**LoginChain** is the text that goes into a Login packet: `Base64_Encode` and `Decode` are
computed, a token is what it claims, the key its header names and the name of the key it
was signed with; `Encode`, `EncodeOffline` and `Parse` follow `login.cpp` branch by branch.

**WireCodec** is each kind of field as a pair of operators, `Put` and `Get`, over
sequences of bytes, with the results of a read (`Done`, `Short`, `Refused`), and
structures as layouts, sequences of fields.  `Survives` says which values come back.
**RaknetMessages** has the layouts of `message.h`, the headers of `packet.cpp` and the
acknowledgement codec; **DatagramExchange** lets two ends send each other every message of
the handshake, then acknowledgements.  **TagExchange** writes NBT tags into a buffer and
reads them back, into new tags or into tags that were used before.

**PacketLayouts** is one layout for each packet of the game with a structure, as written
and, where the code differs, as read.  **PacketExchange** takes packets from `WritePacket`
through `flush`, `Encode`, the fragments of a datagram in any order, `Decode` and
`listenLoop` into the objects of the PacketPool and, if they are not expected, into
`deferredPackets`.

**BlockTables** has the types of `blocks.h`, the textures of each and the faces
`blockgeom.cpp` makes of them; **ChunkMesh** has the chunk, its offsets, `Update` and the
mesh.  **Matrices** is the part of `vectors.h` and `matrix.h` that places a point on the
screen, in whole homogeneous numbers, so that a product of matrices is exact.
**Scene** is the frame loop over them: `BuildTextureAtlas`, then events
(keys, mouse, `PutBlock`, calls on an object) and frames in any order; the blocks that `main`
puts before its loop are such calls.

## 3. Runs

| Run | Checks | Bounds |
|---|---|---|
| `stream_order` | `TypeOK`, `HandledInOrder`, `StreamInv`, `ImplementsStream` | 3 messages of one or two chunks, 4 sequence numbers, 1 fault, limits (splits, window, missing) of 1 and 2, so that each is hit |
| `stream_arrives` | `NothingLost`, `EveryMessageArrives` | 2 messages of one or two chunks, 2 faults, no `Disconnect`, gaps never given up, 9 sequence numbers, of which 2 may be used by a resend that is early |
| `stream_gap_given_up` | refutes `NothingLost` | 3 messages, 1 fault, gaps given up after 2 datagrams |
| `stream_null_packet` | refutes `NoNullPacket` | the same |
| `handshake` | `TypeOK`, `HandshakeOrder`, `HandshakeInv`, `MtuAgreed`, `ConnectsDespiteOneFault`, `TimerEnds` | 2 faults, a user who disconnects at any step, a server of either version |
| `locks` | `NoRace`, `NoDeadlock`, `KeepsListening`, `DisconnectReturnsWithoutErrors` | four threads, 2 socket errors, from the handshake on, an exception that ends the program |
| `locks_send_error` | refutes `DisconnectReturns` | 1 socket error |
| `login` | `ServerUnderstands`, `ClientUnderstands`, `NothingLost`, `NothingForgotten`, `ConnectTypeOK`, `PingComplete`, `OfflineForAReason`, `RequestIsUnderstood`, `ReachesStartGame`, `LogsInAtLast` | a token file in any state, 2 faults among crashes, garbled answers, failed saves and lost pings; every answer to a Login; packets of no concern or a kick |
| `login_spawn` | refutes `Spawns` | a server that lets the client in |
| `wire` | `MessageUnderstood`, `AllAcknowledged`, `AckUsable`, `TagsUnderstood` | 2 addresses, 3 datagram sizes, 6 datagram numbers of which one comes twice, acknowledgements of 20 bytes and 4 numbers; 22 tags, two at a time |
| `packets` | `PacketsArriveAsWritten`, `ObjectsApart`, `DeferredIntact`, `EndsForAReason` | 15 sample packets, three at a time, datagrams of 140 bytes, a second buffer that may be too small |
| `scene` | `FrameIsCurrent`, `ObjectAsSet`, `SurfaceIsDrawn`, `AbortsForAReason`, `AtlasSound`, `OneBlockChanges` | a chunk of 2 by 2 by 3, two calls or events, images of two sizes |

Why the bounds are enough.  A wrong order, a doubled or a lost message needs two
messages, one of them split, and one datagram that comes twice, late or never: the
stream has three messages, and `CheckResend` adds late copies for free.  In `stream_arrives`
nine numbers are never used up: two early resends and two faults cost fewer, so no
bound ends a behaviour before the messages are there.  The sizes
of the handshake are scaled (one unit is 28 bytes: a server adds 1, a probe is 2
smaller than the one before, 16 bits wrap at 32), so that every comparison of the
code has instances on both sides.  The operations of ConnectionLocks are finite
without a bound; only errors are counted.  The login has a fixed length; the noise
interleaves with all of it, and one fault more than a restart repairs is enough to meet
a second fault in the run after it.  On the wire a variable-length integer of 3 groups
has the values of one, two and three groups, and the limits of strings, acknowledgements
and buffers are small enough to be passed.  The length in front of a packet in a batch is read by
`readVaruint32`, which stops at the last group and refuses none (`ReadLength`).  Three packets are enough for an object to be
returned, taken and deferred; a chunk three high and two wide has cells with neighbours on
either side and at each border.  Deadlock is not checked: every one of these programs
stops when it has been disconnected or has nothing more to do.

The two machines of `wire` share their codec and no state: MC_Wire runs one or the other.

Every checked property is refuted by a mutant, a plausible slip in one definition
(a lost lock, a swapped order, a forgotten reset), kept beside the definition it
changes and marked "Mutant of".

Fairness, and why the code justifies it.  RaknetStream and RaknetHandshake: the timer
re-arms itself until `stop` (`state.cpp:86`), the IO thread runs whatever is ready,
and a datagram that is sent again and again gets through (faults are bounded).  For the
stream there is one assumption of timing more (`PatientNext`): but for `EarlyLimit` resends,
the timer resends when a packet and its ACK are no longer under way (`Quiet`).  The code waits
for three times the mean delay and 50 ms more for each resend so far (`state.cpp:115`), which outlasts
a datagram and its ACK unless the delay jumps; that the mean starts from a variable that may be unset
is left out.  Without it a timer may outrun every ACK for ever, which says nothing of the code.
ConnectionLocks: each thread goes on (strong fairness of its steps): a lock is held for
a send at most, and wanted at 50 and 100 ms intervals, so a thread that waits for it
gets it.  MinecraftClient and ClientConnect: each thread goes on as long as it has a step
to take (weak fairness of the main thread, of the IO thread of `Ping`, of the listen and of
the flush thread), the server answers, and the user approves a device code and starts again
a program that ended.  No fairness is assumed of a kick, of noise, of a fault, of a crash or
of a user's `Disconnect`; the faults are bounded, which is what "at last" in `LogsInAtLast`
needs.  The flush that a thread makes holds `sendMtx` for a bounded time, so weak fairness
of the steps of each thread is enough.

### What the violations show

- **A gap given up** (`stream_gap_given_up`).  `datagramQueue::missing` marks a gap
  as received when it is NACKed.  The late original is then dropped, but
  acknowledged (`state.cpp:273` comes before `:277`): its message never arrives.
- **A packet resent twice** (`stream_null_packet`).  `resend` does not test what
  `takeWithoutDelayAdd` returns; a NACK for a number the timer resent ends the program.
- **A failed send** (`locks_send_error`).  The callback of a failed send locks
  `connMtx`, which `DisconnectAndStop` holds, or holds the other lock meanwhile.
- **The login does not end** (`login_spawn`).  PlayStatus(PlayerSpawn) is deferred and
  deferred packets are never taken, so `Connect` spins under "Wait login".

### Further configurations

These show known disagreements of the same kinds; each refutes the one property it names.

| Configuration | Refutes | What happens |
|---|---|---|
| `MC_RaknetStream_stale.cfg` | `SplitsAreActive` | a fragment that comes again after reassembly opens an entry of `splits` that nothing removes; 65 of them refuse every split packet (`state.cpp:309`) |
| `MC_RaknetHandshake_race.cfg` | `InvalidIsNotConnected` | `connected = true` is outside the lock: it may overwrite a `Disconnect`, and `Read` then waits for ever |
| `MC_RaknetHandshake_starved.cfg` | `EventuallyConnects` | after 26 lost probes a reply adds 40 bytes, the next tick takes them away, and so on for ever |
| `MC_RaknetHandshake_headers.cfg` | `EventuallyConnects` | the second request is padded by the 28 bytes of headers the server counted, and does not fit the path |
| `MC_RaknetHandshake_wrap.cfg` | `ProbesShrink` | `mtuSize` passes zero on 16 bits after 35 unanswered probes |
| `MC_ConnectionLocks_deaf.cfg` | `Listening` | a skipped receive error (`udpClient.cpp:36`) starts no next receive |
| `MinecraftClient_loops.cfg` | `LoopsClose` | after a refused login the flush thread wakes every 50 ms for ever |
| `MC_ClientConnect_token.cfg` | `GotLiveToken` | a text that is no JSON leaves `Error` empty and is taken for a token (`live.cpp:39`): an empty token is saved |
| `MC_PacketExchange_stale.cfg` | `ObjectsAreFresh` | "Get a packet" (`packetPool.h`) gives one whose lists still hold what was read into it before |
| `MC_PacketExchange_unknown.cfg` | `UnknownPacketsAreRaw` | `packet.h:41` says "Raw packet for unknown packets"; the pool throws, and the listen loop ends |
| `MC_Scene_stale.cfg` | `ObjectAlwaysAsSet` | showing a face that is shown resets `needsRecompute` (`mesh.h:42`): an earlier change is not drawn |
| `MC_Scene_squeezed.cfg` | `PictureKeepsAngles` | `LookAt` calls `f.Normalize()`, which returns its result and changes nothing (`matrix.cpp:140`): the picture is squeezed by the cosine of the pitch |

Two pass, the type invariants of modules whose runs do not list one:
`MC_PacketExchange_types` and `MC_Scene_types`.

## 4. Proofs

For every value of the constants (any messages, widths, limits, sizes, numbers of faults):

| Module | Theorems | Assumptions |
|---|---|---|
| `RaknetStream_proofs` | `TypeCorrect`, `StreamInvariant`, `OrderCorrect`, `StreamImplemented`, `NothingIsLost` | `MessageAssumption`, `LimitAssumption` |
| `RaknetHandshake_proofs` | `TypeCorrect`, `HandshakeInvariant`, `HandshakeOrdered`, `MtuCorrect` | `SizeAssumption` |
| `ConnectionLocks_proofs` | `LockInvariant`, `NoRaces`, `NoDeadlocks`, `ReceivesGoOn` | `ErrorAssumption` |
| `MinecraftClient_proofs` | `LoginInvariant`, `ConnectLogsIn`, `ServerUnderstood`, `ClientUnderstood`, `NeverInitialised`, `AccountInvariant`, `PingIsComplete`, `OfflineIsForAReason`, `WritesInvariant`, `NothingIsLost`, `HistoryInvariant`, `NothingIsForgotten`, `ConnectTypeCorrect` | `ReplyAssumption`, `FaultAssumption` |
| `PacketExchange_proofs` | `OwnerInvariant`, `ObjectsStayApart`, `DeferredStayIntact` | none beyond the form of the module's constants |
| `DatagramExchange_proofs` | `AckInvariant`, `AcknowledgementsUsable`, `EverythingAcknowledged`, `TalkInvariant`, `MessagesUnderstood` | `ExchangeAssumption`, `MaxAckAssumption` |
| `Scene_proofs` | `OffsetsSound`, `OneBlock`, `FrameInvariant`, `FramesAreCurrent`, `ObjectsAsSet`, `AbortsAreJustified`, `SurfacesAreDrawn`, `AtlasIsSound` | `ChunkAssumption`, `SceneAssumption` |

SequenceLemmas has what several of these proofs need and the library does not state in a form
the provers can use: induction over the numbers as a fact about sets (`Induction`), the
functions a recursive definition chooses (`Recursion`), what `FlattenSeq` makes of sequences,
when two sequences are the same, and how often a value occurs in a sequence.

Two assumptions are narrower than the types of the code.  `SceneAssumption` takes atlases of at
most 2^24 pixels, the whole numbers that the `float` of `BuildTextureAtlas` counts exactly.
`ExchangeAssumption` takes an `MtuSize` that fits the `int16_t` of `acknowledgement::write` and
is more than the 10 bytes it leaves free; its count of records, another `int16_t`, cannot wrap
then, because a record has four bytes at least.  Its `Endpoints` are addresses as
a socket has them, a version and the bytes that go with it (`IsAddress`), and its sizes begin at 46
bytes, which both requests of the handshake fit.

**The stream.**  `HandledInOrder` is not inductive: it says nothing of packets on their
way.  `StreamInv` adds that every packet in `recQueue` or in flight is the fragment its
order index and split id name (`Genuine`), that every chunk of a reassembly is that of
its owner (`SplitsInv`), and that the ordering queue is `fetched` plus messages of
their own index, with what was skipped behind one that may throw (`QueueInv`).  All of it is under `NoWrap`: the code truncates both
numbers, and once one has wrapped the claim is false.  `HistoryInv` relates the history
variables and holds without `NoWrap`.  The proof has a lemma for each operation, and in
it a step for each conjunct the operation disturbs; operations that only shrink `recQueue`
or the network share `PacketsKeepInv`.  `StreamImplemented` is the refinement, on the
behaviours on which nothing wraps: a step appends to `written` or moves `fetched` on along
it, never both (`HistoriesStep`), and `StreamInv` says that what it moves on to was written.

`NothingLost` needs more: nothing in `StreamInv` says that what the sender forgot is with the
receiver.  `LossInv` adds that a sequence number still in `recQueue` names the packet of every
datagram that carries it (`InFlightInv`), that only numbers that were sent have been seen
(`SeenInv`), that the receiver has the packet of each number that was seen (`HeldInv`), and that
only such numbers are acknowledged (`AckedInv`).  The theorem is about the behaviours on which `NothingGivenUp`
holds: no NACK has been sent, and the window and the limits of reassembly have not been passed.
That is what the claim costs, not what the proof costs: `stream_gap_given_up` loses a message
through a NACK, and a message of more splits than `MaxSplitCount` is refused.  Losses, doubles,
reordering and resending by the timer are all on those behaviours.

**The handshake.**  `HandshakeOrder` is not inductive either: nothing in it says that a second
ConnectionRequestAccepted cannot come.  `HandshakeInv` adds who holds `connectionMtx`
(`MutexInv`), that the server accepts once and only after the request (`AnswerInv`), and
what was sent at each place of the threads while the socket is open (`StageInv`).
`MtuAgreed` is about replies still in flight: `MtuInv` says that none of them, nor the one
being processed, offers more than the server does or nothing at all, and that between
taking the size of a reply and entering the next state (`pc` at "reply2") `mtuSize` is one.

**The mutexes.**  The state of ConnectionLocks is what the threads still have to do, so
the invariant is about sequences: one is `Disciplined` for a mutex if it uses the fields
the mutex guards with it held, gives up what it takes, and takes mutexes in the order of
`Rank`.  The lemmas say that a disciplined operation in front of another is disciplined,
that a callback put under the mutexes its caller holds is, and that what is left after a step
is; each operation of the source is then shown to be one, once.  After an error of the
socket the order no longer holds for `connMtx`, which `OnDisconnected` takes with others
held: `NoDeadlock` is claimed up to the first error, `NoRace` for ever.  `NoRace` is about the
five fields that a mutex is there for, and says nothing of those that none is there for (section 5).

`KeepsListening` needs one thing more: that the socket is opened by `Connect` alone, first of
all and with a receive behind it (`ListenInv`).  Every other operation opens nothing (it is
`Calm`), a callback that ends one receive has the next behind it, and a receive that leaves a
sequence while the socket is open is then pending.

**The login.**  `LoginInv` numbers what the client writes.  The number of a packet, with
whether the server encrypts, tells which packet it is, whether it is encrypted and with which
counter (`Due`, `Carries`), and the stage of the server tells how many it has taken.  What is
left is where the last packet is: `ThreadsInv` says that a packet in the buffer is flushed by
the thread that wrote it, or by `flushLoop` before that thread goes on, so there is never a
second one; `UpInv` and `DownInv` follow the batches and the counters of both ends; `StageInv`
says which packets may still come down, so that encryption is switched on with nothing under
way.  `ConnectLogsIn` then carries it to the whole program.  `NeverInitialised` shows that the
finding of `login_spawn` is no accident of a schedule: the last stage is never reached.

Two facts about whole histories follow from it.  `NothingLost` speaks of `written`: it is `taken`,
what the server has taken, then the packets of the batches under way, then those that are not sent.
`DueInv` says that each packet was written when its number was due, and `TakenInv` that the server
took just the packets before the one it waits for.  In this login no more than one packet is
outstanding, so that the whole of `written` is told, and not what is left of it alone, is what makes
a packet that is dropped show.  `NothingForgotten` speaks of the packets the listener heard: `HeldInv` counts,
for each packet, how often it was sent and how often it was handled, deferred, read or is on
its way.  Encryption changes a batch and not its packets, which is why it takes `LoginInv` to
know that a batch can be decoded before its packets move on.

**Before the login.**  `PongInv` says that the callback of `Ping` writes the answer before it says
that it is ready, and writes nothing once it did, until `Ping` has returned; `TokenInv` that a run past the
live service without a token has an answer it could not read behind it.  `TokenInv`
speaks of every place of `main` from there on (`PastService`), the property of the login only.

**The pool.**  `OwnerInv` says who has each object of the heap: the free list of its own
packet id, `deferredPackets`, or nobody, and never two of them.  That `Get` removes what it
hands out and that `listenLoop` returns only what it did not defer then keep both theorems.

**The chunk.**  An offset is a number with three digits in mixed radix (`OffsetDigits`), so
two cells with one offset are one cell, and every offset is below the size of the array,
wherever the layers begin.  `OneBlock` follows, because only `PutBlock` writes.

**The frame.**  Nothing in a frame says what it should show: that is in flags.  `FrameInv` says
of each cached thing (the view, the text of the GUI, the matrix of an object, the faces and the
vertices of the two meshes) that, unless its flag is set, it is what the position, the settings
and the blocks of now make of it; and, in the middle of a frame, what has been brought up to
date so far (`CameraInv`, `ChunkInv`, `ScreenInv`).  Each part is kept by every event and every step
of the frame on its own.  `FrameIsCurrent` also says where a corner is on the screen; that is
arithmetic of matrices (`TurnY`, `TurnZ`), for all coordinates.  `ObjectAsSet` has the one exception
that `MC_Scene_stale.cfg` shows.  For `AbortsForAReason` the tables of `blocks.cpp` and
`blockgeom.cpp` are compared type by type: they agree except for the types of `Unfinished`.

**The mesh.**  `SurfaceIsDrawn` counts: each quad that should be seen is in the mesh once, and no
other is.  `Draws` says that a list of faces draws a set of quads, each once; lists put one after
the other draw the union when their quads are apart (`DrawsBoth`, `DrawsSome`).  The tables give
each geometry as squares that look to different sides (`Shapes`).  A square tells its cell and its
side even when it has been moved there, since where it begins within a block depends on its side
alone (`QuadsApart`), and the loops of `Update` come to each cell once (`CellsOrdered`).  Induction
over their turns gives what the whole mesh draws (`ComputedDraws`).  `SquareIsDrawn` then compares
the sides shown with the neighbours: at the top this needs that no assertion of `BlockOffset`
failed (`Asserts`), and that the mesh is of the blocks as they are is in `FrameInv`.

**The atlas.**  The side is a power of two not below the square root of the pixels of all images
(`CeilSqrtIs`, `NextPow2Is`), so the images that divide it fit.  A cell is named by its quotient and
its remainder by the images in a row (`Division`); two images with the same cell are one, cells
that differ do not overlap, and `operator[]` divides by what the images were placed with.

**The acknowledgements.**  `write` is a loop over sorted numbers, a recursive function of the
model.  `Recursion` says that it has the turns one expects, and `Held` is the invariant of the loop:
the ranges closed so far and the one that is open make up exactly the numbers taken, and the bytes
stay four below the MTU.  So a message is the records of ranges of a first part of the numbers, at
most six bytes over the MTU (`AckWritten`).  `RecordsRead` shows by the same induction that `read`
gets these ranges back, whatever follows each of them, and `AckRead` that it refuses the message
only for too many numbers.  From there on it is the state that is followed: `AckInv` says that
each number that came is acknowledged, waits, or is the FIRST of a message on its way.  The last
is what `sendAcknowledgement` gives: it sends again with one number less, whatever the message
before had room for; a first part of the numbers always has the first.

**The conversation.** `MessageUnderstood` is about eleven layouts, and what is proved of them is
composed as they are. A kind `Passes` a value when reading what was written of it, with anything
behind it, gives it back and leaves what is behind. The kinds are shown one by one
(`FixedPasses`, `FlagPasses`, `AddressPasses`: the bytes of an address of version 4 are
complemented twice); elements, fields and whole messages follow from their parts by one
induction over readings in turn (`PartsRead`, `LayoutPasses`). An address of version 6 does not
pass, nor does a time, which is read from two of its bytes: of those messages it is shown that
the fields before are read whatever becomes of the rest, and that only an address is ever
refused (`HalfHeard`). Requests are filled up to the size that is tried, and what follows the
fields changes nothing. NewIncomingConnection is read otherwise: `Read` stops at the address
after which sixteen bytes are left. `LoopGoesOn` shows that it takes all twenty when they are of
version 4, since the two times behind them are those sixteen and an address has a byte at least.
`TalkInv` then follows the state: a message on its way is what `Write` makes of the fields the
code gives it, and the addresses told by ConnectionRequestAccepted, which NewIncomingConnection
returns, are twenty.

Only model-checked: every liveness property; `RequestIsUnderstood` and LoginChain, whose texts
are computed; `TagsUnderstood` and `PacketsArriveAsWritten`, which are about nested data of any
depth or any packet; `EndsForAReason`, which follows from the same exchange.
Liveness under fairness and ENABLED are beyond the prover.  Induction is not, as long as it can be
stated about a set of numbers, which is how SequenceLemmas states it: the theorems of the library
that take an operator cannot be used.  TagExchange declares a RECURSIVE operator and is for TLC
alone.

## 5. Not modelled

Left out of the modelled parts:

- what becomes of memory in `Ping`: a callback that the IO thread tested before the main thread
  emptied it and calls after (`udpClient.cpp:70`, `raknet.cpp:164`) is an empty function, or uses locals
  of a call that has returned.  Both are undefined; `OnReceived_Late` lets it return, or end the program,
  and no property says what else it may overwrite.  The deadline that passes while the callback runs
  (`raknet.cpp:157`) is left out;
- fields that no mutex is there for: `currentState`, `stop`, `connected` and `mtuSize` of the connection,
  and the encoder's encryption (`clientHandlers.cpp:115`).  RaknetHandshake and MinecraftClient
  interleave their reads and writes, each as one step; that they are data races is not modelled;
- what `socket.close()` on one thread does to a send on another (`udpClient.cpp:98`), and
  the threads a `Client` destroyed after `Connect` leaves unjoined (`client.cpp:27`);
- the time of a resend: `AvgDelay` (`recoveryQueue.cpp:42`) adds up a variable that may be
  unset, so the timer of the model resends what it likes;
- `Sign`, `Verify` and `DHComputeKey` (`crypto.cpp`): a signature is the name of its key.
  `Sign` does not pad a short half (`crypto.cpp:172`), and no model says what then becomes
  of the signature;
- the first element of `userInfo` of an answer of Xbox Live that has none, which ends the
  request like any other answer that cannot be read;
- animations and persona pieces of the client data (`clientData.cpp:169`, `:219`, which use
  two names for one key), and `BuildJsonValue` throwing for objects (`json.cpp:62`): the
  program's own client data has neither; the default skin, one constant;
- compression and ciphers, HTTPS, decoding PNG, pixels and uploads, shaders, the wireframe
  mode, `Ortho` (its result is overwritten), floating-point rounding;
- vendored headers, the manual test programs, `startGame.h` and what it includes, which no
  file uses (StartGame is written as it says and read as the RawPacket the pool has for it).

Places where the code does something else than it says, seen on the way; a model that reaches one
follows the code, and none has a run of its own:

- `Validate`'s pattern for the version matches one character, so nothing after it is
  looked at, and its `Error` is ignored by its caller (`validate.cpp:21`, `login.cpp:186`);
  the check of `PlatformOfflineId` tests `PlatformOnlineId`; the branch of `Parse` for a
  chain of one token always fails;
- `fetch` takes a run of messages out of the queue before the loop of `receivePacket` handles them: a
  handler that throws in the loop (`handleConnectedPong`, when the clock was set back, `state.cpp:460`)
  leaves those behind it, acknowledged, to nobody, though `packet.h:32` says that every packet arrives.
  RaknetStream does the same (`skipped`), and `HandledInOrder` says that no others are skipped;
- `Base64DecodeLength` is inverted (`validate.cpp:58`);
- the `Interval` the server asks for between two polls of a device code is stored (`live.h:34`)
  and not kept;
- "If the points are repeated, only store once" (`mesh.cpp:44`): every point is stored;
- `Normalize` of a vector returns its result, and the callers drop it (`matrix.cpp:140`);
- `WriteDouble` takes a float; `WriteVarint(v.x)` of an integer vector takes the type of a member
  accessor and reads behind a copy of it (`writer.h:51`), which is undefined.

## 6. Plan

What is left, the most useful first:

1. Theorems: the packets of PacketExchange, whose fields are of the kinds that `Passes` is
   already shown of, through split and reassembly.
2. `Sign` and `Verify` with the lengths of the halves of a signature; the fields of the
   requests to Xbox Live; animations and persona pieces.
3. The composition of the stream with MinecraftClient: batches as its messages, a
   connection that closes under the login.
