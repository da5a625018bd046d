---------------------------- MODULE ConnectionLocks ----------------------------
(***************************************************************************)
(* The threads of a RakNet client and the mutexes between them              *)
(* (raknet.cpp, udpClient.cpp, the locks of state.cpp and of client.cpp).   *)
(*                                                                          *)
(* An operation is the sequence of what it does that another thread can     *)
(* notice: locks and unlocks, uses of unsynchronised fields, sends, and     *)
(* changes of the shared flags.  todo is what each thread still has to do;   *)
(* a callback that an operation runs is put in front of the rest of it.     *)
(* A std::mutex is not recursive: a thread that locks what it holds waits   *)
(* for itself.                                                              *)
(*                                                                          *)
(* Threads: io runs the handlers of the socket and the timer; flush and     *)
(* listen are the threads of Minecraft::Client; user connects and           *)
(* disconnects.  What the handlers compute is modules RaknetStream and      *)
(* RaknetHandshake; here they only choose which operation runs.             *)
(***************************************************************************)
EXTENDS Integers, Sequences, FiniteSets, SequencesExt

CONSTANT MaxErrors      \* bound on the socket errors

ASSUME ErrorAssumption == MaxErrors \in Nat

VARIABLES
    todo,            \* thread -> what it still has to do
    owner,           \* mutex -> the thread that holds it, or "none"
    connection,      \* RaknetClient::connection was made
    connected, stop, isInvalid,   \* of state
    timerArmed,
    socketOpen,
    receiving,       \* an asynchronous receive is pending
    service,         \* ioService: "running" or "stopped"; "ended" with the program
    called,          \* the threads that called DisconnectAndStop
    errors

vars == <<todo, owner, connection, connected, stop, isInvalid, timerArmed,
          socketOpen, receiving, service, called, errors>>
flags == <<connection, connected, stop, isInvalid, timerArmed, socketOpen,
           receiving, service>>

Threads == {"io", "flush", "listen", "user"}
Mutexes == {"connMtx", "connectionMtx", "datagramsRecvMtx", "sendMtx"}
Fields  == {"buf", "recQueue", "ackBuf", "datagramsReceived", "bufferedSend"}
Effects == {"open", "makeState", "receive", "rearm", "stop", "disconnected",
            "close", "invalid", "stopService"}

Lock(m)   == [op |-> "lock", on |-> m, uses |-> {}]
Unlock(m) == [op |-> "unlock", on |-> m, uses |-> {}]
Use(f)    == [op |-> "use", on |-> "none", uses |-> f]
Send(f)   == [op |-> "send", on |-> "none", uses |-> f]
Do(e)     == [op |-> "do", on |-> e, uses |-> {}]
Notify    == [op |-> "do", on |-> "notify", uses |-> {"buf", "recQueue"}]

Under(m, body) == <<Lock(m)>> \o body \o <<Unlock(m)>>

--------------------------------------------------------------------------------
(* The operations.                                                          *)

\* Mutant of Write: without its lock.
Write_Unlocked == <<Send({"buf", "recQueue"})>>

Write == Under("connectionMtx", <<Send({"buf", "recQueue"})>>)

Disconnect ==
    Under("connectionMtx", <<Do("stop"), Notify, Do("disconnected"),
                             Do("close"), Do("invalid")>>)

FlushACKs == Under("datagramsRecvMtx", <<Send({"ackBuf", "datagramsReceived"})>>)

Resend == Under("connectionMtx", <<Send({"buf", "recQueue"})>>)

\* Mutant of GiveUp: Disconnect is called with connectionMtx held.
GiveUp_Locked == Under("connectionMtx", <<Send({"buf", "recQueue"})>> \o Disconnect)

GiveUp == Resend \o Disconnect

HandleACK == Under("connectionMtx", <<Use({"recQueue"})>>)

ReceiveDatagram == Under("datagramsRecvMtx", <<Use({"datagramsReceived"})>>)

\* What onTick may do: during the handshake it repeats a request; then it always
\* flushes, every 40th time pings, every third resends and may give the peer up.
OnTick == {<<Send({})>>, FlushACKs, FlushACKs \o Write \o Resend, FlushACKs \o GiveUp}

\* What a datagram may lead to: nothing, and during the handshake the next request, the
\* request of a connection or the end; later an ACK, a NACK and its resends, a datagram
\* that is passed on, or answered, or is a DisconnectNotification.
Process == {<<>>, <<Send({})>>, Write, Disconnect,
            HandleACK, Resend, ReceiveDatagram,
            ReceiveDatagram \o <<Send({})>>, ReceiveDatagram \o Write,
            ReceiveDatagram \o Disconnect}

\* UDPClient::onDisconnected, with the callback RaknetClient binds to it.
OnDisconnected == <<Do("close")>> \o Under("connMtx", <<Do("makeState")>>)

\* Mutant of OnReceived: no new receive is started.
OnReceived_Once(operation) == operation

OnReceived(operation) == operation \o <<Do("receive")>>

Connect == <<Do("open")>> \o Under("connMtx", <<Do("makeState")>>) \o <<Do("receive")>>

DisconnectAndStop ==
    Under("connMtx", Disconnect) \o <<Do("close"), Do("stopService")>>

Flush == Under("sendMtx", <<Use({"bufferedSend"})>> \o Write)

WritePacket == Under("sendMtx", <<Use({"bufferedSend"})>>)

--------------------------------------------------------------------------------
Init ==
    /\ todo = [t \in Threads |-> IF t = "user" THEN Connect ELSE <<>>]
    /\ owner = [m \in Mutexes |-> "none"]
    /\ connection = FALSE /\ connected = FALSE /\ stop = FALSE /\ isInvalid = FALSE
    /\ timerArmed = FALSE /\ socketOpen = FALSE /\ receiving = FALSE
    /\ service = "running" /\ called = {} /\ errors = 0

Start(t, operation) ==
    /\ todo[t] = <<>>
    /\ todo' = [todo EXCEPT ![t] = operation]

\* The IO thread takes the timer, or a datagram, or an error of the receive:
\* one of the kinds that are skipped, or another.
TimerExpires ==
    /\ service = "running" /\ timerArmed
    /\ \E operation \in OnTick : Start("io", operation \o <<Do("rearm")>>)
    /\ timerArmed' = FALSE
    /\ UNCHANGED <<owner, connection, connected, stop, isInvalid, socketOpen,
                   receiving, service, called, errors>>

\* The first datagrams may make the state connected (module RaknetHandshake).
DatagramArrives ==
    /\ service = "running" /\ receiving /\ socketOpen /\ connection
    /\ \E operation \in Process : Start("io", OnReceived(operation))
    /\ receiving' = FALSE
    /\ connected' \in {connected, TRUE}
    /\ UNCHANGED <<owner, connection, stop, isInvalid, timerArmed, socketOpen,
                   service, called, errors>>

\* process catches a RaknetException, in NORMAL alone, and ioRoutine nothing: a datagram
\* that is too short to be read, or an acknowledgement of too many, ends the program.
ProcessThrows ==
    /\ service = "running" /\ receiving /\ socketOpen /\ connection
    /\ todo["io"] = <<>> /\ todo' = [t \in Threads |-> <<>>]
    /\ owner' = [m \in Mutexes |-> "none"]
    /\ service' = "ended" /\ socketOpen' = FALSE /\ receiving' = FALSE /\ timerArmed' = FALSE
    /\ UNCHANGED <<connection, connected, stop, isInvalid, called, errors>>

ReceiveError ==
    /\ service = "running" /\ receiving /\ errors < MaxErrors
    /\ Start("io", <<>>) \/ Start("io", OnDisconnected)
    /\ receiving' = FALSE /\ errors' = errors + 1
    /\ UNCHANGED <<owner, connection, connected, stop, isInvalid, timerArmed,
                   socketOpen, service, called>>

ClientRuns ==
    /\ connection /\ service # "ended"
    /\ \E t \in {"flush", "listen"} \ called :
          Start(t, Flush) \/ (t = "listen" /\ Start(t, WritePacket))
    /\ UNCHANGED <<owner, flags, called, errors>>

ClientDisconnects ==
    \E t \in {"listen", "user"} \ called :
       /\ connection /\ service # "ended" /\ Start(t, DisconnectAndStop)
       /\ called' = called \cup {t}
       /\ UNCHANGED <<owner, flags, errors>>

--------------------------------------------------------------------------------
(* One step of a thread.                                                    *)

First(t) == Head(todo[t])
At(t, op) == todo[t] # <<>> /\ First(t).op = op
Goes(t)   == todo' = [todo EXCEPT ![t] = Tail(@)]

Acquire(t) ==
    /\ At(t, "lock") /\ owner[First(t).on] = "none"
    /\ owner' = [owner EXCEPT ![First(t).on] = t]
    /\ Goes(t)
    /\ UNCHANGED <<flags, called, errors>>

Release(t) ==
    /\ At(t, "unlock")
    /\ owner' = [owner EXCEPT ![First(t).on] = "none"]
    /\ Goes(t)
    /\ UNCHANGED <<flags, called, errors>>

Access(t) ==
    /\ At(t, "use") /\ Goes(t)
    /\ UNCHANGED <<owner, flags, called, errors>>

Sends(t) == At(t, "send") \/ (At(t, "do") /\ First(t).on = "notify" /\ connected)

\* A closed socket sends nothing, and the errors that are skipped change nothing.
SendTo(t) ==
    /\ Sends(t) /\ Goes(t)
    /\ UNCHANGED <<owner, flags, called, errors>>

SendFails(t) ==
    /\ Sends(t) /\ socketOpen /\ errors < MaxErrors
    /\ todo' = [todo EXCEPT ![t] = OnDisconnected \o Tail(@)]
    /\ errors' = errors + 1
    /\ UNCHANGED <<owner, flags, called>>

Effect(t) ==
    /\ At(t, "do") /\ ~Sends(t) /\ Goes(t)
    /\ LET e == First(t).on IN
       /\ connection' = (connection \/ e = "makeState")
       /\ connected'  = (connected /\ e # "disconnected")
       /\ stop'       = (stop \/ e = "stop")
       /\ isInvalid'  = (isInvalid \/ e = "invalid")
       /\ timerArmed' = IF e = "rearm" THEN ~stop
                        ELSE timerArmed \/ (e = "makeState" /\ ~connection)
       /\ socketOpen' = (e = "open" \/ (socketOpen /\ e # "close"))
       /\ receiving'  = (receiving \/ (e = "receive" /\ socketOpen))
       /\ service'    = IF e = "stopService" THEN "stopped" ELSE service
    /\ UNCHANGED <<owner, called, errors>>

Step(t) == Acquire(t) \/ Release(t) \/ Access(t) \/ SendTo(t) \/ SendFails(t) \/ Effect(t)

Next ==
    \/ TimerExpires \/ DatagramArrives \/ ProcessThrows \/ ReceiveError
    \/ ClientRuns \/ ClientDisconnects
    \/ \E t \in Threads : Step(t)

Spec == Init /\ [][Next]_vars

\* A thread goes on with what it does.  Locks are held for one send of the 50
\* and 100 ms between two flushes and two ticks, so a thread that waits for a
\* lock that is free again and again gets it: strong fairness.
FairSpec == Spec /\ \A t \in Threads : SF_vars(Step(t))

--------------------------------------------------------------------------------
Instructions ==
    {Lock(m) : m \in Mutexes} \cup {Unlock(m) : m \in Mutexes}
    \cup {Use(f) : f \in SUBSET Fields} \cup {Send(f) : f \in SUBSET Fields}
    \cup {Do(e) : e \in Effects} \cup {Notify}

\* Every variable keeps its type, and a mutex is held by a thread that still
\* has to unlock it.
TypeOK ==
    /\ todo \in [Threads -> Seq(Instructions)]
    /\ owner \in [Mutexes -> Threads \cup {"none"}]
    /\ {connection, connected, stop, isInvalid, timerArmed, socketOpen, receiving}
          \subseteq BOOLEAN
    /\ service \in {"running", "stopped", "ended"} /\ called \subseteq Threads
    /\ errors \in 0 .. MaxErrors
    /\ \A m \in Mutexes : owner[m] # "none" => Contains(todo[owner[m]], Unlock(m))

Waiting(t) == At(t, "lock") /\ owner[First(t).on] # "none"

\* As long as the socket reports no error, no threads wait for each other's
\* mutexes, nor one for its own.
NoDeadlock ==
    errors = 0 => ~\E S \in (SUBSET Threads) \ {{}} :
        \A t \in S : Waiting(t) /\ owner[First(t).on] \in S

\* write, resend, sendACKs, flush: two threads never use at once one of the five fields
\* that a mutex is there for: the buffers and the recovery queue of the connection, the
\* numbers to acknowledge and their buffer, the packets the client has buffered.  Fields
\* that no mutex is there for, as currentState or the encryption, are not in the model.
NoRace ==
    \A t, u \in Threads :
       t # u /\ todo[t] # <<>> /\ todo[u] # <<>>
         => First(t).uses \cap First(u).uses = {}

(* Why these two hold: what a thread still has to do keeps to the mutexes.  *)

\* The mutex that guards each field, and the order in which mutexes are taken.
Guard(f) ==
    CASE f \in {"buf", "recQueue"}             -> "connectionMtx"
      [] f \in {"ackBuf", "datagramsReceived"} -> "datagramsRecvMtx"
      [] f = "bufferedSend"                    -> "sendMtx"
Rank(m) == IF m \in {"connMtx", "sendMtx"} THEN 1 ELSE 2

\* Whether a thread holds m when it gets to the i-th of its instructions s, if it
\* holds it now (holds) or not.
HeldAt(s, holds, m, i) ==
    \/ holds /\ \A j \in 1 .. i - 1 : s[j] # Unlock(m)
    \/ \E k \in 1 .. i - 1 : s[k] = Lock(m) /\ \A j \in k + 1 .. i - 1 : s[j] # Unlock(m)

Needs(instruction, m) ==
    instruction = Unlock(m) \/ \E f \in instruction.uses : Guard(f) = m

\* The fields that m guards are used with m held, m is not held at the end, and, if
\* the order is kept, only mutexes of a higher rank are taken with m held.
Disciplined(s, holds, m, ordered) ==
    /\ \A i \in 1 .. Len(s) : Needs(s[i], m) => HeldAt(s, holds, m, i)
    /\ ~HeldAt(s, holds, m, Len(s) + 1)
    /\ ordered => \A i \in 1 .. Len(s) :
          s[i].op = "lock" /\ HeldAt(s, holds, m, i) => Rank(m) < Rank(s[i].on)

\* The callback of a failed send takes connMtx out of order and, when the thread
\* holds it already, never: after an error only the mutexes of fields are disciplined.
LockInv ==
    \A t \in Threads, m \in Mutexes :
       m # "connMtx" \/ errors = 0 => Disciplined(todo[t], owner[m] = t, m, errors = 0)

\* As long as the socket is open a receive is pending or about to be started.
Listening ==
    socketOpen => \/ receiving
                  \/ \E t \in {"io", "user"} : Contains(todo[t], Do("receive"))

\* The chain of receives goes on until the socket reports an error.
KeepsListening == errors = 0 => Listening

\* DisconnectAndStop returns, and the IO thread ends what it was doing
\* (ioRoutine then returns), if the program does not end before.
DisconnectReturns ==
    \A t \in {"listen", "user"} :
       t \in called ~> \/ /\ todo[t] = <<>> /\ todo["io"] = <<>>
                          /\ service = "stopped" /\ ~socketOpen /\ isInvalid
                       \/ service = "ended"

\* The same of every behaviour in which no send and no receive fails.
DisconnectReturnsWithoutErrors == [](errors = 0) => DisconnectReturns
================================================================================
