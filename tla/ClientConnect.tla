----------------------------- MODULE ClientConnect -----------------------------
(***************************************************************************)
(* The program from its start to the game: the live token and the file that *)
(* keeps it (testprog/test.cpp, live.cpp, token.h), Client::Connect with its *)
(* ping and its requests to the account services (client.cpp, raknet.cpp,   *)
(* xbl.cpp), and then module MinecraftClient.                               *)
(*                                                                          *)
(* Every call to a service blocks.  An answer that is not JSON leaves what  *)
(* was to be read from it empty; an exception nobody catches ends the        *)
(* program, whose user starts it again.  Ping has two threads: the caller,  *)
(* and the IO thread that runs its callbacks.                               *)
(*                                                                          *)
(* A token is "none" when its texts are empty, "good" when the service takes *)
(* it for a refresh, "stale" when it does not.                              *)
(***************************************************************************)
EXTENDS MinecraftClient, LoginChain

CONSTANT MaxFaults       \* bound on crashes, lost and garbled answers

ASSUME FaultAssumption == MaxFaults \in Nat

VARIABLES
    main,            \* where the main thread is
    file,            \* livetoken.json: "absent", or the token read from it
    tkn,
    device,          \* the code of a device login: "none", "shown", "approved"
    pings, pongs,    \* datagrams under way
    io,              \* where the IO thread is in cbOnReceived
    dataReady, data, \* of Ping: data is "none", "torn" while it is assigned, or "pong"
    chainData,       \* what the Minecraft service answered
    identityData, request,
    unread,          \* history: this run took an answer it could not read for a token
    faults

accountVars == <<main, file, tkn, device, pings, pongs, io, dataReady, data, chainData,
                 identityData, request, unread, faults>>
allVars == <<vars, accountVars>>

Tokens == {"none", "stale", "good"}
Mains == {"down", "load", "refresh", "save", "authorize", "poll", "saveNew", "write",
          "ping", "pong", "cleanup", "deviceToken", "xblToken", "chain", "raknet", "encode",
          "parse", "login", "connected"}
NoRequest == [chain |-> <<>>, rawToken |-> NoToken]

\* What a process has in memory when it starts.
Fresh ==
    /\ tkn = "none" /\ device = "none" /\ pings = 0 /\ pongs = 0 /\ io = "idle"
    /\ dataReady = FALSE /\ data = "none" /\ chainData = <<>>
    /\ identityData = SelfMadeIdentity /\ request = NoRequest /\ unread = FALSE

AccountInit ==
    /\ Init /\ Fresh /\ main = "load" /\ faults = 0
    /\ file \in {"absent"} \cup Tokens

Fault == faults < MaxFaults /\ faults' = faults + 1

pingVars  == <<pings, pongs, io, dataReady, data>>
loginVars == <<chainData, identityData, request>>

\* An exception that nobody catches, or a kill.
Terminate ==
    /\ main' = "down" /\ tkn' = "none" /\ device' = "none" /\ pings' = 0 /\ pongs' = 0
    /\ io' = "idle" /\ dataReady' = FALSE /\ data' = "none" /\ chainData' = <<>>
    /\ identityData' = SelfMadeIdentity /\ request' = NoRequest /\ unread' = FALSE
    /\ UNCHANGED file

\* In the time between, the service may stop to accept the token that was saved.
Restart ==
    /\ main = "down" /\ main' = "load"
    /\ UNCHANGED <<file, tkn, device, pingVars, loginVars, unread, faults>>

Crash == main \notin {"down", "login", "connected"} /\ Fault /\ Terminate

Expire ==
    /\ file = "good" /\ main \in {"down", "load"} /\ Fault /\ file' = "stale"
    /\ UNCHANGED <<main, tkn, device, pingVars, loginVars, unread>>

--------------------------------------------------------------------------------
(* main: the token.                                                         *)

\* Mutant of Load: a file that is not there is read as well.
Load_Absent ==
    /\ main = "load" /\ main' = "refresh" /\ tkn' = file
    /\ UNCHANGED <<file, device, pingVars, loginVars, unread, faults>>

\* Mutant of Load: a token that could be read is used as it is.
Load_Trusting ==
    /\ main = "load"
    /\ IF file = "absent" THEN main' = "authorize" /\ UNCHANGED tkn
                          ELSE main' = "ping" /\ tkn' = file
    /\ UNCHANGED <<file, device, pingVars, loginVars, unread, faults>>

\* LoadFromFile throws without a file; a content that is not JSON is an empty token.
Load ==
    /\ main = "load"
    /\ IF file = "absent" THEN main' = "authorize" /\ UNCHANGED tkn
                          ELSE main' = "refresh" /\ tkn' = file
    /\ UNCHANGED <<file, device, pingVars, loginVars, unread, faults>>

\* The service may take back the token it renews.
RefreshToken ==
    /\ main = "refresh" /\ tkn = "good" /\ main' = "save"
    /\ file' \in {file, "stale"}
    /\ UNCHANGED <<tkn, device, pingVars, loginVars, unread, faults>>

\* A text that is no JSON has no Error either: the token is emptied.
RefreshToken_Unread ==
    /\ main = "refresh" /\ Fault /\ main' = "save" /\ tkn' = "none" /\ unread' = TRUE
    /\ UNCHANGED <<file, device, pingVars, loginVars>>

\* Mutant of RefreshToken_Refused: the exception is not caught.
RefreshToken_Refused_Uncaught == main = "refresh" /\ tkn # "good" /\ Terminate /\ UNCHANGED faults

\* Refused, or without an answer: main catches the exception.
RefreshToken_Refused ==
    /\ main = "refresh" /\ main' = "authorize"
    /\ IF tkn # "good" THEN UNCHANGED faults ELSE Fault
    /\ UNCHANGED <<file, tkn, device, pingVars, loginVars, unread>>

\* Save truncates the file, then writes.  When it cannot be opened the exception is
\* caught after a refresh, which was gotToken already, and ends the program otherwise.
Save_Open ==
    /\ main \in {"save", "saveNew"} /\ main' = "write" /\ file' = "none"
    /\ UNCHANGED <<tkn, device, pingVars, loginVars, unread, faults>>

Save_Fails ==
    /\ Fault
    /\ \/ /\ main = "save" /\ main' = "ping"
          /\ UNCHANGED <<file, tkn, device, pingVars, loginVars, unread>>
       \/ main = "saveNew" /\ Terminate

Save_Write ==
    /\ main = "write" /\ main' = "ping" /\ file' = tkn
    /\ UNCHANGED <<tkn, device, pingVars, loginVars, unread, faults>>

StartDeviceAuth ==
    /\ main = "authorize"
    /\ \/ main' = "poll" /\ device' = "shown" /\ UNCHANGED faults
          /\ UNCHANGED <<file, tkn, pingVars, loginVars, unread>>
       \/ Fault /\ Terminate

\* The user enters the code.
Approve ==
    /\ main = "poll" /\ device = "shown" /\ device' = "approved"
    /\ UNCHANGED <<main, file, tkn, pingVars, loginVars, unread, faults>>

\* While the authorization is pending the program sleeps and asks again.
PollDeviceAuth ==
    /\ main = "poll" /\ device = "approved" /\ main' = "saveNew" /\ tkn' = "good"
    /\ UNCHANGED <<file, device, pingVars, loginVars, unread, faults>>

PollDeviceAuth_Unread ==
    /\ main = "poll" /\ Fault /\ main' = "saveNew" /\ tkn' = "none" /\ unread' = TRUE
    /\ UNCHANGED <<file, device, pingVars, loginVars>>

PollDeviceAuth_Error == main = "poll" /\ Fault /\ Terminate

--------------------------------------------------------------------------------
(* Ping.                                                                    *)

\* One ping: cbOnConnected is not called again.
Ping_Send ==
    /\ main = "ping" /\ main' = "pong" /\ pings' = 1
    /\ UNCHANGED <<file, tkn, device, pongs, io, dataReady, data, loginVars, unread, faults>>

\* The server answers, and the network may deliver the answer twice.
ServerPong ==
    /\ pings > 0 /\ pings' = 0 /\ pongs' \in {1, 2}
    /\ UNCHANGED <<main, file, tkn, device, io, dataReady, data, loginVars, unread, faults>>

LosePing ==
    /\ pings + pongs > 0 /\ Fault /\ pings' = 0 /\ pongs' = 0
    /\ UNCHANGED <<main, file, tkn, device, io, dataReady, data, loginVars, unread>>

\* UDPClient::onReceived: an answer is for cbOnReceived, if Ping has not taken it away.
OnReceived ==
    /\ pongs > 0 /\ io = "idle" /\ pongs' = pongs - 1
    /\ io' = IF main = "pong" THEN "called" ELSE "idle"
    /\ UNCHANGED <<main, file, tkn, device, pings, dataReady, data, loginVars, unread, faults>>

\* Mutant of OnReceived_Called: it does not look whether the data is there.
OnReceived_Called_Again ==
    /\ io = "called" /\ main = "pong" /\ io' = "read"
    /\ UNCHANGED <<main, file, tkn, device, pings, pongs, dataReady, data, loginVars, unread,
                   faults>>

\* cbOnReceived.
OnReceived_Called ==
    /\ io = "called" /\ main = "pong"
    /\ io' = IF dataReady THEN "idle" ELSE "read"
    /\ UNCHANGED <<main, file, tkn, device, pings, pongs, dataReady, data, loginVars, unread,
                   faults>>

\* Tested before Ping took it away and called after: an empty function ends the program,
\* and so may a body that runs on, or it finds the data ready, or writes where Ping's
\* locals were, which nobody reads.
OnReceived_Late ==
    /\ io = "called" /\ main # "pong"
    /\ \/ /\ io' = "idle"
          /\ UNCHANGED <<main, file, tkn, device, pings, pongs, dataReady, data, loginVars,
                         unread, faults>>
       \/ Fault /\ Terminate

\* p.data is copied byte by byte.
OnReceived_Copy ==
    /\ \/ io = "read" /\ data' = "torn" /\ io' = "copying"
       \/ io = "copying" /\ data' = "pong" /\ io' = "ready"
    /\ UNCHANGED <<main, file, tkn, device, pings, pongs, dataReady, loginVars, unread, faults>>

OnReceived_Ready ==
    /\ io = "ready" /\ io' = "idle" /\ dataReady' = TRUE
    /\ UNCHANGED <<main, file, tkn, device, pings, pongs, data, loginVars, unread, faults>>

\* "Clean-up": both callbacks are emptied, whatever the IO thread is about.
Ping_Cleanup ==
    /\ main = "pong" /\ dataReady /\ main' = "cleanup"
    /\ UNCHANGED <<file, tkn, device, pingVars, loginVars, unread, faults>>

\* The socket is closed, the datagrams still under way are dropped, the locals are gone.
\* Without an access token no chain is requested.
Ping_Return ==
    /\ main = "cleanup" /\ main' = IF tkn = "none" THEN "raknet" ELSE "deviceToken"
    /\ pings' = 0 /\ pongs' = 0 /\ dataReady' = FALSE /\ data' = "none"
    /\ UNCHANGED <<file, tkn, device, io, loginVars, unread, faults>>

\* "deadline exceeded", once the answer was lost, is caught by nobody.
Ping_Deadline ==
    /\ main = "pong" /\ ~dataReady /\ pings + pongs = 0 /\ io = "idle"
    /\ Terminate /\ UNCHANGED faults

Ping_IO ==
    \/ ServerPong \/ OnReceived \/ OnReceived_Called \/ OnReceived_Late
    \/ OnReceived_Copy \/ OnReceived_Ready

--------------------------------------------------------------------------------
(* Client::Connect: the account services, RakNet, the request.              *)

\* Each of the three requests ends the program when it fails; an answer that is no JSON
\* is refused, has no userInfo to read, or fails to parse in Encode.
Requests(at, then) ==
    /\ main = at
    /\ \/ main' = then /\ UNCHANGED <<file, tkn, device, pingVars, identityData, request,
                                      unread, faults>>
       \/ Fault /\ Terminate

ObtainDeviceToken == Requests("deviceToken", "xblToken") /\ UNCHANGED chainData
ObtainXBLToken    == Requests("xblToken", "chain") /\ UNCHANGED chainData

RequestMinecraftChain ==
    /\ Requests("chain", "raknet")
    /\ chainData' = IF main' = "raknet" THEN MinecraftChain("client") ELSE <<>>

\* conn->Connect and IsConnected: module RaknetHandshake.  Its replies come through the
\* same IO thread, which is then done with the ping.
RaknetConnected ==
    /\ main = "raknet" /\ io = "idle" /\ main' = "encode"
    /\ UNCHANGED <<file, tkn, device, pingVars, loginVars, unread, faults>>

EncodeRequest ==
    /\ main = "encode" /\ tkn # "none" /\ Encodes(chainData) /\ main' = "parse"
    /\ request' = Login_Encode(chainData, "client")
    /\ UNCHANGED <<file, tkn, device, pingVars, chainData, identityData, unread, faults>>

\* The client reads its own request to learn its identity.
ParseRequest ==
    /\ main = "parse"
    /\ IF Parses(request)
       THEN /\ main' = "login" /\ identityData' = ParsedLogin(request).identity
            /\ UNCHANGED <<file, tkn, device, pingVars, chainData, request, unread, faults>>
       ELSE Terminate /\ UNCHANGED faults

EncodeRequest_Offline ==
    /\ main = "encode" /\ tkn = "none" /\ main' = "login"
    /\ request' = EncodeOffline(identityData, "client")
    /\ UNCHANGED <<file, tkn, device, pingVars, chainData, identityData, unread, faults>>

\* Client::Connect goes on in MinecraftClient; request and chain are locals.  The
\* faults of this module, and their history, end here.
SendLogin ==
    /\ main = "login" /\ Connect_Login /\ main' = "connected"
    /\ request' = NoRequest /\ chainData' = <<>> /\ device' = "none"
    /\ unread' = FALSE /\ faults' = MaxFaults
    /\ UNCHANGED <<file, tkn, pingVars, identityData>>

Main ==
    \/ Load \/ RefreshToken \/ RefreshToken_Refused \/ Save_Open \/ Save_Write
    \/ StartDeviceAuth \/ PollDeviceAuth \/ Ping_Send \/ Ping_Cleanup \/ Ping_Return
    \/ Ping_Deadline
    \/ ObtainDeviceToken \/ ObtainXBLToken \/ RequestMinecraftChain \/ RaknetConnected
    \/ EncodeRequest \/ ParseRequest \/ EncodeRequest_Offline

Faults == Crash \/ Expire \/ RefreshToken_Unread \/ Save_Fails \/ PollDeviceAuth_Unread
          \/ PollDeviceAuth_Error \/ LosePing

\* The login itself, and what the account has to do with it: nothing.
InLogin(A) == main = "connected" /\ A /\ UNCHANGED accountVars
Play == InLogin(Next)

ConnectNext ==
    \/ (Main \/ Ping_IO \/ Approve \/ Restart \/ Faults) /\ UNCHANGED vars
    \/ SendLogin \/ Play

ConnectSpec == AccountInit /\ [][ConnectNext]_allVars

\* Each thread runs: the main thread, also when it is Connect; the IO thread; the two
\* loops.  The servers answer.  The user approves the device, and starts the program
\* again that ended, while the main thread can do nothing.
MainThread ==
    \/ (Main \/ Approve \/ Restart) /\ UNCHANGED vars
    \/ SendLogin \/ InLogin(Connect \/ Flush("connect"))

FairConnectSpec ==
    /\ ConnectSpec /\ WF_allVars(MainThread) /\ WF_allVars(Ping_IO /\ UNCHANGED vars)
    /\ WF_allVars(InLogin(Listen \/ Flush("listen")))
    /\ WF_allVars(InLogin(FlushLoop \/ Flush("flush")))
    /\ WF_allVars(InLogin(ServerTake \/ ServerHandle))

--------------------------------------------------------------------------------
\* Every variable keeps its type, and the login begins only once it was requested.
ConnectTypeOK ==
    /\ TypeOK
    /\ main \in Mains /\ file \in {"absent"} \cup Tokens /\ tkn \in Tokens
    /\ device \in {"none", "shown", "approved"} /\ pings \in 0 .. 1 /\ pongs \in 0 .. 2
    /\ io \in {"idle", "called", "read", "copying", "ready"} /\ data \in {"none", "torn", "pong"}
    /\ dataReady \in BOOLEAN /\ unread \in BOOLEAN /\ faults \in 0 .. MaxFaults
    /\ main # "connected" => written = <<>> /\ pc["listen"] = "off"

\* Ping, raknet.cpp: from the moment the data is said to be ready until Ping returns, it is
\* a whole answer that no second one writes over, though its callback may still be called.
\* It says nothing of a callback that is called when Ping has returned.
PingComplete ==
    main \in {"pong", "cleanup"} /\ dataReady => data = "pong" /\ io \in {"idle", "called"}

\* main, test.cpp: a login without the account happens only when an answer of the
\* service could not be read, whatever a crash left in the file.
OfflineForAReason == main \in {"encode", "login"} /\ tkn = "none" => unread

\* Encode, Parse: every token of the request verifies with the key of its own header,
\* the client's key and identity are those of its last token, and the claims of the
\* raw token read back as the client data.
RequestIsUnderstood ==
    main = "login" =>
        LET last == Last(request.chain) IN
        /\ \A i \in DOMAIN request.chain : Verifies(request.chain[i])
        /\ LoadPublicKey(Base64_Decode(last.identityPublicKey)) = request.rawToken.signedBy
        /\ Identity_Deserialize(last.extraData) = identityData
        /\ tkn # "none" => identityData = AccountIdentity
        /\ Deserialize(FromClaims(request.rawToken.claims)) = ClientData

\* main, Connect: the program logs in at last, wherever it was ended before and whatever
\* its file holds, the account's token having expired or its file half written.
LogsInAtLast == <>(main = "connected")

\* main prints "Got live token!" when a poll succeeded: there is a token then.
GotLiveToken == main = "saveNew" => tkn # "none"
================================================================================
