------------------------------- MODULE WsLink -------------------------------
(***************************************************************************)
(* The WebSocket links between wakehub clients and the hub: the message    *)
(* alphabet of internal/protocol and, per connection, the two directions   *)
(* of traffic and the state of both ends.                                  *)
(*                                                                         *)
(* gorilla/websocket and TCP are external.  What the code relies on is     *)
(* modelled: a direction is FIFO; Close() makes the closer's own reads and *)
(* writes fail and lets the peer drain what was sent before it sees an     *)
(* error; a broken path loses what is in flight, makes writes succeed into *)
(* the void or fail, and makes both ends' read deadlines expire.           *)
(***************************************************************************)
EXTENDS Naturals, Sequences

CONSTANTS
    Conns,      \* connection identities; one is reused once nobody holds it
    Keys,       \* client keys a device can be bound to
    Tokens,     \* client tokens; NoToken is one of them
    MaxClock,   \* bound: last reading of the clock request ids are made from
    NoConn, NoKey, NoToken, NoReq, NoMsg

ASSUME LinkAssumption ==
    /\ MaxClock \in Nat
    /\ NoConn \notin Conns
    /\ NoKey \notin Keys
    /\ NoToken \in Tokens

VARIABLES
    srvOpen,    \* srvOpen[c]: the hub's end has not been closed
    cliOpen,    \* cliOpen[c]: the client's end has not been closed
    broken,     \* broken[c]: the path is gone, neither end was told
    toHub,      \* toHub[c]: frames on their way to the hub
    toClient    \* toClient[c]: frames on their way to the client

linkVars == <<srvOpen, cliOpen, broken, toHub, toClient>>

-----------------------------------------------------------------------------
\* A request id is made from the key and a reading of the clock.
ReqIds == Keys \X (0 .. MaxClock)

AckStatus == {"accepted", "executed", "duplicate"}
AuthCodes == {"invalid_hello", "token_mismatch"}
Controls == {"shutdown", "restart"}

Hello(k, t) == [type |-> "hello", key |-> k, token |-> t]
HelloOK == [type |-> "hello_ok"]
ErrorMsg(code) == [type |-> "error", code |-> code]
Control(typ, r) == [type |-> typ, requestId |-> r]
Ping == [type |-> "ping"]
Pong == [type |-> "pong"]
ShutdownAck(status, r) ==
    [type |-> "shutdown_ack", status |-> status, requestId |-> r]
ShutdownErr(r) == [type |-> "shutdown_err", requestId |-> r]

HubMsgs ==
    [type : {"hello_ok", "pong"}] \cup [type : {"error"}, code : AuthCodes]
        \cup [type : Controls, requestId : ReqIds]

ClientMsgs ==
    [type : {"ping"}]
        \cup [type : {"hello"}, key : Keys \cup {NoKey}, token : Tokens]
        \cup [type : {"shutdown_ack"}, status : AckStatus, requestId : ReqIds]
        \cup [type : {"shutdown_err"}, requestId : ReqIds]

-----------------------------------------------------------------------------
LinkTypeOK ==
    /\ srvOpen \in [Conns -> BOOLEAN]
    /\ cliOpen \in [Conns -> BOOLEAN]
    /\ broken \in [Conns -> BOOLEAN]
    /\ toHub \in [Conns -> Seq(ClientMsgs)]
    /\ toClient \in [Conns -> Seq(HubMsgs)]

LinkInit ==
    /\ srvOpen = [c \in Conns |-> FALSE]
    /\ cliOpen = [c \in Conns |-> FALSE]
    /\ broken = [c \in Conns |-> FALSE]
    /\ toHub = [c \in Conns |-> <<>>]
    /\ toClient = [c \in Conns |-> <<>>]

LinkUp(c) == srvOpen[c] /\ cliOpen[c] /\ ~broken[c]

\* What a queue becomes when a frame is written on connection c.
Written(q, c, m) == IF LinkUp(c) THEN [q EXCEPT ![c] = Append(@, m)] ELSE q

\* The outcomes a write on c may report to the end whose flag is `open`.
WriteMayReport(ok, open, c) == IF ok THEN open ELSE ~LinkUp(c)

\* A dial: both ends open, the client's first frame on its way.
Open(c, first) ==
    /\ srvOpen' = [srvOpen EXCEPT ![c] = TRUE]
    /\ cliOpen' = [cliOpen EXCEPT ![c] = TRUE]
    /\ broken' = [broken EXCEPT ![c] = FALSE]
    /\ toHub' = [toHub EXCEPT ![c] = <<first>>]
    /\ toClient' = [toClient EXCEPT ![c] = <<>>]

\* conn.Close() at the hub's end of the connections S; frames not yet read
\* there are gone.
CloseAtHub(S) ==
    /\ srvOpen' = [c \in Conns |-> srvOpen[c] /\ c \notin S]
    /\ toHub' = [c \in Conns |-> IF c \in S THEN <<>> ELSE toHub[c]]

\* conn.Close() at the client's end, or the kernel closing a dead process's
\* socket.
CloseAtClient(c) ==
    /\ cliOpen' = [cliOpen EXCEPT ![c] = FALSE]
    /\ toClient' = [toClient EXCEPT ![c] = <<>>]

\* The path goes away: power cut, unplugged cable, a NAT that forgets.
Break(c) ==
    /\ LinkUp(c)
    /\ broken' = [broken EXCEPT ![c] = TRUE]
    /\ toHub' = [toHub EXCEPT ![c] = <<>>]
    /\ toClient' = [toClient EXCEPT ![c] = <<>>]
    /\ UNCHANGED <<srvOpen, cliOpen>>

\* ReadMessage returns an error at the hub, at the client.
HubReadFails(c) ==
    \/ ~srvOpen[c]
    \/ broken[c]
    \/ ~cliOpen[c] /\ toHub[c] = <<>>

ClientReadFails(c) ==
    \/ ~cliOpen[c]
    \/ broken[c]
    \/ ~srvOpen[c] /\ toClient[c] = <<>>
=============================================================================
