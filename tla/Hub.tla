-------------------------------- MODULE Hub --------------------------------
(***************************************************************************)
(* internal/clientlink/hub.go: the registry of connected clients, one      *)
(* HandleWS goroutine per connection, and the API calls that push a        *)
(* control message to a client.                                            *)
(*                                                                         *)
(* A handler's step ends where it gives up h.mu or blocks on the network,  *)
(* so that anything may happen between reading the token and registering,  *)
(* between registering and hello_ok, between reading a frame and applying  *)
(* it to the registry.  A connection stands for its connEntry too: each    *)
(* handler makes exactly one entry, over its own connection.               *)
(***************************************************************************)
EXTENDS WsLink

CONSTANTS
    Callers,    \* API calls of SendControl, one call each
    NoEvent

VARIABLES
    token,      \* h.token
    clients,    \* h.clients: key -> the connection of its entry, or NoConn
    hpc,        \* where the handler of a connection stands
    hkey,       \* hello.Key of the handler's connection
    hmsg,       \* the frame the handler has read and not finished with
    lastEvent,  \* info.LastEvent of the connection's entry
    hubLog,     \* the (requestId, status) pairs of shutdown_ack the hub logged
    clock,      \* what time.Now() reads; coarse, so two calls may see the same
    call        \* call[a]: an API call in progress or answered

hubVars == <<token, clients, hpc, hkey, hmsg, lastEvent, hubLog, clock, call>>

-----------------------------------------------------------------------------
\* "hello" waits for the first frame, "token" has a valid hello, "register"
\* has passed the token check, "greet" is registered, "loop" reads frames,
\* "apply" has read one that updates the registry, "cleanup" left the loop,
\* "return" runs the deferred Close.
HandlerPcs == {"none", "hello", "token", "register", "greet", "loop",
               "apply", "cleanup", "return"}

\* The handler owns an entry it put in the registry and has not given up.
Registered(c) == hpc[c] \in {"greet", "loop", "apply", "cleanup"}

\* info.LastEvent: the frame's type and, where it has one, its status.
Events == ({"shutdown_ack"} \X AckStatus) \cup {<<"shutdown_err">>}

ASSUME EventAssumption == NoEvent \notin Events

EventOf(m) == IF m.type = "shutdown_ack" THEN <<m.type, m.status>>
                                         ELSE <<m.type>>

\* "found" has the entry it will write on, "sent" has written its frame and
\* not been answered, "ok" was answered with the request id, "lost" was sent
\* when the server died and is never answered; "offline" and "error" are the
\* calls that wrote nothing.
Calls == [pc : {"idle", "found", "sent", "ok", "lost", "offline", "error"},
          key : Keys \cup {NoKey}, type : Controls,
          conn : Conns \cup {NoConn}, requestId : ReqIds \cup {NoReq}]

\* The call has put its frame on the wire, whatever its caller is told.
Wrote(a) == call[a].pc \in {"sent", "ok", "lost"}

IdleCall == [pc |-> "idle", key |-> NoKey, type |-> "shutdown",
             conn |-> NoConn, requestId |-> NoReq]

HubTypeOK ==
    /\ token \in Tokens
    /\ clients \in [Keys -> Conns \cup {NoConn}]
    /\ hpc \in [Conns -> HandlerPcs]
    /\ hkey \in [Conns -> Keys \cup {NoKey}]
    /\ hmsg \in [Conns -> ClientMsgs \cup {NoMsg}]
    /\ lastEvent \in [Conns -> Events \cup {NoEvent}]
    /\ hubLog \in SUBSET (ReqIds \X AckStatus)
    /\ clock \in 0 .. MaxClock
    /\ call \in [Callers -> Calls]

HubInit ==
    /\ token \in Tokens
    /\ clients = [k \in Keys |-> NoConn]
    /\ hpc = [c \in Conns |-> "none"]
    /\ hkey = [c \in Conns |-> NoKey]
    /\ hmsg = [c \in Conns |-> NoMsg]
    /\ lastEvent = [c \in Conns |-> NoEvent]
    /\ hubLog = {}
    /\ clock = 0
    /\ call = [a \in Callers |-> IdleCall]

-----------------------------------------------------------------------------
(* HandleWS, one action per step of the goroutine of connection c.         *)

\* Upgrade.
Accept(c) ==
    /\ hpc' = [hpc EXCEPT ![c] = "hello"]
    /\ UNCHANGED <<token, clients, hkey, hmsg, lastEvent, hubLog, clock, call>>

\* The first frame fails to arrive: the read errs or its deadline expires.
HelloLost(c) ==
    /\ hpc[c] = "hello"
    /\ HubReadFails(c)
    /\ hpc' = [hpc EXCEPT ![c] = "return"]
    /\ UNCHANGED <<token, clients, hkey, hmsg, lastEvent, hubLog, clock, call,
                   linkVars>>

\* The first frame is a hello with a key, or it is refused.
ReadHello(c) ==
    /\ hpc[c] = "hello"
    /\ srvOpen[c] /\ toHub[c] # <<>>
    /\ LET m == Head(toHub[c])
           valid == m.type = "hello" /\ m.key # NoKey
       IN  IF valid
           THEN /\ hpc' = [hpc EXCEPT ![c] = "token"]
                /\ hkey' = [hkey EXCEPT ![c] = m.key]
                /\ hmsg' = [hmsg EXCEPT ![c] = m]
                /\ UNCHANGED toClient
           ELSE /\ hpc' = [hpc EXCEPT ![c] = "return"]
                /\ toClient' = Written(toClient, c, ErrorMsg("invalid_hello"))
                /\ UNCHANGED <<hkey, hmsg>>
    /\ toHub' = [toHub EXCEPT ![c] = Tail(@)]
    /\ UNCHANGED <<token, clients, lastEvent, hubLog, clock, call,
                   srvOpen, cliOpen, broken>>

\* Sensitivity variant: a mismatch is answered, but the handler goes on.
CheckTokenGoingOn(c) ==
    /\ hpc[c] = "token"
    /\ IF token # NoToken /\ hmsg[c].token # token
       THEN toClient' = Written(toClient, c, ErrorMsg("token_mismatch"))
       ELSE UNCHANGED toClient
    /\ hpc' = [hpc EXCEPT ![c] = "register"]
    /\ hmsg' = [hmsg EXCEPT ![c] = NoMsg]
    /\ UNCHANGED <<token, clients, hkey, lastEvent, hubLog, clock, call,
                   srvOpen, cliOpen, broken, toHub>>

\* The token read under RLock decides, whatever SetToken does afterwards.
CheckToken(c) ==
    /\ hpc[c] = "token"
    /\ IF token # NoToken /\ hmsg[c].token # token
       THEN /\ hpc' = [hpc EXCEPT ![c] = "return"]
            /\ toClient' = Written(toClient, c, ErrorMsg("token_mismatch"))
       ELSE /\ hpc' = [hpc EXCEPT ![c] = "register"]
            /\ UNCHANGED toClient
    /\ hmsg' = [hmsg EXCEPT ![c] = NoMsg]
    /\ UNCHANGED <<token, clients, hkey, lastEvent, hubLog, clock, call,
                   srvOpen, cliOpen, broken, toHub>>

\* Sensitivity variant: the previous connection of the key stays open.
RegisterKeepingOld(c) ==
    /\ hpc[c] = "register"
    /\ clients' = [clients EXCEPT ![hkey[c]] = c]
    /\ hpc' = [hpc EXCEPT ![c] = "greet"]
    /\ lastEvent' = [lastEvent EXCEPT ![c] = NoEvent]
    /\ UNCHANGED <<token, hkey, hmsg, hubLog, clock, call, linkVars>>

\* Under h.mu: close the connection the key had, put the new entry in place.
Register(c) ==
    /\ hpc[c] = "register"
    /\ CloseAtHub({clients[hkey[c]]})
    /\ clients' = [clients EXCEPT ![hkey[c]] = c]
    /\ hpc' = [hpc EXCEPT ![c] = "greet"]
    /\ lastEvent' = [lastEvent EXCEPT ![c] = NoEvent]
    /\ UNCHANGED <<token, hkey, hmsg, hubLog, clock, call,
                   cliOpen, broken, toClient>>

\* hello_ok goes out after the entry is visible to SendControl.
Greet(c) ==
    /\ hpc[c] = "greet"
    /\ toClient' = Written(toClient, c, HelloOK)
    /\ hpc' = [hpc EXCEPT ![c] = "loop"]
    /\ UNCHANGED <<token, clients, hkey, hmsg, lastEvent, hubLog, clock, call,
                   srvOpen, cliOpen, broken, toHub>>

\* A frame of the read loop: a ping is answered at once, an acknowledgement
\* is decoded and then waits for h.mu.  (Clients send nothing else; the loop
\* would ignore it.)
ReadFrame(c) ==
    /\ hpc[c] = "loop"
    /\ srvOpen[c] /\ toHub[c] # <<>>
    /\ toHub' = [toHub EXCEPT ![c] = Tail(@)]
    /\ LET m == Head(toHub[c]) IN
       \/ /\ m.type = "ping"
          /\ toClient' = Written(toClient, c, Pong)
          /\ UNCHANGED <<hpc, hmsg>>
       \/ /\ m.type \in {"shutdown_ack", "shutdown_err"}
          /\ hpc' = [hpc EXCEPT ![c] = "apply"]
          /\ hmsg' = [hmsg EXCEPT ![c] = m]
          /\ UNCHANGED toClient
    /\ UNCHANGED <<token, clients, hkey, lastEvent, hubLog, clock, call,
                   srvOpen, cliOpen, broken>>

\* Under h.mu: the entry the key has now, which may be a successor's, takes
\* the event; then the acknowledgement is logged.
ApplyAck(c) ==
    /\ hpc[c] = "apply"
    /\ LET e == clients[hkey[c]] IN
       lastEvent' = [d \in Conns |-> IF d = e THEN EventOf(hmsg[c])
                                              ELSE lastEvent[d]]
    /\ hubLog' = IF hmsg[c].type = "shutdown_ack"
                 THEN hubLog \cup {<<hmsg[c].requestId, hmsg[c].status>>}
                 ELSE hubLog
    /\ hpc' = [hpc EXCEPT ![c] = "loop"]
    /\ hmsg' = [hmsg EXCEPT ![c] = NoMsg]
    /\ UNCHANGED <<token, clients, hkey, clock, call, linkVars>>

\* The read loop ends: closed by a takeover, by the client, or by the
\* deadline of a path that went silent.
ReadFails(c) ==
    /\ hpc[c] = "loop"
    /\ HubReadFails(c)
    /\ hpc' = [hpc EXCEPT ![c] = "cleanup"]
    /\ UNCHANGED <<token, clients, hkey, hmsg, lastEvent, hubLog, clock, call,
                   linkVars>>

\* Sensitivity variant: cleanup drops whatever entry the key has.
DeregisterUnchecked(c) ==
    /\ hpc[c] = "cleanup"
    /\ clients' = [clients EXCEPT ![hkey[c]] = NoConn]
    /\ hpc' = [hpc EXCEPT ![c] = "return"]
    /\ UNCHANGED <<token, hkey, hmsg, lastEvent, hubLog, clock, call, linkVars>>

\* Sensitivity variant: an entry that was not superseded is left behind.
DeregisterNothing(c) ==
    /\ hpc[c] = "cleanup"
    /\ hpc' = [hpc EXCEPT ![c] = "return"]
    /\ UNCHANGED <<token, clients, hkey, hmsg, lastEvent, hubLog, clock, call,
                   linkVars>>

\* Under h.mu: the entry goes only if it is this connection's.
Deregister(c) ==
    /\ hpc[c] = "cleanup"
    /\ clients' = IF clients[hkey[c]] = c
                  THEN [clients EXCEPT ![hkey[c]] = NoConn] ELSE clients
    /\ hpc' = [hpc EXCEPT ![c] = "return"]
    /\ UNCHANGED <<token, hkey, hmsg, lastEvent, hubLog, clock, call, linkVars>>

\* The deferred conn.Close(); the connection has no handler afterwards.
Return(c) ==
    /\ hpc[c] = "return"
    /\ CloseAtHub({c})
    /\ hpc' = [hpc EXCEPT ![c] = "none"]
    /\ hkey' = [hkey EXCEPT ![c] = NoKey]
    /\ lastEvent' = [lastEvent EXCEPT ![c] = NoEvent]
    /\ UNCHANGED <<token, clients, hmsg, hubLog, clock, call,
                   cliOpen, broken, toClient>>

-----------------------------------------------------------------------------
(* SendControl, SetToken, the clock and the server process.                *)

\* The entry is looked up under RLock and used after it is released.
Lookup(a, k, typ) ==
    /\ call[a].pc = "idle"
    /\ call' = [call EXCEPT ![a] =
          IF clients[k] = NoConn
          THEN [IdleCall EXCEPT !.pc = "offline", !.key = k, !.type = typ]
          ELSE [IdleCall EXCEPT !.pc = "found", !.key = k, !.type = typ,
                                !.conn = clients[k]]]
    /\ UNCHANGED <<token, clients, hpc, hkey, hmsg, lastEvent, hubLog, clock,
                   linkVars>>

\* Under the entry's mutex: the request id is read off the clock, the frame
\* written.  From here on the client can act on it.
WriteControl(a, ok) ==
    /\ call[a].pc = "found"
    /\ LET c == call[a].conn
           r == <<call[a].key, clock>>
       IN  /\ WriteMayReport(ok, srvOpen[c], c)
           /\ toClient' = IF ok THEN Written(toClient, c,
                                             Control(call[a].type, r))
                                ELSE toClient
           /\ call' = [call EXCEPT ![a] =
                 IF ok THEN [@ EXCEPT !.pc = "sent", !.conn = NoConn,
                                      !.requestId = r]
                       ELSE [@ EXCEPT !.pc = "error", !.conn = NoConn]]
    /\ UNCHANGED <<token, clients, hpc, hkey, hmsg, lastEvent, hubLog, clock,
                   srvOpen, cliOpen, broken, toHub>>

\* SendControl returns the request id, and the API call that made it is
\* answered with it.
Answer(a) ==
    /\ call[a].pc = "sent"
    /\ call' = [call EXCEPT ![a].pc = "ok"]
    /\ UNCHANGED <<token, clients, hpc, hkey, hmsg, lastEvent, hubLog, clock,
                   linkVars>>

SetToken(t) ==
    /\ token' = t
    /\ UNCHANGED <<clients, hpc, hkey, hmsg, lastEvent, hubLog, clock, call,
                   linkVars>>

Tick ==
    /\ clock < MaxClock
    /\ clock' = clock + 1
    /\ UNCHANGED <<token, clients, hpc, hkey, hmsg, lastEvent, hubLog, call,
                   linkVars>>

\* The server process dies and is started again: the registry, the handlers
\* and the calls in progress are gone, the token is read back from the store.
\* A frame that was written stays on its way, though nobody is told its id.
HubRestart ==
    /\ clients' = [k \in Keys |-> NoConn]
    /\ hpc' = [c \in Conns |-> "none"]
    /\ hkey' = [c \in Conns |-> NoKey]
    /\ hmsg' = [c \in Conns |-> NoMsg]
    /\ lastEvent' = [c \in Conns |-> NoEvent]
    /\ call' = [a \in Callers |->
          CASE call[a].pc = "found" -> [call[a] EXCEPT !.pc = "error",
                                                       !.conn = NoConn]
            [] call[a].pc = "sent" -> [call[a] EXCEPT !.pc = "lost"]
            [] OTHER -> call[a]]
    /\ CloseAtHub(Conns)
    /\ UNCHANGED <<token, hubLog, clock, cliOpen, broken, toClient>>

Handler(c) ==
    \/ HelloLost(c) \/ ReadHello(c) \/ CheckToken(c) \/ Register(c)
    \/ Greet(c) \/ ReadFrame(c) \/ ApplyAck(c) \/ ReadFails(c)
    \/ Deregister(c) \/ Return(c)
=============================================================================
