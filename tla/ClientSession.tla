--------------------------- MODULE ClientSession ---------------------------
(***************************************************************************)
(* internal/clientapp: the client process.  Run dials again and again;     *)
(* Session says hello, waits for the answer and then reads control         *)
(* messages while a ticker pings; HandleControlMsg acknowledges a          *)
(* power-off request, runs the command in a goroutine and reports how it   *)
(* ended on the connection the request came from.                          *)
(*                                                                         *)
(* A machine is a client process and the host it runs on.  What the host   *)
(* does (power-off, crash, boot) is the environment's.                     *)
(***************************************************************************)
EXTENDS WsLink

CONSTANTS
    Machines,
    KeyOf,      \* KeyOf[p]: the configured key, NoKey if it came out empty
    TokenOf     \* TokenOf[p]: the configured token

ASSUME MachineAssumption ==
    /\ KeyOf \in [Machines -> Keys \cup {NoKey}]
    /\ TokenOf \in [Machines -> Tokens]

VARIABLES
    cpc,        \* where the client process of a machine stands
    conn,       \* the connection of its session, or NoConn
    seen,       \* recentShutdownIDs of the process
    jobs,       \* command goroutines of the process
    runs,       \* runs[p][r]: commands the process has started for request r
    executed    \* <<p, r>>: on machine p a command for r ended well, ever

machineVars == <<cpc, conn, seen, jobs, runs, executed>>

-----------------------------------------------------------------------------
\* "idle" is between two sessions, "hello" waits for the hello answer,
\* "fatal" is an exited process, "off" a machine without the process.
ClientPcs == {"idle", "hello", "session", "fatal", "off"}

\* A goroutine: not started the command yet, or it ended well, or badly.
Jobs == [requestId : ReqIds, conn : Conns, st : {"new", "ok", "failed"}]

MachineTypeOK ==
    /\ cpc \in [Machines -> ClientPcs]
    /\ conn \in [Machines -> Conns \cup {NoConn}]
    /\ seen \in [Machines -> SUBSET ReqIds]
    /\ jobs \in [Machines -> SUBSET Jobs]
    /\ runs \in [Machines -> [ReqIds -> Nat]]
    /\ executed \in SUBSET (Machines \X ReqIds)

MachineInit ==
    /\ cpc = [p \in Machines |-> "idle"]
    /\ conn = [p \in Machines |-> NoConn]
    /\ seen = [p \in Machines |-> {}]
    /\ jobs = [p \in Machines |-> {}]
    /\ runs = [p \in Machines |-> [r \in ReqIds |-> 0]]
    /\ executed = {}

\* Some machine still refers to the connection.
HeldByMachine(c) ==
    \E p \in Machines : conn[p] = c \/ \E j \in jobs[p] : j.conn = c

-----------------------------------------------------------------------------
(* Session                                                                 *)

\* Dial and write the hello frame.
Dial(p, c) ==
    /\ cpc[p] = "idle"
    /\ Open(c, Hello(KeyOf[p], TokenOf[p]))
    /\ cpc' = [cpc EXCEPT ![p] = "hello"]
    /\ conn' = [conn EXCEPT ![p] = c]
    /\ UNCHANGED <<seen, jobs, runs, executed>>

\* The session is over: Run waits and dials again.
EndSession(p) ==
    /\ CloseAtClient(conn[p])
    /\ cpc' = [cpc EXCEPT ![p] = "idle"]
    /\ conn' = [conn EXCEPT ![p] = NoConn]
    /\ UNCHANGED <<seen, jobs, runs, executed, srvOpen, broken, toHub>>

\* The process is no more: all it remembered and all its goroutines are gone.
Exit(p, pc) ==
    /\ cpc' = [cpc EXCEPT ![p] = pc]
    /\ conn' = [conn EXCEPT ![p] = NoConn]
    /\ seen' = [seen EXCEPT ![p] = {}]
    /\ jobs' = [jobs EXCEPT ![p] = {}]
    /\ runs' = [runs EXCEPT ![p] = [r \in ReqIds |-> 0]]
    /\ UNCHANGED executed

\* A fatal session error: Run returns and the process exits.
ExitFatal(p) ==
    /\ CloseAtClient(conn[p])
    /\ Exit(p, "fatal")
    /\ UNCHANGED <<srvOpen, broken, toHub>>

\* Sensitivity variant: every answer but hello_ok ends the process.
HelloAnswerAllFatal(p) ==
    /\ cpc[p] = "hello"
    /\ cliOpen[conn[p]] /\ toClient[conn[p]] # <<>>
    /\ IF Head(toClient[conn[p]]) = HelloOK
       THEN /\ cpc' = [cpc EXCEPT ![p] = "session"]
            /\ toClient' = [toClient EXCEPT ![conn[p]] = Tail(@)]
            /\ UNCHANGED <<conn, seen, jobs, runs, executed,
                           srvOpen, cliOpen, broken, toHub>>
       ELSE ExitFatal(p)

\* HandleHelloResponse on the first frame: hello_ok starts the session, an
\* authentication error ends the process, any other frame ends the session.
HelloAnswer(p) ==
    /\ cpc[p] = "hello"
    /\ cliOpen[conn[p]] /\ toClient[conn[p]] # <<>>
    /\ LET m == Head(toClient[conn[p]]) IN
       \/ /\ m.type = "hello_ok"
          /\ cpc' = [cpc EXCEPT ![p] = "session"]
          /\ toClient' = [toClient EXCEPT ![conn[p]] = Tail(@)]
          /\ UNCHANGED <<conn, seen, jobs, runs, executed,
                         srvOpen, cliOpen, broken, toHub>>
       \/ m.type = "error" /\ ExitFatal(p)
       \/ m.type \notin {"hello_ok", "error"} /\ EndSession(p)

\* A read fails while waiting for the answer or in the read loop.
SessionReadFails(p) ==
    /\ cpc[p] \in {"hello", "session"}
    /\ ClientReadFails(conn[p])
    /\ EndSession(p)

\* The 20 s ticker.
SendPing(p) ==
    /\ cpc[p] = "session"
    /\ toHub' = Written(toHub, conn[p], Ping)
    /\ UNCHANGED <<machineVars, srvOpen, cliOpen, broken, toClient>>

\* The head of the read loop: the next frame, taken off the queue.
NextFrame(p, m) ==
    /\ cpc[p] = "session"
    /\ cliOpen[conn[p]] /\ toClient[conn[p]] # <<>>
    /\ m = Head(toClient[conn[p]])
    /\ toClient' = [toClient EXCEPT ![conn[p]] = Tail(@)]

\* Pongs and restart requests change nothing; a restart is not even answered.
IgnoreFrame(p, m) ==
    /\ NextFrame(p, m)
    /\ m.type # "shutdown"
    /\ UNCHANGED <<machineVars, srvOpen, cliOpen, broken, toHub>>

\* Sensitivity variant: no recentShutdownIDs.
PowerOffRequestUndeduped(p, m) ==
    /\ NextFrame(p, m)
    /\ m.type = "shutdown"
    /\ jobs' = [jobs EXCEPT ![p] = @ \cup
                 {[requestId |-> m.requestId, conn |-> conn[p], st |-> "new"]}]
    /\ toHub' = Written(toHub, conn[p], ShutdownAck("accepted", m.requestId))
    /\ seen' = [seen EXCEPT ![p] = @ \cup {m.requestId}]
    /\ UNCHANGED <<cpc, conn, runs, executed, srvOpen, cliOpen, broken>>

\* Sensitivity variant: a restart request runs the power-off command.
PowerOffOnAnyControl(p, m) ==
    /\ NextFrame(p, m)
    /\ m.type \in Controls
    /\ LET r == m.requestId IN
       IF r \in seen[p]
       THEN /\ toHub' = Written(toHub, conn[p], ShutdownAck("duplicate", r))
            /\ UNCHANGED <<seen, jobs>>
       ELSE /\ seen' = [seen EXCEPT ![p] = @ \cup {r}]
            /\ toHub' = Written(toHub, conn[p], ShutdownAck("accepted", r))
            /\ jobs' = [jobs EXCEPT ![p] = @ \cup
                 {[requestId |-> r, conn |-> conn[p], st |-> "new"]}]
    /\ UNCHANGED <<cpc, conn, runs, executed, srvOpen, cliOpen, broken>>

\* HandleControlMsg: a request id seen before is acknowledged as a duplicate;
\* a new one is remembered, acknowledged, and given a goroutine.  The outcome
\* of the acknowledgement's write is only logged.
PowerOffRequest(p, m) ==
    /\ NextFrame(p, m)
    /\ m.type = "shutdown"
    /\ LET r == m.requestId IN
       IF r \in seen[p]
       THEN /\ toHub' = Written(toHub, conn[p], ShutdownAck("duplicate", r))
            /\ UNCHANGED <<seen, jobs>>
       ELSE /\ seen' = [seen EXCEPT ![p] = @ \cup {r}]
            /\ toHub' = Written(toHub, conn[p], ShutdownAck("accepted", r))
            /\ jobs' = [jobs EXCEPT ![p] = @ \cup
                 {[requestId |-> r, conn |-> conn[p], st |-> "new"]}]
    /\ UNCHANGED <<cpc, conn, runs, executed, srvOpen, cliOpen, broken>>

-----------------------------------------------------------------------------
(* The command goroutine                                                   *)

\* CommandRunner ran the command and returned.
RunCommand(p, j, ok) ==
    /\ j \in jobs[p] /\ j.st = "new"
    /\ jobs' = [jobs EXCEPT ![p] = (@ \ {j}) \cup
                 {[j EXCEPT !.st = IF ok THEN "ok" ELSE "failed"]}]
    /\ runs' = [runs EXCEPT ![p][j.requestId] = @ + 1]
    /\ executed' = IF ok THEN executed \cup {<<p, j.requestId>>} ELSE executed
    /\ UNCHANGED <<cpc, conn, seen, linkVars>>

\* Sensitivity variant: a failed command is reported as executed.
ReportAlwaysOk(p, j) ==
    /\ j \in jobs[p] /\ j.st # "new"
    /\ jobs' = [jobs EXCEPT ![p] = @ \ {j}]
    /\ toHub' = Written(toHub, j.conn, ShutdownAck("executed", j.requestId))
    /\ UNCHANGED <<cpc, conn, seen, runs, executed,
                   srvOpen, cliOpen, broken, toClient>>

\* The result goes to the connection the request arrived on, which may be
\* closed by now; the write's outcome is only logged.
Report(p, j) ==
    /\ j \in jobs[p] /\ j.st # "new"
    /\ jobs' = [jobs EXCEPT ![p] = @ \ {j}]
    /\ toHub' = Written(toHub, j.conn,
                        IF j.st = "ok" THEN ShutdownAck("executed", j.requestId)
                                       ELSE ShutdownErr(j.requestId))
    /\ UNCHANGED <<cpc, conn, seen, runs, executed,
                   srvOpen, cliOpen, broken, toClient>>

-----------------------------------------------------------------------------
(* The host                                                                *)

\* The process ends: stopped, killed or powered off.  Either its socket is
\* closed by the kernel, or the host goes without a word.
ProcessEnds(p) ==
    /\ cpc[p] # "off"
    /\ \/ conn[p] = NoConn /\ UNCHANGED linkVars
       \/ /\ conn[p] # NoConn
          /\ CloseAtClient(conn[p])
          /\ UNCHANGED <<srvOpen, broken, toHub>>
       \/ conn[p] # NoConn /\ Break(conn[p])
    /\ Exit(p, "off")

\* The process is started: at boot, by the service manager, by hand.
ProcessStarts(p) ==
    /\ cpc[p] \in {"off", "fatal"}
    /\ cpc' = [cpc EXCEPT ![p] = "idle"]
    /\ UNCHANGED <<conn, seen, jobs, runs, executed, linkVars>>

Session(p) ==
    \/ HelloAnswer(p)
    \/ SessionReadFails(p)
    \/ \E m \in IF conn[p] # NoConn /\ toClient[conn[p]] # <<>>
                THEN {Head(toClient[conn[p]])} ELSE {} :
          IgnoreFrame(p, m) \/ PowerOffRequest(p, m)

Job(p) ==
    \E j \in jobs[p] : Report(p, j) \/ \E ok \in BOOLEAN : RunCommand(p, j, ok)
=============================================================================
