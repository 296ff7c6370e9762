----------------------------- MODULE ClientLink -----------------------------
(***************************************************************************)
(* The hub and the client processes over their WebSocket links: what the   *)
(* server believes about a client, against what the client does.           *)
(***************************************************************************)
EXTENDS Hub, ClientSession

CONSTANTS
    MaxFaults,      \* bound: broken paths, ended processes, hub restarts
    MaxRotations,   \* bound: changes of the hub's token
    MaxQueue        \* bound: a ping is sent only onto shorter queues

ASSUME BoundAssumption ==
    MaxFaults \in Nat /\ MaxRotations \in Nat /\ MaxQueue \in Nat

VARIABLES faults, rotations

vars == <<linkVars, hubVars, machineVars, faults, rotations>>

budget == <<faults, rotations>>

-----------------------------------------------------------------------------
Init ==
    /\ LinkInit /\ HubInit /\ MachineInit
    /\ faults = 0
    /\ rotations = 0

\* Nobody refers to the connection any more: it can stand for a new one.
Free(c) ==
    /\ hpc[c] = "none"
    /\ ~HeldByMachine(c)
    /\ \A a \in Callers : call[a].conn # c

Connect(p, c) == Free(c) /\ Dial(p, c) /\ Accept(c) /\ UNCHANGED budget

HubStep(c) == Handler(c) /\ UNCHANGED <<machineVars, budget>>

SessionStep(p) == Session(p) /\ UNCHANGED <<hubVars, budget>>

JobStep(p) == Job(p) /\ UNCHANGED <<hubVars, budget>>

PingStep(p) ==
    /\ SendPing(p)
    /\ Len(toHub[conn[p]]) < MaxQueue /\ Len(toClient[conn[p]]) < MaxQueue
    /\ UNCHANGED <<hubVars, budget>>

CallStep(a) ==
    /\ \/ \E k \in Keys, typ \in Controls : Lookup(a, k, typ)
       \/ \E ok \in BOOLEAN : WriteControl(a, ok)
       \/ Answer(a)
    /\ UNCHANGED <<machineVars, budget>>

ClockStep == Tick /\ UNCHANGED <<machineVars, budget>>

Rotate ==
    /\ rotations < MaxRotations
    /\ \E t \in Tokens \ {token} : SetToken(t)
    /\ rotations' = rotations + 1
    /\ UNCHANGED <<machineVars, faults>>

\* A command that ended well may take the host down at any moment.
PowerOff(p) ==
    /\ \E j \in jobs[p] : j.st = "ok"
    /\ ProcessEnds(p)
    /\ UNCHANGED <<hubVars, budget>>

Boot(p) == ProcessStarts(p) /\ UNCHANGED <<hubVars, budget>>

Fault ==
    /\ faults < MaxFaults
    /\ faults' = faults + 1
    /\ UNCHANGED rotations
    /\ \/ \E c \in Conns : Break(c) /\ UNCHANGED <<hubVars, machineVars>>
       \/ \E p \in Machines : ProcessEnds(p) /\ UNCHANGED hubVars
       \/ HubRestart /\ UNCHANGED machineVars

Next ==
    \/ \E p \in Machines :
          \/ \E c \in Conns : Connect(p, c)
          \/ SessionStep(p) \/ JobStep(p) \/ PingStep(p)
          \/ PowerOff(p) \/ Boot(p)
    \/ \E c \in Conns : HubStep(c)
    \/ \E a \in Callers : CallStep(a)
    \/ ClockStep \/ Rotate \/ Fault

Spec == Init /\ [][Next]_vars

\* Goroutines that are runnable run: the handlers of the hub, the dial loop,
\* read loop and command goroutines of a client.  API calls, pings, faults,
\* token changes and boots owe nobody anything.
Fairness ==
    /\ \A c \in Conns : WF_vars(HubStep(c))
    /\ \A p \in Machines : /\ WF_vars(\E c \in Conns : Connect(p, c))
                           /\ WF_vars(SessionStep(p))
                           /\ WF_vars(JobStep(p))

FairSpec == Spec /\ Fairness
-----------------------------------------------------------------------------
TypeOK ==
    /\ LinkTypeOK /\ HubTypeOK /\ MachineTypeOK
    /\ faults \in 0 .. MaxFaults
    /\ rotations \in 0 .. MaxRotations

(* The registry *)

\* An entry of h.clients always belongs to a handler of that very key which
\* has yet to run its cleanup, so that no entry can outlive its connection's
\* handler (hub.go: registration, takeover and deferred cleanup).
EntryHasHandler ==
    \A k \in Keys : clients[k] # NoConn =>
        Registered(clients[k]) /\ hkey[clients[k]] = k

\* A connection past its hello that the hub has not closed is the one its key
\* is registered to: a takeover leaves no second open connection of the key
\* behind that pings and acks but can no longer be reached (hub.go 181-184).
OpenIsRegistered ==
    \A c \in Conns :
        Registered(c) /\ hpc[c] # "cleanup" /\ srvOpen[c] =>
            clients[hkey[c]] = c

\* A key goes offline only by the cleanup of the connection it is registered
\* to, or with the server: the cleanup of a superseded connection never takes
\* its successor's entry away (hub.go 262-266).
OnlyOwnerDeregisters ==
    [][\A k \in Keys :
          clients[k] # NoConn /\ clients'[k] = NoConn =>
              \/ hpc[clients[k]] = "cleanup"
              \/ \A c \in Conns : hpc'[c] = "none"]_vars

(* Power-off requests *)

\* A client process starts the power-off command at most once per request id,
\* though two API calls may have drawn the same id (shutdown.go 24-31).
RunsAtMostOnce ==
    \A p \in Machines : \A r \in ReqIds : runs[p][r] <= 1

\* The hub never tells that a power-off was executed for a key unless, on a
\* machine with that key, a command for such a request ended well; the event
\* may be shown on a later connection of the key than the one that ran it
\* (hub.go 237-256, shutdown.go 44-63).
ExecutedEventIsTrue ==
    \A k \in Keys :
        clients[k] # NoConn /\ lastEvent[clients[k]] = <<"shutdown_ack", "executed">> =>
            \E x \in executed : KeyOf[x[1]] = k /\ x[2][1] = k

\* From the API call to the event in the hub's log, the links are what
\* PowerOrders promises: a command is started only for a power-off call for the
\* key of its machine that wrote a frame with this request id, not for one that
\* was told it failed or asked for a restart, and once in the life of the
\* process; the hub logs as executed only what ended well (hub.go 107-123,
\* 237-256, shutdown.go 21-63).  An order stands from the moment its frame is
\* written: the command may run before its caller is answered, or though the
\* caller never is because the server died in between.
Ordering == {a \in Callers : Wrote(a) /\ call[a].type = "shutdown"}

Orders == INSTANCE PowerOrders WITH
             Ids <- ReqIds,
             ordered <- {<<call[a].key, call[a].requestId>> : a \in Ordering},
             done <- executed,
             told <- {r \in ReqIds : <<r, "executed">> \in hubLog}
KeepsOrders == Orders!Spec

\* Nothing is sent on a connection before its hello has been judged: what a
\* refused client gets is an error frame and the end of the connection, and a
\* connection that goes on to register has not been refused (hub.go 153-164).
ControlOnlyAfterAdmission ==
    \A c \in Conns : hpc[c] \in {"hello", "token", "register"} =>
        toClient[c] = <<>>

\* A client process exits for good only when its key is empty or the hub can
\* have required a token it does not have: neither a lost connection nor a
\* frame out of place is taken for a refusal (protocol.go 60-98, run.go 73-76).
FatalIsRefusal ==
    \A p \in Machines : cpc[p] = "fatal" =>
        KeyOf[p] = NoKey \/ Tokens \ {NoToken, TokenOf[p]} # {}

(* Liveness *)

Online(p) == cpc[p] = "session" /\ clients[KeyOf[p]] = conn[p]

\* A client process that keeps running gets online, whatever breaks on the
\* way: control messages ahead of hello_ok, takeovers by its own half-dead
\* connection, hub restarts (run.go 58-89, session.go, hub.go).
ComesOnline ==
    \A p \in Machines :
        cpc[p] \in {"idle", "hello"} ~> (Online(p) \/ cpc[p] = "off")

\* A client that is gone disappears from the registry, even when its host
\* went without a word: the read deadline expires and the handler cleans up
\* (hub.go 200-206, 262-266).
GoneGoesOffline ==
    \A k \in Keys : \A c \in Conns :
        (clients[k] = c /\ ~LinkUp(c)) ~> clients[k] # c

=============================================================================
