-------------------------- MODULE ClientLinkProofs --------------------------
(***************************************************************************)
(* Theorems about ClientLink, for every number of machines, connections,   *)
(* keys and API calls and every bound.                                     *)
(*                                                                         *)
(* TypeOK is not inductive alone: that a handler past the hello knows its  *)
(* key, that a frame set aside is of the kind its step expects, that a     *)
(* session has a connection and a call in progress an entry, is what makes *)
(* the steps well typed.  Knows says so.                                   *)
(***************************************************************************)
EXTENDS ClientLink, TLAPS, SequenceTheorems

Acks == [type : {"shutdown_ack"}, status : AckStatus, requestId : ReqIds]
           \cup [type : {"shutdown_err"}, requestId : ReqIds]

Hellos == [type : {"hello"}, key : Keys \cup {NoKey}, token : Tokens]

HandlerKnows ==
    \A c \in Conns :
        /\ hpc[c] \in {"token", "register"} \/ Registered(c) => hkey[c] \in Keys
        /\ hpc[c] = "token" => hmsg[c] \in Hellos
        /\ hpc[c] = "apply" => hmsg[c] \in Acks

CallKnows ==
    \A a \in Callers :
        call[a].pc = "found" => call[a].conn \in Conns /\ call[a].key \in Keys

SessionKnows ==
    \A p \in Machines : cpc[p] \in {"hello", "session"} => conn[p] \in Conns

Knows == HandlerKnows /\ CallKnows /\ SessionKnows

TypeInv == TypeOK /\ Knows

-----------------------------------------------------------------------------
(* Lemmas about the links                                                  *)

\* Taking a frame off a queue and putting one on keep a queue well typed.
LEMMA QueueTypes ==
    ASSUME NEW S, NEW q \in [Conns -> Seq(S)], NEW c \in Conns
    PROVE  /\ q[c] # <<>> => Head(q[c]) \in S
           /\ q[c] # <<>> => [q EXCEPT ![c] = Tail(@)] \in [Conns -> Seq(S)]
           /\ \A m \in S : Written(q, c, m) \in [Conns -> Seq(S)]
<1>1. q[c] \in Seq(S)
  OBVIOUS
<1>2. q[c] # <<>> => Head(q[c]) \in S /\ Tail(q[c]) \in Seq(S)
  BY <1>1, HeadTailProperties
<1>3. \A m \in S : Append(q[c], m) \in Seq(S)
  BY <1>1, AppendProperties
<1> QED
  BY <1>2, <1>3 DEF Written

\* Closing hub ends keeps the links well typed.
LEMMA CloseAtHubType ==
    ASSUME LinkTypeOK, NEW S, CloseAtHub(S)
    PROVE  srvOpen' \in [Conns -> BOOLEAN] /\ toHub' \in [Conns -> Seq(ClientMsgs)]
<1>1. <<>> \in Seq(ClientMsgs)
  BY EmptySeq
<1>2. \A c \in Conns : (IF c \in S THEN <<>> ELSE toHub[c]) \in Seq(ClientMsgs)
  BY <1>1 DEF LinkTypeOK
<1>3. \A c \in Conns : (srvOpen[c] /\ c \notin S) \in BOOLEAN
  OBVIOUS
<1> QED
  BY <1>2, <1>3 DEF CloseAtHub, LinkTypeOK

\* The frames each side sends are in its alphabet.
LEMMA Alphabets ==
    /\ HelloOK \in HubMsgs /\ Pong \in HubMsgs /\ Ping \in ClientMsgs
    /\ \A code \in AuthCodes : ErrorMsg(code) \in HubMsgs
    /\ \A typ \in Controls, r \in ReqIds : Control(typ, r) \in HubMsgs
    /\ \A k \in Keys \cup {NoKey}, t \in Tokens : Hello(k, t) \in ClientMsgs
    /\ \A st \in AckStatus, r \in ReqIds : ShutdownAck(st, r) \in ClientMsgs
    /\ \A r \in ReqIds : ShutdownErr(r) \in ClientMsgs
  BY DEF HelloOK, Pong, Ping, ErrorMsg, Control, Hello, ShutdownAck,
         ShutdownErr, HubMsgs, ClientMsgs

\* The type of a frame tells its shape.
LEMMA Shapes ==
    /\ \A m \in ClientMsgs : m.type = "hello" => m \in Hellos
    /\ \A m \in ClientMsgs :
          m.type \in {"shutdown_ack", "shutdown_err"} => m \in Acks
    /\ \A m \in HubMsgs : m.type \in Controls => m.requestId \in ReqIds
    /\ \A m \in Acks : EventOf(m) \in Events /\ m \in ClientMsgs
    /\ \A m \in Acks : m.type = "shutdown_ack" =>
          m.requestId \in ReqIds /\ m.status \in AckStatus
<1>1. \A m \in Acks : EventOf(m) \in Events
  BY DEF Acks, EventOf, Events, AckStatus
<1>2. \A m \in ClientMsgs :
          m.type \in {"shutdown_ack", "shutdown_err"} => m \in Acks
  BY DEF ClientMsgs, Acks
<1>3. \A m \in HubMsgs : m.type \in Controls => m.requestId \in ReqIds
  BY DEF HubMsgs, Controls
<1> QED
  BY <1>1, <1>2, <1>3 DEF ClientMsgs, Hellos, Acks

-----------------------------------------------------------------------------
(* Typing                                                                  *)

LEMMA TypeInit == Init => TypeInv
<1> SUFFICES ASSUME Init PROVE TypeInv
  OBVIOUS
<1> USE LinkAssumption, MachineAssumption, BoundAssumption
<1>1. LinkTypeOK
  BY EmptySeq DEF Init, LinkInit, LinkTypeOK
<1>2. HubTypeOK
  BY DEF Init, HubInit, HubTypeOK, HandlerPcs, Calls, IdleCall, Controls
<1>3. MachineTypeOK
  BY DEF Init, MachineInit, MachineTypeOK, ClientPcs
<1>4. Knows
  BY DEF Init, HubInit, MachineInit, Knows, HandlerKnows, CallKnows,
         SessionKnows, Registered, IdleCall
<1> QED
  BY <1>1, <1>2, <1>3, <1>4 DEF Init, TypeInv, TypeOK

\* The hub's own steps keep the links and the hub typed.
LEMMA HandlerType ==
    ASSUME TypeInv, NEW c \in Conns, Handler(c)
    PROVE  LinkTypeOK' /\ HubTypeOK' /\ HandlerKnows' /\ CallKnows'
<1> USE LinkAssumption DEF HandlerPcs
<1> USE DEF TypeInv, TypeOK, HubTypeOK, Knows, HandlerKnows, CallKnows
<1> DEFINE Goal == LinkTypeOK' /\ HubTypeOK' /\ HandlerKnows' /\ CallKnows'
<1>q. /\ toHub[c] # <<>> => Head(toHub[c]) \in ClientMsgs
      /\ toHub[c] # <<>> =>
            [toHub EXCEPT ![c] = Tail(@)] \in [Conns -> Seq(ClientMsgs)]
      /\ \A m \in HubMsgs :
            Written(toClient, c, m) \in [Conns -> Seq(HubMsgs)]
  BY QueueTypes DEF LinkTypeOK
<1>1. CASE HelloLost(c)
  BY <1>1 DEF HelloLost, Registered, linkVars, LinkTypeOK
<1>2. CASE ReadHello(c)
  <2> DEFINE m == Head(toHub[c])
  <2>1. m \in ClientMsgs /\ (m.type = "hello" => m \in Hellos)
    BY <1>2, <1>q, Shapes DEF ReadHello
  <2>2. m.type = "hello" => m.key \in Keys \cup {NoKey}
    BY <2>1 DEF Hellos
  <2>3. toClient' \in [Conns -> Seq(HubMsgs)]
    BY <1>2, <1>q, Alphabets DEF ReadHello, LinkTypeOK, AuthCodes
  <2>4. LinkTypeOK'
    BY <1>2, <1>q, <2>3 DEF ReadHello, LinkTypeOK
  <2>5. HubTypeOK'
    <3>1. UNCHANGED <<token, clients, lastEvent, hubLog, clock, call>>
      BY <1>2 DEF ReadHello
    <3>2. hpc' \in [Conns -> HandlerPcs]
      BY <1>2 DEF ReadHello
    <3>3. hkey' \in [Conns -> Keys \cup {NoKey}] /\ hmsg' \in [Conns -> ClientMsgs \cup {NoMsg}]
      <4>1. CASE m.type = "hello" /\ m.key # NoKey
        <5>1. hkey' = [hkey EXCEPT ![c] = m.key] /\ hmsg' = [hmsg EXCEPT ![c] = m]
          BY <1>2, <4>1 DEF ReadHello
        <5> HIDE DEF m
        <5> QED
          BY <2>1, <2>2, <4>1, <5>1
      <4>2. CASE ~(m.type = "hello" /\ m.key # NoKey)
        BY <1>2, <4>2 DEF ReadHello
      <4> QED
        BY <4>1, <4>2
    <3> QED
      BY <3>1, <3>2, <3>3
  <2>6. HandlerKnows' /\ CallKnows'
    BY <1>2, <2>1, <2>2 DEF ReadHello, Registered
  <2> QED
    BY <2>4, <2>5, <2>6
<1>3. CASE CheckToken(c)
  <2>1. toClient' \in [Conns -> Seq(HubMsgs)]
    BY <1>3, <1>q, Alphabets DEF CheckToken, LinkTypeOK, AuthCodes
  <2>2. LinkTypeOK'
    BY <1>3, <2>1 DEF CheckToken, LinkTypeOK
  <2>3. HubTypeOK'
    BY <1>3 DEF CheckToken
  <2>4. HandlerKnows' /\ CallKnows'
    BY <1>3 DEF CheckToken, Registered
  <2> QED
    BY <2>2, <2>3, <2>4
<1>4. CASE Register(c)
  BY <1>4, CloseAtHubType DEF Register, Registered, LinkTypeOK
<1>5. CASE Greet(c)
  BY <1>5, <1>q, Alphabets DEF Greet, Registered, LinkTypeOK
<1>6. CASE ReadFrame(c)
  <2> DEFINE m == Head(toHub[c])
  <2>1. m \in ClientMsgs
    BY <1>6, <1>q DEF ReadFrame
  <2>2. m.type \in {"shutdown_ack", "shutdown_err"} => m \in Acks
    BY <2>1, Shapes
  <2>3. toClient' \in [Conns -> Seq(HubMsgs)]
    BY <1>6, <1>q, Alphabets DEF ReadFrame, LinkTypeOK
  <2>4. LinkTypeOK'
    BY <1>6, <1>q, <2>3 DEF ReadFrame, LinkTypeOK
  <2>5. HubTypeOK'
    BY <1>6, <2>1 DEF ReadFrame
  <2>6. HandlerKnows' /\ CallKnows'
    BY <1>6, <2>2 DEF ReadFrame, Registered
  <2> QED
    BY <2>4, <2>5, <2>6
<1>7. CASE ApplyAck(c)
  BY <1>7, Shapes DEF ApplyAck, Registered, linkVars, LinkTypeOK
<1>8. CASE ReadFails(c)
  BY <1>8 DEF ReadFails, Registered, linkVars, LinkTypeOK
<1>9. CASE Deregister(c)
  BY <1>9 DEF Deregister, Registered, linkVars, LinkTypeOK
<1>10. CASE Return(c)
  BY <1>10, CloseAtHubType DEF Return, Registered, LinkTypeOK
<1> QED
  BY <1>1, <1>2, <1>3, <1>4, <1>5, <1>6, <1>7, <1>8, <1>9, <1>10 DEF Handler

LEMMA CallType ==
    ASSUME TypeInv, NEW a \in Callers,
           \/ \E k \in Keys, typ \in Controls : Lookup(a, k, typ)
           \/ \E ok \in BOOLEAN : WriteControl(a, ok)
           \/ Answer(a)
    PROVE  LinkTypeOK' /\ HubTypeOK' /\ HandlerKnows' /\ CallKnows'
<1> USE LinkAssumption
<1> USE DEF TypeInv, TypeOK, HubTypeOK, Knows, HandlerKnows, CallKnows
<1>1. ASSUME NEW k \in Keys, NEW typ \in Controls, Lookup(a, k, typ)
      PROVE  LinkTypeOK' /\ HubTypeOK' /\ HandlerKnows' /\ CallKnows'
  <2> DEFINE off == [IdleCall EXCEPT !.pc = "offline", !.key = k, !.type = typ]
             fnd == [IdleCall EXCEPT !.pc = "found", !.key = k, !.type = typ,
                                     !.conn = clients[k]]
  <2>1. off \in Calls /\ off.pc = "offline"
    BY DEF IdleCall, Calls
  <2>2. fnd \in Calls /\ fnd.conn = clients[k] /\ fnd.key = k
    BY DEF IdleCall, Calls
  <2>3. call' = [call EXCEPT ![a] = IF clients[k] = NoConn THEN off ELSE fnd]
    BY <1>1 DEF Lookup
  <2> HIDE DEF off, fnd
  <2>4. call' \in [Callers -> Calls] /\ CallKnows'
    BY <2>1, <2>2, <2>3
  <2> QED
    BY <1>1, <2>4 DEF Lookup, Registered, linkVars, LinkTypeOK
<1>2. ASSUME NEW ok \in BOOLEAN, WriteControl(a, ok)
      PROVE  LinkTypeOK' /\ HubTypeOK' /\ HandlerKnows' /\ CallKnows'
  <2> DEFINE c == call[a].conn
             r == <<call[a].key, clock>>
  <2>1. c \in Conns /\ r \in ReqIds /\ call[a].type \in Controls
    BY <1>2 DEF WriteControl, ReqIds, Calls
  <2>2. toClient' \in [Conns -> Seq(HubMsgs)]
    BY <1>2, <2>1, QueueTypes, Alphabets DEF WriteControl, LinkTypeOK
  <2> DEFINE done == [call[a] EXCEPT !.pc = "sent", !.conn = NoConn,
                                     !.requestId = r]
             err == [call[a] EXCEPT !.pc = "error", !.conn = NoConn]
  <2>3. PICK k \in Calls : k = call[a]
    OBVIOUS
  <2>4. done \in Calls /\ done.pc = "sent"
    <3>1. done = [k EXCEPT !.pc = "sent", !.conn = NoConn, !.requestId = r] /\ r \in ReqIds
      BY <2>1, <2>3
    <3> HIDE DEF done, r
    <3> QED
      BY <3>1 DEF Calls
  <2>5. err \in Calls /\ err.pc = "error"
    <3>1. err = [k EXCEPT !.pc = "error", !.conn = NoConn]
      BY <2>3
    <3> HIDE DEF err
    <3> QED
      BY <3>1 DEF Calls
  <2>6. call' = [call EXCEPT ![a] = IF ok THEN done ELSE err]
    BY <1>2 DEF WriteControl
  <2> HIDE DEF done, err
  <2>7. call' \in [Callers -> Calls]
    BY <2>4, <2>5, <2>6
  <2>8. \A b \in Callers : call'[b].pc = "found" => b # a /\ call'[b] = call[b]
    BY <2>4, <2>5, <2>6
  <2>9. call' \in [Callers -> Calls] /\ CallKnows'
    BY <2>7, <2>8
  <2> QED
    BY <1>2, <2>2, <2>9 DEF WriteControl, Registered, LinkTypeOK
<1>3. ASSUME Answer(a)
      PROVE  LinkTypeOK' /\ HubTypeOK' /\ HandlerKnows' /\ CallKnows'
  <2> DEFINE told == [call[a] EXCEPT !.pc = "ok"]
  <2>1. told \in Calls /\ told.pc = "ok"
    <3>1. PICK k \in Calls : k = call[a]
      OBVIOUS
    <3>2. [k EXCEPT !.pc = "ok"] \in Calls /\ [k EXCEPT !.pc = "ok"].pc = "ok"
      BY DEF Calls
    <3> QED
      BY <3>1, <3>2
  <2>2. call' = [call EXCEPT ![a] = told]
    BY <1>3 DEF Answer
  <2> HIDE DEF told
  <2>3. call' \in [Callers -> Calls] /\ CallKnows'
    BY <2>1, <2>2
  <2> QED
    BY <1>3, <2>3 DEF Answer, Registered, linkVars, LinkTypeOK
<1> QED
  BY <1>1, <1>2, <1>3

\* The server's restart, the token and the clock.
LEMMA ServerType ==
    ASSUME TypeInv, (\E t \in Tokens : SetToken(t)) \/ Tick \/ HubRestart
    PROVE  LinkTypeOK' /\ HubTypeOK' /\ HandlerKnows' /\ CallKnows'
<1> USE LinkAssumption
<1> USE DEF TypeInv, TypeOK, HubTypeOK, Knows, HandlerKnows, CallKnows
<1>1. CASE \E t \in Tokens : SetToken(t)
  BY <1>1 DEF SetToken, Registered, linkVars, LinkTypeOK
<1>2. CASE Tick
  BY <1>2 DEF Tick, Registered, linkVars, LinkTypeOK
<1>3. CASE HubRestart
  <2>1. LinkTypeOK'
    BY <1>3, CloseAtHubType DEF HubRestart, LinkTypeOK
  <2>2. call' \in [Callers -> Calls] /\ CallKnows'
    <3> DEFINE err(b) == [call[b] EXCEPT !.pc = "error", !.conn = NoConn]
               lost(b) == [call[b] EXCEPT !.pc = "lost"]
    <3>1. ASSUME NEW b \in Callers
          PROVE  /\ err(b) \in Calls /\ err(b).pc = "error"
                 /\ lost(b) \in Calls /\ lost(b).pc = "lost"
      <4>1. PICK c \in Calls : c = call[b]
        OBVIOUS
      <4>2. /\ [c EXCEPT !.pc = "error", !.conn = NoConn] \in Calls
            /\ [c EXCEPT !.pc = "error", !.conn = NoConn].pc = "error"
            /\ [c EXCEPT !.pc = "lost"] \in Calls
            /\ [c EXCEPT !.pc = "lost"].pc = "lost"
        BY DEF Calls
      <4> QED
        BY <4>1, <4>2
    <3>2. call' = [b \in Callers |-> CASE call[b].pc = "found" -> err(b)
                                       [] call[b].pc = "sent" -> lost(b)
                                       [] OTHER -> call[b]]
      BY <1>3 DEF HubRestart
    <3> HIDE DEF err, lost
    <3>3. \A b \in Callers : /\ call[b].pc = "found" => call'[b] = err(b)
                             /\ call[b].pc = "sent" => call'[b] = lost(b)
                             /\ call[b].pc \notin {"found", "sent"} => call'[b] = call[b]
      BY <3>2
    <3>4. call' = [b \in Callers |-> call'[b]]
      BY <3>2
    <3> QED
      BY <3>1, <3>3, <3>4
  <2> QED
    BY <1>3, <2>1, <2>2 DEF HubRestart, HandlerPcs, Registered
<1> QED
  BY <1>1, <1>2, <1>3

LEMMA ConnectType ==
    ASSUME TypeInv, NEW p \in Machines, NEW c \in Conns, Connect(p, c)
    PROVE  TypeInv'
<1> USE LinkAssumption, MachineAssumption
<1> USE DEF TypeInv, TypeOK, Knows, Connect, Dial, Accept, budget
<1>1. Hello(KeyOf[p], TokenOf[p]) \in ClientMsgs
  BY Alphabets
<1>2. /\ <<Hello(KeyOf[p], TokenOf[p])>> \in Seq(ClientMsgs)
      /\ <<>> \in Seq(HubMsgs)
  BY <1>1, EmptySeq
<1>3. LinkTypeOK'
  BY <1>2 DEF Open, LinkTypeOK
<1>4. HubTypeOK' /\ HandlerKnows' /\ CallKnows'
  BY DEF HubTypeOK, HandlerPcs, HandlerKnows, CallKnows, Registered
<1>5. MachineTypeOK' /\ SessionKnows'
  BY DEF MachineTypeOK, ClientPcs, SessionKnows
<1> QED
  BY <1>3, <1>4, <1>5

LEMMA CloseAtClientType ==
    ASSUME LinkTypeOK, NEW c \in Conns, CloseAtClient(c)
    PROVE  cliOpen' \in [Conns -> BOOLEAN] /\ toClient' \in [Conns -> Seq(HubMsgs)]
  BY EmptySeq DEF CloseAtClient, LinkTypeOK

\* Leaving a session or the process.
LEMMA ExitType ==
    ASSUME TypeInv, NEW p \in Machines,
           NEW pc \in {"fatal", "off"}, Exit(p, pc)
    PROVE  MachineTypeOK' /\ SessionKnows'
<1>1. [r \in ReqIds |-> 0] \in [ReqIds -> Nat]
  OBVIOUS
<1> QED
  BY <1>1, LinkAssumption DEF TypeInv, TypeOK, Knows, Exit, MachineTypeOK,
                              SessionKnows, ClientPcs

LEMMA EndSessionType ==
    ASSUME TypeInv, NEW p \in Machines, conn[p] \in Conns, EndSession(p)
    PROVE  LinkTypeOK' /\ MachineTypeOK' /\ SessionKnows'
<1>1. LinkTypeOK'
  BY CloseAtClientType DEF EndSession, TypeInv, TypeOK, LinkTypeOK
<1>2. MachineTypeOK' /\ SessionKnows'
  BY LinkAssumption DEF TypeInv, TypeOK, Knows, EndSession, MachineTypeOK,
                        SessionKnows, ClientPcs
<1> QED
  BY <1>1, <1>2

LEMMA BreakType ==
    ASSUME LinkTypeOK, NEW c \in Conns, Break(c)
    PROVE  LinkTypeOK'
  BY EmptySeq DEF Break, LinkTypeOK

LEMMA SessionType ==
    ASSUME TypeInv, NEW p \in Machines, Session(p)
    PROVE  LinkTypeOK' /\ MachineTypeOK' /\ SessionKnows'
<1> DEFINE Goal == LinkTypeOK' /\ MachineTypeOK' /\ SessionKnows'
           c == conn[p]
<1> USE LinkAssumption
<1> USE DEF TypeInv, TypeOK, Knows, SessionKnows
<1>q. ASSUME c \in Conns
      PROVE  /\ toClient[c] # <<>> => Head(toClient[c]) \in HubMsgs
             /\ toClient[c] # <<>> =>
                   [toClient EXCEPT ![c] = Tail(@)] \in [Conns -> Seq(HubMsgs)]
             /\ \A m \in ClientMsgs :
                   Written(toHub, c, m) \in [Conns -> Seq(ClientMsgs)]
  BY <1>q, QueueTypes DEF LinkTypeOK
<1>1. CASE HelloAnswer(p)
  <2>1. c \in Conns
    BY <1>1 DEF HelloAnswer
  <2>2. CASE EndSession(p)
    BY <2>1, <2>2, EndSessionType
  <2>3. CASE ExitFatal(p)
    BY <2>1, <2>3, ExitType, CloseAtClientType DEF ExitFatal, LinkTypeOK
  <2>4. CASE /\ cpc' = [cpc EXCEPT ![p] = "session"]
             /\ toClient' = [toClient EXCEPT ![c] = Tail(@)]
             /\ UNCHANGED <<conn, seen, jobs, runs, executed,
                            srvOpen, cliOpen, broken, toHub>>
    BY <1>1, <2>1, <2>4, <1>q
       DEF HelloAnswer, LinkTypeOK, MachineTypeOK, ClientPcs
  <2> QED
    BY <1>1, <2>2, <2>3, <2>4 DEF HelloAnswer
<1>2. CASE SessionReadFails(p)
  BY <1>2, EndSessionType DEF SessionReadFails
<1>3. ASSUME NEW m, IgnoreFrame(p, m)
      PROVE  Goal
  <2>1. c \in Conns /\ toClient' \in [Conns -> Seq(HubMsgs)]
    BY <1>3, <1>q DEF IgnoreFrame, NextFrame
  <2> QED
    BY <1>3, <2>1 DEF IgnoreFrame, machineVars, LinkTypeOK, MachineTypeOK
<1>4. ASSUME NEW m, PowerOffRequest(p, m)
      PROVE  Goal
  <2> DEFINE r == m.requestId
             j == [requestId |-> r, conn |-> c, st |-> "new"]
  <2>1. c \in Conns /\ toClient' \in [Conns -> Seq(HubMsgs)] /\ m \in HubMsgs
    BY <1>4, <1>q DEF PowerOffRequest, NextFrame
  <2>2. r \in ReqIds
    BY <1>4, <2>1, Shapes DEF PowerOffRequest, Controls
  <2>3. toHub' \in [Conns -> Seq(ClientMsgs)]
    BY <1>4, <2>1, <2>2, <1>q, Alphabets DEF PowerOffRequest, AckStatus
  <2>4. j \in Jobs
    BY <2>1, <2>2 DEF Jobs
  <2>5. jobs' \in [Machines -> SUBSET Jobs]
    <3>1. jobs' = jobs \/ jobs' = [jobs EXCEPT ![p] = @ \cup {j}]
      BY <1>4 DEF PowerOffRequest
    <3>2. jobs \in [Machines -> SUBSET Jobs]
      BY DEF MachineTypeOK
    <3> HIDE DEF j
    <3> QED
      BY <2>4, <3>1, <3>2
  <2>6. seen' \in [Machines -> SUBSET ReqIds]
    BY <1>4, <2>2 DEF PowerOffRequest, MachineTypeOK
  <2> QED
    BY <1>4, <2>1, <2>3, <2>5, <2>6 DEF PowerOffRequest, LinkTypeOK, MachineTypeOK
<1> QED
  BY <1>1, <1>2, <1>3, <1>4 DEF Session

LEMMA JobType ==
    ASSUME TypeInv, NEW p \in Machines, Job(p)
    PROVE  LinkTypeOK' /\ MachineTypeOK' /\ SessionKnows'
<1> DEFINE Goal == LinkTypeOK' /\ MachineTypeOK' /\ SessionKnows'
<1> USE DEF TypeInv, TypeOK, Knows, SessionKnows
<1>1. ASSUME NEW j \in jobs[p], Report(p, j)
      PROVE  Goal
  <2>1. j \in Jobs
    BY DEF MachineTypeOK
  <2>2. j.conn \in Conns /\ j.requestId \in ReqIds
    BY <2>1 DEF Jobs
  <2>3. toHub' \in [Conns -> Seq(ClientMsgs)]
    BY <1>1, <2>2, QueueTypes, Alphabets DEF Report, LinkTypeOK, AckStatus
  <2> QED
    BY <1>1, <2>3 DEF Report, LinkTypeOK, MachineTypeOK
<1>2. ASSUME NEW j \in jobs[p], NEW ok \in BOOLEAN, RunCommand(p, j, ok)
      PROVE  Goal
  <2> DEFINE done(st) == [j EXCEPT !.st = st]
  <2>1. j \in Jobs
    BY DEF MachineTypeOK
  <2>2. j.requestId \in ReqIds
    BY <2>1 DEF Jobs
  <2>3. done("ok") \in Jobs /\ done("failed") \in Jobs
    BY <2>1 DEF Jobs
  <2>4. jobs' \in [Machines -> SUBSET Jobs]
    BY <1>2, <2>3 DEF RunCommand, MachineTypeOK
  <2>5. runs' \in [Machines -> [ReqIds -> Nat]]
    BY <1>2, <2>2 DEF RunCommand, MachineTypeOK
  <2>6. executed' \in SUBSET (Machines \X ReqIds)
    BY <1>2, <2>2 DEF RunCommand, MachineTypeOK
  <2> QED
    BY <1>2, <2>4, <2>5, <2>6
       DEF RunCommand, linkVars, LinkTypeOK, MachineTypeOK
<1> QED
  BY <1>1, <1>2 DEF Job

LEMMA HostType ==
    ASSUME TypeInv, NEW p \in Machines, ProcessEnds(p) \/ ProcessStarts(p)
    PROVE  LinkTypeOK' /\ MachineTypeOK' /\ SessionKnows'
<1> USE DEF TypeInv, TypeOK, Knows, SessionKnows
<1>1. CASE ProcessEnds(p)
  <2>1. MachineTypeOK' /\ SessionKnows'
    BY <1>1, ExitType DEF ProcessEnds
  <2>2. conn[p] \in Conns \cup {NoConn}
    BY DEF MachineTypeOK
  <2>3. CASE UNCHANGED linkVars
    BY <2>1, <2>3 DEF linkVars, LinkTypeOK
  <2>4. CASE conn[p] # NoConn /\ Break(conn[p])
    BY <2>1, <2>2, <2>4, BreakType
  <2>5. CASE /\ conn[p] # NoConn
             /\ CloseAtClient(conn[p])
             /\ UNCHANGED <<srvOpen, broken, toHub>>
    BY <2>1, <2>2, <2>5, CloseAtClientType DEF LinkTypeOK
  <2> QED
    BY <1>1, <2>3, <2>4, <2>5 DEF ProcessEnds
<1>2. CASE ProcessStarts(p)
  BY <1>2 DEF ProcessStarts, linkVars, LinkTypeOK, MachineTypeOK, ClientPcs
<1> QED
  BY <1>1, <1>2

LEMMA TypeStep == TypeInv /\ [Next]_vars => TypeInv'
<1> SUFFICES ASSUME TypeInv, [Next]_vars PROVE TypeInv'
  OBVIOUS
<1> DEFINE Links == LinkTypeOK'
           HubPart == HubTypeOK' /\ HandlerKnows' /\ CallKnows'
           MachinePart == MachineTypeOK' /\ SessionKnows'
           Bounds == faults' \in 0 .. MaxFaults /\ rotations' \in 0 .. MaxRotations
<1>h. UNCHANGED hubVars => HubPart
  BY DEF hubVars, HubTypeOK, HandlerKnows, CallKnows, Registered, TypeInv,
         TypeOK, Knows
<1>m. UNCHANGED machineVars => MachinePart
  BY DEF machineVars, MachineTypeOK, SessionKnows, TypeInv, TypeOK, Knows
<1>l. UNCHANGED linkVars => Links
  BY DEF linkVars, LinkTypeOK, TypeInv, TypeOK
<1>b. UNCHANGED budget => Bounds
  BY DEF budget, TypeInv, TypeOK
<1>g. Links /\ HubPart /\ MachinePart /\ Bounds => TypeInv'
  BY DEF TypeInv, TypeOK, Knows
<1> HIDE DEF Links, HubPart, MachinePart, Bounds
<1>1. ASSUME NEW p \in Machines, NEW c \in Conns, Connect(p, c)
      PROVE  TypeInv'
  BY <1>1, ConnectType
<1>2. ASSUME NEW p \in Machines, SessionStep(p)
      PROVE  TypeInv'
  BY <1>2, <1>h, <1>b, <1>g, SessionType DEF SessionStep, Links, MachinePart
<1>3. ASSUME NEW p \in Machines, JobStep(p)
      PROVE  TypeInv'
  BY <1>3, <1>h, <1>b, <1>g, JobType DEF JobStep, Links, MachinePart
<1>4. ASSUME NEW p \in Machines, PingStep(p)
      PROVE  TypeInv'
  <2>1. conn[p] \in Conns
    BY <1>4 DEF PingStep, SendPing, TypeInv, Knows, SessionKnows
  <2>2. toHub' \in [Conns -> Seq(ClientMsgs)]
    BY <1>4, <2>1, QueueTypes, Alphabets
       DEF PingStep, SendPing, TypeInv, TypeOK, LinkTypeOK
  <2>3. Links
    BY <1>4, <2>2 DEF PingStep, SendPing, TypeInv, TypeOK, LinkTypeOK, Links
  <2> QED
    BY <1>4, <2>3, <1>h, <1>m, <1>b, <1>g DEF PingStep, SendPing
<1>5. ASSUME NEW p \in Machines, PowerOff(p) \/ Boot(p)
      PROVE  TypeInv'
  BY <1>5, <1>h, <1>b, <1>g, HostType DEF PowerOff, Boot, Links, MachinePart
<1>6. ASSUME NEW c \in Conns, HubStep(c)
      PROVE  TypeInv'
  BY <1>6, <1>m, <1>b, <1>g, HandlerType DEF HubStep, Links, HubPart
<1>7. ASSUME NEW a \in Callers, CallStep(a)
      PROVE  TypeInv'
  BY <1>7, <1>m, <1>b, <1>g, CallType DEF CallStep, Links, HubPart
<1>8. CASE ClockStep
  BY <1>8, <1>m, <1>b, <1>g, ServerType DEF ClockStep, Links, HubPart
<1>9. CASE Rotate
  <2>1. Bounds
    BY <1>9, BoundAssumption DEF Rotate, TypeInv, TypeOK, Bounds
  <2> QED
    BY <1>9, <2>1, <1>m, <1>g, ServerType DEF Rotate, Links, HubPart
<1>10. CASE Fault
  <2>1. Bounds
    BY <1>10, BoundAssumption DEF Fault, TypeInv, TypeOK, Bounds
  <2>2. ASSUME NEW c \in Conns, Break(c), UNCHANGED <<hubVars, machineVars>>
        PROVE  TypeInv'
    BY <2>1, <2>2, <1>h, <1>m, <1>g, BreakType DEF TypeInv, TypeOK, Links
  <2>3. ASSUME NEW p \in Machines, ProcessEnds(p), UNCHANGED hubVars
        PROVE  TypeInv'
    BY <2>1, <2>3, <1>h, <1>g, HostType DEF Links, MachinePart
  <2>4. CASE HubRestart /\ UNCHANGED machineVars
    BY <2>1, <2>4, <1>m, <1>g, ServerType DEF Links, HubPart
  <2> QED
    BY <1>10, <2>2, <2>3, <2>4 DEF Fault
<1>11. CASE UNCHANGED vars
  BY <1>11, <1>h, <1>m, <1>l, <1>b, <1>g DEF vars, budget
<1> QED
  BY <1>1, <1>2, <1>3, <1>4, <1>5, <1>6, <1>7, <1>8, <1>9, <1>10, <1>11 DEF Next

\* Every variable keeps its type, and every step finds what it reads
\* (all of clientlink/hub.go and clientapp/session.go, shutdown.go).
THEOREM TypeCorrect == Spec => []TypeOK
<1>1. Init => TypeInv
  BY TypeInit
<1>2. TypeInv /\ [Next]_vars => TypeInv'
  BY TypeStep
<1>3. TypeInv => TypeOK
  BY DEF TypeInv
<1> QED
  BY <1>1, <1>2, <1>3, PTL DEF Spec

-----------------------------------------------------------------------------
(* The registry.  OpenIsRegistered is what makes EntryHasHandler inductive  *)
(* and the other way round: a handler may only be cleaning up or closed by  *)
(* a takeover when the key's entry is not its own.                          *)

RegistryInv == TypeInv /\ EntryHasHandler /\ OpenIsRegistered

\* Steps that leave the hub's variables alone and open no connection.
LEMMA RegistryFrame ==
    ASSUME RegistryInv, UNCHANGED <<clients, hpc, hkey, srvOpen>>
    PROVE  EntryHasHandler' /\ OpenIsRegistered'
  BY DEF RegistryInv, EntryHasHandler, OpenIsRegistered, Registered

LEMMA RegistryIdle ==
    ASSUME RegistryInv, UNCHANGED <<hubVars, srvOpen>>
    PROVE  EntryHasHandler' /\ OpenIsRegistered'
  BY RegistryFrame DEF hubVars

LEMMA RegistryHandler ==
    ASSUME RegistryInv, NEW c \in Conns, Handler(c)
    PROVE  EntryHasHandler' /\ OpenIsRegistered'
<1>t. /\ clients \in [Keys -> Conns \cup {NoConn}]
      /\ hpc \in [Conns -> HandlerPcs]
      /\ hkey \in [Conns -> Keys \cup {NoKey}]
      /\ srvOpen \in [Conns -> BOOLEAN]
      /\ \A d \in Conns :
            hpc[d] \in {"token", "register"} \/ Registered(d) => hkey[d] \in Keys
      /\ EntryHasHandler /\ OpenIsRegistered
  BY DEF RegistryInv, TypeInv, TypeOK, HubTypeOK, LinkTypeOK, Knows, HandlerKnows
<1> USE <1>t, LinkAssumption DEF EntryHasHandler, OpenIsRegistered, Registered
<1>1. CASE HelloLost(c)
  BY <1>1 DEF HelloLost, linkVars
<1>2. CASE ReadHello(c)
  <2>1. clients' = clients /\ srvOpen' = srvOpen
    BY <1>2 DEF ReadHello
  <2>2. hpc[c] = "hello" /\ hpc'[c] \in {"token", "return"}
    BY <1>2 DEF ReadHello
  <2>3. \A d \in Conns \ {c} : hpc'[d] = hpc[d] /\ hkey'[d] = hkey[d]
    BY <1>2 DEF ReadHello
  <2> QED
    BY <2>1, <2>2, <2>3
<1>3. CASE CheckToken(c)
  <2>1. clients' = clients /\ srvOpen' = srvOpen /\ hkey' = hkey
    BY <1>3 DEF CheckToken
  <2>2. hpc[c] = "token" /\ hpc'[c] \in {"register", "return"}
    BY <1>3 DEF CheckToken
  <2>3. \A d \in Conns \ {c} : hpc'[d] = hpc[d]
    BY <1>3 DEF CheckToken
  <2> QED
    BY <2>1, <2>2, <2>3
<1>4. CASE Register(c)
  <2> DEFINE k == hkey[c]
  <2>1. k \in Keys
    BY <1>4 DEF Register
  <2>2. clients' = [clients EXCEPT ![k] = c] /\ hkey' = hkey
    BY <1>4 DEF Register
  <2>3. \A d \in Conns : srvOpen'[d] <=> srvOpen[d] /\ d # clients[k]
    BY <1>4 DEF Register, CloseAtHub
  <2>4. hpc[c] = "register" /\ hpc' = [hpc EXCEPT ![c] = "greet"]
    BY <1>4 DEF Register
  <2>5. EntryHasHandler'
    BY <2>1, <2>2, <2>4
  <2>6. OpenIsRegistered'
    BY <2>1, <2>2, <2>3, <2>4
  <2> QED
    BY <2>5, <2>6
<1>5. CASE Greet(c)
  BY <1>5 DEF Greet
<1>6. CASE ReadFrame(c)
  BY <1>6 DEF ReadFrame
<1>7. CASE ApplyAck(c)
  BY <1>7 DEF ApplyAck, linkVars
<1>8. CASE ReadFails(c)
  BY <1>8 DEF ReadFails, linkVars
<1>9. CASE Deregister(c)
  <2> DEFINE k == hkey[c]
  <2>1. /\ hpc[c] = "cleanup" /\ k \in Keys
        /\ hpc' = [hpc EXCEPT ![c] = "return"]
        /\ hkey' = hkey /\ srvOpen' = srvOpen
    BY <1>9 DEF Deregister, linkVars
  <2>2. clients' = IF clients[k] = c THEN [clients EXCEPT ![k] = NoConn]
                                     ELSE clients
    BY <1>9 DEF Deregister
  <2>3. EntryHasHandler'
    BY <2>1, <2>2
  <2>4. OpenIsRegistered'
    BY <2>1, <2>2
  <2> QED
    BY <2>3, <2>4
<1>10. CASE Return(c)
  <2>1. /\ hpc[c] = "return" /\ clients' = clients
        /\ hpc' = [hpc EXCEPT ![c] = "none"]
        /\ hkey' = [hkey EXCEPT ![c] = NoKey]
    BY <1>10 DEF Return
  <2>2. \A d \in Conns \ {c} : srvOpen'[d] = srvOpen[d]
    BY <1>10 DEF Return, CloseAtHub
  <2> QED
    BY <2>1, <2>2
<1> QED
  BY <1>1, <1>2, <1>3, <1>4, <1>5, <1>6, <1>7, <1>8, <1>9, <1>10 DEF Handler

LEMMA RegistryStep == RegistryInv /\ [Next]_vars => RegistryInv'
<1> SUFFICES ASSUME RegistryInv, [Next]_vars
             PROVE  EntryHasHandler' /\ OpenIsRegistered'
  BY TypeStep DEF RegistryInv
<1> DEFINE Goal == EntryHasHandler' /\ OpenIsRegistered'
<1>1. ASSUME NEW p \in Machines, NEW c \in Conns, Connect(p, c)
      PROVE  Goal
  <2>1. /\ hpc[c] = "none" /\ hpc' = [hpc EXCEPT ![c] = "hello"]
        /\ srvOpen' = [srvOpen EXCEPT ![c] = TRUE]
        /\ UNCHANGED <<clients, hkey>>
    BY <1>1 DEF Connect, Free, Dial, Open, Accept
  <2> QED
    BY <2>1 DEF RegistryInv, TypeInv, TypeOK, HubTypeOK, LinkTypeOK,
                EntryHasHandler, OpenIsRegistered, Registered
<1>2. ASSUME NEW p \in Machines,
             SessionStep(p) \/ JobStep(p) \/ PingStep(p) \/ PowerOff(p) \/ Boot(p)
      PROVE  UNCHANGED <<hubVars, srvOpen>>
  <2>1. CASE SessionStep(p)
    BY <2>1 DEF SessionStep, Session, HelloAnswer, ExitFatal, EndSession,
                SessionReadFails, IgnoreFrame, PowerOffRequest
  <2>2. CASE JobStep(p)
    BY <2>2 DEF JobStep, Job, Report, RunCommand, linkVars
  <2>3. CASE PingStep(p)
    BY <2>3 DEF PingStep, SendPing
  <2>4. CASE PowerOff(p) \/ Boot(p)
    BY <2>4 DEF PowerOff, Boot, ProcessEnds, ProcessStarts, Break, linkVars
  <2> QED
    BY <1>2, <2>1, <2>2, <2>3, <2>4
<1>3. ASSUME NEW c \in Conns, HubStep(c)
      PROVE  Goal
  BY <1>3, RegistryHandler DEF HubStep
<1>4. ASSUME NEW a \in Callers, CallStep(a)
      PROVE  Goal
  <2>1. UNCHANGED <<clients, hpc, hkey, srvOpen>>
    BY <1>4 DEF CallStep, Lookup, WriteControl, Answer, linkVars
  <2> QED
    BY <2>1, RegistryFrame
<1>5. ASSUME ClockStep \/ Rotate
      PROVE  Goal
  <2>1. UNCHANGED <<clients, hpc, hkey, srvOpen>>
    BY <1>5 DEF ClockStep, Rotate, Tick, SetToken, linkVars
  <2> QED
    BY <2>1, RegistryFrame
<1>6. CASE Fault
  <2>1. ASSUME NEW c \in Conns, Break(c), UNCHANGED <<hubVars, machineVars>>
        PROVE  Goal
    BY <2>1, RegistryIdle DEF Break
  <2>2. ASSUME NEW p \in Machines, ProcessEnds(p), UNCHANGED hubVars
        PROVE  Goal
    BY <2>2, RegistryIdle DEF ProcessEnds, Break, linkVars
  <2>3. CASE HubRestart
    <3>1. /\ \A k \in Keys : clients'[k] = NoConn
          /\ \A c \in Conns : hpc'[c] = "none"
      BY <2>3 DEF HubRestart
    <3> QED
      BY <3>1 DEF EntryHasHandler, OpenIsRegistered, Registered
  <2> QED
    BY <1>6, <2>1, <2>2, <2>3 DEF Fault
<1>7. CASE UNCHANGED vars
  BY <1>7, RegistryIdle DEF vars, linkVars
<1> QED
  BY <1>1, <1>2, <1>3, <1>4, <1>5, <1>6, <1>7, RegistryIdle DEF Next

LEMMA RegistryInit == Init => RegistryInv
  BY TypeInit DEF Init, HubInit, LinkInit, RegistryInv, EntryHasHandler,
                  OpenIsRegistered, Registered

LEMMA RegistryAlways == Spec => []RegistryInv
  BY RegistryInit, RegistryStep, PTL DEF Spec

\* An entry of the hub's map belongs to a handler of that key that has yet to
\* clean up (hub.go 180-186, 262-266).
THEOREM RegistryOwned == Spec => []EntryHasHandler
<1>1. RegistryInv => EntryHasHandler
  BY DEF RegistryInv
<1> QED
  BY <1>1, RegistryAlways, PTL

\* A connection the hub has greeted and not closed is its key's entry: at
\* most one per key is open (hub.go 181-184).
THEOREM OneOpenPerKey == Spec => []OpenIsRegistered
<1>1. RegistryInv => OpenIsRegistered
  BY DEF RegistryInv
<1> QED
  BY <1>1, RegistryAlways, PTL

\* Only the cleanup of the registered connection, or the end of the server,
\* takes a key offline (hub.go 262-266).
THEOREM SuccessorSafe == Spec => OnlyOwnerDeregisters
<1> DEFINE Safe == \A k \in Keys :
               clients[k] # NoConn /\ clients'[k] = NoConn =>
                   \/ hpc[clients[k]] = "cleanup"
                   \/ \A c \in Conns : hpc'[c] = "none"
<1>1. RegistryInv /\ [Next]_vars => Safe
  <2> SUFFICES ASSUME RegistryInv, [Next]_vars PROVE Safe
    OBVIOUS
  <2>1. CASE UNCHANGED clients
    BY <2>1
  <2>2. CASE HubRestart
    BY <2>2 DEF HubRestart
  <2>3. ASSUME NEW c \in Conns, Register(c)
        PROVE  Safe
    BY <2>3, LinkAssumption
       DEF Register, RegistryInv, TypeInv, TypeOK, HubTypeOK
  <2>4. ASSUME NEW c \in Conns, Deregister(c)
        PROVE  Safe
    BY <2>4 DEF Deregister, RegistryInv, TypeInv, TypeOK, HubTypeOK
  <2>5. ASSUME NEW c \in Conns, HubStep(c)
        PROVE  Safe
    <3>1. Register(c) \/ Deregister(c) \/ UNCHANGED clients
      BY <2>5 DEF HubStep, Handler, HelloLost, ReadHello, CheckToken, Greet,
                  ReadFrame, ApplyAck, ReadFails, Return
    <3> QED
      BY <3>1, <2>1, <2>3, <2>4
  <2>6. ASSUME NEW p \in Machines, NEW c \in Conns, Connect(p, c)
        PROVE  UNCHANGED clients
    BY <2>6 DEF Connect, Accept
  <2>7. ASSUME NEW p \in Machines,
               SessionStep(p) \/ JobStep(p) \/ PingStep(p) \/ PowerOff(p) \/ Boot(p)
        PROVE  UNCHANGED clients
    BY <2>7 DEF SessionStep, JobStep, PingStep, PowerOff, Boot, hubVars
  <2>8. ASSUME NEW a \in Callers, CallStep(a)
        PROVE  UNCHANGED clients
    BY <2>8 DEF CallStep, Lookup, WriteControl, Answer
  <2>9. ClockStep \/ Rotate => UNCHANGED clients
    BY DEF ClockStep, Rotate, Tick, SetToken
  <2>10. Fault => HubRestart \/ UNCHANGED clients
    BY DEF Fault, hubVars
  <2> QED
    BY <2>1, <2>2, <2>5, <2>6, <2>7, <2>8, <2>9, <2>10 DEF Next, vars, hubVars
<1>2. RegistryInv /\ [Next]_vars => [Safe]_vars
  BY <1>1
<1> QED
  BY <1>2, RegistryAlways, PTL DEF Spec, OnlyOwnerDeregisters

-----------------------------------------------------------------------------
(* At most one command per request id.  A request id enters seen together   *)
(* with its only goroutine, before any command of it has run.               *)

OncePerMachine(p) ==
    /\ \A r \in ReqIds :
          runs[p][r] <= 1 /\ (runs[p][r] # 0 => r \in seen[p])
    /\ \A j \in jobs[p] :
          /\ j.requestId \in seen[p]
          /\ j.st = "new" => runs[p][j.requestId] = 0
    /\ \A i, j \in jobs[p] : i.requestId = j.requestId => i = j

OnceInv == TypeInv /\ \A p \in Machines : OncePerMachine(p)

LEMMA OnceFrame ==
    ASSUME OnceInv, UNCHANGED <<seen, jobs, runs>>
    PROVE  \A p \in Machines : OncePerMachine(p)'
  BY DEF OnceInv, OncePerMachine

\* The machines other than p keep what they have.
LEMMA OnceOthers ==
    ASSUME OnceInv, NEW p \in Machines, OncePerMachine(p)',
           \A q \in Machines \ {p} :
               seen'[q] = seen[q] /\ jobs'[q] = jobs[q] /\ runs'[q] = runs[q]
    PROVE  \A q \in Machines : OncePerMachine(q)'
  BY DEF OnceInv, OncePerMachine

LEMMA OnceExit ==
    ASSUME OnceInv, NEW p \in Machines, NEW pc, Exit(p, pc)
    PROVE  \A q \in Machines : OncePerMachine(q)'
<1>1. jobs'[p] = {} /\ runs'[p] = [r \in ReqIds |-> 0]
  BY DEF Exit, OnceInv, TypeInv, TypeOK, MachineTypeOK
<1>2. OncePerMachine(p)'
  BY <1>1 DEF OncePerMachine
<1>3. \A q \in Machines \ {p} :
          seen'[q] = seen[q] /\ jobs'[q] = jobs[q] /\ runs'[q] = runs[q]
  BY DEF Exit, OnceInv, TypeInv, TypeOK, MachineTypeOK
<1> QED
  BY <1>2, <1>3, OnceOthers

LEMMA OnceRequest ==
    ASSUME OnceInv, NEW p \in Machines, NEW m, PowerOffRequest(p, m)
    PROVE  \A q \in Machines : OncePerMachine(q)'
<1> DEFINE r == m.requestId
           j == [requestId |-> r, conn |-> conn[p], st |-> "new"]
<1>1. CASE r \in seen[p]
  BY <1>1, OnceFrame DEF PowerOffRequest
<1>2. CASE r \notin seen[p]
  <2>1. /\ seen' = [seen EXCEPT ![p] = @ \cup {r}]
        /\ jobs' = [jobs EXCEPT ![p] = @ \cup {j}]
        /\ runs' = runs
    BY <1>2 DEF PowerOffRequest
  <2>2. /\ seen'[p] = seen[p] \cup {r}
        /\ jobs'[p] = jobs[p] \cup {j}
        /\ \A q \in Machines \ {p} : seen'[q] = seen[q] /\ jobs'[q] = jobs[q]
    BY <2>1 DEF OnceInv, TypeInv, TypeOK, MachineTypeOK
  <2>3. r \in ReqIds
    <3>1. conn[p] \in Conns
      BY DEF PowerOffRequest, NextFrame, OnceInv, TypeInv, Knows, SessionKnows
    <3>2. m \in HubMsgs
      BY <3>1, QueueTypes DEF PowerOffRequest, NextFrame, OnceInv, TypeInv,
                              TypeOK, LinkTypeOK
    <3> QED
      BY <3>2, Shapes DEF PowerOffRequest, Controls
  <2>4. j.requestId = r /\ runs[p][r] = 0
    BY <1>2, <2>3 DEF OnceInv, OncePerMachine
  <2>5. \A i \in jobs[p] : i.requestId # r
    BY <1>2 DEF OnceInv, OncePerMachine
  <2> HIDE DEF j, r
  <2>6. OncePerMachine(p)'
    BY <2>1, <2>2, <2>4, <2>5 DEF OnceInv, OncePerMachine
  <2> QED
    BY <2>1, <2>2, <2>6, OnceOthers
<1> QED
  BY <1>1, <1>2

LEMMA OnceRun ==
    ASSUME OnceInv, NEW p \in Machines, NEW j \in jobs[p],
           NEW ok \in BOOLEAN, RunCommand(p, j, ok)
    PROVE  \A q \in Machines : OncePerMachine(q)'
<1> DEFINE r == j.requestId
           d == [j EXCEPT !.st = IF ok THEN "ok" ELSE "failed"]
<1>1. j \in Jobs
  BY DEF OnceInv, TypeInv, TypeOK, MachineTypeOK
<1>2. r \in ReqIds /\ d.requestId = r /\ d.st # "new"
  BY <1>1 DEF Jobs
<1>3. /\ jobs' = [jobs EXCEPT ![p] = (@ \ {j}) \cup {d}]
      /\ runs' = [runs EXCEPT ![p][r] = @ + 1]
      /\ seen' = seen
  BY DEF RunCommand
<1>4. /\ jobs'[p] = (jobs[p] \ {j}) \cup {d}
      /\ runs'[p] = [runs[p] EXCEPT ![r] = @ + 1]
      /\ \A q \in Machines \ {p} : runs'[q] = runs[q] /\ jobs'[q] = jobs[q]
  BY <1>3 DEF OnceInv, TypeInv, TypeOK, MachineTypeOK
<1>5. runs[p][r] = 0 /\ r \in seen[p]
  BY DEF RunCommand, OnceInv, OncePerMachine
<1>6. runs[p] \in [ReqIds -> Nat]
  BY DEF OnceInv, TypeInv, TypeOK, MachineTypeOK
<1>7. runs'[p][r] = 1 /\ \A x \in ReqIds \ {r} : runs'[p][x] = runs[p][x]
  BY <1>2, <1>4, <1>5, <1>6
<1>8. \A i \in jobs[p] \ {j} : i.requestId # r /\ i.requestId \in ReqIds
  BY DEF OnceInv, OncePerMachine, TypeInv, TypeOK, MachineTypeOK, Jobs
<1> HIDE DEF r, d
<1>9. OncePerMachine(p)'
  BY <1>2, <1>3, <1>4, <1>5, <1>7, <1>8 DEF OnceInv, OncePerMachine
<1> QED
  BY <1>3, <1>4, <1>9, OnceOthers

LEMMA OnceStep == OnceInv /\ [Next]_vars => OnceInv'
<1> SUFFICES ASSUME OnceInv, [Next]_vars
             PROVE  \A q \in Machines : OncePerMachine(q)'
  BY TypeStep DEF OnceInv
<1> DEFINE Goal == \A q \in Machines : OncePerMachine(q)'
<1>1. ASSUME NEW p \in Machines, SessionStep(p)
      PROVE  Goal
  <2>1. CASE HelloAnswer(p)
    <3>1. ExitFatal(p) \/ UNCHANGED <<seen, jobs, runs>>
      BY <2>1 DEF HelloAnswer, EndSession
    <3> QED
      BY <3>1, OnceExit, OnceFrame DEF ExitFatal
  <2>2. CASE SessionReadFails(p)
    BY <2>2, OnceFrame DEF SessionReadFails, EndSession
  <2>3. ASSUME NEW m, IgnoreFrame(p, m)
        PROVE  Goal
    BY <2>3, OnceFrame DEF IgnoreFrame, machineVars
  <2> QED
    BY <1>1, <2>1, <2>2, <2>3, OnceRequest DEF SessionStep, Session
<1>2. ASSUME NEW p \in Machines, JobStep(p)
      PROVE  Goal
  <2>1. ASSUME NEW j \in jobs[p], Report(p, j)
        PROVE  Goal
    <3>1. /\ jobs' = [jobs EXCEPT ![p] = @ \ {j}]
          /\ UNCHANGED <<seen, runs>>
      BY <2>1 DEF Report
    <3>2. /\ jobs'[p] \subseteq jobs[p]
          /\ \A q \in Machines \ {p} : jobs'[q] = jobs[q]
      BY <3>1 DEF OnceInv, TypeInv, TypeOK, MachineTypeOK
    <3>3. OncePerMachine(p)'
      BY <3>1, <3>2 DEF OnceInv, OncePerMachine
    <3> QED
      BY <3>1, <3>2, <3>3, OnceOthers
  <2> QED
    BY <1>2, <2>1, OnceRun DEF JobStep, Job
<1>3. ASSUME NEW p \in Machines, ProcessEnds(p)
      PROVE  Goal
  BY <1>3, OnceExit DEF ProcessEnds
<1>4. CASE UNCHANGED <<seen, jobs, runs>>
  BY <1>4, OnceFrame
<1>5. ASSUME NEW p \in Machines,
             \/ \E c \in Conns : Connect(p, c)
             \/ PingStep(p) \/ PowerOff(p) \/ Boot(p)
      PROVE  Goal
  <2>1. ProcessEnds(p) \/ UNCHANGED <<seen, jobs, runs>>
    BY <1>5 DEF Connect, Dial, PingStep, SendPing, machineVars, PowerOff, Boot,
                ProcessStarts
  <2> QED
    BY <2>1, <1>3, <1>4
<1>6. \/ \E c \in Conns : HubStep(c)
      \/ \E a \in Callers : CallStep(a)
      \/ ClockStep \/ Rotate
      => UNCHANGED <<seen, jobs, runs>>
  BY DEF HubStep, CallStep, ClockStep, Rotate, machineVars
<1>7. Fault =>
         \/ \E p \in Machines : ProcessEnds(p)
         \/ UNCHANGED <<seen, jobs, runs>>
  BY DEF Fault, machineVars
<1> QED
  BY <1>1, <1>2, <1>3, <1>4, <1>5, <1>6, <1>7 DEF Next, vars, machineVars

\* A client process starts the power-off command at most once per request id,
\* however often a request with that id reaches it (shutdown.go 24-31).
THEOREM AtMostOnce == Spec => []RunsAtMostOnce
<1>1. Init => OnceInv
  BY TypeInit DEF Init, MachineInit, OnceInv, OncePerMachine
<1>2. OnceInv /\ [Next]_vars => OnceInv'
  BY OnceStep
<1>3. OnceInv => RunsAtMostOnce
  BY DEF OnceInv, OncePerMachine, RunsAtMostOnce
<1> QED
  BY <1>1, <1>2, <1>3, PTL DEF Spec

-----------------------------------------------------------------------------
(* What is on a connection.  The first frame a handler reads is a hello,    *)
(* nothing is sent to the client before it is registered, and a call that   *)
(* found an entry either reaches that connection's client under the key it  *)
(* asked for, or nobody.                                                    *)

Line(c) ==
    /\ hpc[c] = "hello" =>
          /\ toHub[c] # <<>> => Head(toHub[c]).type = "hello"
          /\ LinkUp(c) => toHub[c] # <<>>
    /\ hpc[c] \in {"hello", "token", "register"} => toClient[c] = <<>>
    /\ hpc[c] = "cleanup" => ~LinkUp(c)

Reaches(a) ==
    call[a].pc = "found" =>
        \/ ~LinkUp(call[a].conn)
        \/ Registered(call[a].conn) /\ hkey[call[a].conn] = call[a].key

LineInv == RegistryInv /\ (\A c \in Conns : Line(c)) /\ \A a \in Callers : Reaches(a)

LEMMA Queues ==
    ASSUME NEW S, NEW s \in Seq(S)
    PROVE  /\ <<>> \in Seq(S)
           /\ s # <<>> => Head(s) \in S /\ Tail(s) \in Seq(S)
           /\ \A m \in S :
                 /\ Append(s, m) \in Seq(S) /\ Append(s, m) # <<>>
                 /\ s # <<>> => /\ Head(Append(s, m)) = Head(s)
                                /\ Tail(Append(s, m)) = Append(Tail(s), m)
<1>1. \A m \in S :
         s # <<>> => /\ Head(Append(s, m)) = Head(s)
                     /\ Tail(Append(s, m)) = Append(Tail(s), m)
  OBVIOUS
<1> QED
  BY <1>1, EmptySeq, HeadTailProperties, AppendProperties

\* What a client may send after its hello, and what it sends but for results.
Answers == {m \in ClientMsgs : m.type # "hello"}
Tidings == {m \in Answers : ~(m.type = "shutdown_ack" /\ m.status = "executed")}

\* What a client, its host and the network do to a connection: frames are read,
\* lost or sent, the sent ones from S.
Moves(c, S) ==
    /\ LinkUp(c)' => LinkUp(c)
    /\ \/ toClient'[c] = toClient[c]
       \/ toClient'[c] = <<>>
       \/ toClient[c] # <<>> /\ toClient'[c] = Tail(toClient[c])
    /\ \/ toHub'[c] = toHub[c]
       \/ toHub'[c] = <<>> /\ ~LinkUp(c)'
       \/ \E m \in S : LinkUp(c) /\ toHub'[c] = Append(toHub[c], m)

LEMMA StillMoves ==
    ASSUME NEW S, NEW c \in Conns,
           UNCHANGED <<srvOpen, cliOpen, broken, toHub, toClient>>
    PROVE  Moves(c, S)
  BY DEF Moves, LinkUp

LEMMA CloseMoves ==
    ASSUME LinkTypeOK, NEW S, NEW d \in Conns, CloseAtClient(d),
           UNCHANGED <<srvOpen, broken, toHub>>, NEW c \in Conns
    PROVE  Moves(c, S)
  BY DEF LinkTypeOK, CloseAtClient, Moves, LinkUp

LEMMA BreakMoves ==
    ASSUME LinkTypeOK, NEW S, NEW d \in Conns, Break(d), NEW c \in Conns
    PROVE  Moves(c, S)
<1>1. CASE c = d
  BY <1>1 DEF LinkTypeOK, Break, Moves, LinkUp
<1>2. CASE c # d
  BY <1>2 DEF LinkTypeOK, Break, Moves, LinkUp
<1> QED
  BY <1>1, <1>2

\* A frame is taken off one queue, or put on the other, or both.
LEMMA ReadMoves ==
    ASSUME LinkTypeOK, NEW S, NEW d \in Conns, NEW m \in S,
           \/ UNCHANGED toClient
           \/ toClient[d] # <<>> /\ toClient' = [toClient EXCEPT ![d] = Tail(@)],
           toHub' = toHub \/ toHub' = Written(toHub, d, m),
           UNCHANGED <<srvOpen, cliOpen, broken>>, NEW c \in Conns
    PROVE  Moves(c, S)
<1>1. LinkUp(c)' = LinkUp(c)
  BY DEF LinkUp
<1>2. toHub'[c] = toHub[c] \/ (LinkUp(c) /\ toHub'[c] = Append(toHub[c], m))
  BY DEF Written, LinkTypeOK
<1>3. \/ toClient'[c] = toClient[c]
      \/ toClient[c] # <<>> /\ toClient'[c] = Tail(toClient[c])
  BY DEF LinkTypeOK
<1> QED
  BY <1>1, <1>2, <1>3 DEF Moves

LEMMA TidingsFacts ==
    /\ Tidings \subseteq Answers /\ Answers \subseteq ClientMsgs
    /\ Ping \in Tidings
    /\ \A r \in ReqIds : /\ ShutdownAck("accepted", r) \in Tidings
                         /\ ShutdownAck("duplicate", r) \in Tidings
                         /\ ShutdownAck("executed", r) \in Answers
                         /\ ShutdownErr(r) \in Tidings
<1>1. /\ Ping \in ClientMsgs
      /\ \A r \in ReqIds : /\ ShutdownAck("accepted", r) \in ClientMsgs
                           /\ ShutdownAck("duplicate", r) \in ClientMsgs
                           /\ ShutdownAck("executed", r) \in ClientMsgs
                           /\ ShutdownErr(r) \in ClientMsgs
  BY Alphabets DEF AckStatus
<1> QED
  BY <1>1 DEF Tidings, Answers, Ping, ShutdownAck, ShutdownErr

LEMMA SessionMoves ==
    ASSUME TypeInv, NEW p \in Machines, Session(p), NEW c \in Conns
    PROVE  Moves(c, Tidings)
<1>1. LinkTypeOK
  BY DEF TypeInv, TypeOK
<1>2. cpc[p] \in {"hello", "session"} => conn[p] \in Conns
  BY DEF TypeInv, Knows, SessionKnows
<1>3. ASSUME cpc[p] \in {"hello", "session"}, EndSession(p) \/ ExitFatal(p)
      PROVE  Moves(c, Tidings)
  BY <1>1, <1>2, <1>3, CloseMoves DEF EndSession, ExitFatal
<1>4. CASE HelloAnswer(p)
  <2>1. CASE EndSession(p) \/ ExitFatal(p)
    BY <1>3, <1>4, <2>1 DEF HelloAnswer
  <2>2. CASE /\ toClient' = [toClient EXCEPT ![conn[p]] = Tail(@)]
             /\ UNCHANGED <<conn, seen, jobs, runs, executed,
                            srvOpen, cliOpen, broken, toHub>>
    <3>1. conn[p] \in Conns /\ toClient[conn[p]] # <<>>
      BY <1>2, <1>4 DEF HelloAnswer
    <3> QED
      BY <1>1, <2>2, <3>1, TidingsFacts, ReadMoves
  <2> QED
    BY <1>4, <2>1, <2>2 DEF HelloAnswer
<1>5. CASE SessionReadFails(p)
  BY <1>3, <1>5 DEF SessionReadFails
<1>6. ASSUME NEW m, IgnoreFrame(p, m)
      PROVE  Moves(c, Tidings)
  <2>1. /\ conn[p] \in Conns /\ toClient[conn[p]] # <<>>
        /\ toClient' = [toClient EXCEPT ![conn[p]] = Tail(@)]
        /\ UNCHANGED <<srvOpen, cliOpen, broken, toHub>>
    BY <1>2, <1>6 DEF IgnoreFrame, NextFrame
  <2> QED
    BY <1>1, <2>1, TidingsFacts, ReadMoves
<1>7. ASSUME NEW m, PowerOffRequest(p, m)
      PROVE  Moves(c, Tidings)
  <2>1. /\ conn[p] \in Conns /\ toClient[conn[p]] # <<>> /\ m = Head(toClient[conn[p]])
        /\ toClient' = [toClient EXCEPT ![conn[p]] = Tail(@)]
        /\ UNCHANGED <<srvOpen, cliOpen, broken>>
    BY <1>2, <1>7 DEF PowerOffRequest, NextFrame
  <2>2. m \in HubMsgs
    BY <1>1, <2>1, QueueTypes DEF LinkTypeOK
  <2>3. m.requestId \in ReqIds
    BY <1>7, <2>2, Shapes DEF PowerOffRequest, Controls
  <2>4. PICK n \in Tidings : toHub' = Written(toHub, conn[p], n)
    BY <1>7, <2>3, TidingsFacts DEF PowerOffRequest
  <2> QED
    BY <1>1, <2>1, <2>4, ReadMoves
<1> QED
  BY <1>4, <1>5, <1>6, <1>7 DEF Session

LEMMA HostMoves ==
    ASSUME TypeInv, NEW p \in Machines, ProcessEnds(p) \/ ProcessStarts(p), NEW c \in Conns
    PROVE  Moves(c, Tidings)
<1>1. LinkTypeOK /\ conn[p] \in Conns \cup {NoConn}
  BY DEF TypeInv, TypeOK, MachineTypeOK
<1>2. \/ UNCHANGED <<srvOpen, cliOpen, broken, toHub, toClient>>
      \/ conn[p] # NoConn /\ Break(conn[p])
      \/ /\ conn[p] # NoConn /\ CloseAtClient(conn[p])
         /\ UNCHANGED <<srvOpen, broken, toHub>>
  BY DEF ProcessEnds, ProcessStarts, linkVars
<1> QED
  BY <1>1, <1>2, StillMoves, CloseMoves, BreakMoves

LEMMA JobMoves ==
    ASSUME TypeInv, NEW p \in Machines, NEW j \in jobs[p], NEW c \in Conns,
           Report(p, j) \/ \E ok \in BOOLEAN : RunCommand(p, j, ok)
    PROVE  Moves(c, Answers)
<1>1. CASE Report(p, j)
  <2>1. j \in Jobs /\ LinkTypeOK
    BY DEF TypeInv, TypeOK, MachineTypeOK
  <2>2. j.conn \in Conns /\ j.requestId \in ReqIds
    BY <2>1 DEF Jobs
  <2>3. PICK n \in Answers : toHub' = Written(toHub, j.conn, n)
    BY <1>1, <2>2, TidingsFacts DEF Report
  <2>4. UNCHANGED <<srvOpen, cliOpen, broken, toClient>>
    BY <1>1 DEF Report
  <2> QED
    BY <2>1, <2>2, <2>3, <2>4, ReadMoves
<1>2. CASE \E ok \in BOOLEAN : RunCommand(p, j, ok)
  BY <1>2, StillMoves DEF RunCommand, linkVars
<1> QED
  BY <1>1, <1>2

LEMMA PingMoves ==
    ASSUME TypeInv, NEW p \in Machines, PingStep(p), NEW c \in Conns
    PROVE  Moves(c, Tidings)
<1>1. LinkTypeOK /\ conn[p] \in Conns
  BY DEF PingStep, SendPing, TypeInv, TypeOK, Knows, SessionKnows
<1>2. /\ toHub' = Written(toHub, conn[p], Ping)
      /\ UNCHANGED <<srvOpen, cliOpen, broken, toClient>>
  BY DEF PingStep, SendPing
<1> QED
  BY <1>1, <1>2, TidingsFacts, ReadMoves

LEMMA LineMoves ==
    ASSUME LineInv, UNCHANGED <<hpc, hkey, call>>, \A c \in Conns : Moves(c, Answers)
    PROVE  (\A c \in Conns : Line(c)') /\ \A a \in Callers : Reaches(a)'
<1>1. ASSUME NEW c \in Conns PROVE Line(c)'
  <2>1. toHub[c] \in Seq(ClientMsgs)
    BY DEF LineInv, RegistryInv, TypeInv, TypeOK, LinkTypeOK
  <2>2. \A m \in Answers : /\ Append(toHub[c], m) # <<>>
                           /\ toHub[c] # <<>> => Head(Append(toHub[c], m)) = Head(toHub[c])
    BY <2>1, Queues DEF Answers
  <2>3. Line(c) /\ Moves(c, Answers)
    BY DEF LineInv
  <2> QED
    BY <2>2, <2>3 DEF Line, Moves
<1>2. ASSUME NEW a \in Callers PROVE Reaches(a)'
  <2>1. call[a].pc = "found" => call[a].conn \in Conns
    BY DEF LineInv, RegistryInv, TypeInv, Knows, CallKnows
  <2> QED
    BY <2>1 DEF LineInv, Reaches, Moves, Registered
<1> QED
  BY <1>1, <1>2

\* A handler's step leaves other connections alone, but may close them.
LEMMA HandlerOthers ==
    ASSUME TypeInv, NEW c \in Conns, Handler(c)
    PROVE  /\ UNCHANGED <<token, clock, call>>
           /\ \A d \in Conns :
                 /\ LinkUp(d)' => LinkUp(d)
                 /\ d # c => /\ hpc'[d] = hpc[d] /\ hkey'[d] = hkey[d] /\ hmsg'[d] = hmsg[d]
                             /\ toClient'[d] = toClient[d]
                             /\ toHub'[d] = toHub[d] \/ (toHub'[d] = <<>> /\ ~LinkUp(d)')
<1> USE DEF TypeInv, TypeOK, LinkTypeOK, HubTypeOK
<1>1. CASE HelloLost(c) \/ ReadFails(c) \/ Deregister(c) \/ ApplyAck(c)
  BY <1>1 DEF HelloLost, ReadFails, Deregister, ApplyAck, linkVars, LinkUp
<1>2. CASE ReadHello(c)
  BY <1>2 DEF ReadHello, Written, LinkUp
<1>3. CASE CheckToken(c)
  BY <1>3 DEF CheckToken, Written, LinkUp
<1>4. CASE Greet(c)
  BY <1>4 DEF Greet, Written, LinkUp
<1>5. CASE ReadFrame(c)
  BY <1>5 DEF ReadFrame, Written, LinkUp
<1>6. CASE Register(c)
  BY <1>6 DEF Register, CloseAtHub, LinkUp
<1>7. CASE Return(c)
  BY <1>7 DEF Return, CloseAtHub, LinkUp
<1> QED
  BY <1>1, <1>2, <1>3, <1>4, <1>5, <1>6, <1>7 DEF Handler

LEMMA LineHandler ==
    ASSUME LineInv, NEW c \in Conns, Handler(c)
    PROVE  (\A d \in Conns : Line(d)') /\ \A a \in Callers : Reaches(a)'
<1>t. /\ TypeInv /\ hpc \in [Conns -> HandlerPcs] /\ hkey \in [Conns -> Keys \cup {NoKey}]
      /\ \A d \in Conns : Line(d)
  BY DEF LineInv, RegistryInv, TypeInv, TypeOK, HubTypeOK
<1>1. \A d \in Conns \ {c} : Line(d)'
  BY <1>t, HandlerOthers DEF Line
<1>2. /\ hpc'[c] # "hello"
      /\ hpc'[c] \in {"token", "register"} =>
            hpc[c] \in {"hello", "token"} /\ toClient' = toClient
      /\ hpc'[c] = "cleanup" => HubReadFails(c) /\ UNCHANGED linkVars
      /\ Registered(c) => \/ hpc[c] = "cleanup"
                          \/ hpc'[c] \in {"greet", "loop", "apply", "cleanup"} /\ hkey' = hkey
  <2>1. CASE HelloLost(c) \/ ReadFails(c) \/ Deregister(c) \/ ApplyAck(c)
    BY <1>t, <2>1 DEF HelloLost, ReadFails, Deregister, ApplyAck, Registered
  <2>2. CASE ReadHello(c)
    BY <1>t, <2>2 DEF ReadHello, Registered
  <2>3. CASE CheckToken(c)
    BY <1>t, <2>3 DEF CheckToken, Registered
  <2>4. CASE Greet(c) \/ Register(c) \/ Return(c)
    BY <1>t, <2>4 DEF Greet, Register, Return, Registered
  <2>5. CASE ReadFrame(c)
    BY <1>t, <2>5 DEF ReadFrame, Registered
  <2> QED
    BY <2>1, <2>2, <2>3, <2>4, <2>5 DEF Handler
<1>3. HubReadFails(c) /\ UNCHANGED linkVars => ~LinkUp(c)'
  <2>1. ASSUME LinkUp(c), ~srvOpen[c] \/ broken[c] \/ ~cliOpen[c] PROVE FALSE
    BY <2>1 DEF LinkUp
  <2> QED
    BY <2>1 DEF HubReadFails, LinkUp, linkVars
<1>4. Line(c)'
  BY <1>t, <1>2, <1>3 DEF Line
<1>5. ASSUME NEW a \in Callers PROVE Reaches(a)'
  <2>1. call[a].pc = "found" => call[a].conn \in Conns
    BY <1>t DEF TypeInv, Knows, CallKnows
  <2>2. call' = call /\ Reaches(a)
    BY <1>t, HandlerOthers DEF LineInv
  <2>3. \A d \in Conns : LinkUp(d)' => LinkUp(d)
    BY <1>t, HandlerOthers
  <2>4. \A d \in Conns \ {c} : hpc'[d] = hpc[d] /\ hkey'[d] = hkey[d]
    BY <1>t, HandlerOthers
  <2>5. hpc[c] = "cleanup" => ~LinkUp(c)
    BY <1>t DEF Line
  <2>6. CASE call[a].conn = c
    BY <1>2, <2>1, <2>2, <2>3, <2>5, <2>6 DEF Reaches, Registered
  <2>7. CASE call[a].conn # c
    BY <2>1, <2>2, <2>3, <2>4, <2>7 DEF Reaches, Registered
  <2> QED
    BY <2>6, <2>7
<1> QED
  BY <1>1, <1>4, <1>5

\* What SendControl does to the calls, and to the connection it writes on.
LEMMA LookupCall ==
    ASSUME TypeInv, NEW a \in Callers, NEW k \in Keys, NEW typ \in Controls, Lookup(a, k, typ)
    PROVE  /\ call[a].pc = "idle"
           /\ \A b \in Callers \ {a} : call'[b] = call[b]
           /\ call'[a].pc \in {"offline", "found"}
           /\ call'[a].pc = "found" =>
                 call'[a].conn = clients[k] /\ call'[a].key = k /\ clients[k] # NoConn
           /\ UNCHANGED <<clients, hpc, hkey, hmsg, lastEvent, token>> /\ UNCHANGED linkVars
<1>. DEFINE off == [IdleCall EXCEPT !.pc = "offline", !.key = k, !.type = typ]
            fnd == [IdleCall EXCEPT !.pc = "found", !.key = k, !.type = typ, !.conn = clients[k]]
<1>1. off.pc = "offline"
  BY DEF IdleCall
<1>2. fnd.pc = "found" /\ fnd.conn = clients[k] /\ fnd.key = k
  BY DEF IdleCall
<1>3. call' = [call EXCEPT ![a] = IF clients[k] = NoConn THEN off ELSE fnd]
  BY DEF Lookup
<1>4. a \in DOMAIN call /\ DOMAIN call = Callers
  BY DEF TypeInv, TypeOK, HubTypeOK
<1>. HIDE DEF off, fnd
<1>5. call'[a] = (IF clients[k] = NoConn THEN off ELSE fnd)
  BY <1>3, <1>4
<1>6. \A b \in Callers \ {a} : call'[b] = call[b]
  BY <1>3, <1>4
<1>7. call[a].pc = "idle" /\ UNCHANGED <<clients, hpc, hkey, hmsg, lastEvent, token>> /\ UNCHANGED linkVars
  BY DEF Lookup
<1>. QED BY <1>1, <1>2, <1>5, <1>6, <1>7

LEMMA WriteCall ==
    ASSUME TypeInv, NEW a \in Callers, NEW ok \in BOOLEAN, WriteControl(a, ok)
    PROVE  /\ call[a].pc = "found" /\ call[a].conn \in Conns /\ call[a].key \in Keys
           /\ call[a].type \in Controls
           /\ \A b \in Callers \ {a} : call'[b] = call[b]
           /\ call'[a].pc = (IF ok THEN "sent" ELSE "error")
           /\ call'[a].key = call[a].key /\ call'[a].type = call[a].type
           /\ ok => call'[a].requestId = <<call[a].key, clock>>
           /\ toClient' = IF ok THEN Written(toClient, call[a].conn,
                                             Control(call[a].type, <<call[a].key, clock>>))
                                ELSE toClient
           /\ <<call[a].key, clock>> \in ReqIds
           /\ UNCHANGED <<clients, hpc, hkey, hmsg, lastEvent, token,
                          srvOpen, cliOpen, broken, toHub>>
<1>1. call[a] \in Calls /\ DOMAIN call = Callers
  BY DEF TypeInv, TypeOK, HubTypeOK
<1>. DEFINE r == <<call[a].key, clock>>
            done == [call[a] EXCEPT !.pc = "sent", !.conn = NoConn, !.requestId = r]
            err == [call[a] EXCEPT !.pc = "error", !.conn = NoConn]
<1>2. done.pc = "sent" /\ done.key = call[a].key /\ done.type = call[a].type /\ done.requestId = r
  BY <1>1 DEF Calls
<1>3. err.pc = "error" /\ err.key = call[a].key /\ err.type = call[a].type
  BY <1>1 DEF Calls
<1>4. call' = [call EXCEPT ![a] = IF ok THEN done ELSE err]
  BY DEF WriteControl
<1>. HIDE DEF done, err
<1>5. call'[a] = IF ok THEN done ELSE err
  BY <1>1, <1>4
<1>6. \A b \in Callers \ {a} : call'[b] = call[b]
  BY <1>1, <1>4
<1>7. /\ call[a].pc = "found"
      /\ toClient' = IF ok THEN Written(toClient, call[a].conn, Control(call[a].type, r)) ELSE toClient
      /\ UNCHANGED <<clients, hpc, hkey, hmsg, lastEvent, token, srvOpen, cliOpen, broken, toHub>>
  BY DEF WriteControl
<1>8. call[a].conn \in Conns /\ call[a].key \in Keys
  BY <1>7 DEF TypeInv, Knows, CallKnows
<1>9. call[a].type \in Controls
  BY <1>1 DEF Calls
<1>10. r \in ReqIds
  BY <1>8 DEF ReqIds, TypeInv, TypeOK, HubTypeOK
<1>. QED BY <1>2, <1>3, <1>5, <1>6, <1>7, <1>8, <1>9, <1>10

\* The call keeps what it wrote, and that it did.
Keeps(a) ==
    /\ Wrote(a)'
    /\ call'[a].key = call[a].key /\ call'[a].type = call[a].type
    /\ call'[a].requestId = call[a].requestId

LEMMA AnswerCall ==
    ASSUME TypeInv, NEW a \in Callers, Answer(a)
    PROVE  /\ call[a].pc = "sent" /\ call'[a].pc = "ok" /\ Wrote(a) /\ Keeps(a)
           /\ \A b \in Callers \ {a} : call'[b] = call[b]
           /\ UNCHANGED <<clients, hpc, hkey, hmsg, lastEvent, token>> /\ UNCHANGED linkVars
<1>1. PICK c \in Calls : c = call[a]
  BY DEF TypeInv, TypeOK, HubTypeOK
<1>2. /\ [c EXCEPT !.pc = "ok"].pc = "ok" /\ [c EXCEPT !.pc = "ok"].key = c.key
      /\ [c EXCEPT !.pc = "ok"].type = c.type /\ [c EXCEPT !.pc = "ok"].requestId = c.requestId
  BY DEF Calls
<1>3. a \in DOMAIN call /\ DOMAIN call = Callers
  BY DEF TypeInv, TypeOK, HubTypeOK
<1>4. call' = [call EXCEPT ![a] = [c EXCEPT !.pc = "ok"]]
  BY <1>1 DEF Answer
<1>5. call'[a] = [c EXCEPT !.pc = "ok"] /\ \A b \in Callers \ {a} : call'[b] = call[b]
  BY <1>3, <1>4
<1>6. /\ call[a].pc = "sent" /\ UNCHANGED <<clients, hpc, hkey, hmsg, lastEvent, token>>
      /\ UNCHANGED linkVars
  BY DEF Answer
<1>. QED BY <1>1, <1>2, <1>5, <1>6 DEF Keeps, Wrote

LEMMA LineCall ==
    ASSUME LineInv, NEW a \in Callers, CallStep(a)
    PROVE  (\A c \in Conns : Line(c)') /\ \A b \in Callers : Reaches(b)'
<1>t. TypeInv /\ EntryHasHandler /\ clients \in [Keys -> Conns \cup {NoConn}]
  BY DEF LineInv, RegistryInv, TypeInv, TypeOK, HubTypeOK
<1>1. ASSUME NEW k \in Keys, NEW typ \in Controls, Lookup(a, k, typ)
      PROVE  (\A c \in Conns : Line(c)') /\ \A b \in Callers : Reaches(b)'
  <2>1. UNCHANGED <<hpc, hkey>> /\ \A c \in Conns : LinkUp(c)' = LinkUp(c) /\ toHub'[c] = toHub[c] /\ toClient'[c] = toClient[c]
    BY <1>t, <1>1, LookupCall DEF linkVars, LinkUp
  <2>2. \A b \in Callers \ {a} : call'[b] = call[b] /\ (call[b].pc = "found" => call[b].conn \in Conns)
    BY <1>t, <1>1, LookupCall DEF TypeInv, Knows, CallKnows
  <2>3. call'[a].pc = "found" =>
           call'[a].conn \in Conns /\ Registered(call'[a].conn) /\ hkey[call'[a].conn] = call'[a].key
    BY <1>t, <1>1, LookupCall DEF EntryHasHandler
  <2>4. \A c \in Conns : Line(c)'
    BY <2>1 DEF LineInv, Line
  <2>5. Reaches(a)'
    BY <2>1, <2>3 DEF Reaches, Registered
  <2>6. \A b \in Callers \ {a} : Reaches(b)'
    BY <2>1, <2>2 DEF LineInv, Reaches, Registered
  <2>. QED BY <2>4, <2>5, <2>6
<1>2. ASSUME NEW ok \in BOOLEAN, WriteControl(a, ok)
      PROVE  (\A c \in Conns : Line(c)') /\ \A b \in Callers : Reaches(b)'
  <2>1. UNCHANGED <<hpc, hkey>> /\ \A c \in Conns : LinkUp(c)' = LinkUp(c) /\ toHub'[c] = toHub[c]
    BY <1>t, <1>2, WriteCall DEF LinkUp
  <2>2. \A b \in Callers \ {a} : call'[b] = call[b] /\ (call[b].pc = "found" => call[b].conn \in Conns)
    BY <1>t, <1>2, WriteCall DEF TypeInv, Knows, CallKnows
  <2>3. call'[a].pc # "found"
    BY <1>t, <1>2, WriteCall
  <2>4. \A c \in Conns : toClient'[c] = toClient[c] \/ (LinkUp(c) /\ c = call[a].conn)
    <3>1. toClient \in [Conns -> Seq(HubMsgs)]
      BY <1>t DEF TypeInv, TypeOK, LinkTypeOK
    <3>2. call[a].conn \in Conns
      BY <1>t, <1>2, WriteCall
    <3>3. toClient' = toClient \/ \E m : toClient' = Written(toClient, call[a].conn, m)
      BY <1>t, <1>2, WriteCall
    <3>. QED BY <3>1, <3>2, <3>3 DEF Written
  <2>5. call[a].pc = "found" /\ Reaches(a)
    BY <1>t, <1>2, WriteCall DEF LineInv
  <2>6. \A c \in Conns : Line(c)'
    BY <2>1, <2>4, <2>5 DEF LineInv, Line, Reaches, Registered
  <2>7. \A b \in Callers \ {a} : Reaches(b)'
    BY <2>1, <2>2 DEF LineInv, Reaches, Registered
  <2>. QED BY <2>3, <2>6, <2>7 DEF Reaches
<1>3. ASSUME Answer(a)
      PROVE  (\A c \in Conns : Line(c)') /\ \A b \in Callers : Reaches(b)'
  <2>1. UNCHANGED <<hpc, hkey>> /\ \A c \in Conns : LinkUp(c)' = LinkUp(c) /\ toHub'[c] = toHub[c] /\ toClient'[c] = toClient[c]
    BY <1>t, <1>3, AnswerCall DEF linkVars, LinkUp
  <2>2. \A b \in Callers \ {a} : call'[b] = call[b] /\ (call[b].pc = "found" => call[b].conn \in Conns)
    BY <1>t, <1>3, AnswerCall DEF TypeInv, Knows, CallKnows
  <2>3. call'[a].pc = "ok"
    BY <1>t, <1>3, AnswerCall
  <2>4. \A c \in Conns : Line(c)'
    BY <2>1 DEF LineInv, Line
  <2>5. \A b \in Callers \ {a} : Reaches(b)'
    BY <2>1, <2>2 DEF LineInv, Reaches, Registered
  <2>. QED BY <2>3, <2>4, <2>5 DEF Reaches
<1>. QED BY <1>1, <1>2, <1>3 DEF CallStep

\* What a dial leaves: nobody else holds the connection.
LEMMA ConnectEffect ==
    ASSUME TypeInv, NEW p \in Machines, NEW c \in Conns, Connect(p, c)
    PROVE  /\ ~HeldByMachine(c) /\ \A a \in Callers : call[a].conn # c
           /\ cpc[p] = "idle" /\ cpc' = [cpc EXCEPT ![p] = "hello"]
           /\ conn' = [conn EXCEPT ![p] = c]
           /\ hpc' = [hpc EXCEPT ![c] = "hello"]
           /\ UNCHANGED <<seen, jobs, runs, executed, clients, hkey, hmsg, lastEvent, call, token>>
           /\ toHub'[c] = <<Hello(KeyOf[p], TokenOf[p])>> /\ toClient'[c] = <<>>
           /\ \A d \in Conns \ {c} :
                 /\ toHub'[d] = toHub[d] /\ toClient'[d] = toClient[d]
                 /\ LinkUp(d)' = LinkUp(d) /\ hpc'[d] = hpc[d]
  BY DEF Connect, Free, Dial, Open, Accept, LinkUp, TypeInv, TypeOK, LinkTypeOK, HubTypeOK

LEMMA LineConnect ==
    ASSUME LineInv, NEW p \in Machines, NEW c \in Conns, Connect(p, c)
    PROVE  (\A d \in Conns : Line(d)') /\ \A a \in Callers : Reaches(a)'
<1>t. TypeInv /\ hpc \in [Conns -> HandlerPcs]
  BY DEF LineInv, RegistryInv, TypeInv, TypeOK, HubTypeOK
<1>1. \A d \in Conns \ {c} : Line(d)'
  BY <1>t, ConnectEffect DEF LineInv, Line
<1>2. Head(<<Hello(KeyOf[p], TokenOf[p])>>).type = "hello" /\ <<Hello(KeyOf[p], TokenOf[p])>> # <<>>
  BY DEF Hello
<1>3. Line(c)'
  <2>1. /\ hpc' = [hpc EXCEPT ![c] = "hello"] /\ toClient'[c] = <<>>
        /\ toHub'[c] = <<Hello(KeyOf[p], TokenOf[p])>>
    BY <1>t, ConnectEffect
  <2>2. hpc'[c] = "hello"
    BY <1>t, <2>1
  <2>. QED BY <1>2, <2>1, <2>2 DEF Line
<1>4. ASSUME NEW a \in Callers PROVE Reaches(a)'
  <2>1. call[a].pc = "found" => call[a].conn \in Conns \ {c}
    BY <1>t, ConnectEffect DEF TypeInv, Knows, CallKnows
  <2>. QED BY <1>t, <2>1, ConnectEffect DEF LineInv, Reaches, Registered
<1>. QED BY <1>1, <1>3, <1>4

LEMMA RestartEffect ==
    ASSUME TypeInv, HubRestart
    PROVE  /\ \A c \in Conns : /\ hpc'[c] = "none" /\ ~LinkUp(c)'
                               /\ toHub'[c] = <<>> /\ toClient'[c] = toClient[c]
           /\ \A a \in Callers : /\ call'[a].pc # "found"
                                 /\ Wrote(a) => Keeps(a)
                                 /\ ~Wrote(a) => ~Wrote(a)'
<1>1. \A c \in Conns : hpc'[c] = "none" /\ ~LinkUp(c)' /\ toHub'[c] = <<>> /\ toClient'[c] = toClient[c]
  BY DEF HubRestart, CloseAtHub, LinkUp
<1>2. ASSUME NEW a \in Callers
      PROVE  /\ call'[a].pc # "found"
             /\ Wrote(a) => Keeps(a)
             /\ ~Wrote(a) => ~Wrote(a)'
  <2>1. PICK c \in Calls : c = call[a]
    BY DEF TypeInv, TypeOK, HubTypeOK
  <2>. DEFINE err == [c EXCEPT !.pc = "error", !.conn = NoConn]
              lost == [c EXCEPT !.pc = "lost"]
  <2>2. /\ err.pc = "error" /\ lost.pc = "lost" /\ lost.key = c.key
        /\ lost.type = c.type /\ lost.requestId = c.requestId
    BY DEF Calls
  <2>3. call'[a] = CASE c.pc = "found" -> err [] c.pc = "sent" -> lost [] OTHER -> c
    BY <2>1 DEF HubRestart
  <2>. HIDE DEF err, lost
  <2>4. CASE c.pc = "found"
    BY <2>1, <2>2, <2>3, <2>4 DEF Wrote
  <2>5. CASE c.pc = "sent"
    BY <2>1, <2>2, <2>3, <2>5 DEF Wrote, Keeps
  <2>6. CASE c.pc \notin {"found", "sent"}
    <3>1. call'[a] = call[a]
      BY <2>1, <2>3, <2>6
    <3>. QED BY <2>1, <2>6, <3>1 DEF Wrote, Keeps
  <2>. QED BY <2>4, <2>5, <2>6
<1>. QED BY <1>1, <1>2

\* Neither a handler, an API call nor a machine acts.
Quiet ==
    /\ UNCHANGED machineVars
    /\ UNCHANGED <<clients, hpc, hkey, hmsg, lastEvent, hubLog, call>>
    /\ \A c \in Conns : Moves(c, Tidings)

\* The steps there are.
LEMMA Steps ==
    ASSUME TypeInv, [Next]_vars
    PROVE  \/ \E p \in Machines, c \in Conns : Connect(p, c)
           \/ \E p \in Machines : SessionStep(p) \/ PingStep(p)
           \/ \E p \in Machines : /\ ProcessEnds(p) \/ ProcessStarts(p)
                                  /\ UNCHANGED hubVars
           \/ \E p \in Machines : \E j \in jobs[p] :
                 /\ Report(p, j) \/ \E ok \in BOOLEAN : RunCommand(p, j, ok)
                 /\ UNCHANGED hubVars
           \/ \E c \in Conns : Handler(c) /\ UNCHANGED machineVars
           \/ \E a \in Callers : CallStep(a)
           \/ HubRestart /\ UNCHANGED machineVars
           \/ Quiet
<1>t. LinkTypeOK
  BY DEF TypeInv, TypeOK
<1>1. ClockStep \/ Rotate \/ UNCHANGED vars => Quiet
  BY StillMoves DEF ClockStep, Rotate, Tick, SetToken, vars, hubVars, linkVars, Quiet
<1>2. ASSUME Fault
      PROVE  \/ \E p \in Machines : ProcessEnds(p) /\ UNCHANGED hubVars
             \/ HubRestart /\ UNCHANGED machineVars
             \/ Quiet
  <2>1. ASSUME NEW c \in Conns, Break(c), UNCHANGED <<hubVars, machineVars>> PROVE Quiet
    BY <1>t, <2>1, BreakMoves DEF hubVars, Quiet
  <2>. QED BY <1>2, <2>1 DEF Fault
<1>. QED BY <1>1, <1>2 DEF Next, JobStep, Job, PowerOff, Boot, HubStep

LEMMA LineStep == LineInv /\ [Next]_vars => LineInv'
<1>. SUFFICES ASSUME LineInv, [Next]_vars
              PROVE  (\A c \in Conns : Line(c)') /\ \A a \in Callers : Reaches(a)'
  BY RegistryStep DEF LineInv
<1>. DEFINE Goal == (\A c \in Conns : Line(c)') /\ \A a \in Callers : Reaches(a)'
<1>t. TypeInv
  BY DEF LineInv, RegistryInv
<1>w. ASSUME \A c \in Conns : Moves(c, Tidings) PROVE \A c \in Conns : Moves(c, Answers)
  BY <1>w, TidingsFacts DEF Moves
<1>m. ASSUME UNCHANGED <<hpc, hkey, call>>,
             \/ \A c \in Conns : Moves(c, Tidings)
             \/ \A c \in Conns : Moves(c, Answers)
      PROVE  Goal
  BY <1>w, <1>m, LineMoves
<1>1. ASSUME NEW p \in Machines, NEW c \in Conns, Connect(p, c) PROVE Goal
  BY <1>1, LineConnect
<1>2. ASSUME NEW p \in Machines, SessionStep(p) \/ PingStep(p) PROVE Goal
  BY <1>t, <1>2, <1>m, SessionMoves, PingMoves DEF SessionStep, PingStep, hubVars
<1>3. ASSUME NEW p \in Machines, ProcessEnds(p) \/ ProcessStarts(p), UNCHANGED hubVars PROVE Goal
  BY <1>t, <1>3, <1>m, HostMoves DEF hubVars
<1>4. ASSUME NEW p \in Machines, NEW j \in jobs[p], UNCHANGED hubVars,
             Report(p, j) \/ \E ok \in BOOLEAN : RunCommand(p, j, ok)
      PROVE  Goal
  BY <1>t, <1>4, <1>m, JobMoves DEF hubVars
<1>5. ASSUME NEW c \in Conns, Handler(c) PROVE Goal
  BY <1>5, LineHandler
<1>6. ASSUME NEW a \in Callers, CallStep(a) PROVE Goal
  BY <1>6, LineCall
<1>7. CASE HubRestart
  BY <1>t, <1>7, RestartEffect DEF Line, Reaches
<1>8. CASE Quiet
  BY <1>8, <1>m DEF Quiet
<1>. QED BY <1>t, <1>1, <1>2, <1>3, <1>4, <1>5, <1>6, <1>7, <1>8, Steps

LEMMA LineInit == Init => LineInv
  BY RegistryInit DEF Init, HubInit, LinkInit, IdleCall, LineInv, Line, Reaches

LEMMA LineAlways == Spec => []LineInv
  BY LineInit, LineStep, PTL DEF Spec

\* A connection whose hello has not been judged has nothing to read: no API call
\* reaches a client the hub has not admitted, and none that was refused goes on
\* (hub.go 153-164).
THEOREM AdmittedFirst == Spec => []ControlOnlyAfterAdmission
<1>1. LineInv => ControlOnlyAfterAdmission
  BY DEF LineInv, Line, ControlOnlyAfterAdmission
<1>. QED BY <1>1, LineAlways, PTL

-----------------------------------------------------------------------------
(* Refusals.  A client whose key is set and whose token is the only one the *)
(* hub can require is never sent an error: its hello is all the hub ever    *)
(* judges it by.                                                            *)

Refusable(p) == KeyOf[p] = NoKey \/ Tokens \ {NoToken, TokenOf[p]} # {}

Greeting(p) == Hello(KeyOf[p], TokenOf[p])
OwnFrames(p) == {m \in ClientMsgs : m.type = "hello" => m = Greeting(p)}
Kindly == {m \in HubMsgs : m.type # "error"}

Welcome(p) ==
    /\ cpc[p] # "fatal"
    /\ \A c \in Conns : conn[p] = c =>
          /\ toHub[c] \in Seq(OwnFrames(p))
          /\ hpc[c] = "token" => hmsg[c] = Greeting(p)
          /\ toClient[c] \in Seq(Kindly)

RefusalInv == LineInv /\ \A p \in Machines : Refusable(p) \/ Welcome(p)

\* What the frames of a connection have in common they still have after Moves.
LEMMA MovesQueues ==
    ASSUME NEW S, NEW c \in Conns, Moves(c, S),
           NEW A, S \subseteq A, toHub[c] \in Seq(A), NEW B, toClient[c] \in Seq(B)
    PROVE  toHub'[c] \in Seq(A) /\ toClient'[c] \in Seq(B)
<1>1. <<>> \in Seq(A) /\ <<>> \in Seq(B)
  BY Queues
<1>2. \A m \in S : Append(toHub[c], m) \in Seq(A)
  BY Queues
<1>3. toClient[c] # <<>> => Tail(toClient[c]) \in Seq(B)
  BY Queues
<1>. QED BY <1>1, <1>2, <1>3 DEF Moves

\* A process keeps its connection or leaves it, and exits for good on an error.
LEMMA MachineMoves ==
    ASSUME TypeInv, NEW p \in Machines,
           \/ SessionStep(p) \/ PingStep(p) \/ ProcessEnds(p) \/ ProcessStarts(p)
           \/ \E j \in jobs[p] : Report(p, j) \/ \E ok \in BOOLEAN : RunCommand(p, j, ok)
    PROVE  \A q \in Machines :
              /\ conn'[q] = conn[q] \/ conn'[q] = NoConn
              /\ cpc'[q] = "fatal" => \/ cpc[q] = "fatal"
                                      \/ /\ cpc[q] = "hello" /\ toClient[conn[q]] # <<>>
                                         /\ Head(toClient[conn[q]]).type = "error"
<1>t. DOMAIN conn = Machines /\ DOMAIN cpc = Machines
  BY DEF TypeInv, TypeOK, MachineTypeOK
<1>1. CASE UNCHANGED <<cpc, conn>>
  BY <1>1
<1>2. ASSUME NEW pc, cpc' = [cpc EXCEPT ![p] = pc],
             conn' = [conn EXCEPT ![p] = NoConn] \/ conn' = conn,
             pc = "fatal" => /\ cpc[p] = "hello" /\ toClient[conn[p]] # <<>>
                             /\ Head(toClient[conn[p]]).type = "error"
      PROVE  \A q \in Machines :
                /\ conn'[q] = conn[q] \/ conn'[q] = NoConn
                /\ cpc'[q] = "fatal" => \/ cpc[q] = "fatal"
                                        \/ /\ cpc[q] = "hello" /\ toClient[conn[q]] # <<>>
                                           /\ Head(toClient[conn[q]]).type = "error"
  BY <1>t, <1>2
<1>3. CASE HelloAnswer(p)
  <2>1. CASE EndSession(p)
    BY <1>2, <2>1 DEF EndSession
  <2>2. CASE Head(toClient[conn[p]]).type = "error" /\ ExitFatal(p)
    BY <1>2, <1>3, <2>2 DEF HelloAnswer, ExitFatal, Exit
  <2>3. CASE cpc' = [cpc EXCEPT ![p] = "session"] /\ conn' = conn
    BY <1>2, <2>3
  <2>. QED BY <1>3, <2>1, <2>2, <2>3 DEF HelloAnswer
<1>4. CASE SessionReadFails(p)
  BY <1>2, <1>4 DEF SessionReadFails, EndSession
<1>5. CASE ProcessEnds(p)
  BY <1>2, <1>5 DEF ProcessEnds, Exit
<1>6. CASE ProcessStarts(p)
  BY <1>2, <1>6 DEF ProcessStarts
<1>7. CASE SessionStep(p)
  BY <1>1, <1>3, <1>4, <1>7 DEF SessionStep, Session, IgnoreFrame, PowerOffRequest, machineVars
<1>8. CASE \/ PingStep(p)
           \/ \E j \in jobs[p] : Report(p, j) \/ \E ok \in BOOLEAN : RunCommand(p, j, ok)
  BY <1>1, <1>8 DEF PingStep, SendPing, Report, RunCommand, machineVars
<1>. QED BY <1>5, <1>6, <1>7, <1>8

LEMMA WelcomeMoves ==
    ASSUME RefusalInv, UNCHANGED <<hpc, hmsg>>, \A c \in Conns : Moves(c, Answers),
           NEW q \in Machines, Welcome(q), cpc'[q] # "fatal",
           conn'[q] = conn[q] \/ conn'[q] = NoConn
    PROVE  Welcome(q)'
<1>. SUFFICES ASSUME NEW c \in Conns, conn'[q] = c
     PROVE  /\ toHub'[c] \in Seq(OwnFrames(q))
            /\ hpc'[c] = "token" => hmsg'[c] = Greeting(q)
            /\ toClient'[c] \in Seq(Kindly)
  BY DEF Welcome, OwnFrames, Greeting, Kindly
<1>1. conn[q] = c
  BY LinkAssumption
<1>2. Answers \subseteq OwnFrames(q)
  BY DEF Answers, OwnFrames
<1>. QED BY <1>1, <1>2, MovesQueues DEF Welcome

LEMMA WelcomeHandler ==
    ASSUME RefusalInv, NEW c \in Conns, Handler(c), UNCHANGED machineVars,
           NEW q \in Machines, Welcome(q), ~Refusable(q)
    PROVE  Welcome(q)'
<1>t. /\ TypeInv /\ toClient \in [Conns -> Seq(HubMsgs)] /\ hpc \in [Conns -> HandlerPcs]
      /\ hmsg \in [Conns -> ClientMsgs \cup {NoMsg}] /\ token \in Tokens /\ Line(c)
  BY DEF RefusalInv, LineInv, RegistryInv, TypeInv, TypeOK, LinkTypeOK, HubTypeOK
<1>0. cpc' = cpc /\ conn' = conn /\ <<>> \in Seq(OwnFrames(q))
  BY EmptySeq DEF machineVars
<1>1. ASSUME NEW d \in Conns, conn[q] = d, d # c
      PROVE  /\ toHub'[d] \in Seq(OwnFrames(q))
             /\ hpc'[d] = "token" => hmsg'[d] = Greeting(q)
             /\ toClient'[d] \in Seq(Kindly)
  BY <1>t, <1>0, <1>1, HandlerOthers DEF Welcome
<1>2. ASSUME conn[q] = c
      PROVE  /\ toHub'[c] \in Seq(OwnFrames(q))
             /\ hpc'[c] = "token" => hmsg'[c] = Greeting(q)
             /\ toClient'[c] \in Seq(Kindly)
  <2>1. /\ toHub[c] \in Seq(OwnFrames(q)) /\ toClient[c] \in Seq(Kindly)
        /\ hpc[c] = "token" => hmsg[c] = Greeting(q)
    BY <1>2 DEF Welcome
  <2>2. /\ toHub[c] # <<>> => Head(toHub[c]) \in OwnFrames(q) /\ Tail(toHub[c]) \in Seq(OwnFrames(q))
        /\ \A m \in Kindly : Append(toClient[c], m) \in Seq(Kindly)
    BY <2>1, Queues
  <2>3. HelloOK \in Kindly /\ Pong \in Kindly
    BY Alphabets DEF Kindly, HelloOK, Pong
  <2>4. /\ Greeting(q).type = "hello" /\ Greeting(q).key # NoKey
        /\ Greeting(q).token = TokenOf[q] /\ (token = NoToken \/ token = TokenOf[q])
    BY <1>t DEF Greeting, Hello, Refusable
  <2>5. CASE HelloLost(c) \/ ReadFails(c) \/ Deregister(c) \/ ApplyAck(c)
    BY <1>t, <2>1, <2>5 DEF HelloLost, ReadFails, Deregister, ApplyAck, linkVars
  <2>6. CASE ReadHello(c)
    <3>1. hpc[c] = "hello" /\ toHub[c] # <<>>
      BY <2>6 DEF ReadHello
    <3>2. Head(toHub[c]) = Greeting(q)
      BY <1>t, <2>2, <3>1 DEF Line, OwnFrames
    <3>3. toHub'[c] = Tail(toHub[c]) /\ toClient' = toClient /\ hmsg'[c] = Head(toHub[c])
      BY <1>t, <2>4, <2>6, <3>2 DEF ReadHello, TypeInv, TypeOK, LinkTypeOK
    <3>. QED BY <2>1, <2>2, <3>1, <3>2, <3>3
  <2>7. CASE CheckToken(c)
    <3>1. hmsg[c].token = TokenOf[q]
      BY <2>1, <2>4, <2>7 DEF CheckToken
    <3>2. hpc'[c] = "register" /\ toClient' = toClient /\ toHub' = toHub
      BY <1>t, <2>4, <2>7, <3>1 DEF CheckToken
    <3>. QED BY <2>1, <3>2
  <2>8. CASE Greet(c)
    BY <1>t, <2>1, <2>2, <2>3, <2>8 DEF Greet, Written
  <2>9. CASE ReadFrame(c)
    <3>1. toHub'[c] = Tail(toHub[c]) /\ toHub[c] # <<>> /\ hpc'[c] # "token"
      BY <1>t, <2>9 DEF ReadFrame, TypeInv, TypeOK, LinkTypeOK
    <3>2. toClient' = toClient \/ toClient' = Written(toClient, c, Pong)
      BY <2>9 DEF ReadFrame
    <3>. QED BY <1>t, <2>1, <2>2, <2>3, <3>1, <3>2 DEF Written
  <2>10. CASE Register(c) \/ Return(c)
    <3>1. toHub'[c] = toHub[c] \/ toHub'[c] = <<>>
      BY <2>10 DEF Register, Return, CloseAtHub
    <3>2. toClient' = toClient /\ hpc'[c] # "token"
      BY <1>t, <2>10 DEF Register, Return
    <3>. QED BY <1>0, <2>1, <3>1, <3>2
  <2>. QED BY <2>5, <2>6, <2>7, <2>8, <2>9, <2>10 DEF Handler
<1>. QED BY <1>0, <1>1, <1>2 DEF Welcome, OwnFrames, Greeting, Kindly

LEMMA WelcomeCall ==
    ASSUME RefusalInv, NEW a \in Callers, CallStep(a), NEW q \in Machines, Welcome(q)
    PROVE  Welcome(q)'
<1>t. TypeInv /\ toClient \in [Conns -> Seq(HubMsgs)]
  BY DEF RefusalInv, LineInv, RegistryInv, TypeInv, TypeOK, LinkTypeOK
<1>1. UNCHANGED machineVars
  BY DEF CallStep
<1>2. /\ UNCHANGED <<hpc, hmsg, toHub>>
      /\ \/ toClient' = toClient
         \/ \E typ \in Controls, r \in ReqIds :
               toClient' = Written(toClient, call[a].conn, Control(typ, r)) /\ call[a].conn \in Conns
  <2>1. ASSUME NEW k \in Keys, NEW typ \in Controls, Lookup(a, k, typ)
        PROVE  UNCHANGED <<hpc, hmsg, toHub, toClient>>
    BY <1>t, <2>1, LookupCall DEF linkVars
  <2>2. ASSUME NEW ok \in BOOLEAN, WriteControl(a, ok)
        PROVE  /\ UNCHANGED <<hpc, hmsg, toHub>>
               /\ \/ toClient' = toClient
                  \/ \E typ \in Controls, r \in ReqIds :
                        toClient' = Written(toClient, call[a].conn, Control(typ, r)) /\ call[a].conn \in Conns
    BY <1>t, <2>2, WriteCall
  <2>3. ASSUME Answer(a) PROVE UNCHANGED <<hpc, hmsg, toHub, toClient>>
    BY <1>t, <2>3, AnswerCall DEF linkVars
  <2>. QED BY <2>1, <2>2, <2>3 DEF CallStep
<1>3. \A typ \in Controls, r \in ReqIds : Control(typ, r) \in Kindly
  BY Alphabets DEF Kindly, Control, Controls
<1>4. ASSUME NEW c \in Conns, conn[q] = c PROVE toClient'[c] \in Seq(Kindly)
  <2>1. toClient[c] \in Seq(Kindly) /\ \A m \in Kindly : Append(toClient[c], m) \in Seq(Kindly)
    BY <1>4, Queues DEF Welcome
  <2>. QED BY <1>t, <1>2, <1>3, <2>1 DEF Written
<1>. QED BY <1>1, <1>2, <1>4 DEF Welcome, machineVars, OwnFrames, Greeting, Kindly

LEMMA WelcomeConnect ==
    ASSUME RefusalInv, NEW p \in Machines, NEW c \in Conns, Connect(p, c),
           NEW q \in Machines, Welcome(q)
    PROVE  Welcome(q)'
<1>t. /\ TypeInv /\ conn \in [Machines -> Conns \cup {NoConn}] /\ DOMAIN cpc = Machines
      /\ DOMAIN hpc = Conns
  BY DEF RefusalInv, LineInv, RegistryInv, TypeInv, TypeOK, MachineTypeOK, HubTypeOK
<1>1. CASE q = p
  <2>1. Greeting(p) \in OwnFrames(p)
    BY Alphabets, MachineAssumption DEF OwnFrames, Greeting
  <2>2. <<Greeting(p)>> \in Seq(OwnFrames(p)) /\ <<>> \in Seq(Kindly)
    BY <2>1, EmptySeq
  <2>3. /\ conn'[p] = c /\ hpc'[c] = "hello" /\ cpc'[p] = "hello"
        /\ toHub'[c] = <<Greeting(p)>> /\ toClient'[c] = <<>>
    BY <1>t, ConnectEffect DEF Greeting
  <2>. QED BY <1>1, <2>2, <2>3 DEF Welcome, OwnFrames, Greeting, Kindly
<1>2. CASE q # p
  <2>1. conn'[q] = conn[q] /\ cpc'[q] = cpc[q] /\ conn[q] # c
    BY <1>t, <1>2, ConnectEffect DEF HeldByMachine
  <2>2. hmsg' = hmsg /\ \A d \in Conns \ {c} :
           hpc'[d] = hpc[d] /\ toHub'[d] = toHub[d] /\ toClient'[d] = toClient[d]
    BY <1>t, ConnectEffect
  <2>. QED BY <2>1, <2>2 DEF Welcome, OwnFrames, Greeting, Kindly
<1>. QED BY <1>1, <1>2

LEMMA RefusalStep == RefusalInv /\ [Next]_vars => RefusalInv'
<1>. SUFFICES ASSUME RefusalInv, [Next]_vars, NEW q \in Machines, ~Refusable(q)
              PROVE  Welcome(q)'
  BY LineStep DEF RefusalInv, Refusable
<1>t. TypeInv /\ Welcome(q)
  BY DEF RefusalInv, LineInv, RegistryInv
<1>w. ASSUME \A c \in Conns : Moves(c, Tidings) PROVE \A c \in Conns : Moves(c, Answers)
  BY <1>w, TidingsFacts DEF Moves
<1>f. ASSUME cpc'[q] = "fatal" =>
                \/ cpc[q] = "fatal"
                \/ /\ cpc[q] = "hello" /\ toClient[conn[q]] # <<>>
                   /\ Head(toClient[conn[q]]).type = "error"
      PROVE  cpc'[q] # "fatal"
  <2>1. cpc[q] = "hello" => conn[q] \in Conns
    BY <1>t DEF TypeInv, Knows, SessionKnows
  <2>2. ASSUME cpc[q] = "hello", toClient[conn[q]] # <<>> PROVE Head(toClient[conn[q]]) \in Kindly
    BY <1>t, <2>1, <2>2, Queues DEF Welcome
  <2>. QED BY <1>t, <1>f, <2>2 DEF Welcome, Kindly
<1>1. ASSUME NEW p \in Machines, UNCHANGED hubVars,
             \/ SessionStep(p) \/ PingStep(p) \/ ProcessEnds(p) \/ ProcessStarts(p)
             \/ \E j \in jobs[p] : Report(p, j) \/ \E ok \in BOOLEAN : RunCommand(p, j, ok)
      PROVE  Welcome(q)'
  <2>1. \A c \in Conns : Moves(c, Answers)
    BY <1>t, <1>w, <1>1, SessionMoves, PingMoves, HostMoves, JobMoves DEF SessionStep
  <2>2. cpc'[q] # "fatal" /\ (conn'[q] = conn[q] \/ conn'[q] = NoConn)
    BY <1>t, <1>f, <1>1, MachineMoves
  <2>. QED BY <1>t, <1>1, <2>1, <2>2, WelcomeMoves DEF hubVars
<1>2. CASE Quiet
  <2>1. UNCHANGED <<cpc, conn, hpc, hmsg>> /\ \A c \in Conns : Moves(c, Answers)
    BY <1>2, <1>w DEF Quiet, machineVars
  <2>. QED BY <1>t, <2>1, WelcomeMoves DEF Welcome
<1>3. CASE HubRestart /\ UNCHANGED machineVars
  <2>1. UNCHANGED <<cpc, conn>> /\ <<>> \in Seq(OwnFrames(q))
    BY <1>3, EmptySeq DEF machineVars
  <2>. QED BY <1>t, <1>3, <2>1, RestartEffect DEF Welcome, OwnFrames, Greeting, Kindly
<1>4. ASSUME NEW p \in Machines, SessionStep(p) \/ PingStep(p) PROVE UNCHANGED hubVars
  BY <1>4 DEF SessionStep, PingStep
<1>. QED BY <1>t, <1>1, <1>2, <1>3, <1>4, Steps, WelcomeHandler, WelcomeCall, WelcomeConnect

\* A client process exits for good only if its key is empty, or the hub may
\* require a token other than its own: neither a lost connection nor a frame out
\* of place is taken for a refusal (hub.go 153-172, protocol.go 60-98).
THEOREM OnlyRefusedExit == Spec => []FatalIsRefusal
<1>1. Init => RefusalInv
  BY LineInit, LinkAssumption DEF Init, MachineInit, RefusalInv, Welcome
<1>2. RefusalInv => FatalIsRefusal
  BY DEF RefusalInv, Welcome, Refusable, FatalIsRefusal
<1>. QED BY <1>1, <1>2, RefusalStep, PTL DEF Spec

-----------------------------------------------------------------------------
(* Requests and results.  What a client reads on its connection was asked   *)
(* for its key, what it reports comes after it ran, and the hub applies a   *)
(* report under the key of the client that sent it: so what the key of a    *)
(* connection is, at the hub and at the client, goes along with the frames. *)

Asked(r, k, typ) ==
    /\ r[1] = k
    /\ \E a \in Callers : /\ Wrote(a) /\ call[a].requestId = r
                          /\ call[a].key = k /\ call[a].type = typ
Ran(k) == \E x \in executed : KeyOf[x[1]] = k /\ x[2][1] = k

EndedWell(k, r) == r[1] = k /\ \E p \in Machines : KeyOf[p] = k /\ <<p, r>> \in executed

IsExecuted(m) == m.type = "shutdown_ack" /\ m.status = "executed"
TrueOf(k) == {m \in ClientMsgs : IsExecuted(m) => EndedWell(k, m.requestId)}
AskedOf(k) == {m \in HubMsgs : m.type \in Controls => Asked(m.requestId, k, m.type)}

\* The handler of the connection has frames of its client to read, which are
\* those of the client with key Speaker.
Reading(c) == hpc[c] \notin {"none", "return"}
Speaker(c) == IF hpc[c] = "hello" THEN Head(toHub[c]).key ELSE hkey[c]

Told(c) ==
    /\ Reading(c) => toHub[c] \in Seq(TrueOf(Speaker(c)))
    /\ hpc[c] = "apply" => hmsg[c] \in TrueOf(hkey[c])
    /\ Registered(c) /\ lastEvent[c] = <<"shutdown_ack", "executed">> => Ran(hkey[c])

Holds(p, c) == conn[p] = c \/ \E j \in jobs[p] : j.conn = c

Does(p) ==
    /\ \A c \in Conns : Holds(p, c) /\ LinkUp(c) /\ Reading(c) => Speaker(c) = KeyOf[p]
    /\ \A c \in Conns : conn[p] = c => toClient[c] \in Seq(AskedOf(KeyOf[p]))
    /\ \A j \in jobs[p] : /\ Asked(j.requestId, KeyOf[p], "shutdown")
                          /\ j.st = "ok" => <<p, j.requestId>> \in executed
    /\ \A r \in ReqIds : runs[p][r] > 0 => Asked(r, KeyOf[p], "shutdown")

TruthInv == LineInv /\ (\A c \in Conns : Told(c)) /\ \A p \in Machines : Does(p)

\* What was asked and what ran stays so.
Lasting ==
    /\ executed \subseteq executed'
    /\ \A a \in Callers : Wrote(a) => Keeps(a)

LEMMA Lasts ==
    ASSUME Lasting, NEW k
    PROVE  /\ Ran(k) => Ran(k)'
           /\ \A r, typ : Asked(r, k, typ) => Asked(r, k, typ)'
           /\ TrueOf(k) \subseteq TrueOf(k)' /\ AskedOf(k) \subseteq AskedOf(k)'
           /\ \A s \in Seq(TrueOf(k)) : s \in Seq(TrueOf(k)')
           /\ \A s \in Seq(AskedOf(k)) : s \in Seq(AskedOf(k)')
<1>1. Ran(k) => Ran(k)'
  BY DEF Lasting, Ran
<1>2. ASSUME NEW r, NEW typ, Asked(r, k, typ) PROVE Asked(r, k, typ)'
  <2>1. PICK a \in Callers : Wrote(a) /\ call[a].requestId = r
                             /\ call[a].key = k /\ call[a].type = typ
    BY <1>2 DEF Asked
  <2>2. Wrote(a)' /\ call'[a].requestId = r /\ call'[a].key = k /\ call'[a].type = typ
    BY <2>1 DEF Lasting, Keeps
  <2>. QED BY <1>2, <2>2 DEF Asked
<1>3. TrueOf(k) \subseteq TrueOf(k)'
  <2>1. \A r : EndedWell(k, r) => EndedWell(k, r)'
    BY DEF Lasting, EndedWell
  <2>. QED BY <2>1 DEF TrueOf, IsExecuted
<1>4. AskedOf(k) \subseteq AskedOf(k)'
  BY <1>2 DEF AskedOf
<1>. QED BY <1>1, <1>2, <1>3, <1>4, SeqMonotonic

LEMMA Harmless ==
    ASSUME NEW k
    PROVE  /\ Tidings \subseteq TrueOf(k)
           /\ HelloOK \in AskedOf(k) /\ Pong \in AskedOf(k)
           /\ \A code \in AuthCodes : ErrorMsg(code) \in AskedOf(k)
           /\ \A j \in Keys \cup {NoKey}, t \in Tokens : Hello(j, t) \in TrueOf(k)
<1>1. Tidings \subseteq TrueOf(k)
  BY DEF Tidings, Answers, TrueOf, IsExecuted
<1>2. HelloOK \in AskedOf(k) /\ Pong \in AskedOf(k) /\ \A code \in AuthCodes : ErrorMsg(code) \in AskedOf(k)
  BY Alphabets DEF AskedOf, HelloOK, Pong, ErrorMsg, Controls
<1>3. \A j \in Keys \cup {NoKey}, t \in Tokens : Hello(j, t) \in TrueOf(k)
  BY Alphabets DEF TrueOf, IsExecuted, Hello
<1>. QED BY <1>1, <1>2, <1>3

\* A step of the client's side keeps a connection's reports true, if those it
\* adds are, and its speaker the same.
LEMMA ToldMoves ==
    ASSUME TruthInv, Lasting, UNCHANGED <<hpc, hkey, hmsg, lastEvent>>,
           NEW c \in Conns, NEW S, S \subseteq ClientMsgs, Moves(c, S),
           LinkUp(c) /\ Reading(c) => S \subseteq TrueOf(Speaker(c))
    PROVE  /\ Told(c)'
           /\ LinkUp(c)' /\ Reading(c)' =>
                 LinkUp(c) /\ Reading(c) /\ Speaker(c)' = Speaker(c)
<1>t. Told(c) /\ Line(c) /\ toHub[c] \in Seq(ClientMsgs)
  BY DEF TruthInv, LineInv, RegistryInv, TypeInv, TypeOK, LinkTypeOK
<1>1. ASSUME toHub'[c] # toHub[c], toHub'[c] # <<>>
      PROVE  /\ LinkUp(c) /\ Reading(c) => Speaker(c)' = Speaker(c)
             /\ Reading(c) => toHub'[c] \in Seq(TrueOf(Speaker(c)))
  <2>1. PICK m \in S : LinkUp(c) /\ toHub'[c] = Append(toHub[c], m)
    BY <1>1 DEF Moves
  <2>2. hpc[c] = "hello" => toHub[c] # <<>> /\ Head(toHub'[c]) = Head(toHub[c])
    BY <1>t, <2>1, Queues DEF Line
  <2>3. Reading(c) => Append(toHub[c], m) \in Seq(TrueOf(Speaker(c)))
    BY <1>t, <2>1, Queues DEF Told
  <2>. QED BY <2>1, <2>2, <2>3 DEF Speaker
<1>2. toHub'[c] = <<>> => ~LinkUp(c)' \/ toHub'[c] = toHub[c]
  <2>1. \A m \in S : Append(toHub[c], m) # <<>>
    BY <1>t, Queues
  <2>. QED BY <2>1 DEF Moves
<1>3. toHub'[c] = toHub[c] => Speaker(c)' = Speaker(c)
  BY DEF Speaker
<1>4. LinkUp(c)' => LinkUp(c)
  BY DEF Moves
<1>5. Reading(c)' = Reading(c)
  BY DEF Reading
<1>6. LinkUp(c)' /\ Reading(c)' => LinkUp(c) /\ Reading(c) /\ Speaker(c)' = Speaker(c)
  BY <1>1, <1>2, <1>3, <1>4, <1>5
<1>7. Reading(c)' => toHub'[c] \in Seq(TrueOf(Speaker(c))')
  <2>1. CASE toHub'[c] = <<>>
    BY <2>1, EmptySeq
  <2>2. CASE toHub'[c] = toHub[c]
    BY <1>t, <1>3, <1>5, <2>2, Lasts DEF Told
  <2>3. CASE toHub'[c] # toHub[c] /\ toHub'[c] # <<>>
    <3>1. LinkUp(c)
      BY <2>3 DEF Moves
    <3>. QED BY <1>1, <1>5, <2>3, <3>1, Lasts
  <2>. QED BY <2>1, <2>2, <2>3
<1>8. /\ hpc'[c] = "apply" => hmsg'[c] \in TrueOf(hkey[c])'
      /\ Registered(c)' /\ lastEvent'[c] = <<"shutdown_ack", "executed">> => Ran(hkey[c])'
  BY <1>t, Lasts DEF Told, Registered
<1>9. hkey'[c] = hkey[c]
  OBVIOUS
<1>. QED BY <1>6, <1>7, <1>8, <1>9 DEF Told

LEMMA HistoryGrows == TypeInv /\ [Next]_vars => Lasting
<1>. SUFFICES ASSUME TypeInv, [Next]_vars PROVE Lasting
  OBVIOUS
<1>1. ASSUME executed' = executed \/ \E x : executed' = executed \cup x, UNCHANGED call
      PROVE  Lasting
  BY <1>1 DEF Lasting, Keeps, Wrote
<1>2. ASSUME NEW p \in Machines, NEW c \in Conns, Connect(p, c) PROVE Lasting
  BY <1>1, <1>2, ConnectEffect
<1>3. ASSUME NEW p \in Machines, SessionStep(p) \/ PingStep(p) PROVE Lasting
  BY <1>1, <1>3 DEF SessionStep, Session, HelloAnswer, ExitFatal, EndSession, Exit, hubVars,
         SessionReadFails, IgnoreFrame, PowerOffRequest, PingStep, SendPing, machineVars
<1>4. ASSUME NEW p \in Machines, ProcessEnds(p) \/ ProcessStarts(p), UNCHANGED hubVars PROVE Lasting
  BY <1>1, <1>4 DEF ProcessEnds, ProcessStarts, Exit, hubVars
<1>5. ASSUME NEW p \in Machines, NEW j \in jobs[p], UNCHANGED hubVars,
             Report(p, j) \/ \E ok \in BOOLEAN : RunCommand(p, j, ok)
      PROVE  Lasting
  <2>1. executed' = executed \/ executed' = executed \cup {<<p, j.requestId>>}
    BY <1>5 DEF Report, RunCommand
  <2>. QED BY <1>1, <1>5, <2>1 DEF hubVars
<1>6. ASSUME NEW c \in Conns, Handler(c), UNCHANGED machineVars PROVE Lasting
  BY <1>1, <1>6, HandlerOthers DEF machineVars
<1>7. ASSUME NEW a \in Callers, CallStep(a) PROVE Lasting
  <2>1. \A b \in Callers \ {a} : call'[b] = call[b]
    BY <1>7, LookupCall, WriteCall, AnswerCall DEF CallStep
  <2>2. ~Wrote(a) \/ Keeps(a)
    <3>1. call[a].pc \in {"idle", "found"} \/ Keeps(a)
      BY <1>7, LookupCall, WriteCall, AnswerCall DEF CallStep
    <3>. QED BY <3>1 DEF Wrote
  <2>3. executed' = executed
    BY <1>7 DEF CallStep, machineVars
  <2>. QED BY <2>1, <2>2, <2>3 DEF Lasting, Keeps, Wrote
<1>8. ASSUME HubRestart, UNCHANGED machineVars PROVE Lasting
  BY <1>8, RestartEffect DEF Lasting, machineVars
<1>9. CASE Quiet
  BY <1>1, <1>9 DEF Quiet, machineVars
<1>. QED BY <1>2, <1>3, <1>4, <1>5, <1>6, <1>7, <1>8, <1>9, Steps

\* What a step of a client or its host does to a machine's goroutines: those it
\* has come from those it had, or from the request it has just read.
Effect(q) ==
    /\ \A c \in Conns : Holds(q, c)' => Holds(q, c)
    /\ \A i \in jobs'[q] :
          \/ \E j \in jobs[q] : /\ i.requestId = j.requestId
                                /\ i.st = "ok" => j.st = "ok" \/ <<q, i.requestId>> \in executed'
          \/ /\ i.st = "new" /\ conn[q] \in Conns /\ toClient[conn[q]] # <<>>
             /\ Head(toClient[conn[q]]).type = "shutdown"
             /\ i.requestId = Head(toClient[conn[q]]).requestId
    /\ \A r \in ReqIds : runs'[q][r] > 0 => \/ runs[q][r] > 0
                                            \/ \E j \in jobs[q] : j.requestId = r

LEMMA MachineEffect ==
    ASSUME TypeInv, NEW p \in Machines,
           \/ SessionStep(p) \/ PingStep(p) \/ ProcessEnds(p) \/ ProcessStarts(p)
           \/ \E j \in jobs[p] : Report(p, j) \/ \E ok \in BOOLEAN : RunCommand(p, j, ok)
    PROVE  \A q \in Machines : Effect(q)
<1>t. /\ DOMAIN conn = Machines /\ DOMAIN jobs = Machines /\ DOMAIN runs = Machines
      /\ jobs \in [Machines -> SUBSET Jobs] /\ runs \in [Machines -> [ReqIds -> Nat]]
      /\ cpc[p] \in {"hello", "session"} => conn[p] \in Conns
  BY DEF TypeInv, TypeOK, MachineTypeOK, Knows, SessionKnows
<1>1. ASSUME \A q \in Machines : /\ conn'[q] = conn[q] \/ conn'[q] = NoConn
                                 /\ jobs'[q] \subseteq jobs[q]
                                 /\ runs'[q] = runs[q] \/ \A r \in ReqIds : runs'[q][r] = 0
      PROVE  \A q \in Machines : Effect(q)
  BY <1>1, LinkAssumption DEF Effect, Holds
<1>2. CASE UNCHANGED <<conn, jobs, runs>>
  BY <1>1, <1>2
<1>3. CASE conn' = [conn EXCEPT ![p] = NoConn] /\ UNCHANGED <<jobs, runs>>
  BY <1>t, <1>1, <1>3
<1>4. ASSUME NEW pc, Exit(p, pc) PROVE \A q \in Machines : Effect(q)
  BY <1>t, <1>1, <1>4 DEF Exit
<1>5. CASE SessionStep(p)
  <2>1. CASE HelloAnswer(p) \/ SessionReadFails(p)
    BY <1>2, <1>3, <1>4, <2>1 DEF HelloAnswer, SessionReadFails, EndSession, ExitFatal
  <2>2. ASSUME NEW m, IgnoreFrame(p, m) PROVE UNCHANGED <<conn, jobs, runs>>
    BY <2>2 DEF IgnoreFrame, machineVars
  <2>3. ASSUME NEW m, PowerOffRequest(p, m) PROVE \A q \in Machines : Effect(q)
    <3>. DEFINE j == [requestId |-> m.requestId, conn |-> conn[p], st |-> "new"]
    <3>1. /\ conn[p] \in Conns /\ toClient[conn[p]] # <<>> /\ m = Head(toClient[conn[p]])
          /\ m.type = "shutdown" /\ UNCHANGED <<conn, runs>>
      BY <1>t, <2>3 DEF PowerOffRequest, NextFrame
    <3>2. jobs' = jobs \/ jobs' = [jobs EXCEPT ![p] = @ \cup {j}]
      BY <2>3 DEF PowerOffRequest
    <3>3. j.requestId = m.requestId /\ j.conn = conn[p] /\ j.st = "new"
      OBVIOUS
    <3>. HIDE DEF j
    <3>4. \A q \in Machines : \A i \in jobs'[q] : i \in jobs[q] \/ (q = p /\ i = j)
      BY <1>t, <3>2
    <3>5. \A q \in Machines, c \in Conns : Holds(q, c)' => Holds(q, c)
      BY <3>1, <3>3, <3>4 DEF Holds
    <3>. QED BY <3>1, <3>3, <3>4, <3>5 DEF Effect
  <2>. QED BY <1>2, <1>5, <2>1, <2>2, <2>3 DEF SessionStep, Session
<1>6. CASE PingStep(p) \/ ProcessStarts(p)
  BY <1>2, <1>6 DEF PingStep, SendPing, ProcessStarts, machineVars
<1>7. CASE ProcessEnds(p)
  BY <1>4, <1>7 DEF ProcessEnds
<1>8. ASSUME NEW j \in jobs[p], Report(p, j) PROVE \A q \in Machines : Effect(q)
  <2>1. jobs' = [jobs EXCEPT ![p] = @ \ {j}] /\ UNCHANGED <<conn, runs>>
    BY <1>8 DEF Report
  <2>. QED BY <1>t, <1>1, <2>1
<1>9. ASSUME NEW j \in jobs[p], NEW ok \in BOOLEAN, RunCommand(p, j, ok)
      PROVE  \A q \in Machines : Effect(q)
  <2>. DEFINE d == [j EXCEPT !.st = IF ok THEN "ok" ELSE "failed"]
  <2>1. j \in Jobs /\ j.requestId \in ReqIds
    BY <1>t DEF Jobs
  <2>2. d.requestId = j.requestId /\ d.conn = j.conn /\ d.st = IF ok THEN "ok" ELSE "failed"
    BY <2>1 DEF Jobs
  <2>3. /\ jobs' = [jobs EXCEPT ![p] = (@ \ {j}) \cup {d}] /\ conn' = conn
        /\ runs' = [runs EXCEPT ![p][j.requestId] = @ + 1]
        /\ ok => <<p, j.requestId>> \in executed'
    BY <1>9 DEF RunCommand
  <2>. HIDE DEF d
  <2>4. \A q \in Machines : \A i \in jobs'[q] : i \in jobs[q] \/ (q = p /\ i = d)
    BY <1>t, <2>3
  <2>5. \A q \in Machines, c \in Conns : Holds(q, c)' => Holds(q, c)
    BY <2>2, <2>3, <2>4 DEF Holds
  <2>6. \A q \in Machines, r \in ReqIds : runs'[q][r] = runs[q][r] \/ (q = p /\ r = j.requestId)
    BY <1>t, <2>1, <2>3
  <2>. QED BY <2>2, <2>3, <2>4, <2>5, <2>6 DEF Effect
<1>. QED BY <1>5, <1>6, <1>7, <1>8, <1>9

\* The speaker of a connection in use is still the same.
SameSpeaker(c) ==
    LinkUp(c)' /\ Reading(c)' => LinkUp(c) /\ Reading(c) /\ Speaker(c)' = Speaker(c)

LEMMA DoesMoves ==
    ASSUME TruthInv, Lasting, NEW q \in Machines, Effect(q),
           conn'[q] = conn[q] \/ conn'[q] = NoConn,
           \A c \in Conns : SameSpeaker(c) /\ Moves(c, Answers)
    PROVE  Does(q)'
<1>. DEFINE k == KeyOf[q]
<1>t. /\ Does(q) /\ \A c \in Conns : toHub[c] \in Seq(ClientMsgs) /\ toClient[c] \in Seq(HubMsgs)
      /\ jobs[q] \subseteq Jobs
  BY DEF TruthInv, LineInv, RegistryInv, TypeInv, TypeOK, LinkTypeOK, MachineTypeOK
<1>1. \A c \in Conns : Holds(q, c)' => Holds(q, c)
  BY DEF Effect
<1>2. ASSUME NEW c \in Conns, Holds(q, c)', LinkUp(c)', Reading(c)'
      PROVE  Speaker(c)' = k
  BY <1>t, <1>1, <1>2 DEF Does, SameSpeaker
<1>3. ASSUME NEW c \in Conns, conn'[q] = c PROVE toClient'[c] \in Seq(AskedOf(k)')
  <2>1. CASE conn[q] = c
    <3>1. toClient[c] \in Seq(AskedOf(k)')
      BY <1>t, <2>1, Lasts DEF Does
    <3>. QED BY <1>t, <3>1, MovesQueues, TidingsFacts
  <2>2. CASE conn[q] # c
    BY <1>3, <2>2, LinkAssumption
  <2>. QED BY <2>1, <2>2
<1>4. ASSUME NEW i \in jobs'[q]
      PROVE  /\ Asked(i.requestId, k, "shutdown")'
             /\ i.st = "ok" => <<q, i.requestId>> \in executed'
  <2>1. ASSUME NEW j \in jobs[q], i.requestId = j.requestId,
               i.st = "ok" => j.st = "ok" \/ <<q, i.requestId>> \in executed'
        PROVE  /\ Asked(i.requestId, k, "shutdown")'
               /\ i.st = "ok" => <<q, i.requestId>> \in executed'
    <3>1. Asked(j.requestId, k, "shutdown") /\ (j.st = "ok" => <<q, j.requestId>> \in executed)
      BY <1>t DEF Does
    <3>2. Asked(j.requestId, k, "shutdown")'
      BY <3>1, Lasts
    <3>. QED BY <2>1, <3>1, <3>2 DEF Lasting
  <2>2. ASSUME i.st = "new", conn[q] \in Conns, toClient[conn[q]] # <<>>,
               Head(toClient[conn[q]]).type = "shutdown",
               i.requestId = Head(toClient[conn[q]]).requestId
        PROVE  /\ Asked(i.requestId, k, "shutdown")'
               /\ i.st = "ok" => <<q, i.requestId>> \in executed'
    <3>1. toClient[conn[q]] \in Seq(AskedOf(k))
      BY <1>t, <2>2 DEF Does
    <3>2. Head(toClient[conn[q]]) \in AskedOf(k)
      BY <2>2, <3>1, Queues
    <3>3. Asked(i.requestId, k, "shutdown")
      BY <2>2, <3>2 DEF AskedOf, Controls
    <3>. QED BY <2>2, <3>3, Lasts
  <2>. QED BY <2>1, <2>2 DEF Effect
<1>5. ASSUME NEW r \in ReqIds, runs'[q][r] > 0 PROVE Asked(r, k, "shutdown")'
  <2>1. Asked(r, k, "shutdown")
    BY <1>t, <1>5 DEF Does, Effect
  <2>. QED BY <2>1, Lasts
<1>. QED BY <1>2, <1>3, <1>4, <1>5 DEF Does

\* Client side: sessions, hosts and goroutines.
LEMMA TruthMachine ==
    ASSUME TruthInv, Lasting, NEW p \in Machines, UNCHANGED hubVars,
           \/ SessionStep(p) \/ PingStep(p) \/ ProcessEnds(p) \/ ProcessStarts(p)
           \/ \E j \in jobs[p] : Report(p, j) \/ \E ok \in BOOLEAN : RunCommand(p, j, ok)
    PROVE  (\A c \in Conns : Told(c)') /\ \A q \in Machines : Does(q)'
<1>t. TypeInv /\ LinkTypeOK /\ UNCHANGED <<hpc, hkey, hmsg, lastEvent>>
  BY DEF TruthInv, LineInv, RegistryInv, TypeInv, TypeOK, hubVars
<1>1. ASSUME NEW c \in Conns, Moves(c, Tidings) PROVE Told(c)' /\ SameSpeaker(c)
  BY <1>t, <1>1, Harmless, TidingsFacts, ToldMoves DEF SameSpeaker
<1>2. ASSUME NEW c \in Conns, SessionStep(p) \/ PingStep(p) \/ ProcessEnds(p) \/ ProcessStarts(p)
      PROVE  Moves(c, Tidings)
  BY <1>t, <1>2, SessionMoves, PingMoves, HostMoves DEF SessionStep
<1>3. ASSUME NEW c \in Conns, NEW j \in jobs[p], Report(p, j)
      PROVE  Told(c)' /\ SameSpeaker(c)
  <2>. DEFINE m == IF j.st = "ok" THEN ShutdownAck("executed", j.requestId)
                                  ELSE ShutdownErr(j.requestId)
              d == j.conn
              r == j.requestId
  <2>1. j \in Jobs
    BY <1>t DEF TypeInv, TypeOK, MachineTypeOK
  <2>2. d \in Conns /\ r \in ReqIds
    BY <2>1 DEF Jobs
  <2>3. m \in Answers /\ m \in ClientMsgs
    BY <2>2, TidingsFacts
  <2>4. toHub' = Written(toHub, d, m) /\ UNCHANGED <<srvOpen, cliOpen, broken, toClient>>
    BY <1>3 DEF Report
  <2>5. Moves(c, {m}) \/ (c # d /\ Moves(c, Tidings))
    <3>1. CASE c = d
      BY <1>t, <2>2, <2>4, ReadMoves, <3>1
    <3>2. CASE c # d
      BY <1>t, <2>2, <2>4, <3>2 DEF Written, Moves, LinkUp, LinkTypeOK
    <3>. QED BY <3>1, <3>2
  <2>6. Asked(r, KeyOf[p], "shutdown") /\ (j.st = "ok" => <<p, r>> \in executed)
    BY DEF TruthInv, Does
  <2>7. j.st = "ok" => EndedWell(KeyOf[p], r) /\ m.requestId = r
    BY <2>6 DEF EndedWell, Asked, ShutdownAck
  <2>8. LinkUp(d) /\ Reading(d) => Speaker(d) = KeyOf[p]
    BY <2>2 DEF TruthInv, Does, Holds
  <2>9. j.st # "ok" => ~IsExecuted(m)
    BY DEF IsExecuted, ShutdownErr
  <2>10. LinkUp(d) /\ Reading(d) => {m} \subseteq TrueOf(Speaker(d))
    BY <2>3, <2>7, <2>8, <2>9 DEF TrueOf
  <2>11. {m} \subseteq ClientMsgs
    BY <2>3
  <2>. HIDE DEF m, d, r
  <2>12. CASE c = d /\ Moves(c, {m})
    BY <1>t, <2>10, <2>11, <2>12, ToldMoves DEF SameSpeaker
  <2>13. CASE c # d /\ Moves(c, {m})
    BY <1>1, <1>t, <2>2, <2>4, <2>13 DEF Written, Moves, LinkUp, LinkTypeOK
  <2>. QED BY <1>1, <2>5, <2>12, <2>13
<1>4. ASSUME NEW c \in Conns, NEW j \in jobs[p], NEW ok \in BOOLEAN, RunCommand(p, j, ok)
      PROVE  Moves(c, Tidings)
  BY <1>4, StillMoves DEF RunCommand, linkVars
<1>5. \A c \in Conns : Told(c)' /\ SameSpeaker(c)
  BY <1>1, <1>2, <1>3, <1>4
<1>6. \A c \in Conns : Moves(c, Answers)
  <2>1. \A c \in Conns : Moves(c, Tidings) => Moves(c, Answers)
    BY TidingsFacts DEF Moves
  <2>. QED BY <1>t, <1>2, <2>1, JobMoves
<1>7. \A q \in Machines : Effect(q)
  BY <1>t, MachineEffect
<1>8. \A q \in Machines : conn'[q] = conn[q] \/ conn'[q] = NoConn
  BY <1>t, MachineMoves
<1>. QED BY <1>5, <1>6, <1>7, <1>8, DoesMoves DEF TruthInv

\* A handler reads the frames of one client only, and sends it nothing untrue.
LEMMA HandlerReads ==
    ASSUME TruthInv, NEW c \in Conns, Handler(c)
    PROVE  /\ Reading(c)' => /\ Reading(c) /\ Speaker(c)' = Speaker(c)
                             /\ toHub'[c] \in Seq(TrueOf(Speaker(c)))
           /\ hpc'[c] = "apply" => hmsg'[c] \in TrueOf(hkey'[c])
           /\ \A k : toClient[c] \in Seq(AskedOf(k)) => toClient'[c] \in Seq(AskedOf(k))
<1>t. /\ Told(c) /\ Line(c) /\ hpc \in [Conns -> HandlerPcs] /\ hkey \in [Conns -> Keys \cup {NoKey}]
      /\ hmsg \in [Conns -> ClientMsgs \cup {NoMsg}]
      /\ toHub \in [Conns -> Seq(ClientMsgs)] /\ toClient \in [Conns -> Seq(HubMsgs)]
  BY DEF TruthInv, LineInv, RegistryInv, TypeInv, TypeOK, LinkTypeOK, HubTypeOK
<1>1. \A k, m : m \in AskedOf(k) /\ toClient[c] \in Seq(AskedOf(k)) =>
                   Append(toClient[c], m) \in Seq(AskedOf(k))
  BY Queues
<1>2. ASSUME NEW m, \A k : m \in AskedOf(k), toClient' = toClient \/ toClient' = Written(toClient, c, m)
      PROVE  \A k : toClient[c] \in Seq(AskedOf(k)) => toClient'[c] \in Seq(AskedOf(k))
  <2>1. toClient'[c] = toClient[c] \/ toClient'[c] = Append(toClient[c], m)
    BY <1>t, <1>2 DEF Written
  <2>. QED BY <1>1, <1>2, <2>1
<1>3. \A k : /\ HelloOK \in AskedOf(k) /\ Pong \in AskedOf(k)
             /\ \A code \in AuthCodes : ErrorMsg(code) \in AskedOf(k)
  BY Harmless
<1>4. toHub[c] # <<>> /\ Reading(c) =>
         /\ Head(toHub[c]) \in TrueOf(Speaker(c))
         /\ Tail(toHub[c]) \in Seq(TrueOf(Speaker(c)))
  BY <1>t, Queues DEF Told
<1>5. CASE HelloLost(c) \/ ReadFails(c) \/ Deregister(c) \/ ApplyAck(c)
  <2>1. toClient' = toClient /\ toHub' = toHub /\ hkey' = hkey /\ hpc'[c] \in {"return", "cleanup", "loop"}
    BY <1>t, <1>5 DEF HelloLost, ReadFails, Deregister, ApplyAck, linkVars
  <2>2. Reading(c)' => hpc[c] \in {"loop", "apply"}
    BY <1>t, <1>5 DEF HelloLost, ReadFails, Deregister, ApplyAck, Reading
  <2>. QED BY <1>t, <2>1, <2>2 DEF Told, Reading, Speaker
<1>6. CASE ReadHello(c)
  <2>1. /\ hpc[c] = "hello" /\ toHub[c] # <<>> /\ toHub'[c] = Tail(toHub[c])
        /\ \/ hpc'[c] = "token" /\ hkey'[c] = Head(toHub[c]).key /\ toClient' = toClient
           \/ hpc'[c] = "return" /\ toClient' = Written(toClient, c, ErrorMsg("invalid_hello"))
    BY <1>t, <1>6 DEF ReadHello
  <2>. QED BY <1>2, <1>3, <1>4, <2>1 DEF Reading, Speaker, AuthCodes
<1>7. CASE CheckToken(c)
  <2>1. /\ hpc[c] = "token" /\ toHub' = toHub /\ hkey' = hkey
        /\ \/ hpc'[c] = "register" /\ toClient' = toClient
           \/ hpc'[c] = "return" /\ toClient' = Written(toClient, c, ErrorMsg("token_mismatch"))
    BY <1>t, <1>7 DEF CheckToken
  <2>. QED BY <1>t, <1>2, <1>3, <2>1 DEF Told, Reading, Speaker, AuthCodes
<1>8. CASE Register(c) \/ Return(c)
  <2>1. /\ toClient' = toClient /\ toHub'[c] \in {toHub[c], <<>>}
        /\ \/ hpc[c] = "register" /\ hpc'[c] = "greet" /\ hkey' = hkey
           \/ hpc'[c] = "none"
    BY <1>t, <1>8 DEF Register, Return, CloseAtHub
  <2>. QED BY <1>t, <2>1, EmptySeq DEF Told, Reading, Speaker
<1>9. CASE Greet(c)
  <2>1. /\ hpc[c] = "greet" /\ hpc'[c] = "loop" /\ hkey' = hkey /\ toHub' = toHub
        /\ toClient' = Written(toClient, c, HelloOK)
    BY <1>t, <1>9 DEF Greet
  <2>. QED BY <1>t, <1>2, <1>3, <2>1 DEF Told, Reading, Speaker
<1>10. CASE ReadFrame(c)
  <2>1. /\ hpc[c] = "loop" /\ toHub[c] # <<>> /\ toHub'[c] = Tail(toHub[c]) /\ hkey' = hkey
        /\ \/ hpc'[c] = "loop" /\ toClient' = Written(toClient, c, Pong)
           \/ hpc'[c] = "apply" /\ toClient' = toClient /\ hmsg'[c] = Head(toHub[c])
    BY <1>t, <1>10 DEF ReadFrame
  <2>. QED BY <1>2, <1>3, <1>4, <2>1 DEF Reading, Speaker
<1>. QED BY <1>5, <1>6, <1>7, <1>8, <1>9, <1>10 DEF Handler

\* An entry's last event comes from a client with the entry's key.
LEMMA HandlerEvents ==
    ASSUME TruthInv, NEW c \in Conns, Handler(c), NEW d \in Conns,
           Registered(d)', lastEvent'[d] = <<"shutdown_ack", "executed">>
    PROVE  Ran(hkey'[d])
<1>t. /\ Told(c) /\ Told(d) /\ EntryHasHandler /\ HandlerKnows
      /\ hpc \in [Conns -> HandlerPcs] /\ hkey \in [Conns -> Keys \cup {NoKey}]
      /\ lastEvent \in [Conns -> Events \cup {NoEvent}]
  BY DEF TruthInv, LineInv, RegistryInv, TypeInv, TypeOK, HubTypeOK, Knows
<1>1. <<"shutdown_ack", "executed">> \in Events
  BY DEF Events, AckStatus
<1>2. CASE ApplyAck(c)
  <2>1. hpc[c] = "apply" /\ hkey' = hkey /\ hpc'[c] = "loop" /\ \A x \in Conns \ {c} : hpc'[x] = hpc[x]
    BY <1>t, <1>2 DEF ApplyAck
  <2>2. Registered(c) /\ Registered(d) /\ hkey[c] \in Keys
    BY <1>t, <2>1 DEF Registered, HandlerKnows
  <2>3. CASE d = clients[hkey[c]]
    <3>1. hkey[d] = hkey[c]
      BY <1>t, <2>2, <2>3, LinkAssumption DEF EntryHasHandler
    <3>2. EventOf(hmsg[c]) = <<"shutdown_ack", "executed">>
      BY <1>2, <2>3 DEF ApplyAck
    <3>3. hmsg[c] \in Acks
      BY <1>t, <2>1 DEF HandlerKnows
    <3>4. hmsg[c].type = "shutdown_ack"
      <4>1. <<"shutdown_err">> # <<"shutdown_ack", "executed">>
        OBVIOUS
      <4>2. hmsg[c].type \in {"shutdown_ack", "shutdown_err"}
        BY <3>3 DEF Acks
      <4>. QED BY <3>2, <4>1, <4>2 DEF EventOf
    <3>5. hmsg[c].status = "executed"
      BY <3>2, <3>4 DEF EventOf
    <3>6. EndedWell(hkey[c], hmsg[c].requestId)
      BY <1>t, <2>1, <3>4, <3>5 DEF Told, TrueOf, IsExecuted
    <3>. QED BY <2>1, <3>1, <3>6 DEF EndedWell, Ran
  <2>4. CASE d # clients[hkey[c]]
    <3>1. lastEvent'[d] = lastEvent[d]
      BY <1>2, <2>4 DEF ApplyAck
    <3>. QED BY <1>t, <2>1, <2>2, <3>1 DEF Told
  <2>. QED BY <2>3, <2>4
<1>3. CASE Register(c) \/ Return(c)
  <2>1. d # c
    BY <1>t, <1>1, <1>3, EventAssumption DEF Register, Return, Registered
  <2>2. hpc'[d] = hpc[d] /\ hkey'[d] = hkey[d] /\ lastEvent'[d] = lastEvent[d]
    BY <1>t, <1>3, <2>1 DEF Register, Return
  <2>. QED BY <1>t, <2>2 DEF Told, Registered
<1>4. CASE HelloLost(c) \/ ReadFails(c) \/ Deregister(c) \/ Greet(c) \/ ReadFrame(c)
  <2>1. /\ hkey' = hkey /\ lastEvent' = lastEvent /\ \A x \in Conns \ {c} : hpc'[x] = hpc[x]
        /\ hpc'[c] = "return" \/ Registered(c)
    BY <1>t, <1>4 DEF HelloLost, ReadFails, Deregister, Greet, ReadFrame, Registered
  <2>. QED BY <1>t, <2>1 DEF Told, Registered
<1>5. CASE ReadHello(c) \/ CheckToken(c)
  <2>1. /\ lastEvent' = lastEvent /\ \A x \in Conns \ {c} : hpc'[x] = hpc[x] /\ hkey'[x] = hkey[x]
        /\ hpc'[c] \in {"return", "token", "register"}
    BY <1>t, <1>5 DEF ReadHello, CheckToken
  <2>. QED BY <1>t, <2>1 DEF Told, Registered
<1>. QED BY <1>2, <1>3, <1>4, <1>5 DEF Handler

LEMMA TruthHandler ==
    ASSUME TruthInv, Lasting, NEW c \in Conns, Handler(c), UNCHANGED machineVars
    PROVE  (\A d \in Conns : Told(d)') /\ \A q \in Machines : Does(q)'
<1>t. TypeInv /\ (\A d \in Conns : Told(d)) /\ \A q \in Machines : Does(q)
  BY DEF TruthInv, LineInv, RegistryInv
<1>1. ASSUME NEW d \in Conns
      PROVE  /\ Reading(d)' /\ LinkUp(d)' => Reading(d) /\ LinkUp(d) /\ Speaker(d)' = Speaker(d)
             /\ \A k : toClient[d] \in Seq(AskedOf(k)) => toClient'[d] \in Seq(AskedOf(k))
  <2>1. CASE d = c
    BY <1>t, <2>1, HandlerReads, HandlerOthers
  <2>2. CASE d # c
    <3>1. /\ hpc'[d] = hpc[d] /\ hkey'[d] = hkey[d] /\ toClient'[d] = toClient[d]
          /\ LinkUp(d)' => LinkUp(d) /\ toHub'[d] = toHub[d]
      BY <1>t, <2>2, HandlerOthers
    <3>. QED BY <3>1 DEF Reading, Speaker
  <2>. QED BY <2>1, <2>2
<1>2. ASSUME NEW d \in Conns PROVE Told(d)'
  <2>1. Registered(d)' /\ lastEvent'[d] = <<"shutdown_ack", "executed">> => Ran(hkey'[d])
    BY HandlerEvents
  <2>2. /\ Reading(d)' => toHub'[d] \in Seq(TrueOf(Speaker(d)'))
        /\ hpc'[d] = "apply" => hmsg'[d] \in TrueOf(hkey'[d])
    <3>1. CASE d = c
      BY <3>1, HandlerReads
    <3>2. CASE d # c
      <4>1. /\ hpc'[d] = hpc[d] /\ hkey'[d] = hkey[d] /\ hmsg'[d] = hmsg[d]
            /\ toHub'[d] = toHub[d] \/ toHub'[d] = <<>>
        BY <1>t, <3>2, HandlerOthers
      <4>2. toHub'[d] = toHub[d] => Speaker(d)' = Speaker(d)
        BY <4>1 DEF Speaker
      <4>3. <<>> \in Seq(TrueOf(Speaker(d)'))
        BY EmptySeq
      <4>. QED BY <1>t, <4>1, <4>2, <4>3 DEF Told, Reading
    <3>. QED BY <3>1, <3>2
  <2>3. \A k : Ran(k) => Ran(k)'
    BY Lasts
  <2>4. \A k : TrueOf(k) \subseteq TrueOf(k)' /\ \A s \in Seq(TrueOf(k)) : s \in Seq(TrueOf(k)')
    BY Lasts
  <2>. QED BY <2>1, <2>2, <2>3, <2>4 DEF Told
<1>3. ASSUME NEW q \in Machines PROVE Does(q)'
  <2>. DEFINE k == KeyOf[q]
  <2>1. conn' = conn /\ jobs' = jobs /\ runs' = runs /\ executed' = executed
    BY DEF machineVars
  <2>2. \A d \in Conns : conn[q] = d => toClient'[d] \in Seq(AskedOf(k))
    BY <1>t, <1>1 DEF Does
  <2>3. /\ \A d \in Conns : conn[q] = d => toClient'[d] \in Seq(AskedOf(k)')
        /\ \A r : Asked(r, k, "shutdown") => Asked(r, k, "shutdown")'
    BY <2>2, Lasts
  <2>4. \A d \in Conns : Holds(q, d)' /\ LinkUp(d)' /\ Reading(d)' => Speaker(d)' = k
    BY <1>t, <1>1, <2>1 DEF Does, Holds
  <2>. QED BY <1>t, <2>1, <2>3, <2>4 DEF Does
<1>. QED BY <1>2, <1>3

LEMMA TruthCall ==
    ASSUME TruthInv, Lasting, NEW a \in Callers, CallStep(a)
    PROVE  (\A d \in Conns : Told(d)') /\ \A q \in Machines : Does(q)'
<1>t. /\ TypeInv /\ (\A d \in Conns : Told(d)) /\ (\A q \in Machines : Does(q)) /\ Reaches(a)
      /\ toClient \in [Conns -> Seq(HubMsgs)]
  BY DEF TruthInv, LineInv, RegistryInv, TypeInv, TypeOK, LinkTypeOK
<1>. DEFINE Sent ==
            /\ UNCHANGED <<hpc, hkey, hmsg, lastEvent, toHub, srvOpen, cliOpen, broken>>
            /\ \/ toClient' = toClient
               \/ /\ call[a].pc = "found" /\ call'[a].pc = "sent" /\ call[a].conn \in Conns
                  /\ call'[a].key = call[a].key /\ call'[a].type = call[a].type
                  /\ call[a].type \in Controls /\ call'[a].requestId \in ReqIds
                  /\ call'[a].requestId[1] = call[a].key
                  /\ toClient' = Written(toClient, call[a].conn,
                                         Control(call[a].type, call'[a].requestId))
<1>1. Sent
  <2>1. ASSUME NEW k \in Keys, NEW typ \in Controls, Lookup(a, k, typ)
        PROVE  /\ UNCHANGED <<hpc, hkey, hmsg, lastEvent, toHub, srvOpen, cliOpen, broken>>
               /\ toClient' = toClient
    BY <1>t, <2>1, LookupCall DEF linkVars
  <2>2. ASSUME NEW ok \in BOOLEAN, WriteControl(a, ok)
        PROVE  Sent
    <3>1. CASE ok
      <4>1. call'[a].requestId = <<call[a].key, clock>>
        BY <1>t, <2>2, <3>1, WriteCall
      <4>2. call'[a].requestId[1] = call[a].key
        BY <4>1
      <4>. QED BY <1>t, <2>2, <3>1, <4>1, <4>2, WriteCall
    <3>2. CASE ~ok
      BY <1>t, <2>2, <3>2, WriteCall
    <3>. QED BY <3>1, <3>2
  <2>3. ASSUME Answer(a)
        PROVE  /\ UNCHANGED <<hpc, hkey, hmsg, lastEvent, toHub, srvOpen, cliOpen, broken>>
               /\ toClient' = toClient
    BY <1>t, <2>3, AnswerCall DEF linkVars
  <2>. QED BY <2>1, <2>2, <2>3 DEF CallStep
<1>2. UNCHANGED machineVars
  BY DEF CallStep
<1>3. ASSUME NEW d \in Conns PROVE Told(d)'
  <2>1. /\ Reading(d)' = Reading(d) /\ Speaker(d)' = Speaker(d) /\ Registered(d)' = Registered(d)
        /\ hpc' = hpc /\ hkey' = hkey /\ hmsg' = hmsg /\ lastEvent' = lastEvent /\ toHub' = toHub
    BY <1>1 DEF Reading, Speaker, Registered
  <2>2. \A k : Ran(k) => Ran(k)'
    BY Lasts
  <2>3. \A k : TrueOf(k) \subseteq TrueOf(k)' /\ \A s \in Seq(TrueOf(k)) : s \in Seq(TrueOf(k)')
    BY Lasts
  <2>. QED BY <1>t, <2>1, <2>2, <2>3 DEF Told
<1>4. ASSUME NEW q \in Machines PROVE Does(q)'
  <2>. DEFINE k == KeyOf[q]
  <2>1. conn' = conn /\ jobs' = jobs /\ runs' = runs /\ executed' = executed
    BY <1>2 DEF machineVars
  <2>2. ASSUME NEW d \in Conns, conn[q] = d PROVE toClient'[d] \in Seq(AskedOf(k)')
    <3>1. toClient[d] \in Seq(AskedOf(k)')
      BY <1>t, <2>2, Lasts DEF Does
    <3>2. CASE toClient'[d] # toClient[d]
      <4>1. PICK r, typ : r = call'[a].requestId /\ typ = call[a].type
        OBVIOUS
      <4>. DEFINE m == Control(typ, r)
      <4>2. /\ d = call[a].conn /\ LinkUp(d) /\ toClient'[d] = Append(toClient[d], m)
            /\ call[a].pc = "found" /\ call'[a].pc = "sent"
            /\ call'[a].key = call[a].key /\ call'[a].type = typ
            /\ typ \in Controls /\ r \in ReqIds /\ r[1] = call[a].key
        BY <1>t, <1>1, <3>2, <4>1 DEF Written
      <4>3. Registered(d) /\ hkey[d] = call[a].key
        BY <1>t, <4>2 DEF Reaches
      <4>4. Reading(d) /\ Speaker(d) = hkey[d]
        BY <4>3 DEF Registered, Reading, Speaker
      <4>5. call[a].key = k
        BY <1>t, <2>2, <4>2, <4>3, <4>4 DEF Does, Holds
      <4>6. Asked(r, k, typ)'
        BY <4>1, <4>2, <4>5 DEF Asked, Wrote
      <4>7. m.type = typ /\ m.requestId = r /\ m \in HubMsgs
        BY <4>2, Alphabets DEF Control
      <4>. HIDE DEF m
      <4>8. m \in AskedOf(k)'
        BY <4>6, <4>7 DEF AskedOf
      <4>. QED BY <3>1, <4>2, <4>8, Queues
    <3>. QED BY <3>1, <3>2
  <2>3. \A r : Asked(r, k, "shutdown") => Asked(r, k, "shutdown")'
    BY Lasts
  <2>4. \A d \in Conns : Holds(q, d)' /\ LinkUp(d)' /\ Reading(d)' => Speaker(d)' = k
    BY <1>t, <1>1, <2>1 DEF Does, Holds, LinkUp, Reading, Speaker
  <2>. QED BY <1>t, <2>1, <2>2, <2>3, <2>4 DEF Does
<1>. QED BY <1>3, <1>4

LEMMA TruthConnect ==
    ASSUME TruthInv, Lasting, NEW p \in Machines, NEW c \in Conns, Connect(p, c)
    PROVE  (\A d \in Conns : Told(d)') /\ \A q \in Machines : Does(q)'
<1>t. /\ TypeInv /\ (\A d \in Conns : Told(d)) /\ (\A q \in Machines : Does(q))
      /\ conn \in [Machines -> Conns \cup {NoConn}] /\ hpc \in [Conns -> HandlerPcs]
  BY DEF TruthInv, LineInv, RegistryInv, TypeInv, TypeOK, MachineTypeOK, HubTypeOK
<1>1. /\ \A q \in Machines : ~Holds(q, c)
      /\ conn' = [conn EXCEPT ![p] = c] /\ hpc' = [hpc EXCEPT ![c] = "hello"]
      /\ UNCHANGED <<jobs, runs, executed, hkey, hmsg, lastEvent, call>>
      /\ toHub'[c] = <<Hello(KeyOf[p], TokenOf[p])>> /\ toClient'[c] = <<>>
      /\ \A d \in Conns \ {c} : /\ toHub'[d] = toHub[d] /\ toClient'[d] = toClient[d]
                                /\ LinkUp(d)' = LinkUp(d) /\ hpc'[d] = hpc[d]
  BY <1>t, ConnectEffect DEF HeldByMachine, Holds
<1>2. /\ \A k : Ran(k) => Ran(k)'
      /\ \A k : TrueOf(k) \subseteq TrueOf(k)' /\ \A s \in Seq(TrueOf(k)) : s \in Seq(TrueOf(k)')
      /\ \A k, r : Asked(r, k, "shutdown") => Asked(r, k, "shutdown")'
      /\ \A k : \A s \in Seq(AskedOf(k)) : s \in Seq(AskedOf(k)')
  BY Lasts
<1>3. \A d \in Conns \ {c} : Reading(d)' = Reading(d) /\ Speaker(d)' = Speaker(d)
  BY <1>1 DEF Reading, Speaker
<1>4. Speaker(c)' = KeyOf[p] /\ hpc'[c] = "hello"
  <2>1. Head(<<Hello(KeyOf[p], TokenOf[p])>>).key = KeyOf[p]
    BY DEF Hello
  <2>. QED BY <1>t, <1>1, <2>1 DEF Speaker
<1>5. ASSUME NEW d \in Conns PROVE Told(d)'
  <2>1. CASE d = c
    <3>1. Hello(KeyOf[p], TokenOf[p]) \in TrueOf(KeyOf[p])
      BY Harmless, MachineAssumption
    <3>2. toHub'[c] \in Seq(TrueOf(KeyOf[p])')
      BY <1>1, <1>2, <3>1
    <3>. QED BY <1>4, <2>1, <3>2 DEF Told, Registered
  <2>2. CASE d # c
    BY <1>t, <1>1, <1>2, <1>3, <2>2 DEF Told, Registered
  <2>. QED BY <2>1, <2>2
<1>6. ASSUME NEW q \in Machines PROVE Does(q)'
  <2>. DEFINE k == KeyOf[q]
  <2>1. ASSUME NEW d \in Conns, Holds(q, d)', LinkUp(d)', Reading(d)' PROVE Speaker(d)' = k
    <3>1. CASE d = c
      <4>1. q = p
        BY <1>t, <1>1, <2>1, <3>1 DEF Holds
      <4>. QED BY <1>4, <3>1, <4>1
    <3>2. CASE d # c
      <4>1. Holds(q, d)
        BY <1>t, <1>1, <2>1, <3>2 DEF Holds
      <4>. QED BY <1>t, <1>1, <1>3, <2>1, <3>2, <4>1 DEF Does
    <3>. QED BY <3>1, <3>2
  <2>2. ASSUME NEW d \in Conns, conn'[q] = d PROVE toClient'[d] \in Seq(AskedOf(k)')
    <3>1. CASE d = c
      BY <1>1, <3>1, EmptySeq
    <3>2. CASE d # c
      <4>1. conn[q] = d /\ toClient'[d] = toClient[d]
        BY <1>t, <1>1, <2>2, <3>2
      <4>. QED BY <1>t, <1>2, <4>1 DEF Does
    <3>. QED BY <3>1, <3>2
  <2>. QED BY <1>t, <1>1, <1>2, <2>1, <2>2 DEF Does
<1>. QED BY <1>5, <1>6

LEMMA TruthStep == TruthInv /\ [Next]_vars => TruthInv'
<1>. SUFFICES ASSUME TruthInv, [Next]_vars
              PROVE  (\A c \in Conns : Told(c)') /\ \A q \in Machines : Does(q)'
  BY LineStep DEF TruthInv
<1>. DEFINE Goal == (\A c \in Conns : Told(c)') /\ \A q \in Machines : Does(q)'
<1>t. TypeInv /\ (\A c \in Conns : Told(c)) /\ \A q \in Machines : Does(q)
  BY DEF TruthInv, LineInv, RegistryInv
<1>l. Lasting
  BY <1>t, HistoryGrows
<1>1. ASSUME NEW p \in Machines, UNCHANGED hubVars,
             \/ SessionStep(p) \/ PingStep(p) \/ ProcessEnds(p) \/ ProcessStarts(p)
             \/ \E j \in jobs[p] : Report(p, j) \/ \E ok \in BOOLEAN : RunCommand(p, j, ok)
      PROVE  Goal
  BY <1>l, <1>1, TruthMachine
<1>2. CASE Quiet
  <2>1. UNCHANGED <<hpc, hkey, hmsg, lastEvent>> /\ UNCHANGED <<conn, jobs, runs, executed>>
    BY <1>2 DEF Quiet, machineVars
  <2>2. \A c \in Conns : Told(c)' /\ SameSpeaker(c)
    BY <1>l, <1>2, <2>1, Harmless, TidingsFacts, ToldMoves DEF Quiet, SameSpeaker
  <2>3. \A c \in Conns : Moves(c, Answers)
    BY <1>2, TidingsFacts DEF Quiet, Moves
  <2>4. \A q \in Machines : Effect(q)
    BY <2>1 DEF Effect, Holds
  <2>. QED BY <1>l, <2>1, <2>2, <2>3, <2>4, DoesMoves
<1>3. CASE HubRestart /\ UNCHANGED machineVars
  <2>1. \A c \in Conns : Told(c)'
    BY <1>t, <1>3, RestartEffect DEF Told, Reading, Registered
  <2>2. UNCHANGED <<conn, jobs, runs, executed>>
    BY <1>3 DEF machineVars
  <2>3. ASSUME NEW q \in Machines PROVE Does(q)'
    <3>1. \A c \in Conns : ~Reading(c)' /\ toClient'[c] = toClient[c]
      BY <1>t, <1>3, RestartEffect DEF Reading
    <3>2. \A c \in Conns : conn[q] = c => toClient'[c] \in Seq(AskedOf(KeyOf[q])')
      BY <1>t, <1>l, <3>1, Lasts DEF Does
    <3>3. \A r : Asked(r, KeyOf[q], "shutdown") => Asked(r, KeyOf[q], "shutdown")'
      BY <1>l, Lasts
    <3>. QED BY <1>t, <2>2, <3>1, <3>2, <3>3 DEF Does
  <2>. QED BY <2>1, <2>3
<1>4. ASSUME NEW p \in Machines, SessionStep(p) \/ PingStep(p) PROVE UNCHANGED hubVars
  BY <1>4 DEF SessionStep, PingStep
<1>. QED BY <1>t, <1>l, <1>1, <1>2, <1>3, <1>4, Steps, TruthHandler, TruthCall, TruthConnect

LEMMA TruthAlways == Spec => []TruthInv
<1>1. Init => TruthInv
  BY LineInit, LinkAssumption
     DEF Init, HubInit, MachineInit, TruthInv, Told, Does, Holds, Reading, Registered
<1>. QED BY <1>1, TruthStep, PTL DEF Spec

\* What the hub shows as executed for a key was executed on a machine with that
\* key, whatever connections were lost, taken over or reused in between
\* (hub.go 237-256, shutdown.go 44-63).
THEOREM ExecutedIsTrue == Spec => []ExecutedEventIsTrue
<1>1. TruthInv => ExecutedEventIsTrue
  <2>. SUFFICES ASSUME TruthInv, NEW k \in Keys, clients[k] # NoConn,
                       lastEvent[clients[k]] = <<"shutdown_ack", "executed">>
                PROVE  Ran(k)
    BY DEF ExecutedEventIsTrue, Ran
  <2>1. clients[k] \in Conns
    BY DEF TruthInv, LineInv, RegistryInv, TypeInv, TypeOK, HubTypeOK
  <2>2. Registered(clients[k]) /\ hkey[clients[k]] = k
    BY DEF TruthInv, LineInv, RegistryInv, EntryHasHandler
  <2>. QED BY <2>1, <2>2 DEF TruthInv, Told
<1>. QED BY <1>1, TruthAlways, PTL

-----------------------------------------------------------------------------
(* The links keep what PowerOrders promises.  An order is given when its    *)
(* API call writes the frame, carried out when the command has run,         *)
(* forgotten with the process and told when the hub logs its                *)
(* acknowledgement; all other steps are stutters, the answer to the API     *)
(* call among them.                                                         *)

GivenOut == {<<call[a].key, call[a].requestId>> : a \in Ordering}
LoggedAsRun == {r \in ReqIds : <<r, "executed">> \in hubLog}

\* What the mapping looks at.
LEMMA OrdersStill ==
    ASSUME GivenOut' = GivenOut, LoggedAsRun' = LoggedAsRun, UNCHANGED <<runs, executed>>
    PROVE  UNCHANGED Orders!vars
  BY DEF Orders!vars, GivenOut, LoggedAsRun

LEMMA OrdersHub ==
    ASSUME UNCHANGED hubVars
    PROVE  GivenOut' = GivenOut /\ LoggedAsRun' = LoggedAsRun
  BY DEF hubVars, GivenOut, LoggedAsRun, Ordering, Wrote

\* The calls that wrote keep what they wrote; the others have given nothing out.
LEMMA OrdersCalls ==
    ASSUME \A b \in Callers : \/ call'[b] = call[b]
                              \/ Wrote(b) /\ Keeps(b)
                              \/ ~Wrote(b) /\ ~Wrote(b)'
    PROVE  GivenOut' = GivenOut
<1>1. Ordering' = Ordering
  BY DEF Ordering, Keeps, Wrote
<1>2. \A b \in Ordering : call'[b].key = call[b].key /\ call'[b].requestId = call[b].requestId
  BY DEF Ordering, Keeps
<1>. QED BY <1>1, <1>2 DEF GivenOut

\* The end of a client process.
LEMMA OrdersForget ==
    ASSUME NEW p \in Machines, NEW pc, Exit(p, pc), UNCHANGED hubVars
    PROVE  Orders!Next
<1>1. runs' = [runs EXCEPT ![p] = [r \in ReqIds |-> 0]] /\ executed' = executed
  BY DEF Exit
<1>. QED BY <1>1, OrdersHub DEF Orders!Next, Orders!Forget, GivenOut, LoggedAsRun

\* A command that has run was asked for, and not run before.
LEMMA OrdersCarryOut ==
    ASSUME TruthInv, OnceInv, NEW p \in Machines, NEW j \in jobs[p], NEW ok \in BOOLEAN,
           RunCommand(p, j, ok), UNCHANGED hubVars
    PROVE  Orders!Next
<1>. DEFINE r == j.requestId
<1>1. j \in Jobs /\ r \in ReqIds
  BY DEF OnceInv, TypeInv, TypeOK, MachineTypeOK, Jobs
<1>2. runs[p][r] = 0
  BY DEF OnceInv, OncePerMachine, RunCommand
<1>3. /\ runs' = [runs EXCEPT ![p][r] = @ + 1]
      /\ executed' \in {executed, executed \cup {<<p, r>>}}
  BY DEF RunCommand
<1>4. <<KeyOf[p], r>> \in GivenOut
  <2>1. Asked(r, KeyOf[p], "shutdown")
    BY DEF TruthInv, Does
  <2>. QED BY <2>1 DEF Asked, GivenOut, Ordering
<1>. HIDE DEF r
<1>5. runs' = [runs EXCEPT ![p][r] = 1]
  BY <1>2, <1>3
<1>6. Orders!CarryOut(p, r)
  BY <1>2, <1>3, <1>4, <1>5, OrdersHub DEF Orders!CarryOut, GivenOut, LoggedAsRun
<1>. QED BY <1>1, <1>6 DEF Orders!Next

\* A handler's step logs as executed at most what ended well.
LEMMA OrdersTell ==
    ASSUME TruthInv, NEW c \in Conns, Handler(c), UNCHANGED machineVars
    PROVE  Orders!Next \/ UNCHANGED Orders!vars
<1>t. TypeInv /\ Told(c)
  BY DEF TruthInv, LineInv, RegistryInv
<1>1. GivenOut' = GivenOut /\ UNCHANGED <<runs, executed>>
  BY <1>t, HandlerOthers DEF GivenOut, Ordering, Wrote, machineVars
<1>2. CASE ~ApplyAck(c)
  <2>1. hubLog' = hubLog
    BY <1>2 DEF Handler, HelloLost, ReadHello, CheckToken, Register, Greet, ReadFrame,
                ReadFails, Deregister, Return
  <2>. QED BY <1>1, <2>1, OrdersStill DEF LoggedAsRun
<1>3. CASE ApplyAck(c)
  <2>. DEFINE m == hmsg[c]
              r == m.requestId
  <2>1. m \in TrueOf(hkey[c]) /\ m \in Acks
    BY <1>t, <1>3 DEF ApplyAck, Told, TypeInv, Knows, HandlerKnows
  <2>2. r \in ReqIds
    BY <2>1 DEF Acks
  <2>3. hubLog' = IF m.type = "shutdown_ack" THEN hubLog \cup {<<r, m.status>>} ELSE hubLog
    BY <1>3 DEF ApplyAck
  <2>4. CASE IsExecuted(m)
    <3>1. PICK p \in Machines : <<p, r>> \in executed
      BY <2>1, <2>4 DEF TrueOf, EndedWell
    <3>2. hubLog' = hubLog \cup {<<r, "executed">>}
      BY <2>3, <2>4 DEF IsExecuted
    <3>3. LoggedAsRun' = LoggedAsRun \cup {r}
      BY <2>2, <3>2 DEF LoggedAsRun
    <3>4. PICK i \in ReqIds : i = r
      BY <2>2
    <3>5. Orders!Tell(p, i)
      BY <1>1, <3>1, <3>3, <3>4 DEF Orders!Tell, GivenOut, LoggedAsRun
    <3>6. Orders!Next
      BY <3>5 DEF Orders!Next
    <3>. QED BY <3>6
  <2>5. CASE ~IsExecuted(m)
    <3>1. \A x : <<x, "executed">> \in hubLog' <=> <<x, "executed">> \in hubLog
      BY <2>3, <2>5 DEF IsExecuted
    <3>2. LoggedAsRun' = LoggedAsRun
      BY <3>1 DEF LoggedAsRun
    <3>. QED BY <1>1, <3>2, OrdersStill
  <2>. QED BY <2>4, <2>5
<1>. QED BY <1>2, <1>3

\* Only a power-off written to an open connection gives an order out.
LEMMA OrdersGive ==
    ASSUME TypeInv, NEW a \in Callers, CallStep(a)
    PROVE  Orders!Next \/ UNCHANGED Orders!vars
<1>1. UNCHANGED <<runs, executed>> /\ LoggedAsRun' = LoggedAsRun
  BY DEF CallStep, Lookup, WriteControl, Answer, machineVars, LoggedAsRun
<1>2. ASSUME \A b \in Callers \ {a} : call'[b] = call[b],
             \/ Wrote(a) /\ Keeps(a)
             \/ ~Wrote(a) /\ ~Wrote(a)'
      PROVE  UNCHANGED Orders!vars
  BY <1>1, <1>2, OrdersCalls, OrdersStill
<1>3. ASSUME NEW k \in Keys, NEW typ \in Controls, Lookup(a, k, typ) PROVE UNCHANGED Orders!vars
  <2>1. /\ \A b \in Callers \ {a} : call'[b] = call[b]
        /\ call[a].pc = "idle" /\ call'[a].pc \in {"offline", "found"}
    BY <1>3, LookupCall
  <2>2. ~Wrote(a) /\ ~Wrote(a)'
    BY <2>1 DEF Wrote
  <2>. QED BY <1>2, <2>1, <2>2
<1>5. ASSUME Answer(a) PROVE UNCHANGED Orders!vars
  <2>1. (\A b \in Callers \ {a} : call'[b] = call[b]) /\ Wrote(a) /\ Keeps(a)
    BY <1>5, AnswerCall
  <2>. QED BY <1>2, <2>1
<1>4. ASSUME NEW ok \in BOOLEAN, WriteControl(a, ok)
      PROVE  Orders!Next \/ UNCHANGED Orders!vars
  <2>. DEFINE k == call[a].key
              r == <<k, clock>>
  <2>1. /\ call[a].pc = "found" /\ k \in Keys /\ r \in ReqIds
        /\ \A b \in Callers \ {a} : call'[b] = call[b]
        /\ call'[a].pc = (IF ok THEN "sent" ELSE "error")
        /\ call'[a].key = k /\ call'[a].type = call[a].type
        /\ ok => call'[a].requestId = r
    BY <1>4, WriteCall
  <2>. HIDE DEF r, k
  <2>2. CASE ~ok
    <3>1. ~Wrote(a) /\ ~Wrote(a)'
      BY <2>1, <2>2 DEF Wrote
    <3>. QED BY <1>2, <2>1, <3>1
  <2>3. CASE ok /\ call[a].type # "shutdown"
    <3>1. Ordering' = Ordering /\ \A b \in Ordering : call'[b] = call[b]
      BY <2>1, <2>3 DEF Ordering, Wrote
    <3>2. GivenOut' = GivenOut
      BY <3>1 DEF GivenOut
    <3>. QED BY <1>1, <3>2, OrdersStill
  <2>4. CASE ok /\ call[a].type = "shutdown"
    <3>1. Ordering' = Ordering \cup {a} /\ \A b \in Ordering : call'[b] = call[b]
      BY <2>1, <2>4 DEF Ordering, Wrote
    <3>2. call'[a].key = k /\ call'[a].requestId = r
      BY <2>1, <2>4
    <3>3. GivenOut' = GivenOut \cup {<<k, r>>}
      BY <3>1, <3>2 DEF GivenOut
    <3>4. PICK key \in Keys, id \in ReqIds : key = k /\ id = r
      BY <2>1
    <3>5. Orders!Order(key, id)
      BY <1>1, <3>3, <3>4 DEF Orders!Order, GivenOut, LoggedAsRun
    <3>6. Orders!Next
      BY <3>5 DEF Orders!Next
    <3>. QED BY <3>6
  <2>. QED BY <2>2, <2>3, <2>4
<1>. QED BY <1>3, <1>4, <1>5 DEF CallStep

LEMMA OrdersStep == TruthInv /\ OnceInv /\ [Next]_vars => [Orders!Next]_(Orders!vars)
<1>. SUFFICES ASSUME TruthInv, OnceInv, [Next]_vars
              PROVE  Orders!Next \/ UNCHANGED Orders!vars
  OBVIOUS
<1>. DEFINE Goal == Orders!Next \/ UNCHANGED Orders!vars
<1>t. TypeInv
  BY DEF OnceInv
<1>s. ASSUME UNCHANGED <<call, hubLog, runs, executed>> PROVE Goal
  BY <1>s, OrdersStill DEF GivenOut, LoggedAsRun, Ordering, Wrote
<1>1. ASSUME NEW p \in Machines, NEW c \in Conns, Connect(p, c) PROVE Goal
  <2>1. UNCHANGED <<call, hubLog, runs, executed>>
    BY <1>1 DEF Connect, Dial, Accept
  <2>. QED BY <1>s, <2>1
<1>2. ASSUME NEW p \in Machines, SessionStep(p) \/ PingStep(p) PROVE Goal
  <2>1. UNCHANGED hubVars
    BY <1>2 DEF SessionStep, PingStep
  <2>2. ExitFatal(p) \/ UNCHANGED <<runs, executed>>
    BY <1>2 DEF SessionStep, Session, HelloAnswer, EndSession, SessionReadFails, IgnoreFrame,
                PowerOffRequest, PingStep, SendPing, machineVars
  <2>. QED BY <1>s, <2>1, <2>2, OrdersForget DEF ExitFatal, hubVars
<1>3. ASSUME NEW p \in Machines, ProcessEnds(p) \/ ProcessStarts(p), UNCHANGED hubVars PROVE Goal
  BY <1>s, <1>3, OrdersForget DEF ProcessEnds, ProcessStarts, hubVars
<1>4. ASSUME NEW p \in Machines, NEW j \in jobs[p], UNCHANGED hubVars,
             Report(p, j) \/ \E ok \in BOOLEAN : RunCommand(p, j, ok)
      PROVE  Goal
  <2>1. Report(p, j) => UNCHANGED <<call, hubLog, runs, executed>>
    BY <1>4 DEF Report, hubVars
  <2>. QED BY <1>s, <1>4, <2>1, OrdersCarryOut
<1>5. ASSUME NEW c \in Conns, Handler(c), UNCHANGED machineVars PROVE Goal
  BY <1>5, OrdersTell
<1>6. ASSUME NEW a \in Callers, CallStep(a) PROVE Goal
  BY <1>t, <1>6, OrdersGive
<1>7. ASSUME HubRestart, UNCHANGED machineVars PROVE Goal
  <2>1. \A b \in Callers : (Wrote(b) /\ Keeps(b)) \/ (~Wrote(b) /\ ~Wrote(b)')
    BY <1>t, <1>7, RestartEffect
  <2>2. GivenOut' = GivenOut
    BY <2>1, OrdersCalls
  <2>3. UNCHANGED <<runs, executed>> /\ LoggedAsRun' = LoggedAsRun
    BY <1>7 DEF HubRestart, machineVars, LoggedAsRun
  <2>. QED BY <2>2, <2>3, OrdersStill
<1>8. CASE Quiet
  BY <1>s, <1>8 DEF Quiet, machineVars
<1>. QED BY <1>t, <1>1, <1>2, <1>3, <1>4, <1>5, <1>6, <1>7, <1>8, Steps

\* A power-off command runs only for an API call for the machine's key that wrote
\* a frame with its request id, answered by then or not, once in the life of a
\* client process, and the hub logs as executed only what ended well on a machine
\* (hub.go 107-123, 237-256, shutdown.go 21-63).
THEOREM LinksKeepOrders == Spec => KeepsOrders
<1>1. Init => Orders!Init
  <2>. SUFFICES ASSUME Init PROVE Orders!Init
    OBVIOUS
  <2>1. Ordering = {}
    BY DEF Init, HubInit, IdleCall, Ordering, Wrote
  <2>2. LoggedAsRun = {}
    BY DEF Init, HubInit, LoggedAsRun
  <2>. QED BY <2>1, <2>2 DEF Orders!Init, LoggedAsRun, Init, MachineInit
<1>2. Init => OnceInv
  BY TypeInit DEF Init, MachineInit, OnceInv, OncePerMachine
<1>. QED BY <1>1, <1>2, OnceStep, OrdersStep, TruthAlways, PTL DEF Spec, KeepsOrders, Orders!Spec
=============================================================================
