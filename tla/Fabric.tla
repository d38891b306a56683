------------------------------- MODULE Fabric -------------------------------
(***************************************************************************)
(* The fabric at run time: the registry server (run_server of              *)
(* tools/qosfabric_cli.cpp), which owns a registry and serves one          *)
(* connection at a time, and the processes that publish to it              *)
(* (tools/qosfabric_publisher.cpp), over blocking TCP connections          *)
(* (net.cpp) that carry one request and one reply at a time (wire.cpp).    *)
(*                                                                         *)
(* A run is one execution of the publisher tool.  The runs of one          *)
(* publisher share a boot counter file and may overlap in time.  A run     *)
(* dies, or gives up when its receive timeout expires, at any moment; what *)
(* it has sent stays readable for the server.  The server dies at any      *)
(* moment and is started again by hand.                                    *)
(***************************************************************************)
EXTENDS Registry

CONSTANTS
  Runs,         (* executions of the tool: [pub, nr, resource], where the  *)
                (* runs of a publisher are numbered as they start          *)
  Publishes,    (* --publishes: declarations of one run                    *)
  Nobody        (* the server has no connection open                       *)

ASSUME FabricAssumption ==
  /\ Runs \subseteq [pub : Publishers, nr : Nat \ {0}, resource : Evidence]
  /\ \A r, s \in Runs : r.pub = s.pub /\ r.nr = s.nr => r = s
  /\ Publishes \in Nat
  /\ [run : Runs, k : 1..Publishes] \subseteq Contents
  /\ Nobody \notin Runs

VARIABLES
  boot,       (* the boot counter file of each publisher                   *)
  run,        (* the state of each run                                     *)
  backlog,    (* connections accepted by the kernel, not yet by the server *)
  conn,       (* the run whose connection the server has open              *)
  request,    (* what the server has not read yet, per connection          *)
  reply,      (* what the run has not read yet                             *)
  holders,    (* history: who was told that it holds a lease               *)
  confirmed,  (* history: declarations a run was told are published        *)
  raced       (* history: publishers two of whose runs drew at once        *)

registry == vars
wire     == <<backlog, conn, request, reply>>
fabric   == <<registry, boot, run, wire, holders, confirmed, raced>>

-----------------------------------------------------------------------------
(* Messages                                                                *)

NoMessage == [type |-> "none"]

Hello(inc) == [type |-> "hello", inc |-> inc]

(* The content tells declarations apart (published_at_ms and the declared  *)
(* values do); the generation is left to the server.                       *)
Declaration(r, k) == [run |-> r, k |-> k]

PublishCapability(id, content, inc, epoch) ==
  [type |-> "publish", id |-> id, content |-> content, inc |-> inc, epoch |-> epoch]

Bye == [type |-> "bye"]

(* HelloAck and PublishAck: value is the epoch or the generation.          *)
Ok(value) == [type |-> "ok", value |-> value]
Refused   == [type |-> "refused"]

-----------------------------------------------------------------------------
(* Connections                                                             *)

Connected(r) == r = conn \/ \E i \in 1..Len(backlog) : backlog[i] = r

Alive(r) == run[r].at \notin {"new", "ended"}

Waiting(r) == run[r].at \in {"greeting", "publishing"}

(* A reply to a run that has closed its end is lost.                       *)
Answer(r, msg) ==
  /\ reply' = [reply EXCEPT ![r] = IF Alive(r) THEN msg ELSE NoMessage]
  /\ request' = [request EXCEPT ![r] = NoMessage]

(* The server's end of the connection: kept for the next frame or closed.  *)
KeepOpen(r) == UNCHANGED <<backlog, conn>>
CloseConnection(r) == conn' = Nobody /\ UNCHANGED backlog

(* The server process is gone and every connection with it.  Replies it    *)
(* has sent can still be read.                                             *)
ServerGone ==
  /\ backlog' = <<>>
  /\ conn' = Nobody
  /\ request' = [r \in Runs |-> NoMessage]
  /\ UNCHANGED reply

-----------------------------------------------------------------------------
(* The publisher tool                                                      *)

Goes(r, to) == run' = [run EXCEPT ![r].at = to]

(* The process is gone and has nothing in memory.                          *)
At(where) == [at |-> where, counter |-> 0, epoch |-> 0, sent |-> 0]

Ends(r) == run' = [run EXCEPT ![r] = At("ended")]

unchangedByRun == <<registry, holders>>

Incarnation(r) == run[r].counter + 1

(* read_incarnation.                                                       *)
ReadCounter(r) ==
  /\ run[r].at = "new"
  /\ boot[r.pub] < MaxIncarnation
  /\ \A s \in Runs : s.pub = r.pub /\ s.nr < r.nr => run[s].at # "new"
  /\ run' = [run EXCEPT ![r].at = "drawing", ![r].counter = boot[r.pub]]
  /\ raced' = IF \E s \in Runs : s.pub = r.pub /\ run[s].at = "drawing"
                THEN raced \union {r.pub} ELSE raced
  /\ UNCHANGED <<unchangedByRun, boot, wire, confirmed>>

WriteCounterLater(r) ==
  /\ run[r].at = "drawing"
  /\ Goes(r, "persisted")
  /\ boot' = boot
  /\ UNCHANGED <<unchangedByRun, wire, confirmed, raced>>

(* write_incarnation, before the lease is asked for.                       *)
WriteCounter(r) ==
  /\ run[r].at = "drawing"
  /\ Goes(r, "persisted")
  /\ boot' = [boot EXCEPT ![r.pub] = Incarnation(r)]
  /\ UNCHANGED <<unchangedByRun, wire, confirmed, raced>>

(* connect_loopback and the hello.                                         *)
Connect(r) ==
  /\ run[r].at = "persisted"
  /\ IF up
       THEN /\ Goes(r, "greeting")
            /\ backlog' = Append(backlog, r)
            /\ request' = [request EXCEPT ![r] = Hello(Incarnation(r))]
       ELSE /\ Ends(r)
            /\ UNCHANGED <<backlog, request>>
  /\ UNCHANGED <<unchangedByRun, boot, conn, reply, confirmed, raced>>

Consume(r) == reply' = [reply EXCEPT ![r] = NoMessage]

ReceiveHelloAck(r) ==
  /\ run[r].at = "greeting"
  /\ reply[r] # NoMessage
  /\ Consume(r)
  /\ IF reply[r].type = "ok"
       THEN run' = [run EXCEPT ![r].at = "leased", ![r].epoch = reply[r].value]
       ELSE Ends(r)
  /\ UNCHANGED <<unchangedByRun, boot, backlog, conn, request, confirmed, raced>>

SendAnyway(r, msg) == request' = [request EXCEPT ![r] = msg]

(* One declaration, stamped with the epoch of the hello's acknowledgement; *)
(* when all have been published the run says goodbye and exits.  Sending   *)
(* into a connection the server has closed has no effect.                  *)
Send(r, msg) == request' = [request EXCEPT ![r] = IF Connected(r) THEN msg ELSE @]

Declare(r) ==
  /\ run[r].at = "leased"
  /\ run[r].sent < Publishes
  /\ run' = [run EXCEPT ![r].at = "publishing", ![r].sent = @ + 1]
  /\ Send(r, PublishCapability(r.resource, Declaration(r, run[r].sent + 1),
                              Incarnation(r), run[r].epoch))
  /\ UNCHANGED <<unchangedByRun, boot, backlog, conn, reply, confirmed, raced>>

Leave(r) ==
  /\ run[r].at = "leased"
  /\ run[r].sent = Publishes
  /\ Ends(r)
  /\ Send(r, Bye)
  /\ UNCHANGED <<unchangedByRun, boot, backlog, conn, reply, confirmed, raced>>

(* What a positive PublishAck tells the run.                               *)
Confirmation(r, gen) ==
  [id |-> r.resource, gen |-> gen, content |-> Declaration(r, run[r].sent),
   by |-> [pub |-> r.pub, inc |-> Incarnation(r)]]

ReceivePublishAck(r) ==
  /\ run[r].at = "publishing"
  /\ reply[r] # NoMessage
  /\ Consume(r)
  /\ IF reply[r].type = "ok"
       THEN /\ Goes(r, "leased")
            /\ confirmed' = confirmed \union {Confirmation(r, reply[r].value)}
       ELSE Ends(r) /\ UNCHANGED confirmed
  /\ UNCHANGED <<unchangedByRun, boot, backlog, conn, request, raced>>

ReconnectsAndRepeats(r) ==
  /\ run[r].at = "publishing"
  /\ reply[r] = NoMessage
  /\ ~Connected(r)
  /\ run' = [run EXCEPT ![r] = [@ EXCEPT !.at = "drawing", !.counter = boot[r.pub],
                                        !.sent = @ - 1]]
  /\ UNCHANGED <<unchangedByRun, boot, wire, confirmed, raced>>

(* recv_frame reports the end of the connection.                           *)
ReceiveFails(r) ==
  /\ Waiting(r)
  /\ reply[r] = NoMessage
  /\ ~Connected(r)
  /\ Ends(r)
  /\ UNCHANGED <<unchangedByRun, boot, wire, confirmed, raced>>

(* The receive timeout expires with no reply there: the run exits, and a   *)
(* reply that comes later finds nobody.                                    *)
TimeOut(r) ==
  /\ Waiting(r)
  /\ reply[r] = NoMessage
  /\ Ends(r)
  /\ UNCHANGED <<unchangedByRun, boot, wire, confirmed, raced>>

Die(r) ==
  /\ Alive(r)
  /\ Ends(r)
  /\ Consume(r)
  /\ UNCHANGED <<unchangedByRun, boot, backlog, conn, request, confirmed, raced>>

-----------------------------------------------------------------------------
(* The server                                                              *)

unchangedByServer == <<boot, run, confirmed, raced>>

StartServer == Open /\ UNCHANGED <<unchangedByServer, wire, holders>>

ServerDies == Crash /\ ServerGone /\ UNCHANGED <<unchangedByServer, holders>>

AcceptConnection ==
  /\ up
  /\ conn = Nobody
  /\ backlog # <<>>
  /\ conn' = Head(backlog)
  /\ backlog' = Tail(backlog)
  /\ UNCHANGED <<registry, unchangedByServer, request, reply, holders>>

Refuse(r) == Answer(r, Refused) /\ KeepOpen(r)

(* A refused hello is answered and the connection closed.                  *)
RefuseHello(r) == Answer(r, Refused) /\ CloseConnection(r)

(* The lease RegisterPublisher returned is the one it has entered.         *)
ServeHello(r) ==
  LET p   == r.pub
      inc == request[r].inc
  IN  /\ conn = r
      /\ request[r].type = "hello"
      /\ RegisterPublisher(p, inc)
      /\ IF ~up' THEN ServerGone /\ UNCHANGED holders
         ELSE IF Admits(p, inc) /\ leases'[p] = RegisteredLease(inc)
           THEN /\ Answer(r, Ok(mem.epoch))
                /\ KeepOpen(r)
                /\ holders' = holders \union {[pub |-> p, inc |-> inc, run |-> r]}
           ELSE RefuseHello(r) /\ UNCHANGED holders
      /\ UNCHANGED unchangedByServer

(* The latest retained generation, whatever the sender wrote.              *)
LatestCapability(id) == mem.entries[id]

AnswersBeforeCommit(req, by) == Ok(1)

(* PublishAck says ok when the registry returned the published generation. *)
PublishAck(req, by) ==
  LET list == mem'.entries[req.id]
  IN  IF list # <<>> /\ Latest(list).content = req.content /\ Latest(list).by = by
        THEN Ok(Latest(list).gen) ELSE Refused

(* The server assigns the generation after the latest one, which is always *)
(* one the registry accepts unless its table is full.                      *)
ServePublish(r) ==
  LET req == request[r]
      by  == [pub |-> r.pub, inc |-> req.inc]
      may == /\ Authorized(r.pub, req.inc, req.epoch)
             /\ LatestCapability(req.id) = <<>> => ~TableFull(req.id)
  IN  /\ conn = r
      /\ req.type = "publish"
      /\ \/ may
            /\ Accept(req.id, req.content, by)
            /\ IF ~up' THEN ServerGone
                       ELSE Answer(r, PublishAck(req, by)) /\ KeepOpen(r)
         \/ ~may /\ Refuse(r) /\ UNCHANGED registry
      /\ UNCHANGED <<unchangedByServer, holders>>

WaitsForBye(r) ==
  /\ conn = r
  /\ request[r] = Bye
  /\ request' = [request EXCEPT ![r] = NoMessage]
  /\ CloseConnection(r)
  /\ UNCHANGED <<registry, unchangedByServer, reply, holders>>

(* A goodbye, or the end of a connection whose run is gone and whose       *)
(* requests have all been read.                                            *)
Hangup(r) ==
  /\ conn = r
  /\ request[r] = Bye \/ (request[r] = NoMessage /\ ~Alive(r))
  /\ request' = [request EXCEPT ![r] = NoMessage]
  /\ CloseConnection(r)
  /\ UNCHANGED <<registry, unchangedByServer, reply, holders>>

-----------------------------------------------------------------------------
FabricInit ==
  /\ Init
  /\ boot = [p \in Publishers |-> 0]
  /\ run = [r \in Runs |-> At("new")]
  /\ backlog = <<>>
  /\ conn = Nobody
  /\ request = [r \in Runs |-> NoMessage]
  /\ reply = [r \in Runs |-> NoMessage]
  /\ holders = {}
  /\ confirmed = {}
  /\ raced = {}

(* What a run does on its own once it is started.                          *)
RunStep(r) ==
  \/ WriteCounter(r) \/ Connect(r)
  \/ ReceiveHelloAck(r) \/ ReceivePublishAck(r) \/ ReceiveFails(r)
  \/ Declare(r) \/ Leave(r)

ServerStep ==
  \/ AcceptConnection
  \/ \E r \in Runs : ServeHello(r) \/ ServePublish(r) \/ Hangup(r)

PassTime == Tick /\ UNCHANGED <<unchangedByServer, wire, holders>>

FabricNext ==
  \/ \E r \in Runs : ReadCounter(r) \/ RunStep(r) \/ TimeOut(r) \/ Die(r)
  \/ ServerStep
  \/ StartServer
  \/ ServerDies
  \/ PassTime

(* The server and the runs are processes the system schedules.  Nothing    *)
(* makes anybody start a run or a server, die, or time out.                *)
FabricSpec ==
  /\ FabricInit
  /\ [][FabricNext]_fabric
  /\ WF_fabric(ServerStep)
  /\ \A r \in Runs : WF_fabric(RunStep(r))

-----------------------------------------------------------------------------
(* Properties                                                              *)

(* A run that waits is known to the server, has an answer in its buffer,   *)
(* or will see the end of its connection; a connection is known once.      *)
FabricTypeOK ==
  /\ boot \in [Publishers -> 0..MaxIncarnation]
  /\ \A r \in Runs :
       /\ run[r].at \in {"new", "drawing", "persisted", "greeting", "leased",
                         "publishing", "ended"}
       /\ run[r].sent \in 0..Publishes
       /\ request[r] # NoMessage => Connected(r) /\ reply[r] = NoMessage
  /\ conn \in Runs \union {Nobody}
  /\ \A i, j \in 1..Len(backlog) :
       backlog[i] # conn /\ (i # j => backlog[i] # backlog[j])
  /\ holders \subseteq [pub : Publishers, inc : Incarnations, run : Runs]
  /\ raced \subseteq Publishers

(* What a run was told is published is durable and stays what it was told, *)
(* whoever dies after that: the acknowledgement is never ahead of the      *)
(* journal (run_server, PublishAck; DURABILITY.md, A durable mutation is   *)
(* never acknowledged before its commit frame is durable).                 *)
ConfirmedIsDurable == \A c \in confirmed : Keeps(durable, c)

(* A declaration enters the tables at most once, although the server gives *)
(* every request a generation of its own and could not tell a repetition:  *)
(* a run whose answer is late or lost never asks again (main, publish      *)
(* loop).                                                                  *)
DeclaredOnce ==
  \A id \in Evidence : \A img \in {mem, durable} :
    \A i, j \in 1..Len(img.entries[id]) :
      i # j => img.entries[id][i].content # img.entries[id][j].content

(* An incarnation is one run's: two runs that draw the same number from    *)
(* the counter file, because they read it at the same time, never both     *)
(* hold a lease, and evidence in the tables comes from the run that was    *)
(* told it holds the lease it names (RegisterPublisher, run_server).       *)
OneVoice ==
  /\ \A a, b \in holders : a.pub = b.pub /\ a.inc = b.inc => a.run = b.run
  /\ \A id \in Evidence : \A i \in 1..Len(durable.entries[id]) :
       LET e == durable.entries[id][i]
       IN  [pub |-> e.by.pub, inc |-> e.by.inc, run |-> e.content.run] \in holders

(* Unless two runs of a publisher drew at once, the counter file is never  *)
(* behind the durable watermark, so that the next run is admitted: no      *)
(* death of a run or of the server between two steps makes a publisher use *)
(* an incarnation again (main: the counter is written before the lease is  *)
(* requested, so a crash cannot cause an incarnation to be reused).        *)
CounterCoversWatermark ==
  \A p \in Publishers \ raced :
    /\ durable.watermark[p] <= boot[p]
    /\ \A r, s \in Runs :
         /\ r.pub = p /\ s.pub = p /\ r # s
         /\ {run[r].at, run[s].at} \intersect {"new", "drawing", "ended"} = {}
         => Incarnation(r) # Incarnation(s)

(* Nobody waits for ever: with no help from a timeout, every run that      *)
(* waits for an answer gets it or sees its connection end, although the    *)
(* server has one connection open at a time and waits on it without a      *)
(* timeout of its own.                                                     *)
Answered == \A r \in Runs : Waiting(r) ~> ~Waiting(r)
=============================================================================
