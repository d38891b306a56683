---------------------------- MODULE FabricProofs ----------------------------
(***************************************************************************)
(* Proofs about the fabric at run time, for every number of publishers,    *)
(* runs and resources: whatever the runs and the server do, the registry   *)
(* takes only steps of its own specification, so that what is proved of    *)
(* Registry holds of it; an incarnation speaks for one run; a declaration  *)
(* enters the tables once; a run is told only what is durable.             *)
(***************************************************************************)
EXTENDS Fabric, RegistryTableProofs

Declarations == [run : Runs, k : 1..Publishes]

RunStates ==
  [at : {"new", "drawing", "persisted", "greeting", "leased", "publishing", "ended"},
   counter : 0..MaxIncarnation, epoch : Nat, sent : 0..Publishes]

Requests ==
  {NoMessage, Bye}
    \union [type : {"hello"}, inc : Incarnations]
    \union [type : {"publish"}, id : Evidence, content : Declarations,
            inc : Incarnations, epoch : Nat]

Replies == {NoMessage, Refused} \union [type : {"ok"}, value : Nat]

FabricTypes ==
  /\ boot \in [Publishers -> 0..MaxIncarnation]
  /\ run \in [Runs -> RunStates]
  /\ \A r \in Runs : run[r].at \notin {"new", "ended"} => Incarnation(r) \in Incarnations
  /\ request \in [Runs -> Requests]
  /\ reply \in [Runs -> Replies]
  /\ backlog \in Seq(Runs)
  /\ conn \in Runs \union {Nobody}
  /\ holders \subseteq [pub : Publishers, inc : Incarnations, run : Runs]
  /\ raced \subseteq Publishers

-----------------------------------------------------------------------------
(* Connections: a message has a connection to travel on, and only one of a *)
(* request and its reply exists at a time.                                 *)
Linked(r) ==
  /\ reply[r] # NoMessage => Waiting(r) /\ request[r] = NoMessage
  /\ request[r] # NoMessage => Connected(r)
  /\ Connected(r) => run[r].at \notin {"new", "drawing", "persisted"}

Links ==
  /\ \A r \in Runs : Linked(r)
  /\ \A i, j \in 1..Len(backlog) :
       backlog[i] # conn /\ (i # j => backlog[i] # backlog[j])

(* What is in flight is what its run has in memory, and is not yet in the  *)
(* tables.                                                                 *)
Voice(r, inc) == [pub |-> r.pub, inc |-> inc, run |-> r]

Fresh(content) ==
  \A id \in Evidence : \A i \in 1..Len(durable.entries[id]) :
    durable.entries[id][i].content # content

SpokenUpTo(r, n) ==
  \A id \in Evidence : \A i \in 1..Len(durable.entries[id]) :
    durable.entries[id][i].content.run = r => durable.entries[id][i].content.k <= n

Asks(r) ==
  /\ request[r].type = "hello" /\ Alive(r) =>
       run[r].at = "greeting" /\ request[r].inc = Incarnation(r)
  /\ request[r].type = "publish" =>
       /\ Voice(r, request[r].inc) \in holders
       /\ request[r].id = r.resource
       /\ request[r].content.run = r
       /\ Fresh(request[r].content)
       /\ Alive(r) => /\ run[r].at = "publishing"
                      /\ request[r].inc = Incarnation(r)
                      /\ request[r].content = Declaration(r, run[r].sent)

Knows(r) ==
  /\ run[r].at \in {"leased", "publishing"} => Voice(r, Incarnation(r)) \in holders
  /\ reply[r].type = "ok" /\ run[r].at = "greeting" => Voice(r, Incarnation(r)) \in holders
  /\ reply[r].type = "ok" /\ run[r].at = "publishing" =>
       Confirmation(r, reply[r].value) \in acked
  /\ run[r].at # "ended" => SpokenUpTo(r, run[r].sent)

Speaks == \A r \in Runs : Asks(r) /\ Knows(r)

(* Who holds, and what the tables say of it.                               *)
Holders1 ==
  /\ \A h \in holders : h.run.pub = h.pub /\ h.inc <= durable.watermark[h.pub]
  /\ \A a, b \in holders : a.pub = b.pub /\ a.inc = b.inc => a.run = b.run

Declared(e) ==
  /\ e.content \in Declarations
  /\ [pub |-> e.by.pub, inc |-> e.by.inc, run |-> e.content.run] \in holders

Heard ==
  \A id \in Evidence : \A i \in 1..Len(durable.entries[id]) :
    /\ Declared(durable.entries[id][i])
    /\ \A j \in 1..Len(durable.entries[id]) :
         i # j => durable.entries[id][i].content # durable.entries[id][j].content

(* The counter file.                                                       *)
Drawn(r) == run[r].at \in {"persisted", "greeting", "leased", "publishing"}

Counters ==
  \A p \in Publishers \ raced :
    /\ durable.watermark[p] <= boot[p]
    /\ \A r \in Runs : r.pub = p =>
         /\ run[r].at = "drawing" => run[r].counter = boot[p]
         /\ Drawn(r) => Incarnation(r) <= boot[p]
         /\ request[r].type = "hello" => request[r].inc <= boot[p]
         /\ \A s \in Runs : s.pub = p /\ r # s =>
              /\ ~(run[r].at = "drawing" /\ run[s].at = "drawing")
              /\ Drawn(r) /\ Drawn(s) => Incarnation(r) # Incarnation(s)

FabricInv ==
  /\ Inv /\ TableInv
  /\ FabricTypes /\ Links /\ Speaks /\ Holders1 /\ Heard /\ Counters
  /\ confirmed \subseteq acked

-----------------------------------------------------------------------------
LEMMA RunFields ==
  ASSUME NEW r \in Runs
  PROVE  /\ r.pub \in Publishers /\ r.resource \in Evidence /\ r # Nobody
         /\ \A k \in 1..Publishes : Declaration(r, k) \in Declarations
         /\ Declarations \subseteq Contents
  BY FabricAssumption DEF Declarations, Declaration

LEMMA FabricBounds ==
  /\ Publishes \in Nat /\ MaxIncarnation \in Nat
  /\ 0 \in 0..Publishes /\ 0 \in 0..MaxIncarnation
  BY FabricAssumption, RegistryAssumption

(* What the steps of a run do to its memory.                               *)
LEMMA RunEnds ==
  ASSUME FabricTypes, NEW r \in Runs, Ends(r)
  PROVE  /\ run' \in [Runs -> RunStates]
         /\ run'[r].at = "ended"
         /\ \A s \in Runs : s # r => run'[s] = run[s]
<1>1. At("ended") \in RunStates
  BY FabricBounds DEF At, RunStates
<1>2. run' = [run EXCEPT ![r] = At("ended")] /\ At("ended").at = "ended"
  BY DEF Ends, At
<1> QED BY <1>1, <1>2 DEF FabricTypes

LEMMA RunGoes ==
  ASSUME FabricTypes, NEW r \in Runs,
         NEW to \in {"new", "drawing", "persisted", "greeting", "leased", "publishing"},
         Goes(r, to)
  PROVE  /\ run' \in [Runs -> RunStates]
         /\ run'[r].at = to
         /\ run'[r].counter = run[r].counter
         /\ run'[r].epoch = run[r].epoch
         /\ run'[r].sent = run[r].sent
         /\ \A s \in Runs : s # r => run'[s] = run[s]
<1>1. run[r] \in RunStates
  BY DEF FabricTypes
<1>2. /\ [run[r] EXCEPT !.at = to] \in RunStates
      /\ run' = [run EXCEPT ![r] = [run[r] EXCEPT !.at = to]]
  BY <1>1 DEF Goes, RunStates
<1> QED BY <1>1, <1>2 DEF FabricTypes, RunStates

LEMMA RunReads ==
  ASSUME FabricTypes, NEW r \in Runs, ReadCounter(r)
  PROVE  /\ run' \in [Runs -> RunStates]
         /\ run'[r].at = "drawing"
         /\ run'[r].counter = boot[r.pub]
         /\ run'[r].sent = run[r].sent
         /\ boot[r.pub] + 1 \in Incarnations
         /\ \A s \in Runs : s # r => run'[s] = run[s]
<1>1. run[r] \in RunStates /\ boot[r.pub] \in 0..MaxIncarnation
  BY RunFields DEF FabricTypes
<1> DEFINE x == [run[r] EXCEPT !.at = "drawing", !.counter = boot[r.pub]]
<1>2. /\ x \in RunStates /\ x.at = "drawing" /\ x.counter = boot[r.pub]
      /\ x.sent = run[r].sent
  BY <1>1 DEF RunStates
<1>3. run' = [run EXCEPT ![r] = x]
  BY <1>1 DEF ReadCounter, RunStates
<1> HIDE DEF x
<1>4. boot[r.pub] + 1 \in Incarnations
  BY <1>1, RegistryAssumption DEF ReadCounter, Incarnations
<1> QED BY <1>2, <1>3, <1>4 DEF FabricTypes

LEMMA RunDeclares ==
  ASSUME FabricTypes, NEW r \in Runs, Declare(r)
  PROVE  /\ run' \in [Runs -> RunStates]
         /\ run'[r].at = "publishing"
         /\ run'[r].counter = run[r].counter
         /\ run'[r].sent = run[r].sent + 1
         /\ run[r].sent \in 0..Publishes
         /\ run[r].sent + 1 \in 1..Publishes
         /\ \A s \in Runs : s # r => run'[s] = run[s]
<1>1. run[r] \in RunStates /\ run[r].sent < Publishes
  BY DEF FabricTypes, Declare
<1>2. /\ run[r].sent \in 0..Publishes /\ run[r].sent + 1 \in 1..Publishes
      /\ run[r].sent + 1 \in 0..Publishes
  BY <1>1, FabricBounds DEF RunStates
<1> DEFINE x == [run[r] EXCEPT !.at = "publishing", !.sent = run[r].sent + 1]
<1>3. /\ x \in RunStates /\ x.at = "publishing" /\ x.counter = run[r].counter
      /\ x.sent = run[r].sent + 1
  BY <1>1, <1>2 DEF RunStates
<1>4. run' = [run EXCEPT ![r] = x]
  BY <1>1 DEF Declare, RunStates
<1> HIDE DEF x
<1> QED BY <1>2, <1>3, <1>4 DEF FabricTypes

LEMMA RunLeases ==
  ASSUME FabricTypes, NEW r \in Runs, reply[r].type = "ok",
         run' = [run EXCEPT ![r].at = "leased", ![r].epoch = reply[r].value]
  PROVE  /\ run' \in [Runs -> RunStates]
         /\ run'[r].at = "leased"
         /\ run'[r].counter = run[r].counter
         /\ run'[r].sent = run[r].sent
         /\ \A s \in Runs : s # r => run'[s] = run[s]
<1>1. run[r] \in RunStates /\ reply[r].value \in Nat
  <2>1. run[r] \in RunStates /\ reply[r] \in Replies
    BY DEF FabricTypes
  <2>2. NoMessage.type # "ok" /\ Refused.type # "ok"
    BY DEF NoMessage, Refused
  <2> QED BY <2>1, <2>2 DEF Replies
<1> DEFINE x == [run[r] EXCEPT !.at = "leased", !.epoch = reply[r].value]
<1>2. /\ x \in RunStates /\ x.at = "leased" /\ x.counter = run[r].counter
      /\ x.sent = run[r].sent
  BY <1>1 DEF RunStates
<1>3. run' = [run EXCEPT ![r] = x]
  BY <1>1 DEF RunStates
<1> HIDE DEF x
<1> QED BY <1>2, <1>3 DEF FabricTypes

-----------------------------------------------------------------------------
(* Messages                                                                *)

LEMMA MessageTypes ==
  /\ NoMessage \in Requests /\ Bye \in Requests
  /\ NoMessage \in Replies /\ Refused \in Replies
  /\ NoMessage.type = "none" /\ Bye.type = "bye" /\ Refused.type = "refused"
  /\ \A inc \in Incarnations :
       Hello(inc) \in Requests /\ Hello(inc).type = "hello" /\ Hello(inc).inc = inc
  /\ \A v \in Nat : Ok(v) \in Replies /\ Ok(v).type = "ok" /\ Ok(v).value = v
  BY DEF Requests, Replies, NoMessage, Bye, Refused, Hello, Ok

LEMMA DeclarationTypes ==
  ASSUME NEW id \in Evidence, NEW c \in Declarations, NEW inc \in Incarnations, NEW e \in Nat
  PROVE  /\ PublishCapability(id, c, inc, e) \in Requests
         /\ PublishCapability(id, c, inc, e).type = "publish"
         /\ PublishCapability(id, c, inc, e).id = id
         /\ PublishCapability(id, c, inc, e).content = c
         /\ PublishCapability(id, c, inc, e).inc = inc
  BY DEF PublishCapability, Requests

(* A request that is there is of one of three kinds, with its fields.      *)
LEMMA RequestKinds ==
  ASSUME FabricTypes, NEW r \in Runs
  PROVE  /\ request[r].type = "hello" =>
              request[r].inc \in Incarnations /\ request[r] # NoMessage /\ request[r] # Bye
         /\ request[r].type = "publish" =>
              /\ request[r] # NoMessage /\ request[r] # Bye
              /\ request[r].id \in Evidence
              /\ request[r].content \in Declarations
              /\ request[r].inc \in Incarnations
              /\ request[r].epoch \in Nat
         /\ request[r] = NoMessage => request[r].type = "none"
         /\ request[r] = Bye => request[r].type = "bye"
<1>1. request[r] \in Requests
  BY DEF FabricTypes
<1>2. NoMessage.type = "none" /\ Bye.type = "bye"
  BY MessageTypes
<1> QED BY <1>1, <1>2 DEF Requests

LEMMA SendTypes ==
  ASSUME FabricTypes, NEW r \in Runs, NEW msg \in Requests, Send(r, msg)
  PROVE  /\ request' \in [Runs -> Requests]
         /\ request'[r] = IF Connected(r) THEN msg ELSE request[r]
         /\ \A s \in Runs : s # r => request'[s] = request[s]
  BY DEF Send, FabricTypes

LEMMA ConsumeTypes ==
  ASSUME FabricTypes, NEW r \in Runs, Consume(r)
  PROVE  /\ reply' \in [Runs -> Replies]
         /\ reply'[r] = NoMessage
         /\ \A s \in Runs : s # r => reply'[s] = reply[s]
  BY MessageTypes DEF Consume, FabricTypes

LEMMA AnswerTypes ==
  ASSUME FabricTypes, NEW r \in Runs, NEW msg \in Replies, Answer(r, msg)
  PROVE  /\ reply' \in [Runs -> Replies] /\ request' \in [Runs -> Requests]
         /\ reply'[r] = IF Alive(r) THEN msg ELSE NoMessage
         /\ request'[r] = NoMessage
         /\ \A s \in Runs : s # r => reply'[s] = reply[s] /\ request'[s] = request[s]
  BY MessageTypes DEF Answer, FabricTypes

-----------------------------------------------------------------------------
(* The fabric takes only steps of the registry.                            *)

RunMoves(r) == ReadCounter(r) \/ RunStep(r) \/ TimeOut(r) \/ Die(r)

LEMMA RunsLeaveRegistry ==
  ASSUME NEW r \in Runs, RunMoves(r)
  PROVE  UNCHANGED vars /\ holders' = holders
<1>1. CASE ReadCounter(r) \/ WriteCounter(r) \/ Connect(r) \/ ReceiveHelloAck(r)
  BY <1>1 DEF ReadCounter, WriteCounter, Connect, ReceiveHelloAck, unchangedByRun, registry
<1>2. CASE Declare(r) \/ Leave(r) \/ ReceivePublishAck(r)
  BY <1>2 DEF Declare, Leave, ReceivePublishAck, unchangedByRun, registry
<1>3. CASE ReceiveFails(r) \/ TimeOut(r) \/ Die(r)
  BY <1>3 DEF ReceiveFails, TimeOut, Die, unchangedByRun, registry
<1> QED BY <1>1, <1>2, <1>3 DEF RunMoves, RunStep

(* A publication the server passes on is one the registry's own action     *)
(* describes.                                                              *)
ServesAccepted(r) ==
  LET req == request[r]
      by  == [pub |-> r.pub, inc |-> req.inc]
  IN  /\ Authorized(r.pub, req.inc, req.epoch)
      /\ Accept(req.id, req.content, by)
      /\ IF ~up' THEN ServerGone ELSE Answer(r, PublishAck(req, by)) /\ KeepOpen(r)

LEMMA PublishCases ==
  ASSUME NEW r \in Runs, ServePublish(r)
  PROVE  /\ conn = r /\ request[r].type = "publish"
         /\ UNCHANGED unchangedByServer /\ holders' = holders
         /\ \/ ServesAccepted(r)
            \/ Refuse(r) /\ UNCHANGED vars
  BY DEF ServePublish, ServesAccepted, registry

LEMMA ServesIsPublishEvidence ==
  ASSUME Inv, FabricTypes, NEW r \in Runs, request[r].type = "publish", ServesAccepted(r)
  PROVE  /\ up
         /\ r.pub \in Publishers /\ request[r].inc \in Incarnations
         /\ request[r].epoch \in Epochs /\ request[r].id \in Evidence
         /\ request[r].content \in Contents
         /\ PublishEvidence(r.pub, request[r].inc, request[r].epoch, request[r].id,
                            request[r].content)
<1>1. /\ r.pub \in Publishers /\ request[r].inc \in Incarnations
      /\ request[r].id \in Evidence /\ request[r].content \in Contents
  BY RunFields, RequestKinds
<1>2. Authorized(r.pub, request[r].inc, request[r].epoch)
  BY DEF ServesAccepted
<1>3. leases[r.pub] # NoLease /\ request[r].epoch = mem.epoch
  BY <1>2 DEF Authorized, HoldsLease
<1>4. up /\ mem.epoch \in Epochs
  BY <1>1, <1>3 DEF Inv, Fenced, TypeOK, Images
<1>5. Publish(request[r].id, request[r].content, [pub |-> r.pub, inc |-> request[r].inc])
  BY DEF ServesAccepted, Publish
<1> QED BY <1>1, <1>2, <1>3, <1>4, <1>5 DEF PublishEvidence

LEMMA FabricStepIsRegistryStep ==
  ASSUME Inv, FabricTypes, [FabricNext]_fabric
  PROVE  [Next]_vars
<1>1. ASSUME NEW r \in Runs, RunMoves(r) PROVE UNCHANGED vars
  BY <1>1, RunsLeaveRegistry
<1>2. CASE AcceptConnection \/ UNCHANGED fabric
  BY <1>2 DEF AcceptConnection, fabric, registry
<1>3. ASSUME NEW r \in Runs, Hangup(r) PROVE UNCHANGED vars
  BY <1>3 DEF Hangup, registry
<1>4. ASSUME NEW r \in Runs, ServeHello(r) PROVE Next
  <2>1. r.pub \in Publishers /\ request[r].inc \in Incarnations
    BY <1>4, RunFields, RequestKinds DEF ServeHello
  <2>2. RegisterPublisher(r.pub, request[r].inc)
    BY <1>4 DEF ServeHello
  <2> QED BY <2>1, <2>2 DEF Next
<1>5. ASSUME NEW r \in Runs, ServePublish(r) PROVE [Next]_vars
  <2>1. request[r].type = "publish" /\ (ServesAccepted(r) \/ UNCHANGED vars)
    BY <1>5, PublishCases
  <2>2. CASE ServesAccepted(r)
    BY <2>1, <2>2, ServesIsPublishEvidence DEF Next
  <2> QED BY <2>1, <2>2
<1>6. CASE StartServer \/ ServerDies \/ PassTime
  BY <1>6 DEF StartServer, ServerDies, PassTime, Next
<1> QED BY <1>1, <1>2, <1>3, <1>4, <1>5, <1>6 DEF FabricNext, ServerStep, RunMoves

-----------------------------------------------------------------------------
(* Types                                                                   *)

(* A step of run r: what it leaves alone, by parts.                        *)
LEMMA RunStepTypes ==
  ASSUME FabricTypes, NEW r \in Runs, RunMoves(r)
  PROVE  FabricTypes'
<1>1. CASE ReadCounter(r)
  <2>1. UNCHANGED <<boot, request, reply, backlog, conn, holders>> /\ raced' \subseteq Publishers
    BY <1>1, RunFields DEF ReadCounter, wire, unchangedByRun, FabricTypes
  <2> QED BY <1>1, <2>1, RunReads DEF FabricTypes, Incarnation
<1>2. CASE WriteCounter(r)
  <2>1. /\ UNCHANGED <<request, reply, backlog, conn, holders, raced>>
        /\ boot' = [boot EXCEPT ![r.pub] = Incarnation(r)]
        /\ run[r].at = "drawing" /\ Goes(r, "persisted")
    BY <1>2 DEF WriteCounter, wire, unchangedByRun
  <2>2. boot' \in [Publishers -> 0..MaxIncarnation]
    <3>1. Incarnation(r) \in Incarnations
      BY <2>1 DEF FabricTypes
    <3>2. Incarnation(r) \in 0..MaxIncarnation
      BY <3>1, RegistryAssumption DEF Incarnations
    <3> QED BY <2>1, <3>2 DEF FabricTypes
  <2> QED BY <2>1, <2>2, RunGoes DEF FabricTypes, Incarnation
<1>3. CASE Connect(r)
  <2>1. UNCHANGED <<boot, reply, conn, holders, raced>> /\ run[r].at = "persisted"
    BY <1>3 DEF Connect, unchangedByRun
  <2>2. CASE up
    <3>1. /\ Goes(r, "greeting") /\ backlog' = Append(backlog, r)
          /\ request' = [request EXCEPT ![r] = Hello(Incarnation(r))]
      BY <1>3, <2>2 DEF Connect
    <3>2. Hello(Incarnation(r)) \in Requests
      BY <2>1, MessageTypes DEF FabricTypes
    <3>3. backlog' \in Seq(Runs) /\ request' \in [Runs -> Requests]
      BY <3>1, <3>2 DEF FabricTypes
    <3> QED BY <2>1, <3>1, <3>3, RunGoes DEF FabricTypes, Incarnation
  <2>3. CASE ~up
    <3>1. Ends(r) /\ UNCHANGED <<backlog, request>>
      BY <1>3, <2>3 DEF Connect
    <3> QED BY <2>1, <3>1, RunEnds DEF FabricTypes, Incarnation
  <2> QED BY <2>2, <2>3
<1>4. CASE ReceiveHelloAck(r)
  <2>1. /\ UNCHANGED <<boot, request, backlog, conn, holders, raced>>
        /\ run[r].at = "greeting" /\ Consume(r)
    BY <1>4 DEF ReceiveHelloAck, unchangedByRun
  <2>2. reply' \in [Runs -> Replies]
    BY <2>1, ConsumeTypes
  <2>3. CASE reply[r].type = "ok"
    <3>1. run' = [run EXCEPT ![r].at = "leased", ![r].epoch = reply[r].value]
      BY <1>4, <2>3 DEF ReceiveHelloAck
    <3> QED BY <2>1, <2>2, <2>3, <3>1, RunLeases DEF FabricTypes, Incarnation
  <2>4. CASE reply[r].type # "ok"
    <3>1. Ends(r)
      BY <1>4, <2>4 DEF ReceiveHelloAck
    <3> QED BY <2>1, <2>2, <3>1, RunEnds DEF FabricTypes, Incarnation
  <2> QED BY <2>3, <2>4
<1>5. CASE Declare(r)
  <2> DEFINE msg == PublishCapability(r.resource, Declaration(r, run[r].sent + 1),
                                      Incarnation(r), run[r].epoch)
  <2>1. /\ UNCHANGED <<boot, reply, backlog, conn, holders, raced>>
        /\ run[r].at = "leased" /\ Send(r, msg)
    BY <1>5 DEF Declare, unchangedByRun
  <2>2. run[r].epoch \in Nat /\ Incarnation(r) \in Incarnations
    BY <2>1 DEF FabricTypes, RunStates
  <2>3. msg \in Requests
    BY <1>5, <2>2, RunDeclares, RunFields, DeclarationTypes
  <2> HIDE DEF msg
  <2>4. request' \in [Runs -> Requests]
    BY <2>1, <2>3, SendTypes
  <2> QED BY <1>5, <2>1, <2>4, RunDeclares DEF FabricTypes, Incarnation
<1>6. CASE Leave(r)
  <2>1. /\ UNCHANGED <<boot, reply, backlog, conn, holders, raced>>
        /\ Ends(r) /\ Send(r, Bye)
    BY <1>6 DEF Leave, unchangedByRun
  <2>2. request' \in [Runs -> Requests]
    BY <2>1, SendTypes, MessageTypes
  <2> QED BY <2>1, <2>2, RunEnds DEF FabricTypes, Incarnation
<1>7. CASE ReceivePublishAck(r)
  <2>1. /\ UNCHANGED <<boot, request, backlog, conn, holders, raced>>
        /\ run[r].at = "publishing" /\ Consume(r)
        /\ Goes(r, "leased") \/ Ends(r)
    BY <1>7 DEF ReceivePublishAck, unchangedByRun
  <2>2. reply' \in [Runs -> Replies]
    BY <2>1, ConsumeTypes
  <2>3. CASE Goes(r, "leased")
    BY <2>1, <2>2, <2>3, RunGoes DEF FabricTypes, Incarnation
  <2>4. CASE Ends(r)
    BY <2>1, <2>2, <2>4, RunEnds DEF FabricTypes, Incarnation
  <2> QED BY <2>1, <2>3, <2>4
<1>8. CASE ReceiveFails(r) \/ TimeOut(r)
  <2>1. UNCHANGED <<boot, wire, holders, raced>> /\ Ends(r)
    BY <1>8 DEF ReceiveFails, TimeOut, unchangedByRun
  <2> QED BY <2>1, RunEnds DEF FabricTypes, Incarnation, wire
<1>9. CASE Die(r)
  <2>1. UNCHANGED <<boot, request, backlog, conn, holders, raced>> /\ Ends(r) /\ Consume(r)
    BY <1>9 DEF Die, unchangedByRun
  <2> QED BY <2>1, RunEnds, ConsumeTypes DEF FabricTypes, Incarnation
<1> QED BY <1>1, <1>2, <1>3, <1>4, <1>5, <1>6, <1>7, <1>8, <1>9 DEF RunMoves, RunStep

(* Steps of the server leave the runs and their files alone.               *)
LEMMA ServerTypes ==
  ASSUME FabricTypes, UNCHANGED <<boot, run, raced>>,
         request' \in [Runs -> Requests], reply' \in [Runs -> Replies],
         backlog' \in Seq(Runs), conn' \in Runs \union {Nobody},
         holders' \subseteq [pub : Publishers, inc : Incarnations, run : Runs]
  PROVE  FabricTypes'
  BY DEF FabricTypes, Incarnation

LEMMA GoneTypes ==
  ASSUME FabricTypes, ServerGone
  PROVE  /\ request' \in [Runs -> Requests] /\ reply' = reply
         /\ backlog' \in Seq(Runs) /\ conn' \in Runs \union {Nobody}
         /\ backlog' = <<>> /\ conn' = Nobody
         /\ \A r \in Runs : request'[r] = NoMessage
  BY MessageTypes DEF ServerGone

LEMMA PublishAckType ==
  ASSUME Inv', NEW req, req.id \in Evidence, NEW by
  PROVE  PublishAck(req, by) \in Replies
<1> DEFINE list == mem'.entries[req.id]
<1>1. list \in Seq(Entries)
  BY DEF Inv, TypeOK, Images, Ids
<1>2. ASSUME list # <<>> PROVE Latest(list).gen \in Nat
  <2>1. Latest(list) \in Entries
    BY <1>1, <1>2, LatestType
  <2> QED BY <2>1, RegistryAssumption DEF Entries
<1>3. list # <<>> => Ok(Latest(list).gen) \in Replies
  BY <1>2, MessageTypes
<1> QED BY <1>3, MessageTypes DEF PublishAck

LEMMA ServerStepTypes ==
  ASSUME Inv, FabricTypes, Inv',
         StartServer \/ ServerDies \/ PassTime \/ ServerStep
  PROVE  FabricTypes'
<1>1. CASE StartServer \/ PassTime
  BY <1>1, ServerTypes DEF StartServer, PassTime, unchangedByServer, wire, FabricTypes
<1>2. CASE ServerDies
  <2>1. ServerGone /\ UNCHANGED <<boot, run, raced, holders>>
    BY <1>2 DEF ServerDies, unchangedByServer
  <2> QED BY <2>1, GoneTypes, ServerTypes DEF FabricTypes
<1>3. CASE AcceptConnection
  <2>1. /\ backlog # <<>> /\ conn' = Head(backlog) /\ backlog' = Tail(backlog)
        /\ UNCHANGED <<boot, run, raced, request, reply, holders>>
    BY <1>3 DEF AcceptConnection, unchangedByServer
  <2>2. conn' \in Runs /\ backlog' \in Seq(Runs)
    BY <2>1, HeadTailProperties DEF FabricTypes
  <2> QED BY <2>1, <2>2, ServerTypes DEF FabricTypes
<1>4. ASSUME NEW r \in Runs, ServeHello(r) PROVE FabricTypes'
  <2>1. UNCHANGED <<boot, run, raced>> /\ request[r].type = "hello"
    BY <1>4 DEF ServeHello, unchangedByServer
  <2>2. CASE ServerGone /\ holders' = holders
    BY <2>1, <2>2, GoneTypes, ServerTypes DEF FabricTypes
  <2>3. CASE RefuseHello(r) /\ holders' = holders
    <3>1. Answer(r, Refused) /\ conn' = Nobody /\ backlog' = backlog
      BY <2>3 DEF RefuseHello, CloseConnection
    <3> QED BY <2>1, <2>3, <3>1, AnswerTypes, MessageTypes, ServerTypes DEF FabricTypes
  <2>4. CASE /\ Answer(r, Ok(mem.epoch)) /\ KeepOpen(r)
             /\ holders' = holders \union {[pub |-> r.pub, inc |-> request[r].inc, run |-> r]}
    <3>1. mem.epoch \in Nat
      BY RegistryAssumption DEF Inv, TypeOK, Images, Epochs
    <3>2. holders' \subseteq [pub : Publishers, inc : Incarnations, run : Runs]
      BY <2>1, <2>4, RunFields, RequestKinds DEF FabricTypes
    <3>3. backlog' = backlog /\ conn' = conn
      BY <2>4 DEF KeepOpen
    <3>4. Ok(mem.epoch) \in Replies
      BY <3>1, MessageTypes
    <3> QED BY <2>1, <2>4, <3>2, <3>3, <3>4, AnswerTypes, ServerTypes DEF FabricTypes
  <2> QED BY <1>4, <2>2, <2>3, <2>4 DEF ServeHello
<1>5. ASSUME NEW r \in Runs, ServePublish(r) PROVE FabricTypes'
  <2>1. /\ UNCHANGED <<boot, run, raced, holders>> /\ request[r].id \in Evidence
        /\ ServesAccepted(r) \/ Refuse(r)
    BY <1>5, PublishCases, RequestKinds DEF unchangedByServer
  <2>2. CASE ServerGone
    BY <2>1, <2>2, GoneTypes, ServerTypes DEF FabricTypes
  <2>3. ASSUME NEW msg \in Replies, Answer(r, msg), KeepOpen(r) PROVE FabricTypes'
    <3>1. backlog' = backlog /\ conn' = conn
      BY <2>3 DEF KeepOpen
    <3> QED BY <2>1, <2>3, <3>1, AnswerTypes, ServerTypes DEF FabricTypes
  <2> QED BY <2>1, <2>2, <2>3, PublishAckType, MessageTypes DEF ServesAccepted, Refuse
<1>6. ASSUME NEW r \in Runs, Hangup(r) PROVE FabricTypes'
  <2>1. /\ UNCHANGED <<boot, run, raced, holders, reply, backlog>> /\ conn' = Nobody
        /\ request' = [request EXCEPT ![r] = NoMessage]
    BY <1>6 DEF Hangup, unchangedByServer, CloseConnection
  <2> QED BY <2>1, MessageTypes, ServerTypes DEF FabricTypes
<1> QED BY <1>1, <1>2, <1>3, <1>4, <1>5, <1>6 DEF ServerStep

-----------------------------------------------------------------------------
(* Connections                                                             *)

LEMMA SameLink ==
  ASSUME NEW s \in Runs, Linked(s), run'[s] = run[s], request'[s] = request[s],
         reply'[s] = reply[s], Connected(s)' <=> Connected(s)
  PROVE  Linked(s)'
  BY DEF Linked, Waiting

(* A step of a run that leaves the connections as they are.                *)
LEMMA SameConnections ==
  ASSUME Links, NEW r \in Runs, backlog' = backlog, conn' = conn,
         \A s \in Runs : s # r =>
           run'[s] = run[s] /\ request'[s] = request[s] /\ reply'[s] = reply[s],
         Linked(r)'
  PROVE  Links'
<1>1. \A s \in Runs : Connected(s)' <=> Connected(s)
  BY DEF Connected
<1>2. \A s \in Runs : Linked(s)'
  BY <1>1, SameLink DEF Links
<1> QED BY <1>2 DEF Links

LEMMA RunStepLinks ==
  ASSUME FabricTypes, Links, Speaks, NEW r \in Runs, RunMoves(r)
  PROVE  Links'
<1>1. /\ Linked(r) /\ NoMessage.type = "none"
      /\ Waiting(r) <=> run[r].at \in {"greeting", "publishing"}
  BY MessageTypes DEF Links, Waiting
<1>2. CASE ReadCounter(r) \/ WriteCounter(r)
  <2>1. /\ UNCHANGED <<request, reply, backlog, conn>>
        /\ run[r].at \in {"new", "drawing"}
        /\ ReadCounter(r) \/ Goes(r, "persisted")
    BY <1>2 DEF ReadCounter, WriteCounter, wire
  <2>2. run'[r].at \in {"drawing", "persisted"} /\ \A s \in Runs : s # r => run'[s] = run[s]
    BY <2>1, RunReads, RunGoes
  <2>3. Connected(r)' <=> Connected(r)
    BY <2>1 DEF Connected
  <2>4. Linked(r)'
    BY <1>1, <2>1, <2>2, <2>3 DEF Linked
  <2> QED BY <2>1, <2>2, <2>4, SameConnections
<1>3. CASE ReceiveHelloAck(r) \/ ReceivePublishAck(r)
  <2>1. /\ UNCHANGED <<request, backlog, conn>> /\ Consume(r)
        /\ run[r].at \in {"greeting", "publishing"} /\ reply[r] # NoMessage
    BY <1>3 DEF ReceiveHelloAck, ReceivePublishAck
  <2>2. run'[r].at \in {"leased", "ended"} /\ \A s \in Runs : s # r => run'[s] = run[s]
    <3>1. CASE ReceiveHelloAck(r)
      BY <3>1, RunEnds, RunLeases DEF ReceiveHelloAck
    <3>2. CASE ReceivePublishAck(r)
      BY <3>2, RunEnds, RunGoes DEF ReceivePublishAck
    <3> QED BY <1>3, <3>1, <3>2
  <2>3. /\ reply'[r] = NoMessage /\ \A s \in Runs : s # r => reply'[s] = reply[s]
    BY <2>1, ConsumeTypes
  <2>4. Connected(r)' <=> Connected(r)
    BY <2>1 DEF Connected
  <2>5. Linked(r)'
    BY <1>1, <2>1, <2>2, <2>3, <2>4 DEF Linked
  <2> QED BY <2>1, <2>2, <2>3, <2>5, SameConnections
<1>4. CASE Declare(r) \/ Leave(r)
  <2>1. /\ UNCHANGED <<reply, backlog, conn>> /\ run[r].at = "leased"
    BY <1>4 DEF Declare, Leave
  <2>2. run'[r].at \in {"publishing", "ended"} /\ \A s \in Runs : s # r => run'[s] = run[s]
    BY <1>4, RunEnds, RunDeclares DEF Leave
  <2>3. /\ Connected(r) \/ request'[r] = request[r]
        /\ \A s \in Runs : s # r => request'[s] = request[s]
    <3>1. \E msg : Send(r, msg)
      BY <1>4 DEF Declare, Leave
    <3> QED BY <3>1 DEF Send, FabricTypes
  <2>4. Connected(r)' <=> Connected(r)
    BY <2>1 DEF Connected
  <2>5. Linked(r)'
    BY <1>1, <2>1, <2>2, <2>3, <2>4 DEF Linked
  <2> QED BY <2>1, <2>2, <2>3, <2>5, SameConnections
<1>5. CASE ReceiveFails(r) \/ TimeOut(r) \/ Die(r) \/ (Connect(r) /\ ~up)
  <2>1. UNCHANGED <<request, backlog, conn>> /\ Ends(r)
    BY <1>5 DEF ReceiveFails, TimeOut, Die, Connect, wire
  <2>2. /\ reply'[r] = NoMessage /\ \A s \in Runs : s # r => reply'[s] = reply[s]
    <3>1. CASE ReceiveFails(r) \/ TimeOut(r)
      BY <3>1 DEF ReceiveFails, TimeOut, wire
    <3>2. CASE Die(r)
      BY <3>2, ConsumeTypes DEF Die
    <3>3. CASE Connect(r)
      <4>1. ~Waiting(r) /\ reply' = reply
        BY <1>1, <3>3 DEF Connect
      <4> QED BY <1>1, <4>1 DEF Linked
    <3> QED BY <1>5, <3>1, <3>2, <3>3
  <2>3. run'[r].at = "ended" /\ \A s \in Runs : s # r => run'[s] = run[s]
    BY <2>1, RunEnds
  <2>4. Connected(r)' <=> Connected(r)
    BY <2>1 DEF Connected
  <2>5. Linked(r)'
    BY <1>1, <2>1, <2>2, <2>3, <2>4 DEF Linked
  <2> QED BY <2>1, <2>2, <2>3, <2>5, SameConnections
<1>6. CASE Connect(r) /\ up
  <2>1. /\ run[r].at = "persisted" /\ Goes(r, "greeting") /\ backlog' = Append(backlog, r)
        /\ request' = [request EXCEPT ![r] = Hello(Incarnation(r))]
        /\ conn' = conn /\ reply' = reply
    BY <1>6 DEF Connect
  <2>2. run'[r].at = "greeting" /\ \A s \in Runs : s # r => run'[s] = run[s]
    BY <2>1, RunGoes
  <2>3. \A s \in Runs : s # r => request'[s] = request[s]
    BY <2>1 DEF FabricTypes
  <2>4. ~Connected(r) /\ reply[r] = NoMessage
    BY <1>1, <2>1 DEF Linked
  <2>5. /\ Len(backlog) \in Nat /\ Len(backlog') = Len(backlog) + 1
        /\ \A i \in 1..Len(backlog) : backlog'[i] = backlog[i]
        /\ backlog'[Len(backlog) + 1] = r
    BY <2>1, AppendProperties, LenProperties DEF FabricTypes
  <2>6. Connected(r)'
    BY <2>5 DEF Connected
  <2>7. \A s \in Runs : s # r => (Connected(s)' <=> Connected(s))
    BY <2>1, <2>5 DEF Connected
  <2>8. Linked(r)'
    BY <2>1, <2>2, <2>4, <2>6 DEF Linked
  <2>9. \A s \in Runs : Linked(s)'
    BY <2>1, <2>2, <2>3, <2>7, <2>8, SameLink DEF Links
  <2>10. \A i \in 1..Len(backlog) : backlog[i] # r
    BY <2>4 DEF Connected
  <2>11. r # conn
    BY <2>4 DEF Connected
  <2>12. \A i, j \in 1..Len(backlog') :
            backlog'[i] # conn' /\ (i # j => backlog'[i] # backlog'[j])
    BY <2>1, <2>5, <2>10, <2>11 DEF Links
  <2> QED BY <2>9, <2>12 DEF Links
<1> QED BY <1>2, <1>3, <1>4, <1>5, <1>6 DEF RunMoves, RunStep

(* The server's end.                                                       *)
LEMMA GoneLinks ==
  ASSUME FabricTypes, Links, ServerGone, run' = run PROVE Links'
<1>1. /\ backlog' = <<>> /\ conn' = Nobody /\ reply' = reply
      /\ \A s \in Runs : request'[s] = NoMessage
  BY GoneTypes
<1>2. Len(backlog') = 0
  BY <1>1, EmptySeq
<1>3. \A s \in Runs : ~Connected(s)'
  BY <1>1, <1>2, RunFields DEF Connected
<1>4. \A s \in Runs : Linked(s)'
  BY <1>1, <1>3 DEF Links, Linked, Waiting
<1> QED BY <1>2, <1>4 DEF Links

(* The server answers the run whose connection it has open, or nobody, and *)
(* keeps the connection or closes it.                                      *)
LEMMA AnswerLinks ==
  ASSUME FabricTypes, Links, NEW r \in Runs, conn = r, run' = run,
         backlog' = backlog, conn' \in {conn, Nobody},
         request'[r] = NoMessage, reply'[r] # NoMessage => Waiting(r),
         \A s \in Runs : s # r => request'[s] = request[s] /\ reply'[s] = reply[s]
  PROVE  Links'
<1>1. \A s \in Runs : s # r => (Connected(s)' <=> Connected(s))
  BY RunFields DEF Connected
<1>2. Connected(r)' => Connected(r)
  BY DEF Connected
<1>3. Linked(r)'
  BY <1>2 DEF Links, Linked, Waiting
<1>4. \A s \in Runs : Linked(s)'
  BY <1>1, <1>3, SameLink DEF Links
<1>5. \A i \in 1..Len(backlog) : backlog[i] # Nobody
  <2>1. \A i \in 1..Len(backlog) : backlog[i] \in Runs
    BY ElementOfSeq DEF FabricTypes
  <2> QED BY <2>1, RunFields
<1> QED BY <1>4, <1>5 DEF Links

LEMMA ServerStepLinks ==
  ASSUME FabricTypes, Links, Speaks,
         StartServer \/ ServerDies \/ PassTime \/ ServerStep
  PROVE  Links'
<1>1. CASE StartServer \/ PassTime
  <2>1. UNCHANGED <<run, backlog, conn, request, reply>>
    BY <1>1 DEF StartServer, PassTime, unchangedByServer, wire
  <2> QED BY <2>1 DEF Links, Linked, Connected, Waiting
<1>2. CASE ServerDies
  BY <1>2, GoneLinks DEF ServerDies, unchangedByServer
<1>3. CASE AcceptConnection
  <2>1. /\ conn = Nobody /\ backlog # <<>>
        /\ conn' = Head(backlog) /\ backlog' = Tail(backlog)
        /\ UNCHANGED <<run, request, reply>>
    BY <1>3 DEF AcceptConnection, unchangedByServer
  <2>2. /\ Len(backlog) \in Nat \ {0} /\ Len(backlog') = Len(backlog) - 1
        /\ conn' = backlog[1]
        /\ \A i \in 1..Len(backlog') : backlog'[i] = backlog[i + 1]
    BY <2>1, HeadTailProperties, EmptySeq, LenProperties DEF FabricTypes
  <2>3. ASSUME NEW s \in Runs PROVE Connected(s)' <=> Connected(s)
    <3>1. ASSUME Connected(s)' PROVE Connected(s)
      <4>1. CASE s = conn'
        BY <2>2, <4>1 DEF Connected
      <4>2. CASE \E i \in 1..Len(backlog') : backlog'[i] = s
        <5>1. PICK i \in 1..Len(backlog') : backlog'[i] = s
          BY <4>2
        <5>2. i + 1 \in 1..Len(backlog) /\ backlog[i + 1] = s
          BY <2>2, <5>1
        <5> QED BY <5>2 DEF Connected
      <4> QED BY <3>1, <4>1, <4>2 DEF Connected
    <3>2. ASSUME Connected(s) PROVE Connected(s)'
      <4>1. PICK i \in 1..Len(backlog) : backlog[i] = s
        BY <2>1, <3>2, RunFields DEF Connected
      <4>2. CASE i = 1
        BY <2>2, <4>1, <4>2 DEF Connected
      <4>3. CASE i # 1
        <5>1. i - 1 \in 1..Len(backlog') /\ (i - 1) + 1 = i
          BY <2>2, <4>3
        <5>2. backlog'[i - 1] = s
          BY <2>2, <4>1, <5>1
        <5> QED BY <5>1, <5>2 DEF Connected
      <4> QED BY <4>2, <4>3
    <3> QED BY <3>1, <3>2
  <2>4. \A s \in Runs : Linked(s)'
    BY <2>1, <2>3, SameLink DEF Links
  <2>5. \A i, j \in 1..Len(backlog') :
          backlog'[i] # conn' /\ (i # j => backlog'[i] # backlog'[j])
    <3>1. ASSUME NEW i \in 1..Len(backlog'), NEW j \in 1..Len(backlog')
          PROVE  backlog'[i] # conn' /\ (i # j => backlog'[i] # backlog'[j])
      <4>1. /\ i + 1 \in 1..Len(backlog) /\ j + 1 \in 1..Len(backlog)
            /\ 1 \in 1..Len(backlog) /\ i + 1 # 1 /\ (i # j => i + 1 # j + 1)
        BY <2>2
      <4> QED BY <2>2, <4>1 DEF Links
    <3> QED BY <3>1
  <2> QED BY <2>4, <2>5 DEF Links
<1>4. ASSUME NEW r \in Runs, ServeHello(r) PROVE Links'
  <2>1. conn = r /\ run' = run /\ request[r].type = "hello"
    BY <1>4 DEF ServeHello, unchangedByServer
  <2>2. Alive(r) => Waiting(r)
    BY <2>1 DEF Speaks, Asks, Waiting
  <2>3. CASE ServerGone
    BY <2>1, <2>3, GoneLinks
  <2>4. ASSUME NEW msg, Answer(r, msg), backlog' = backlog, conn' \in {conn, Nobody}
        PROVE  Links'
    <3>1. /\ request'[r] = NoMessage /\ (reply'[r] # NoMessage => Waiting(r))
          /\ \A s \in Runs : s # r => request'[s] = request[s] /\ reply'[s] = reply[s]
      BY <2>2, <2>4 DEF Answer, FabricTypes
    <3> QED BY <2>1, <2>4, <3>1, AnswerLinks
  <2> QED BY <1>4, <2>3, <2>4 DEF ServeHello, RefuseHello, KeepOpen, CloseConnection
<1>5. ASSUME NEW r \in Runs, ServePublish(r) PROVE Links'
  <2>1. /\ conn = r /\ run' = run /\ request[r].type = "publish"
        /\ ServesAccepted(r) \/ Refuse(r)
    BY <1>5, PublishCases DEF unchangedByServer
  <2>2. Alive(r) => Waiting(r)
    BY <2>1 DEF Speaks, Asks, Waiting
  <2>3. CASE ServerGone
    BY <2>1, <2>3, GoneLinks
  <2>4. ASSUME NEW msg, Answer(r, msg), KeepOpen(r) PROVE Links'
    <3>1. /\ request'[r] = NoMessage /\ (reply'[r] # NoMessage => Waiting(r))
          /\ \A s \in Runs : s # r => request'[s] = request[s] /\ reply'[s] = reply[s]
      BY <2>2, <2>4 DEF Answer, FabricTypes
    <3> QED BY <2>1, <2>4, <3>1, AnswerLinks DEF KeepOpen
  <2> QED BY <2>1, <2>3, <2>4 DEF ServesAccepted, Refuse
<1>6. ASSUME NEW r \in Runs, Hangup(r) PROVE Links'
  <2>1. /\ conn = r /\ run' = run /\ reply' = reply /\ backlog' = backlog /\ conn' = Nobody
        /\ request' = [request EXCEPT ![r] = NoMessage]
    BY <1>6 DEF Hangup, unchangedByServer, CloseConnection
  <2>2. /\ request'[r] = NoMessage /\ (reply'[r] # NoMessage => Waiting(r))
        /\ \A s \in Runs : s # r => request'[s] = request[s] /\ reply'[s] = reply[s]
    BY <2>1 DEF FabricTypes, Links, Linked
  <2> QED BY <2>1, <2>2, AnswerLinks
<1> QED BY <1>1, <1>2, <1>3, <1>4, <1>5, <1>6 DEF ServerStep

-----------------------------------------------------------------------------
(* What runs say and know                                                  *)

LEMMA SameVoice ==
  ASSUME NEW s \in Runs, Asks(s) /\ Knows(s),
         run'[s] = run[s], request'[s] = request[s], reply'[s] = reply[s],
         holders' = holders, durable' = durable, acked' = acked
  PROVE  Asks(s)' /\ Knows(s)'
  BY DEF Asks, Knows, Alive, Incarnation, Fresh, SpokenUpTo, Confirmation

(* A step of run r changes only what r says.                               *)
LEMMA OneSpeaks ==
  ASSUME FabricTypes, Speaks, NEW r \in Runs, UNCHANGED vars, holders' = holders,
         \A s \in Runs : s # r =>
           run'[s] = run[s] /\ request'[s] = request[s] /\ reply'[s] = reply[s],
         Asks(r)' /\ Knows(r)'
  PROVE  Speaks'
<1>1. durable' = durable /\ acked' = acked
  BY DEF vars, store
<1>2. \A s \in Runs : s # r => Asks(s)' /\ Knows(s)'
  BY <1>1, SameVoice DEF Speaks
<1> QED BY <1>2 DEF Speaks

(* A run that ends takes nothing back: what it has sent may still be read. *)
LEMMA EndedSpeaks ==
  ASSUME FabricTypes, NEW r \in Runs, Asks(r) /\ Knows(r), UNCHANGED vars, holders' = holders,
         run'[r].at = "ended", request'[r] \in {request[r], Bye}
  PROVE  Asks(r)' /\ Knows(r)'
<1>1. durable' = durable /\ acked' = acked
  BY DEF vars, store
<1>2. ~Alive(r)' /\ Bye.type = "bye"
  BY MessageTypes DEF Alive
<1>3. Asks(r)'
  BY <1>1, <1>2 DEF Asks, Fresh
<1>4. Knows(r)'
  BY DEF Knows
<1> QED BY <1>3, <1>4

LEMMA RunStepSpeaks ==
  ASSUME FabricTypes, Links, Speaks, Heard, confirmed \subseteq acked,
         NEW r \in Runs, RunMoves(r)
  PROVE  Speaks' /\ confirmed' \subseteq acked'
<1>1. UNCHANGED vars /\ holders' = holders /\ durable' = durable /\ acked' = acked
  BY RunsLeaveRegistry DEF vars, store
<1>2. /\ Linked(r) /\ Asks(r) /\ Knows(r)
      /\ NoMessage.type = "none"
      /\ Waiting(r) <=> run[r].at \in {"greeting", "publishing"}
  BY MessageTypes DEF Links, Speaks, Waiting
<1>3. CASE ReadCounter(r) \/ WriteCounter(r)
  <2>1. /\ UNCHANGED <<request, reply, confirmed>>
        /\ run[r].at \in {"new", "drawing"}
        /\ ReadCounter(r) \/ Goes(r, "persisted")
    BY <1>3 DEF ReadCounter, WriteCounter, wire
  <2>2. /\ run'[r].at \in {"drawing", "persisted"} /\ run'[r].sent = run[r].sent
        /\ \A s \in Runs : s # r => run'[s] = run[s]
    BY <2>1, RunReads, RunGoes
  <2>3. request'[r].type = "none" /\ reply'[r].type = "none"
    BY <1>2, <2>1 DEF Linked
  <2>4. Asks(r)' /\ Knows(r)'
    BY <1>1, <1>2, <2>1, <2>2, <2>3 DEF Asks, Knows, SpokenUpTo
  <2> QED BY <1>1, <2>1, <2>2, <2>4, OneSpeaks
<1>4. CASE Connect(r) /\ up
  <2>1. /\ run[r].at = "persisted" /\ Goes(r, "greeting")
        /\ request' = [request EXCEPT ![r] = Hello(Incarnation(r))]
        /\ UNCHANGED <<reply, confirmed>>
    BY <1>4 DEF Connect
  <2>2. /\ run'[r].at = "greeting" /\ run'[r].sent = run[r].sent
        /\ run'[r].counter = run[r].counter
        /\ \A s \in Runs : s # r => run'[s] = run[s]
    BY <2>1, RunGoes
  <2>3. /\ request'[r] = Hello(Incarnation(r))
        /\ \A s \in Runs : s # r => request'[s] = request[s]
        /\ Incarnation(r) \in Incarnations /\ Incarnation(r)' = Incarnation(r)
    BY <2>1, <2>2 DEF FabricTypes, Incarnation
  <2>4. request'[r].type = "hello" /\ request'[r].inc = Incarnation(r)
    BY <2>3, MessageTypes
  <2>5. reply'[r].type = "none"
    BY <1>2, <2>1 DEF Linked
  <2>6. Asks(r)'
    BY <2>2, <2>3, <2>4 DEF Asks
  <2>7. Knows(r)'
    BY <1>1, <1>2, <2>1, <2>2, <2>5 DEF Knows, SpokenUpTo
  <2> QED BY <1>1, <2>1, <2>2, <2>3, <2>6, <2>7, OneSpeaks
<1>5. ASSUME Ends(r), request' = request \/ Send(r, Bye),
             reply' = reply \/ Consume(r), confirmed' = confirmed
      PROVE  Speaks' /\ confirmed' \subseteq acked'
  <2>1. run'[r].at = "ended" /\ \A s \in Runs : s # r => run'[s] = run[s]
    BY <1>5, RunEnds
  <2>2. /\ request'[r] \in {request[r], Bye}
        /\ \A s \in Runs : s # r => request'[s] = request[s]
    BY <1>5, SendTypes, MessageTypes
  <2>3. \A s \in Runs : s # r => reply'[s] = reply[s]
    BY <1>5, ConsumeTypes
  <2>4. Asks(r)' /\ Knows(r)'
    BY <1>1, <1>2, <2>1, <2>2, EndedSpeaks
  <2> QED BY <1>1, <1>5, <2>1, <2>2, <2>3, <2>4, OneSpeaks
<1>6. CASE Leave(r) \/ ReceiveFails(r) \/ TimeOut(r) \/ Die(r) \/ (Connect(r) /\ ~up)
  <2>1. /\ Ends(r) /\ confirmed' = confirmed
        /\ request' = request \/ Send(r, Bye)
        /\ reply' = reply \/ Consume(r)
    BY <1>6 DEF Leave, ReceiveFails, TimeOut, Die, Connect, wire
  <2> QED BY <2>1, <1>5
<1>7. CASE ReceiveHelloAck(r)
  <2>1. /\ run[r].at = "greeting" /\ reply[r] # NoMessage /\ Consume(r)
        /\ UNCHANGED <<request, confirmed>>
    BY <1>7 DEF ReceiveHelloAck
  <2>2. CASE reply[r].type # "ok"
    <3>1. Ends(r)
      BY <1>7, <2>2 DEF ReceiveHelloAck
    <3> QED BY <1>5, <2>1, <3>1
  <2>3. CASE reply[r].type = "ok"
    <3>1. /\ run'[r].at = "leased" /\ run'[r].counter = run[r].counter
          /\ run'[r].sent = run[r].sent
          /\ \A s \in Runs : s # r => run'[s] = run[s]
      BY <1>7, <2>3, RunLeases DEF ReceiveHelloAck
    <3>2. /\ reply'[r].type = "none" /\ request'[r].type = "none"
          /\ \A s \in Runs : s # r => reply'[s] = reply[s]
      BY <1>2, <2>1, ConsumeTypes DEF Linked
    <3>3. Voice(r, Incarnation(r)) \in holders
      BY <1>2, <2>1, <2>3 DEF Knows
    <3>4. Asks(r)' /\ Knows(r)'
      BY <1>1, <1>2, <2>1, <3>1, <3>2, <3>3 DEF Asks, Knows, SpokenUpTo, Incarnation, Voice
    <3> QED BY <1>1, <2>1, <3>1, <3>2, <3>4, OneSpeaks
  <2> QED BY <2>2, <2>3
<1>8. CASE ReceivePublishAck(r)
  <2>1. /\ run[r].at = "publishing" /\ reply[r] # NoMessage /\ Consume(r) /\ request' = request
    BY <1>8 DEF ReceivePublishAck
  <2>2. CASE reply[r].type # "ok"
    <3>1. Ends(r) /\ confirmed' = confirmed
      BY <1>8, <2>2 DEF ReceivePublishAck
    <3> QED BY <1>5, <2>1, <3>1
  <2>3. CASE reply[r].type = "ok"
    <3>1. /\ Goes(r, "leased")
          /\ confirmed' = confirmed \union {Confirmation(r, reply[r].value)}
      BY <1>8, <2>3 DEF ReceivePublishAck
    <3>2. /\ run'[r].at = "leased" /\ run'[r].counter = run[r].counter
          /\ run'[r].sent = run[r].sent
          /\ \A s \in Runs : s # r => run'[s] = run[s]
      BY <3>1, RunGoes
    <3>3. /\ reply'[r].type = "none" /\ request'[r].type = "none"
          /\ \A s \in Runs : s # r => reply'[s] = reply[s]
      BY <1>2, <2>1, ConsumeTypes DEF Linked
    <3>4. /\ Voice(r, Incarnation(r)) \in holders
          /\ Confirmation(r, reply[r].value) \in acked
      BY <1>2, <2>1, <2>3 DEF Knows
    <3>5. Asks(r)' /\ Knows(r)'
      BY <1>1, <1>2, <2>1, <3>2, <3>3, <3>4 DEF Asks, Knows, SpokenUpTo, Incarnation, Voice
    <3> QED BY <1>1, <2>1, <3>1, <3>2, <3>3, <3>4, <3>5, OneSpeaks
  <2> QED BY <2>2, <2>3
<1>9. CASE Declare(r)
  <2> DEFINE c   == Declaration(r, run[r].sent + 1)
             msg == PublishCapability(r.resource, c, Incarnation(r), run[r].epoch)
  <2>1. /\ run[r].at = "leased" /\ Send(r, msg) /\ UNCHANGED <<reply, confirmed>>
    BY <1>9 DEF Declare
  <2>2. /\ run'[r].at = "publishing" /\ run'[r].counter = run[r].counter
        /\ run'[r].sent = run[r].sent + 1 /\ run[r].sent \in Nat
        /\ run[r].sent + 1 \in 1..Publishes
        /\ \A s \in Runs : s # r => run'[s] = run[s]
    BY <1>9, RunDeclares, FabricBounds
  <2>3. c \in Declarations /\ r.resource \in Evidence /\ c.run = r /\ c.k = run[r].sent + 1
    BY <2>2, RunFields DEF Declaration
  <2>4. run[r].epoch \in Nat /\ Incarnation(r) \in Incarnations
    BY <2>1 DEF FabricTypes, RunStates
  <2> HIDE DEF c
  <2>5. /\ msg \in Requests /\ msg.type = "publish" /\ msg.id = r.resource
        /\ msg.content = c /\ msg.inc = Incarnation(r)
    BY <2>3, <2>4, DeclarationTypes
  <2> HIDE DEF msg
  <2>6. /\ request'[r] = IF Connected(r) THEN msg ELSE request[r]
        /\ \A s \in Runs : s # r => request'[s] = request[s]
    BY <2>1, <2>5, SendTypes
  <2>7. Alive(r) /\ Alive(r)' /\ Incarnation(r)' = Incarnation(r)
    BY <2>1, <2>2 DEF Alive, Incarnation
  <2>8. request[r].type \notin {"hello", "publish"}
    BY <1>2, <2>1, <2>7 DEF Asks
  <2>9. SpokenUpTo(r, run[r].sent) /\ Voice(r, Incarnation(r)) \in holders
    BY <1>2, <2>1 DEF Knows
  <2>10. \A id \in Evidence : \A i \in 1..Len(durable.entries[id]) :
           durable.entries[id][i].content.k \in Int
    <3>1. \A id \in Evidence : \A i \in 1..Len(durable.entries[id]) :
            durable.entries[id][i].content \in Declarations
      BY DEF Heard, Declared
    <3>2. \A d \in Declarations : d.k \in Int
      BY FabricBounds DEF Declarations
    <3> QED BY <3>1, <3>2
  <2>11. Fresh(c)
    BY <2>2, <2>3, <2>9 DEF Fresh, SpokenUpTo
  <2>12. SpokenUpTo(r, run[r].sent + 1)
    BY <2>2, <2>9, <2>10 DEF SpokenUpTo
  <2>13. Asks(r)'
    <3>1. CASE Connected(r)
      <4>1. request'[r] = msg /\ Declaration(r, run'[r].sent) = c
        BY <2>2, <2>6, <3>1 DEF c
      <4>2. /\ request'[r].type = "publish" /\ request'[r].id = r.resource
            /\ request'[r].content = c /\ request'[r].inc = Incarnation(r)'
            /\ Voice(r, request'[r].inc) \in holders'
        BY <1>1, <2>5, <2>7, <2>9, <4>1
      <4>3. Fresh(request[r].content)'
        BY <1>1, <2>11, <4>2 DEF Fresh
      <4> QED BY <2>2, <2>3, <4>1, <4>2, <4>3 DEF Asks, Voice
    <3>2. CASE ~Connected(r)
      BY <2>6, <2>8, <3>2 DEF Asks
    <3> QED BY <3>1, <3>2
  <2>14. Knows(r)'
    <3>1. reply'[r].type = "none"
      BY <1>2, <2>1 DEF Linked
    <3> QED BY <1>1, <2>2, <2>7, <2>9, <2>12, <3>1 DEF Knows, SpokenUpTo, Voice
  <2> QED BY <1>1, <2>1, <2>2, <2>6, <2>13, <2>14, OneSpeaks
<1> QED BY <1>3, <1>4, <1>6, <1>7, <1>8, <1>9 DEF RunMoves, RunStep

-----------------------------------------------------------------------------
(* The counter file                                                        *)

LEMMA CounterNumbers ==
  ASSUME FabricTypes, NEW r \in Runs
  PROVE  /\ r.pub \in Publishers /\ boot[r.pub] \in Nat
         /\ run[r].counter \in Nat /\ Incarnation(r) \in Nat
         /\ request[r].type = "hello" => request[r].inc \in Nat
<1>1. r.pub \in Publishers /\ boot[r.pub] \in 0..MaxIncarnation /\ run[r] \in RunStates
  BY RunFields DEF FabricTypes
<1>2. run[r].counter \in Nat /\ boot[r.pub] \in Nat
  BY <1>1, FabricBounds DEF RunStates
<1>3. request[r].type = "hello" => request[r].inc \in Nat
  BY RequestKinds, FabricBounds DEF Incarnations
<1> QED BY <1>1, <1>2, <1>3 DEF Incarnation

(* Nobody touches the counter, and whoever has drawn had drawn before.     *)
LEMMA CountersKept ==
  ASSUME FabricTypes, Counters, boot' = boot, raced \subseteq raced',
         \A p \in Publishers \ raced : durable'.watermark[p] <= boot[p],
         \A r \in Runs :
           /\ run'[r].at = "drawing" =>
                run[r].at = "drawing" /\ run'[r].counter = run[r].counter
           /\ Drawn(r)' => Drawn(r) /\ run'[r].counter = run[r].counter
           /\ request'[r].type = "hello" =>
                \/ request[r].type = "hello" /\ request'[r].inc = request[r].inc
                \/ Drawn(r) /\ request'[r].inc = Incarnation(r)
  PROVE  Counters'
<1>1. ASSUME NEW p \in Publishers \ raced', NEW r \in Runs, r.pub = p
      PROVE  /\ run'[r].at = "drawing" => run'[r].counter = boot'[p]
             /\ Drawn(r)' => Incarnation(r)' <= boot'[p]
             /\ request'[r].type = "hello" => request'[r].inc <= boot'[p]
             /\ \A s \in Runs : s.pub = p /\ r # s =>
                  /\ ~(run'[r].at = "drawing" /\ run'[s].at = "drawing")
                  /\ Drawn(r)' /\ Drawn(s)' => Incarnation(r)' # Incarnation(s)'
  <2>1. p \in Publishers \ raced
    BY <1>1
  <2>2. Drawn(r)' => Incarnation(r)' = Incarnation(r)
    BY DEF Incarnation
  <2>3. \A s \in Runs : Drawn(s)' => Incarnation(s)' = Incarnation(s)
    BY DEF Incarnation
  <2> QED BY <1>1, <2>1, <2>2, <2>3 DEF Counters
<1> QED BY <1>1 DEF Counters

LEMMA RunStepCounters ==
  ASSUME Inv, FabricTypes, Counters, NEW r \in Runs, RunMoves(r)
  PROVE  Counters'
<1>1. durable' = durable
  BY RunsLeaveRegistry DEF vars, store
<1>2. \A p \in Publishers \ raced : durable'.watermark[p] <= boot[p]
  BY <1>1 DEF Counters
<1>3. CASE ReadCounter(r)
  <2>1. /\ boot' = boot /\ request' = request
        /\ raced' = IF \E s \in Runs : s.pub = r.pub /\ run[s].at = "drawing"
                      THEN raced \union {r.pub} ELSE raced
    BY <1>3 DEF ReadCounter, wire
  <2>2. /\ run'[r].at = "drawing" /\ run'[r].counter = boot[r.pub]
        /\ \A s \in Runs : s # r => run'[s] = run[s]
    BY <1>3, RunReads
  <2>3. \A s \in Runs : s # r => (Drawn(s)' <=> Drawn(s)) /\ Incarnation(s)' = Incarnation(s)
    BY <2>2 DEF Drawn, Incarnation
  <2>4. ~Drawn(r)'
    BY <2>2 DEF Drawn
  <2>5. ASSUME NEW p \in Publishers \ raced', NEW s \in Runs, s.pub = p
        PROVE  /\ run'[s].at = "drawing" => run'[s].counter = boot'[p]
               /\ Drawn(s)' => Incarnation(s)' <= boot'[p]
               /\ request'[s].type = "hello" => request'[s].inc <= boot'[p]
               /\ \A t \in Runs : t.pub = p /\ s # t =>
                    /\ ~(run'[s].at = "drawing" /\ run'[t].at = "drawing")
                    /\ Drawn(s)' /\ Drawn(t)' => Incarnation(s)' # Incarnation(t)'
    <3>1. p \in Publishers \ raced
      BY <2>1, <2>5
    <3>2. r.pub = p => \A t \in Runs : t.pub = p => run[t].at # "drawing"
      BY <2>1, <2>5
    <3>3. CASE s = r
      BY <2>1, <2>2, <2>4, <2>5, <3>1, <3>2, <3>3 DEF Counters
    <3>4. CASE s # r
      BY <2>1, <2>2, <2>3, <2>4, <2>5, <3>1, <3>2, <3>4 DEF Counters
    <3> QED BY <3>3, <3>4
  <2> QED BY <1>2, <2>1, <2>5 DEF Counters
<1>4. CASE WriteCounter(r)
  <2>1. /\ boot' = [boot EXCEPT ![r.pub] = Incarnation(r)] /\ UNCHANGED <<request, raced>>
        /\ run[r].at = "drawing" /\ Goes(r, "persisted")
    BY <1>4 DEF WriteCounter, wire
  <2>2. /\ run'[r].at = "persisted" /\ run'[r].counter = run[r].counter
        /\ \A s \in Runs : s # r => run'[s] = run[s]
    BY <2>1, RunGoes
  <2>3. \A s \in Runs : s # r => (Drawn(s)' <=> Drawn(s)) /\ Incarnation(s)' = Incarnation(s)
    BY <2>2 DEF Drawn, Incarnation
  <2>4. Incarnation(r)' = Incarnation(r)
    BY <2>2 DEF Incarnation
  <2>5. boot \in [Publishers -> 0..MaxIncarnation]
    BY DEF FabricTypes
  <2>6. ASSUME NEW p \in Publishers \ raced
        PROVE  /\ durable'.watermark[p] <= boot'[p]
               /\ \A s \in Runs : s.pub = p =>
                    /\ run'[s].at = "drawing" => run'[s].counter = boot'[p]
                    /\ Drawn(s)' => Incarnation(s)' <= boot'[p]
                    /\ request'[s].type = "hello" => request'[s].inc <= boot'[p]
                    /\ \A t \in Runs : t.pub = p /\ s # t =>
                         /\ ~(run'[s].at = "drawing" /\ run'[t].at = "drawing")
                         /\ Drawn(s)' /\ Drawn(t)' => Incarnation(s)' # Incarnation(t)'
    <3>1. CASE r.pub # p
      <4>1. boot'[p] = boot[p]
        BY <2>1, <2>5, <3>1
      <4>2. \A s \in Runs : s.pub = p => s # r
        BY <3>1
      <4> QED BY <1>2, <2>1, <2>2, <2>3, <2>6, <4>1, <4>2 DEF Counters
    <3>2. CASE r.pub = p
      <4>1. run[r].counter = boot[p]
        BY <2>1, <2>6, <3>2 DEF Counters
      <4>2. Incarnation(r) = boot[p] + 1 /\ boot'[p] = boot[p] + 1
        BY <2>1, <2>5, <3>2, <4>1 DEF Incarnation
      <4>3. boot[p] \in Nat /\ \A s \in Runs : Incarnation(s) \in Nat
        BY <3>2, CounterNumbers
      <4>5. \A s \in Runs : s.pub = p /\ s # r => run[s].at # "drawing"
        BY <2>1, <2>6, <3>2 DEF Counters
      <4>6. \A s \in Runs : request[s].type = "hello" => request[s].inc \in Nat
        BY CounterNumbers
      <4>7. ASSUME NEW s \in Runs, s.pub = p
            PROVE  /\ run'[s].at # "drawing"
                   /\ Drawn(s)' => Incarnation(s)' <= boot'[p]
                   /\ request'[s].type = "hello" => request'[s].inc <= boot'[p]
        <5>1. run'[s].at # "drawing"
          BY <2>2, <4>5, <4>7
        <5>2. Drawn(s)' => Incarnation(s)' <= boot'[p]
          <6>1. CASE s = r
            BY <2>4, <4>2, <4>3, <6>1
          <6>2. CASE s # r
            <7>1. Drawn(s) => Incarnation(s) <= boot[p]
              BY <2>6, <4>7 DEF Counters
            <7> QED BY <2>3, <4>2, <4>3, <6>2, <7>1
          <6> QED BY <6>1, <6>2
        <5>3. request'[s].type = "hello" => request'[s].inc <= boot'[p]
          <6>1. request[s].type = "hello" => request[s].inc <= boot[p]
            BY <2>6, <4>7 DEF Counters
          <6> QED BY <2>1, <4>2, <4>3, <4>6, <6>1
        <5> QED BY <5>1, <5>2, <5>3
      <4>8. ASSUME NEW s \in Runs, NEW t \in Runs, s.pub = p, t.pub = p, s # t,
                   Drawn(s)', Drawn(t)'
            PROVE  Incarnation(s)' # Incarnation(t)'
        <5>1. \A u \in Runs : u.pub = p /\ Drawn(u) => Incarnation(u) <= boot[p]
          BY <2>6 DEF Counters
        <5>2. CASE s = r
          BY <2>3, <2>4, <4>2, <4>3, <4>8, <5>1, <5>2
        <5>3. CASE t = r
          BY <2>3, <2>4, <4>2, <4>3, <4>8, <5>1, <5>3
        <5>4. CASE s # r /\ t # r
          BY <2>3, <2>6, <4>8, <5>4 DEF Counters
        <5> QED BY <5>2, <5>3, <5>4
      <4>9. durable'.watermark[p] <= boot'[p]
        <5>1. durable.watermark[p] \in Nat
          BY FabricBounds DEF Inv, TypeOK, Images
        <5> QED BY <1>1, <1>2, <2>6, <4>2, <4>3, <5>1
      <4> QED BY <4>7, <4>8, <4>9
    <3> QED BY <3>1, <3>2
  <2> QED BY <2>1, <2>6 DEF Counters
<1>5. ASSUME boot' = boot, raced' = raced,
             run'[r].at # "drawing", Drawn(r)' => Drawn(r),
             Drawn(r)' => run'[r].counter = run[r].counter,
             \A s \in Runs : s # r => run'[s] = run[s],
             \A s \in Runs : s # r => request'[s] = request[s],
             \/ request'[r].type = "hello" => request'[r] = request[r]
             \/ Drawn(r) /\ request'[r].inc = Incarnation(r)
      PROVE  Counters'
  <2>1. ASSUME NEW s \in Runs
        PROVE  /\ run'[s].at = "drawing" =>
                    run[s].at = "drawing" /\ run'[s].counter = run[s].counter
               /\ Drawn(s)' => Drawn(s) /\ run'[s].counter = run[s].counter
               /\ request'[s].type = "hello" =>
                    \/ request[s].type = "hello" /\ request'[s].inc = request[s].inc
                    \/ Drawn(s) /\ request'[s].inc = Incarnation(s)
    <3>1. CASE s = r
      BY <1>5, <3>1
    <3>2. CASE s # r
      BY <1>5, <3>2 DEF Drawn
    <3> QED BY <3>1, <3>2
  <2> QED BY <1>2, <1>5, <2>1, CountersKept
<1>6. CASE Connect(r) /\ up
  <2>1. /\ run[r].at = "persisted" /\ Goes(r, "greeting") /\ UNCHANGED <<boot, raced>>
        /\ request' = [request EXCEPT ![r] = Hello(Incarnation(r))]
    BY <1>6 DEF Connect
  <2>2. /\ run'[r].at = "greeting" /\ run'[r].counter = run[r].counter
        /\ \A s \in Runs : s # r => run'[s] = run[s]
    BY <2>1, RunGoes
  <2>3. /\ request'[r].inc = Incarnation(r)
        /\ \A s \in Runs : s # r => request'[s] = request[s]
    BY <2>1 DEF FabricTypes, Hello
  <2>4. Drawn(r)
    BY <2>1 DEF Drawn
  <2> QED BY <1>5, <2>1, <2>2, <2>3, <2>4
<1>7. CASE Leave(r) \/ ReceiveFails(r) \/ TimeOut(r) \/ Die(r) \/ (Connect(r) /\ ~up)
  <2>1. /\ Ends(r) /\ UNCHANGED <<boot, raced>>
        /\ request' = request \/ Send(r, Bye)
    BY <1>7 DEF Leave, ReceiveFails, TimeOut, Die, Connect, wire
  <2>2. run'[r].at = "ended" /\ ~Drawn(r)' /\ \A s \in Runs : s # r => run'[s] = run[s]
    BY <2>1, RunEnds DEF Drawn
  <2>3. /\ request'[r].type = "hello" => request'[r] = request[r]
        /\ \A s \in Runs : s # r => request'[s] = request[s]
    BY <2>1, SendTypes, MessageTypes
  <2> QED BY <1>5, <2>1, <2>2, <2>3
<1>8. CASE ReceiveHelloAck(r) \/ ReceivePublishAck(r)
  <2>1. /\ UNCHANGED <<boot, raced, request>> /\ run[r].at \in {"greeting", "publishing"}
    BY <1>8 DEF ReceiveHelloAck, ReceivePublishAck
  <2>2. /\ run'[r].at = "ended" \/ (run'[r].at = "leased" /\ run'[r].counter = run[r].counter)
        /\ \A s \in Runs : s # r => run'[s] = run[s]
    <3>1. CASE ReceiveHelloAck(r)
      BY <3>1, RunEnds, RunLeases DEF ReceiveHelloAck
    <3>2. CASE ReceivePublishAck(r)
      BY <3>2, RunEnds, RunGoes DEF ReceivePublishAck
    <3> QED BY <1>8, <3>1, <3>2
  <2>3. Drawn(r) /\ run'[r].at # "drawing" /\ (Drawn(r)' => run'[r].counter = run[r].counter)
    BY <2>1, <2>2 DEF Drawn
  <2> QED BY <1>5, <2>1, <2>2, <2>3
<1>9. CASE Declare(r)
  <2> DEFINE msg == PublishCapability(r.resource, Declaration(r, run[r].sent + 1),
                                      Incarnation(r), run[r].epoch)
  <2>1. /\ run[r].at = "leased" /\ Send(r, msg) /\ UNCHANGED <<boot, raced>>
    BY <1>9 DEF Declare
  <2>2. /\ run'[r].at = "publishing" /\ run'[r].counter = run[r].counter
        /\ \A s \in Runs : s # r => run'[s] = run[s]
    BY <1>9, RunDeclares
  <2>3. /\ request'[r].type = "hello" => request'[r] = request[r]
        /\ \A s \in Runs : s # r => request'[s] = request[s]
    BY <2>1 DEF Send, FabricTypes, PublishCapability
  <2>4. Drawn(r) /\ run'[r].at # "drawing"
    BY <2>1, <2>2 DEF Drawn
  <2> QED BY <1>5, <2>1, <2>2, <2>3, <2>4
<1> QED BY <1>3, <1>4, <1>6, <1>7, <1>8, <1>9 DEF RunMoves, RunStep

-----------------------------------------------------------------------------
(* What the tables of an image say of a content, of a run and of holders.  *)
FreshIn(img, content) ==
  \A id \in Evidence : \A i \in 1..Len(img.entries[id]) :
    img.entries[id][i].content # content

SpokenIn(img, r, n) ==
  \A id \in Evidence : \A i \in 1..Len(img.entries[id]) :
    img.entries[id][i].content.run = r => img.entries[id][i].content.k <= n

DeclaredIn(e, hs) ==
  /\ e.content \in Declarations
  /\ [pub |-> e.by.pub, inc |-> e.by.inc, run |-> e.content.run] \in hs

HeardIn(img, hs) ==
  \A id \in Evidence : \A i \in 1..Len(img.entries[id]) :
    /\ DeclaredIn(img.entries[id][i], hs)
    /\ \A j \in 1..Len(img.entries[id]) :
         i # j => img.entries[id][i].content # img.entries[id][j].content

LEMMA TablesSay ==
  /\ \A c : Fresh(c) <=> FreshIn(durable, c)
  /\ \A r, n : SpokenUpTo(r, n) <=> SpokenIn(durable, r, n)
  /\ Heard <=> HeardIn(durable, holders)
  BY DEF Fresh, FreshIn, SpokenUpTo, SpokenIn, Heard, HeardIn, Declared, DeclaredIn

LEMMA SuffixPlaces ==
  ASSUME NEW S, NEW s \in Seq(S), NEW l \in Seq(S), Suffix(s, l)
  PROVE  \E k \in Nat : \A i \in 1..Len(s) : i + k \in 1..Len(l) /\ s[i] = l[i + k]
<1> DEFINE k == Len(l) - Len(s)
<1>1. k \in Nat /\ \A i \in 1..Len(s) : i + k \in 1..Len(l)
  BY LenProperties DEF Suffix
<1>2. \A i \in 1..Len(s) : s[i] = l[i + k]
  BY DEF Suffix
<1> HIDE DEF k
<1> QED BY <1>1, <1>2

(* Pruning and rolling back say nothing new.                               *)
LEMMA ShrunkTables ==
  ASSUME NEW b \in Images, NEW d \in Images, Kept(b, d)
  PROVE  /\ \A c : FreshIn(d, c) => FreshIn(b, c)
         /\ \A r, n : SpokenIn(d, r, n) => SpokenIn(b, r, n)
         /\ \A hs : HeardIn(d, hs) => HeardIn(b, hs)
<1>1. ASSUME NEW id \in Evidence
      PROVE  \E k \in Nat : \A i \in 1..Len(b.entries[id]) :
               /\ i + k \in 1..Len(d.entries[id])
               /\ b.entries[id][i] = d.entries[id][i + k]
  <2>1. b.entries[id] \in Seq(Entries) /\ d.entries[id] \in Seq(Entries)
    BY DEF Images, Ids
  <2>2. Suffix(b.entries[id], d.entries[id])
    BY DEF Kept, Ids
  <2> DEFINE s == b.entries[id]
             l == d.entries[id]
  <2> HIDE DEF s, l
  <2>3. s \in Seq(Entries) /\ l \in Seq(Entries) /\ Suffix(s, l)
    BY <2>1, <2>2 DEF s, l
  <2>4. \E k \in Nat : \A i \in 1..Len(s) : i + k \in 1..Len(l) /\ s[i] = l[i + k]
    BY <2>3, SuffixPlaces
  <2> QED BY <2>4, Zenon DEF s, l
<1>2. \A c : FreshIn(d, c) => FreshIn(b, c)
  BY <1>1 DEF FreshIn
<1>3. ASSUME NEW r, NEW n, SpokenIn(d, r, n) PROVE SpokenIn(b, r, n)
  <2>1. ASSUME NEW id \in Evidence, NEW i \in 1..Len(b.entries[id])
        PROVE  b.entries[id][i].content.run = r => b.entries[id][i].content.k <= n
    <3>1. PICK j \in 1..Len(d.entries[id]) : b.entries[id][i] = d.entries[id][j]
      BY <1>1
    <3> QED BY <1>3, <3>1 DEF SpokenIn
  <2> QED BY <2>1 DEF SpokenIn
<1>4. ASSUME NEW hs, HeardIn(d, hs) PROVE HeardIn(b, hs)
  <2>1. ASSUME NEW id \in Evidence, NEW i \in 1..Len(b.entries[id])
        PROVE  /\ DeclaredIn(b.entries[id][i], hs)
               /\ \A j \in 1..Len(b.entries[id]) :
                    i # j => b.entries[id][i].content # b.entries[id][j].content
    <3>1. PICK k \in Nat : \A j \in 1..Len(b.entries[id]) :
             /\ j + k \in 1..Len(d.entries[id])
             /\ b.entries[id][j] = d.entries[id][j + k]
      BY <1>1
    <3>2. DeclaredIn(b.entries[id][i], hs)
      BY <1>4, <3>1 DEF HeardIn
    <3>3. ASSUME NEW j \in 1..Len(b.entries[id]), i # j
          PROVE  b.entries[id][i].content # b.entries[id][j].content
      <4>1. i \in Int /\ j \in Int
        OBVIOUS
      <4>2. i + k # j + k
        BY <3>1, <3>3, <4>1
      <4> QED BY <1>4, <3>1, <4>2 DEF HeardIn
    <3> QED BY <3>2, <3>3
  <2> QED BY <2>1 DEF HeardIn
<1> QED BY <1>2, <1>3, <1>4

(* A publication says one thing more.                                      *)
LEMMA GrownTables ==
  ASSUME NEW b \in Images, NEW id \in Evidence, NEW e \in Entries, NEW d,
         d.entries = [b.entries EXCEPT ![id] = Append(b.entries[id], e)]
  PROVE  /\ \A c : FreshIn(b, c) /\ e.content # c => FreshIn(d, c)
         /\ \A r, n : SpokenIn(b, r, n) /\ (e.content.run = r => e.content.k <= n)
                        => SpokenIn(d, r, n)
         /\ \A hs : HeardIn(b, hs) /\ FreshIn(b, e.content) /\ DeclaredIn(e, hs)
                      => HeardIn(d, hs)
<1>1. b.entries[id] \in Seq(Entries) /\ b.entries \in [Ids -> Seq(Entries)] /\ Evidence \subseteq Ids
  BY DEF Images, Ids
<1>2. \A x \in Evidence : x # id => d.entries[x] = b.entries[x]
  BY <1>1
<1>3. d.entries[id] = Append(b.entries[id], e)
  BY <1>1
<1>4. /\ Len(d.entries[id]) = Len(b.entries[id]) + 1 /\ Len(b.entries[id]) \in Nat
      /\ \A i \in 1..Len(b.entries[id]) : d.entries[id][i] = b.entries[id][i]
      /\ d.entries[id][Len(b.entries[id]) + 1] = e
  BY <1>1, <1>3, AppendProperties, LenProperties
<1>5. \A i \in 1..Len(d.entries[id]) :
        i \in 1..Len(b.entries[id]) \/ i = Len(b.entries[id]) + 1
  BY <1>4
<1>6. ASSUME NEW c, FreshIn(b, c), e.content # c PROVE FreshIn(d, c)
  BY <1>2, <1>4, <1>5, <1>6 DEF FreshIn
<1>7. ASSUME NEW r, NEW n, SpokenIn(b, r, n), e.content.run = r => e.content.k <= n
      PROVE  SpokenIn(d, r, n)
  BY <1>2, <1>4, <1>5, <1>7 DEF SpokenIn
<1>8. ASSUME NEW hs, HeardIn(b, hs), FreshIn(b, e.content), DeclaredIn(e, hs)
      PROVE  HeardIn(d, hs)
  <2>1. ASSUME NEW i \in 1..Len(d.entries[id])
        PROVE  /\ DeclaredIn(d.entries[id][i], hs)
               /\ \A j \in 1..Len(d.entries[id]) :
                    i # j => d.entries[id][i].content # d.entries[id][j].content
    BY <1>4, <1>5, <1>8 DEF HeardIn, FreshIn
  <2> QED BY <1>2, <1>8, <2>1 DEF HeardIn
<1> QED BY <1>6, <1>7, <1>8

(* What a journalled mutation leaves: an image of the old tables, with the *)
(* record applied when its commit is durable.                              *)
LEMMA JournalledImage ==
  ASSUME Inv, TableInv, up,
         NEW rec \in JournalRecords, NEW compactFirst \in BOOLEAN, NEW outcome \in Outcomes,
         Journalled(rec, compactFirst, outcome)
  PROVE  /\ \E base \in Images :
              /\ Kept(base, durable) /\ base.watermark = durable.watermark
              /\ durable' = IF outcome \in {"committed", "crashed"}
                              THEN Apply(base, rec) ELSE base
         /\ outcome = "crashed" <=> ~up'
         /\ outcome \in {"not staged", "rolled back"} =>
              mem' \in Images /\ Kept(mem', durable)
         /\ outcome = "committed" => \E before \in Images : mem' = Live(before, rec)
<1> DEFINE compacts == compactFirst \/ ~StageFits
           before   == IF compacts THEN Prune(mem) ELSE mem
           base     == IF compacts THEN Prune(mem) ELSE durable
<1>1. /\ mem \in Images /\ durable \in Images /\ mem.watermark = durable.watermark
      /\ up = TRUE
  BY DEF Inv, TypeOK, FencingIsDurable
<1>2. Prune(mem) \in Images /\ Prune(mem).watermark = mem.watermark
  BY <1>1, PruneKeepsFencing
<1>3. Kept(mem, durable) /\ Kept(Prune(mem), durable) /\ Kept(durable, durable)
  BY <1>1, PruneKept, KeptItself DEF TableInv
<1>4. /\ before \in Images /\ base \in Images /\ base.watermark = durable.watermark
      /\ Kept(before, durable) /\ Kept(base, durable)
  BY <1>1, <1>2, <1>3
<1> HIDE DEF before, base
<1>5. /\ Rollback(before, Live(before, rec), rec) \in Images
      /\ Rollback(before, Live(before, rec), rec).entries = before.entries
  BY <1>4, RollbackFencing, RecordEntries
<1>6. Kept(Rollback(before, Live(before, rec), rec), durable)
  BY <1>4, <1>5 DEF Kept
<1>7. CASE outcome = "not staged"
  <2>1. mem' = before /\ durable' = base /\ up' = up
    BY <1>7 DEF Journalled, before, base
  <2> QED BY <1>1, <1>4, <1>7, <2>1
<1>8. CASE outcome = "rolled back"
  <2>1. mem' = Rollback(before, Live(before, rec), rec) /\ durable' = base /\ up' = up
    BY <1>8 DEF Journalled, before, base
  <2> QED BY <1>1, <1>4, <1>5, <1>6, <1>8, <2>1
<1>9. CASE outcome = "committed"
  <2>1. mem' = Live(before, rec) /\ durable' = Apply(base, rec) /\ up' = up
    BY <1>9 DEF Journalled, before, base
  <2> QED BY <1>1, <1>4, <1>9, <2>1
<1>10. CASE outcome = "crashed"
  <2>1. durable' = Apply(base, rec) /\ up' = FALSE
    BY <1>10 DEF Journalled, Down, base
  <2> QED BY <1>4, <1>10, <2>1
<1> QED BY <1>7, <1>8, <1>9, <1>10 DEF Outcomes

(* What granting a lease does to the tables.                               *)
LEMMA GrantLeaseEffect ==
  ASSUME Inv, TableInv, up, NEW p \in Publishers, NEW inc \in Incarnations,
         GrantLease(p, inc)
  PROVE  /\ Kept(durable', durable)
         /\ \A q \in Publishers :
              \/ durable'.watermark[q] = durable.watermark[q]
              \/ q = p /\ durable'.watermark[q] = inc
         /\ durable.watermark[p] < inc
         /\ acked' = acked
         /\ up' /\ leases'[p] = RegisteredLease(inc) => durable'.watermark[p] = inc
<1> DEFINE rec == RegisterRecord(p, inc)
<1>1. PICK outcome \in Outcomes :
        /\ Journalled(rec, FALSE, outcome)
        /\ outcome # "crashed" => leases' = LeasesAfterRegister(p, inc, outcome)
  BY DEF GrantLease
<1>2. /\ acked' = acked /\ mem.watermark[p] < inc /\ mem.watermark = durable.watermark
      /\ leases \in [Publishers -> Leases] /\ inc \in Nat \ {0}
      /\ durable.watermark \in [Publishers -> Nat]
      /\ leases[p] # NoLease => leases[p].inc = mem.watermark[p]
  BY RegistryAssumption
     DEF GrantLease, Admits, Inv, FencingIsDurable, Fenced, TypeOK, Images, Incarnations
<1>3. rec \in JournalRecords /\ rec.kind = "register" /\ rec.pub = p /\ rec.inc = inc
  BY DEF RegisterRecord, JournalRecords
<1> HIDE DEF rec
<1>4. PICK base \in Images :
        /\ Kept(base, durable) /\ base.watermark = durable.watermark
        /\ durable' = IF outcome \in {"committed", "crashed"} THEN Apply(base, rec) ELSE base
  BY <1>1, <1>3, JournalledImage
<1>5. outcome = "crashed" <=> ~up'
  BY <1>1, <1>3, JournalledImage
<1>6. CASE outcome \in {"committed", "crashed"}
  <2>1. durable'.entries = base.entries
    BY <1>3, <1>4, <1>6, RecordEntries
  <2>2. durable'.watermark = [durable.watermark EXCEPT ![p] = inc]
    BY <1>2, <1>3, <1>4, <1>6, ApplyFencing
  <2>3. Kept(durable', durable)
    BY <1>4, <2>1 DEF Kept
  <2> QED BY <1>2, <2>2, <2>3
<1>7. CASE outcome \in {"not staged", "rolled back"}
  <2>1. leases'[p] # RegisteredLease(inc)
    <3>1. NoLease # RegisteredLease(inc)
      BY <1>2 DEF NoLease, RegisteredLease
    <3>2. leases' = LeasesAfterRegister(p, inc, outcome)
      BY <1>1, <1>7
    <3>3. CASE outcome = "rolled back"
      BY <1>2, <3>1, <3>2, <3>3 DEF LeasesAfterRegister
    <3>4. CASE outcome = "not staged"
      <4>1. leases'[p] = leases[p]
        BY <3>2, <3>4 DEF LeasesAfterRegister
      <4>2. leases[p] = RegisteredLease(inc) => mem.watermark[p] = inc
        BY <1>2, <3>1 DEF RegisteredLease
      <4> QED BY <1>2, <4>1, <4>2
    <3> QED BY <1>7, <3>3, <3>4
  <2> QED BY <1>2, <1>4, <1>7, <2>1
<1> QED BY <1>6, <1>7 DEF Outcomes

(* What accepting evidence of a new content does to the tables, and what   *)
(* the server can tell the run from memory.                                *)
LEMMA AcceptEffect ==
  ASSUME Inv, TableInv, up, NEW id \in Evidence, NEW content \in Contents, NEW by \in Holders,
         Accept(id, content, by), FreshIn(durable, content)
  PROVE  \E base \in Images, e \in Entries :
           /\ e.content = content /\ e.by = by
           /\ Kept(base, durable)
           /\ \/ durable'.entries = base.entries
              \/ durable'.entries = [base.entries EXCEPT ![id] = Append(base.entries[id], e)]
           /\ durable'.watermark = durable.watermark
           /\ acked \subseteq acked'
           /\ up' /\ mem'.entries[id] # <<>> /\ Latest(mem'.entries[id]).content = content =>
                [id |-> id, gen |-> Latest(mem'.entries[id]).gen,
                 content |-> content, by |-> by] \in acked'
<1> DEFINE list == mem.entries[id]
           gen  == IF list = <<>> THEN 1 ELSE Latest(list).gen + 1
           e    == Entry(gen, content, by)
           rec  == PublishRecord(id, e)
           ack  == [id |-> id, gen |-> gen, content |-> content, by |-> by]
<1>1. /\ list \in Seq(Entries) /\ mem.epoch \in Epochs /\ id \in Ids /\ durable \in Images
  BY DEF Inv, TypeOK, Images, Ids
<1>2. PICK outcome \in Outcomes :
        /\ Journalled(rec, CompactsFirst(list), outcome)
        /\ acked' = IF outcome = "committed" THEN acked \union {ack} ELSE acked
  BY DEF Accept
<1>3. gen \in 1..MaxGeneration
  <2>1. gen <= MaxGeneration
    BY DEF Accept
  <2>2. list # <<>> => Latest(list).gen \in 1..MaxGeneration
    BY <1>1, LatestType DEF Entries
  <2> HIDE DEF list
  <2> QED BY <2>1, <2>2, RegistryAssumption
<1>4. CompactsFirst(list) \in BOOLEAN
  BY DEF CompactsFirst
<1> HIDE DEF gen, list
<1>5. /\ e \in Entries /\ e.content = content /\ e.by = by /\ e.gen = gen
      /\ rec \in JournalRecords /\ rec.kind = "publish" /\ rec.id = id /\ rec.entry = e
  BY <1>1, <1>3 DEF PublishRecord, Entry, Entries, JournalRecords
<1> HIDE DEF e, rec
<1>6. PICK base \in Images :
        /\ Kept(base, durable) /\ base.watermark = durable.watermark
        /\ durable' = IF outcome \in {"committed", "crashed"} THEN Apply(base, rec) ELSE base
  BY <1>2, <1>4, <1>5, JournalledImage
<1>7. /\ outcome = "crashed" <=> ~up'
      /\ outcome \in {"not staged", "rolled back"} => mem' \in Images /\ Kept(mem', durable)
      /\ outcome = "committed" => \E before \in Images : mem' = Live(before, rec)
  BY <1>2, <1>4, <1>5, JournalledImage
<1>8. /\ \/ durable'.entries = base.entries
         \/ durable'.entries = [base.entries EXCEPT ![id] = Append(base.entries[id], e)]
      /\ durable'.watermark = durable.watermark
  <2>1. CASE outcome \in {"committed", "crashed"}
    <3>1. Apply(base, rec).entries = [base.entries EXCEPT ![id] = Append(base.entries[id], e)]
      BY <1>5, RecordEntries
    <3>2. Apply(base, rec).watermark = base.watermark
      BY <1>5, ApplyFencing
    <3> QED BY <1>6, <2>1, <3>1, <3>2
  <2>2. CASE outcome \notin {"committed", "crashed"}
    BY <1>6, <2>2
  <2> QED BY <2>1, <2>2
<1>9. ASSUME up', mem'.entries[id] # <<>>, Latest(mem'.entries[id]).content = content
      PROVE  [id |-> id, gen |-> Latest(mem'.entries[id]).gen,
              content |-> content, by |-> by] \in acked'
  <2>1. outcome # "crashed"
    BY <1>7, <1>9
  <2>2. CASE outcome = "committed"
    <3>1. PICK before \in Images : mem' = Live(before, rec)
      BY <1>7, <2>2
    <3>2. mem'.entries[id] = Append(before.entries[id], e)
      <4>1. mem'.entries = [before.entries EXCEPT ![id] = Append(before.entries[id], e)]
        BY <1>5, <3>1, RecordEntries
      <4> QED BY <1>1, <4>1 DEF Images
    <3>3. Latest(mem'.entries[id]) = e
      <4>1. before.entries[id] \in Seq(Entries)
        BY <1>1 DEF Images
      <4> QED BY <1>5, <3>2, <4>1, AppendProperties DEF Latest
    <3> QED BY <1>2, <1>5, <2>2, <3>3
  <2>3. CASE outcome \in {"not staged", "rolled back"}
    <3>1. mem' \in Images /\ FreshIn(mem', content)
      BY <1>1, <1>7, <2>3, ShrunkTables
    <3>2. Len(mem'.entries[id]) \in 1..Len(mem'.entries[id])
      <4>1. mem'.entries[id] \in Seq(Entries)
        BY <1>1, <3>1 DEF Images
      <4> QED BY <1>9, <4>1, LenProperties, EmptySeq
    <3> QED BY <1>9, <3>1, <3>2 DEF FreshIn, Latest
  <2> QED BY <2>1, <2>2, <2>3 DEF Outcomes
<1>10. acked \subseteq acked'
  BY <1>2
<1> QED BY <1>5, <1>6, <1>8, <1>9, <1>10

-----------------------------------------------------------------------------
(* The server's steps and what was said, is held, was heard and was drawn. *)

LEMMA SpeaksKept ==
  ASSUME FabricTypes, Speaks, run' = run, holders \subseteq holders', acked \subseteq acked',
         \A s \in Runs : request'[s] \in {request[s], NoMessage},
         \A s \in Runs : request'[s].type = "publish" =>
           FreshIn(durable', request'[s].content),
         \A s \in Runs : run[s].at # "ended" => SpokenIn(durable', s, run[s].sent),
         \A s \in Runs : reply'[s].type = "ok" =>
           \/ reply'[s] = reply[s]
           \/ /\ run[s].at = "greeting" => Voice(s, Incarnation(s)) \in holders'
              /\ run[s].at = "publishing" => Confirmation(s, reply'[s].value) \in acked'
  PROVE  Speaks'
<1>1. ASSUME NEW s \in Runs PROVE Asks(s)' /\ Knows(s)'
  <2>1. /\ run'[s] = run[s] /\ Incarnation(s)' = Incarnation(s)
        /\ Alive(s)' <=> Alive(s)
    BY DEF Incarnation, Alive
  <2>2. Asks(s) /\ Knows(s)
    BY DEF Speaks
  <2>3. Asks(s)'
    <3>1. CASE request'[s] = NoMessage
      BY <3>1, MessageTypes DEF Asks
    <3>2. CASE request'[s] = request[s]
      <4>1. request'[s].type = "publish" => Fresh(request[s].content)'
        BY DEF Fresh, FreshIn
      <4> QED BY <2>1, <2>2, <3>2, <4>1 DEF Asks
    <3> QED BY <3>1, <3>2
  <2>4. run'[s].at # "ended" => SpokenUpTo(s, run[s].sent)'
    BY <2>1 DEF SpokenUpTo, SpokenIn
  <2>5. Knows(s)'
    <3>1. reply'[s].type = "ok" =>
            /\ run[s].at = "greeting" => Voice(s, Incarnation(s)) \in holders'
            /\ run[s].at = "publishing" => Confirmation(s, reply'[s].value) \in acked'
      BY <2>2 DEF Knows
    <3>2. Confirmation(s, reply[s].value)' = Confirmation(s, reply'[s].value)
      BY DEF Confirmation, Incarnation
    <3> QED BY <2>1, <2>2, <2>4, <3>1, <3>2 DEF Knows, Voice
  <2> QED BY <2>3, <2>5
<1> QED BY <1>1 DEF Speaks

LEMMA HoldersKept ==
  ASSUME Inv, Inv', FabricTypes, Holders1, holders' = holders,
         \A p \in Publishers : durable.watermark[p] <= durable'.watermark[p]
  PROVE  Holders1'
<1>1. ASSUME NEW h \in holders PROVE h.inc <= durable'.watermark[h.pub]
  <2>1. h.pub \in Publishers /\ h.inc \in Nat
    BY FabricBounds DEF FabricTypes, Incarnations
  <2>2. durable.watermark[h.pub] \in Nat /\ durable'.watermark[h.pub] \in Nat
    BY <2>1, FabricBounds DEF Inv, TypeOK, Images
  <2> QED BY <2>1, <2>2 DEF Holders1
<1> QED BY <1>1 DEF Holders1

(* A step of the server that adds nothing to the tables and acknowledges   *)
(* nothing: it only takes messages away or refuses.                        *)
LEMMA SteadyServer ==
  ASSUME Inv, Inv', FabricTypes, Speaks, Holders1, Heard, Counters, confirmed \subseteq acked,
         UNCHANGED <<boot, run, confirmed, raced, holders, acked>>,
         Kept(durable', durable),
         \A p \in Publishers :
           /\ durable.watermark[p] <= durable'.watermark[p]
           /\ p \notin raced => durable'.watermark[p] <= boot[p],
         \A s \in Runs : request'[s] \in {request[s], NoMessage},
         \A s \in Runs : reply'[s].type = "ok" => reply'[s] = reply[s]
  PROVE  Speaks' /\ Holders1' /\ Heard' /\ Counters' /\ confirmed' \subseteq acked'
<1>1. durable \in Images /\ durable' \in Images
  BY DEF Inv, TypeOK
<1>2. /\ \A c : FreshIn(durable, c) => FreshIn(durable', c)
      /\ \A r, n : SpokenIn(durable, r, n) => SpokenIn(durable', r, n)
      /\ HeardIn(durable, holders) => HeardIn(durable', holders)
  BY <1>1, ShrunkTables
<1>3. Speaks'
  <2>1. \A s \in Runs : request'[s].type = "publish" => FreshIn(durable', request'[s].content)
    <3>1. \A s \in Runs : request[s].type = "publish" => FreshIn(durable, request[s].content)
      BY TablesSay DEF Speaks, Asks
    <3> QED BY <1>2, <3>1, MessageTypes
  <2>2. \A s \in Runs : run[s].at # "ended" => SpokenIn(durable', s, run[s].sent)
    <3>1. \A s \in Runs : run[s].at # "ended" => SpokenIn(durable, s, run[s].sent)
      BY TablesSay DEF Speaks, Knows
    <3> QED BY <1>2, <3>1
  <2> QED BY <2>1, <2>2, SpeaksKept
<1>4. Holders1'
  BY HoldersKept
<1>5. Heard'
  <2>1. HeardIn(durable', holders)
    BY <1>2, TablesSay
  <2> QED BY <2>1 DEF HeardIn, Heard, Declared, DeclaredIn
<1>6. Counters'
  <2>1. \A r \in Runs : /\ run'[r] = run[r] /\ (Drawn(r)' => Drawn(r))
                        /\ request'[r].type = "hello" => request'[r] = request[r]
    BY MessageTypes DEF Drawn
  <2> QED BY <2>1, CountersKept
<1> QED BY <1>3, <1>4, <1>5, <1>6

LEMMA QuietTables ==
  ASSUME Inv, FabricTypes, Counters, durable'.entries = durable.entries,
         durable'.watermark = durable.watermark
  PROVE  /\ Kept(durable', durable)
         /\ \A p \in Publishers :
              /\ durable.watermark[p] <= durable'.watermark[p]
              /\ p \notin raced => durable'.watermark[p] <= boot[p]
<1>1. durable \in Images
  BY DEF Inv, TypeOK
<1>2. Kept(durable', durable)
  <2>1. Kept(durable, durable)
    BY <1>1, KeptItself
  <2> QED BY <2>1 DEF Kept
<1>3. \A p \in Publishers : durable.watermark[p] \in Nat
  BY <1>1, FabricBounds DEF Images
<1> QED BY <1>2, <1>3 DEF Counters

(* The messages after an answer, or after the death of the server.         *)
LEMMA AnswerMessages ==
  ASSUME FabricTypes, NEW r \in Runs, NEW msg \in Replies, Answer(r, msg)
  PROVE  /\ \A s \in Runs : request'[s] \in {request[s], NoMessage}
         /\ msg.type # "ok" => \A s \in Runs : reply'[s].type = "ok" => reply'[s] = reply[s]
<1>1. /\ reply'[r] = IF Alive(r) THEN msg ELSE NoMessage
      /\ request'[r] = NoMessage
      /\ \A s \in Runs : s # r => reply'[s] = reply[s] /\ request'[s] = request[s]
  BY AnswerTypes
<1> QED BY <1>1, MessageTypes

LEMMA GoneMessages ==
  ASSUME FabricTypes, ServerGone
  PROVE  /\ \A s \in Runs : request'[s] \in {request[s], NoMessage}
         /\ \A s \in Runs : reply'[s].type = "ok" => reply'[s] = reply[s]
  BY GoneTypes

LEMMA ServeHelloKeeps ==
  ASSUME Inv, TableInv, Inv', FabricTypes, Links, Speaks, Holders1, Heard, Counters,
         confirmed \subseteq acked, NEW r \in Runs, ServeHello(r)
  PROVE  Speaks' /\ Holders1' /\ Heard' /\ Counters' /\ confirmed' \subseteq acked'
<1> DEFINE p   == r.pub
           inc == request[r].inc
<1>1. /\ request[r].type = "hello" /\ RegisterPublisher(p, inc)
      /\ UNCHANGED <<boot, run, confirmed, raced>>
      /\ p \in Publishers /\ inc \in Incarnations
  BY RunFields, RequestKinds DEF ServeHello, unchangedByServer
<1>2. \/ ~up' /\ ServerGone /\ holders' = holders
      \/ up' /\ Answer(r, Refused) /\ holders' = holders
      \/ /\ up' /\ Admits(p, inc) /\ leases'[p] = RegisteredLease(inc)
         /\ Answer(r, Ok(mem.epoch))
         /\ holders' = holders \union {Voice(r, inc)}
  BY DEF ServeHello, RefuseHello, Voice
<1>3. mem.epoch \in Nat /\ Ok(mem.epoch) \in Replies
  BY RegistryAssumption, MessageTypes DEF Inv, TypeOK, Images, Epochs
<1>4. \A s \in Runs : request'[s] \in {request[s], NoMessage}
  BY <1>2, <1>3, AnswerMessages, GoneMessages, MessageTypes
<1>5. holders' = holders => \A s \in Runs : reply'[s].type = "ok" => reply'[s] = reply[s]
  <2>1. CASE up' /\ leases'[p] = RegisteredLease(inc) /\ Admits(p, inc) /\ holders' = holders
             /\ holders' = holders \union {Voice(r, inc)}
    <3>1. Voice(r, inc) \in holders /\ durable.watermark[p] < inc
      BY <1>1, <2>1 DEF Inv, FencingIsDurable, Admits, RegisterPublisher
    <3>2. inc <= durable.watermark[p]
      BY <3>1 DEF Holders1, Voice
    <3>3. inc \in Nat /\ \A q \in Publishers : durable.watermark[q] \in Nat
      BY <1>1, FabricBounds DEF Inv, TypeOK, Images, Incarnations
    <3> QED BY <1>1, <3>1, <3>2, <3>3
  <2>2. CASE ServerGone \/ Answer(r, Refused)
    BY <2>2, AnswerMessages, GoneMessages, MessageTypes
  <2> QED BY <1>2, <2>1, <2>2
<1>6. CASE OnlyTicks /\ ~Admits(p, inc)
  <2>1. UNCHANGED <<durable, acked>> /\ holders' = holders
    BY <1>2, <1>6, <1>1 DEF OnlyTicks, store, RegisterPublisher
  <2> QED BY <1>1, <1>4, <1>5, <2>1, QuietTables, SteadyServer
<1>7. CASE GrantLease(p, inc)
  <2>1. up
    BY <1>1 DEF RegisterPublisher
  <2>2. /\ Kept(durable', durable)
        /\ \A q \in Publishers :
             \/ durable'.watermark[q] = durable.watermark[q]
             \/ q = p /\ durable'.watermark[q] = inc
        /\ durable.watermark[p] < inc
        /\ acked' = acked
        /\ up' /\ leases'[p] = RegisteredLease(inc) => durable'.watermark[p] = inc
    BY <1>1, <1>7, <2>1, GrantLeaseEffect
  <2>3. inc \in Nat /\ \A q \in Publishers :
          durable.watermark[q] \in Nat /\ durable'.watermark[q] \in Nat
    BY <1>1, FabricBounds DEF Inv, TypeOK, Images, Incarnations
  <2>4. \A q \in Publishers :
          /\ durable.watermark[q] <= durable'.watermark[q]
          /\ q \notin raced => durable'.watermark[q] <= boot[q]
    BY <1>1, <2>2, <2>3 DEF Counters
  <2>5. CASE holders' = holders
    BY <1>1, <1>4, <1>5, <2>2, <2>4, <2>5, SteadyServer
  <2>6. CASE holders' # holders
    <3>1. /\ up' /\ leases'[p] = RegisteredLease(inc) /\ Answer(r, Ok(mem.epoch))
          /\ holders' = holders \union {Voice(r, inc)}
      BY <1>2, <2>6
    <3>2. durable'.watermark[p] = inc
      BY <2>2, <3>1
    <3>3. durable \in Images /\ durable' \in Images
      BY DEF Inv, TypeOK
    <3>4. /\ \A c : FreshIn(durable, c) => FreshIn(durable', c)
          /\ \A s, n : SpokenIn(durable, s, n) => SpokenIn(durable', s, n)
          /\ HeardIn(durable, holders) => HeardIn(durable', holders)
      BY <2>2, <3>3, ShrunkTables
    <3>5. Speaks'
      <4>1. \A s \in Runs : request'[s].type = "publish" => FreshIn(durable', request'[s].content)
        <5>1. \A s \in Runs : request[s].type = "publish" => FreshIn(durable, request[s].content)
          BY TablesSay DEF Speaks, Asks
        <5> QED BY <1>4, <3>4, <5>1, MessageTypes
      <4>2. \A s \in Runs : run[s].at # "ended" => SpokenIn(durable', s, run[s].sent)
        <5>1. \A s \in Runs : run[s].at # "ended" => SpokenIn(durable, s, run[s].sent)
          BY TablesSay DEF Speaks, Knows
        <5> QED BY <3>4, <5>1
      <4>3. ASSUME NEW s \in Runs, reply'[s].type = "ok", reply'[s] # reply[s]
            PROVE  /\ run[s].at = "greeting" => Voice(s, Incarnation(s)) \in holders'
                   /\ run[s].at # "publishing"
        <5>1. s = r /\ Alive(r)
          BY <1>3, <3>1, <4>3, AnswerTypes, MessageTypes
        <5>2. run[r].at = "greeting" /\ inc = Incarnation(r)
          BY <1>1, <5>1 DEF Speaks, Asks
        <5> QED BY <3>1, <5>1, <5>2
      <4> QED BY <1>1, <1>4, <2>2, <3>1, <4>1, <4>2, <4>3, SpeaksKept
    <3>6. Holders1'
      <4>1. \A h \in holders : h.pub \in Publishers /\ h.inc \in Nat
        BY FabricBounds DEF FabricTypes, Incarnations
      <4>2. \A h \in holders : h.inc <= durable.watermark[h.pub]
        BY DEF Holders1
      <4>3. ASSUME NEW h \in holders'
            PROVE  h.run.pub = h.pub /\ h.inc <= durable'.watermark[h.pub]
        <5>1. CASE h = Voice(r, inc)
          BY <2>3, <3>2, <1>1, <5>1 DEF Voice
        <5>2. CASE h \in holders
          BY <2>3, <2>4, <4>1, <4>2, <5>2 DEF Holders1
        <5> QED BY <3>1, <5>1, <5>2
      <4>4. \A h \in holders : ~(h.pub = p /\ h.inc = inc)
        BY <1>1, <2>2, <2>3, <4>1, <4>2
      <4>5. Voice(r, inc).pub = p /\ Voice(r, inc).inc = inc
        BY DEF Voice
      <4>6. \A a, b \in holders' : a.pub = b.pub /\ a.inc = b.inc => a.run = b.run
        BY <3>1, <4>4, <4>5 DEF Holders1
      <4> QED BY <4>3, <4>6 DEF Holders1
    <3>7. Heard'
      <4>1. HeardIn(durable', holders)
        BY <3>4, TablesSay
      <4>2. holders \subseteq holders'
        BY <3>1
      <4> QED BY <4>1, <4>2 DEF HeardIn, Heard, Declared, DeclaredIn
    <3>8. Counters'
      <4>1. \A s \in Runs : /\ run'[s] = run[s] /\ (Drawn(s)' => Drawn(s))
                            /\ request'[s].type = "hello" => request'[s] = request[s]
        BY <1>1, <1>4, MessageTypes DEF Drawn
      <4> QED BY <1>1, <2>4, <4>1, CountersKept
    <3> QED BY <1>1, <2>2, <3>5, <3>6, <3>7, <3>8
  <2> QED BY <2>5, <2>6
<1> QED BY <1>1, <1>6, <1>7 DEF RegisterPublisher

LEMMA ServePublishKeeps ==
  ASSUME Inv, TableInv, Inv', FabricTypes, Links, Speaks, Holders1, Heard, Counters,
         confirmed \subseteq acked, NEW r \in Runs, ServePublish(r)
  PROVE  Speaks' /\ Holders1' /\ Heard' /\ Counters' /\ confirmed' \subseteq acked'
<1> DEFINE req == request[r]
           by  == [pub |-> r.pub, inc |-> req.inc]
<1>1. /\ conn = r /\ req.type = "publish" /\ holders' = holders
      /\ UNCHANGED <<boot, run, confirmed, raced>>
      /\ ServesAccepted(r) \/ (Refuse(r) /\ UNCHANGED vars)
  BY PublishCases DEF unchangedByServer
<1>2. CASE Refuse(r) /\ UNCHANGED vars
  <2>1. UNCHANGED <<durable, acked>> /\ Answer(r, Refused)
    BY <1>2 DEF vars, store, Refuse
  <2>2. /\ \A s \in Runs : request'[s] \in {request[s], NoMessage}
        /\ \A s \in Runs : reply'[s].type = "ok" => reply'[s] = reply[s]
    BY <2>1, AnswerMessages, MessageTypes
  <2> QED BY <1>1, <2>1, <2>2, QuietTables, SteadyServer
<1>3. CASE ServesAccepted(r)
  <2>1. /\ up /\ r.pub \in Publishers /\ req.inc \in Incarnations
        /\ req.id \in Evidence /\ req.content \in Contents
    BY <1>1, <1>3, ServesIsPublishEvidence
  <2>2. /\ Accept(req.id, req.content, by) /\ by \in Holders
        /\ \/ ~up' /\ ServerGone
           \/ up' /\ Answer(r, PublishAck(req, by))
    BY <1>3, <2>1 DEF ServesAccepted, Holders, Incarnations
  <2>3. /\ Voice(r, req.inc) \in holders /\ req.id = r.resource
        /\ req.content.run = r /\ FreshIn(durable, req.content)
        /\ Alive(r) => /\ run[r].at = "publishing" /\ req.inc = Incarnation(r)
                       /\ req.content = Declaration(r, run[r].sent)
    BY <1>1, TablesSay DEF Speaks, Asks
  <2>4. req.content \in Declarations
    BY <1>1, RequestKinds
  <2>5. PICK base \in Images, e \in Entries :
          /\ e.content = req.content /\ e.by = by
          /\ Kept(base, durable)
          /\ \/ durable'.entries = base.entries
             \/ durable'.entries =
                  [base.entries EXCEPT ![req.id] = Append(base.entries[req.id], e)]
          /\ durable'.watermark = durable.watermark
          /\ acked \subseteq acked'
          /\ up' /\ mem'.entries[req.id] # <<>>
                 /\ Latest(mem'.entries[req.id]).content = req.content =>
               [id |-> req.id, gen |-> Latest(mem'.entries[req.id]).gen,
                content |-> req.content, by |-> by] \in acked'
    BY <2>1, <2>2, <2>3, AcceptEffect
  <2>6. durable \in Images /\ durable' \in Images
    BY DEF Inv, TypeOK
  <2>7. DeclaredIn(e, holders)
    BY <2>3, <2>4, <2>5 DEF DeclaredIn, Voice
  <2>8. FreshIn(base, req.content)
    BY <2>3, <2>5, <2>6, ShrunkTables
  <2>9. /\ \A c : FreshIn(durable, c) /\ req.content # c => FreshIn(durable', c)
        /\ \A s, n : SpokenIn(durable, s, n) /\ (req.content.run = s => req.content.k <= n)
                       => SpokenIn(durable', s, n)
        /\ HeardIn(durable, holders) => HeardIn(durable', holders)
    <3>1. /\ \A c : FreshIn(durable, c) => FreshIn(base, c)
          /\ \A s, n : SpokenIn(durable, s, n) => SpokenIn(base, s, n)
          /\ HeardIn(durable, holders) => HeardIn(base, holders)
      BY <2>5, <2>6, ShrunkTables
    <3>2. CASE durable'.entries = base.entries
      <4>1. /\ \A c : FreshIn(base, c) => FreshIn(durable', c)
            /\ \A s, n : SpokenIn(base, s, n) => SpokenIn(durable', s, n)
            /\ HeardIn(base, holders) => HeardIn(durable', holders)
        BY <3>2 DEF FreshIn, SpokenIn, HeardIn
      <4> QED BY <3>1, <4>1
    <3>3. CASE durable'.entries =
                 [base.entries EXCEPT ![req.id] = Append(base.entries[req.id], e)]
      <4>1. /\ \A c : FreshIn(base, c) /\ e.content # c => FreshIn(durable', c)
            /\ \A s, n : SpokenIn(base, s, n) /\ (e.content.run = s => e.content.k <= n)
                           => SpokenIn(durable', s, n)
            /\ HeardIn(base, holders) /\ FreshIn(base, e.content) /\ DeclaredIn(e, holders)
                 => HeardIn(durable', holders)
        BY <2>1, <3>3, GrownTables
      <4> QED BY <2>5, <2>7, <2>8, <3>1, <4>1
    <3> QED BY <2>5, <3>2, <3>3
  <2>10. /\ \A s \in Runs : request'[s] \in {request[s], NoMessage}
         /\ request'[r] = NoMessage
         /\ \A s \in Runs : reply'[s].type = "ok" =>
              \/ reply'[s] = reply[s]
              \/ s = r /\ Alive(r) /\ up' /\ reply'[r] = PublishAck(req, by)
    <3>1. CASE ~up' /\ ServerGone
      BY <3>1, GoneTypes
    <3>2. CASE up' /\ Answer(r, PublishAck(req, by))
      <4>1. PublishAck(req, by) \in Replies
        BY <2>1, PublishAckType
      <4> QED BY <3>2, <4>1, AnswerTypes, MessageTypes
    <3> QED BY <2>2, <3>1, <3>2
  <2>11. Speaks'
    <3>1. \A s \in Runs : request'[s].type = "publish" => FreshIn(durable', request'[s].content)
      <4>1. \A s \in Runs : request[s].type = "publish" =>
              FreshIn(durable, request[s].content) /\ request[s].content.run = s
        BY TablesSay DEF Speaks, Asks
      <4>2. ASSUME NEW s \in Runs, request'[s].type = "publish"
            PROVE  s # r /\ request'[s] = request[s]
        BY <2>10, <4>2, MessageTypes
      <4> QED BY <2>3, <2>9, <4>1, <4>2
    <3>2. \A s \in Runs : run[s].at # "ended" => SpokenIn(durable', s, run[s].sent)
      <4>1. \A s \in Runs : run[s].at # "ended" => SpokenIn(durable, s, run[s].sent)
        BY TablesSay DEF Speaks, Knows
      <4>2. run[r].at # "ended" => req.content.k <= run[r].sent
        <5>1. Linked(r) /\ Connected(r)
          BY <1>1 DEF Links, Connected
        <5>2. run[r].at # "ended" => Alive(r)
          BY <5>1 DEF Linked, Alive
        <5>3. Declaration(r, run[r].sent).k = run[r].sent /\ run[r].sent \in Int
          BY FabricBounds DEF Declaration, FabricTypes, RunStates
        <5> QED BY <2>3, <5>2, <5>3
      <4> QED BY <2>3, <2>9, <4>1, <4>2
    <3>3. ASSUME NEW s \in Runs, reply'[s].type = "ok", reply'[s] # reply[s]
          PROVE  /\ run[s].at # "greeting"
                 /\ Confirmation(s, reply'[s].value) \in acked'
      <4>1. s = r /\ Alive(r) /\ up' /\ reply'[r] = PublishAck(req, by)
        BY <2>10, <3>3
      <4>2. PublishAck(req, by).type = "ok"
        BY <3>3, <4>1
      <4>3. /\ mem'.entries[req.id] # <<>>
            /\ Latest(mem'.entries[req.id]).content = req.content
            /\ PublishAck(req, by) = Ok(Latest(mem'.entries[req.id]).gen)
        BY <4>2, MessageTypes DEF PublishAck
      <4>4. reply'[r].value = Latest(mem'.entries[req.id]).gen
        BY <4>1, <4>3 DEF Ok
      <4>5. Confirmation(r, reply'[r].value) =
              [id |-> req.id, gen |-> Latest(mem'.entries[req.id]).gen,
               content |-> req.content, by |-> by]
        BY <2>3, <4>1, <4>4 DEF Confirmation
      <4> QED BY <2>3, <2>5, <4>1, <4>3, <4>5
    <3> QED BY <1>1, <2>5, <2>10, <3>1, <3>2, <3>3, SpeaksKept
  <2>12. Holders1'
    <3>1. \A p \in Publishers : durable.watermark[p] <= durable'.watermark[p]
      BY <2>5, <2>6, FabricBounds DEF Images
    <3> QED BY <1>1, <3>1, HoldersKept
  <2>13. Heard'
    <3>1. HeardIn(durable', holders)
      BY <2>9, TablesSay
    <3> QED BY <1>1, <3>1 DEF HeardIn, Heard, Declared, DeclaredIn
  <2>14. Counters'
    <3>1. \A s \in Runs : /\ run'[s] = run[s] /\ (Drawn(s)' => Drawn(s))
                          /\ request'[s].type = "hello" => request'[s] = request[s]
      BY <1>1, <2>10, MessageTypes DEF Drawn
    <3>2. \A p \in Publishers \ raced : durable'.watermark[p] <= boot[p]
      BY <2>5 DEF Counters
    <3> QED BY <1>1, <3>1, <3>2, CountersKept
  <2> QED BY <1>1, <2>5, <2>11, <2>12, <2>13, <2>14
<1> QED BY <1>1, <1>2, <1>3

LEMMA ServerStepKeeps ==
  ASSUME Inv, TableInv, Inv', FabricTypes, Links, Speaks, Holders1, Heard, Counters,
         confirmed \subseteq acked, StartServer \/ ServerDies \/ PassTime \/ ServerStep
  PROVE  Speaks' /\ Holders1' /\ Heard' /\ Counters' /\ confirmed' \subseteq acked'
<1>1. ASSUME UNCHANGED <<boot, run, confirmed, raced, holders, acked>>,
             durable'.entries = durable.entries, durable'.watermark = durable.watermark,
             \A s \in Runs : request'[s] \in {request[s], NoMessage},
             \A s \in Runs : reply'[s].type = "ok" => reply'[s] = reply[s]
      PROVE  Speaks' /\ Holders1' /\ Heard' /\ Counters' /\ confirmed' \subseteq acked'
  BY <1>1, QuietTables, SteadyServer
<1>2. CASE StartServer
  <2>1. /\ UNCHANGED <<boot, run, confirmed, raced, holders, acked, request, reply>>
        /\ durable' = [durable EXCEPT !.epoch = @ + 1]
    BY <1>2 DEF StartServer, Open, unchangedByServer, wire
  <2>2. durable'.entries = durable.entries /\ durable'.watermark = durable.watermark
    BY <2>1 DEF Inv, TypeOK, Images
  <2> QED BY <1>1, <2>1, <2>2
<1>3. CASE ServerDies
  <2>1. ServerGone /\ UNCHANGED <<boot, run, confirmed, raced, holders, acked, durable>>
    BY <1>3 DEF ServerDies, Crash, store, unchangedByServer
  <2> QED BY <1>1, <2>1, GoneMessages
<1>4. CASE PassTime
  <2>1. UNCHANGED <<boot, run, confirmed, raced, holders, acked, durable, request, reply>>
    BY <1>4 DEF PassTime, Tick, store, wire, unchangedByServer
  <2> QED BY <1>1, <2>1
<1>5. CASE AcceptConnection
  <2>1. UNCHANGED <<boot, run, confirmed, raced, holders, acked, durable, request, reply>>
    BY <1>5 DEF AcceptConnection, registry, vars, store, unchangedByServer
  <2> QED BY <1>1, <2>1
<1>6. ASSUME NEW r \in Runs, Hangup(r)
      PROVE  Speaks' /\ Holders1' /\ Heard' /\ Counters' /\ confirmed' \subseteq acked'
  <2>1. /\ UNCHANGED <<boot, run, confirmed, raced, holders, acked, durable, reply>>
        /\ request' = [request EXCEPT ![r] = NoMessage]
    BY <1>6 DEF Hangup, registry, vars, store, unchangedByServer
  <2>2. \A s \in Runs : request'[s] \in {request[s], NoMessage}
    BY <2>1 DEF FabricTypes
  <2> QED BY <1>1, <2>1, <2>2
<1> QED BY <1>2, <1>3, <1>4, <1>5, <1>6, ServeHelloKeeps, ServePublishKeeps DEF ServerStep

-----------------------------------------------------------------------------
(* The inductive invariant                                                 *)

LEMMA InitFabric == FabricInit => FabricInv
<1> SUFFICES ASSUME FabricInit PROVE FabricInv
  OBVIOUS
<1>1. /\ boot = [p \in Publishers |-> 0] /\ run = [r \in Runs |-> At("new")]
      /\ backlog = <<>> /\ conn = Nobody
      /\ request = [r \in Runs |-> NoMessage] /\ reply = [r \in Runs |-> NoMessage]
      /\ holders = {} /\ confirmed = {} /\ raced = {} /\ Init
  BY DEF FabricInit
<1>2. Inv /\ TableInv
  BY <1>1, InitInv, InitTables
<1>3. /\ \A r \in Runs : run[r].at = "new" /\ run[r].sent = 0 /\ run[r].counter = 0
      /\ At("new") \in RunStates
  BY <1>1, FabricBounds DEF At, RunStates
<1>4. FabricTypes
  BY <1>1, <1>3, MessageTypes, FabricBounds DEF FabricTypes
<1>5. \A r \in Runs : request[r].type = "none" /\ reply[r].type = "none" /\ ~Connected(r)
  BY <1>1, MessageTypes, RunFields DEF Connected
<1>6. Links
  BY <1>1, <1>3, <1>5 DEF Links, Linked
<1>7. /\ durable.entries = [id \in Ids |-> <<>>] /\ Evidence \subseteq Ids
      /\ durable.watermark = [p \in Publishers |-> 0]
  BY <1>1 DEF Init, EmptyImage, Ids
<1>8. \A id \in Evidence : durable.entries[id] = <<>> /\ Len(durable.entries[id]) = 0
  BY <1>7
<1>9. Speaks /\ Heard
  BY <1>3, <1>5, <1>8 DEF Speaks, Asks, Knows, SpokenUpTo, Heard
<1>10. Holders1
  BY <1>1 DEF Holders1
<1>11. Counters
  BY <1>1, <1>3, <1>5, <1>7 DEF Counters, Drawn
<1> QED BY <1>1, <1>2, <1>4, <1>6, <1>9, <1>10, <1>11 DEF FabricInv

LEMMA FabricNextKeepsInv == FabricInv /\ [FabricNext]_fabric => FabricInv'
<1> SUFFICES ASSUME FabricInv, [FabricNext]_fabric PROVE FabricInv'
  OBVIOUS
<1>1. /\ Inv /\ TableInv /\ FabricTypes /\ Links /\ Speaks /\ Holders1 /\ Heard /\ Counters
      /\ confirmed \subseteq acked
  BY DEF FabricInv
<1>2. [Next]_vars
  BY <1>1, FabricStepIsRegistryStep
<1>3. Inv'
  BY <1>1, <1>2, NextKeepsInv
<1>4. TableInv'
  <2>1. durable' \in Images
    BY <1>3 DEF Inv, TypeOK
  <2> QED BY <1>1, <1>2, <2>1, NextKeepsTables
<1>5. ASSUME NEW r \in Runs, RunMoves(r) PROVE FabricInv'
  <2>1. UNCHANGED vars /\ holders' = holders
    BY <1>5, RunsLeaveRegistry
  <2>2. FabricTypes' /\ Links' /\ Speaks' /\ Counters' /\ confirmed' \subseteq acked'
    BY <1>1, <1>5, RunStepTypes, RunStepLinks, RunStepSpeaks, RunStepCounters
  <2>3. durable' = durable /\ Holders1'
    BY <1>1, <2>1 DEF Holders1, vars, store
  <2>4. Heard'
    <3>1. HeardIn(durable', holders')
      BY <1>1, <2>1, <2>3, TablesSay
    <3> QED BY <3>1 DEF HeardIn, Heard, Declared, DeclaredIn
  <2> QED BY <1>3, <1>4, <2>2, <2>3, <2>4 DEF FabricInv
<1>6. CASE StartServer \/ ServerDies \/ PassTime \/ ServerStep
  BY <1>1, <1>3, <1>4, <1>6, ServerStepTypes, ServerStepLinks, ServerStepKeeps DEF FabricInv
<1>7. CASE UNCHANGED fabric
  <2>1. /\ UNCHANGED <<boot, run, backlog, conn, request, reply, holders, confirmed, raced>>
        /\ UNCHANGED <<durable, acked>>
    BY <1>7 DEF fabric, wire, registry, vars, store
  <2>2. FabricTypes' /\ Links'
    BY <1>1, <2>1 DEF FabricTypes, Incarnation, Links, Linked, Connected, Waiting
  <2>3. Speaks'
    BY <1>1, <2>1, SameVoice DEF Speaks
  <2>4. Holders1' /\ Counters' /\ confirmed' \subseteq acked'
    BY <1>1, <2>1 DEF Holders1, Counters, Drawn, Incarnation
  <2>5. Heard'
    <3>1. HeardIn(durable', holders')
      BY <1>1, <2>1, TablesSay
    <3> QED BY <3>1 DEF HeardIn, Heard, Declared, DeclaredIn
  <2> QED BY <1>3, <1>4, <2>2, <2>3, <2>4, <2>5 DEF FabricInv
<1> QED BY <1>5, <1>6, <1>7 DEF FabricNext, RunMoves

(* The inductive invariant holds in every reachable state of the fabric.   *)
THEOREM FabricInvariance == FabricSpec => []FabricInv
<1>1. FabricInit => FabricInv
  BY InitFabric
<1>2. FabricInv /\ [FabricNext]_fabric => FabricInv'
  BY FabricNextKeepsInv
<1> QED BY <1>1, <1>2, PTL DEF FabricSpec

(* Every behaviour of the fabric is one of the registry: the server calls  *)
(* it only in ways its own specification allows (run_server), so that all  *)
(* that is proved of Registry holds of the fabric.                         *)
THEOREM FabricImplementsRegistry == FabricSpec => Spec
<1>1. FabricInit => Init
  BY DEF FabricInit
<1>2. FabricInv /\ [FabricNext]_fabric => [Next]_vars
  BY FabricStepIsRegistryStep DEF FabricInv
<1> QED BY <1>1, <1>2, FabricInvariance, PTL DEF FabricSpec, Spec

-----------------------------------------------------------------------------
(* What the runs check                                                     *)

(* The state of the fabric has its type; a request waits only where the    *)
(* server will read it, and never beside its reply; a connection is known  *)
(* to the server once (run_server, transport_accept).                      *)
THEOREM FabricTypesHold == FabricSpec => []FabricTypeOK
<1>1. FabricInv => FabricTypeOK
  BY FabricBounds DEF FabricInv, FabricTypes, RunStates, Links, Linked, FabricTypeOK
<1> QED BY <1>1, FabricInvariance, PTL

(* An incarnation is one run's, and evidence comes from the run that holds *)
(* the incarnation it names (RegisterPublisher, run_server).               *)
THEOREM OneVoiceHolds == FabricSpec => []OneVoice
<1>1. FabricInv => OneVoice
  BY DEF FabricInv, Holders1, Heard, Declared, OneVoice
<1> QED BY <1>1, FabricInvariance, PTL

(* A declaration enters the tables at most once, in memory and on disk,    *)
(* although nothing on the wire tells a repetition from a new one (the     *)
(* publisher's main loop never asks again).                                *)
THEOREM DeclarationsAreUnique == FabricSpec => []DeclaredOnce
<1>1. ASSUME FabricInv PROVE DeclaredOnce
  <2>1. HeardIn(durable, holders) /\ Inv /\ TableInv
    BY <1>1, TablesSay DEF FabricInv
  <2>2. mem \in Images /\ durable \in Images /\ EmptyImage \in Images
    BY <2>1, EmptyImageType DEF Inv, TypeOK
  <2>3. HeardIn(mem, holders)
    <3>1. CASE up
      BY <2>1, <2>2, <3>1, ShrunkTables DEF TableInv
    <3>2. CASE ~up
      <4>1. \A id \in Evidence : mem.entries[id] = <<>>
        BY <2>1, <3>2 DEF TableInv, EmptyImage, Ids
      <4> QED BY <4>1 DEF HeardIn
    <3> QED BY <3>1, <3>2
  <2> QED BY <2>1, <2>3 DEF HeardIn, DeclaredOnce
<1> QED BY <1>1, FabricInvariance, PTL

(* What a run was told is published is durable and stays what it was told, *)
(* whoever dies after that (run_server, PublishAck; commit_operation).     *)
THEOREM ConfirmationsAreDurable == FabricSpec => []ConfirmedIsDurable
<1>1. FabricInv => ConfirmedIsDurable
  BY DEF FabricInv, TableInv, Sound, ConfirmedIsDurable
<1> QED BY <1>1, FabricInvariance, PTL

(* Unless two runs of a publisher drew at once, the counter file is never  *)
(* behind the durable watermark and no two live runs have drawn the same   *)
(* incarnation (main writes the counter before it asks for the lease).     *)
THEOREM CounterCovers == FabricSpec => []CounterCoversWatermark
<1>1. ASSUME FabricInv PROVE CounterCoversWatermark
  <2>1. Counters /\ FabricTypes
    BY <1>1 DEF FabricInv
  <2>2. \A r \in Runs : run[r].at \notin {"new", "drawing", "ended"} => Drawn(r)
    BY <2>1 DEF FabricTypes, RunStates, Drawn
  <2> QED BY <2>1, <2>2 DEF Counters, CounterCoversWatermark
<1> QED BY <1>1, FabricInvariance, PTL
=============================================================================
