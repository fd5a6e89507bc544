---------------------------- MODULE TendermintRpc ----------------------------
(***************************************************************************)
(* One Tendermint33Client (packages/tendermint-rpc/src/tendermint33/      *)
(* tendermint33client.ts) over its RPC client, with concurrent callers.    *)
(*                                                                         *)
(* Tendermint33Client.connect picks an HttpClient or a WebsocketClient    *)
(* from the URL, and create awaits a status request (detectVersion) before *)
(* handing out the client.  Every query method is doCall: a request with  *)
(* a fresh JSON-RPC id (makeJsonRpcId, packages/json-rpc/src/id.ts) that  *)
(* the RPC client executes, the caller awaiting the response of that id.  *)
(*                                                                         *)
(* The WebSocket transport (spec sections 4.4 and 4.5; its source is not  *)
(* in this tree): a queueing, reconnecting socket.  Requests queued while *)
(* not connected are sent in order once connected; a connection may       *)
(* break, and until its close event is handled a send either throws (the  *)
(* request stays queued) or silently goes nowhere (the TODO in            *)
(* packages/socket/src/reconnectingsocket.spec.ts); after the close the   *)
(* socket reconnects.  Requests the node had not answered, and answers    *)
(* still on the wire, are lost with the connection.  Responses are        *)
(* matched to every waiting caller by id; disconnect completes the event  *)
(* stream, failing every waiting call.  Over HTTP every request is its    *)
(* own exchange, answered in any order, and disconnect does nothing.      *)
(***************************************************************************)
EXTENDS Naturals, Sequences, SequencesExt

CONSTANTS
    Callers,    \* concurrent tasks sharing the client
    Methods,    \* query methods of the client (abciInfo, block, tx, ...)
    FirstId,    \* makeJsonRpcId's counter seed, 10000
    MaxIds,     \* bound on the ids handed out
    MaxDrops,   \* bound on broken connections
    None

VARIABLES
    transport,  \* "http" or "ws", from the URL given to connect
    client,     \* "creating", "ready", "failed" (create threw), "disconnected"
    counter,    \* makeJsonRpcId's module-level counter
    sock,       \* the socket's status: "unconnected", "connecting", "connected", "disconnected"
    link,       \* the physical connection: "none", "open", "broken"
    queue,      \* requests waiting in the socket's queue
    inflight,   \* requests the node has received and not answered
    inbound,    \* responses on their way to the client, in order
    drops,      \* connections broken so far
    call,       \* per caller: state, request and result of its last call
    posted,     \* HTTP requests on their way to the node, each its own POST
    received,   \* every request the node received, in order (history)
    lost        \* ids whose request or response went down with a connection (history)

vars == <<transport, client, counter, sock, link, queue, inflight, inbound, drops, call,
          posted, received, lost>>

Ids(s) == { s[i].id : i \in DOMAIN s }

Request(id, m) == [id |-> id, method |-> m]

StatusId == FirstId + 1

-----------------------------------------------------------------------------
(* makeJsonRpcId: `return (counter += 1)`.                                 *)
MakeJsonRpcId == counter + 1

(* detectVersion's check of the status response.                           *)
VersionResult(r) == IF r.result = "good" THEN "ready" ELSE "failed"

QueueRequest(req) ==
  LET q == Append(queue, req)
  IN CASE sock = "connected" /\ link = "open" ->
            /\ inflight' = inflight \o q /\ received' = received \o q /\ queue' = <<>>
            /\ UNCHANGED lost
       [] sock = "connected" /\ link = "broken" ->
            /\ \/ queue' = <<>> /\ lost' = lost \cup Ids(q)
               \/ queue' = q /\ UNCHANGED lost
            /\ UNCHANGED <<inflight, received>>
       [] OTHER -> queue' = q /\ UNCHANGED <<inflight, received, lost>>

(* RpcClient.execute: an HTTP POST, which races the other POSTs to the    *)
(* node, or a request through the socket.                                  *)
Execute(req) ==
  \/ /\ transport = "http"
     /\ posted' = posted \cup {req}
     /\ UNCHANGED <<queue, inflight, received, lost>>
  \/ /\ transport = "ws"
     /\ QueueRequest(req)
     /\ UNCHANGED posted

(* Mutant: the status request built with a fixed id, the counter unused. *)
InitFixedStatusId ==
  /\ transport \in {"http", "ws"}
  /\ client = "creating"
  /\ counter = FirstId
  /\ sock = IF transport = "ws" THEN "connecting" ELSE "unconnected"
  /\ link = "none"
  /\ queue = IF transport = "ws" THEN <<Request(StatusId, "status")>> ELSE <<>>
  /\ posted = IF transport = "http" THEN {Request(StatusId, "status")} ELSE {}
  /\ inflight = <<>>
  /\ received = <<>>
  /\ lost = {}
  /\ inbound = <<>>
  /\ drops = 0
  /\ call = [c \in Callers |-> [state |-> "idle", req |-> None, result |-> None]]

(* connect: the client of the URL's scheme; create sends detectVersion's  *)
(* status request (the WebsocketClient constructor starts connecting).    *)
Init ==
  /\ transport \in {"http", "ws"}
  /\ client = "creating"
  /\ counter = StatusId
  /\ sock = IF transport = "ws" THEN "connecting" ELSE "unconnected"
  /\ link = "none"
  /\ queue = IF transport = "ws" THEN <<Request(StatusId, "status")>> ELSE <<>>
  /\ posted = IF transport = "http" THEN {Request(StatusId, "status")} ELSE {}
  /\ inflight = <<>>
  /\ received = <<>>
  /\ lost = {}
  /\ inbound = <<>>
  /\ drops = 0
  /\ call = [c \in Callers |-> [state |-> "idle", req |-> None, result |-> None]]

-----------------------------------------------------------------------------
(* doCall: execute the encoded request and await the response of its id. *)
DoCall(c, req) ==
  /\ call' = [call EXCEPT ![c] = [state |-> "waiting", req |-> req, result |-> None]]
  /\ Execute(req)

(* Every query method (abciInfo ... status, tx): a request of the method, *)
(* encoded with a fresh id by createJsonRpcRequest, through doCall.       *)
Call(c, m) ==
  /\ client = "ready"
  /\ call[c].state # "waiting"
  /\ counter < FirstId + MaxIds
  /\ counter' = MakeJsonRpcId
  /\ DoCall(c, Request(MakeJsonRpcId, m))
  /\ UNCHANGED <<transport, client, sock, link, inbound, drops>>

(* subscribeNewBlock / subscribeNewBlockHeader / subscribeTx: subscribe   *)
(* throws unless the RPC client is a streaming one; otherwise the         *)
(* subscribe request goes out like any other.                              *)
Subscribe(c) ==
  /\ client = "ready"
  /\ call[c].state # "waiting"
  /\ IF transport = "http"
     THEN /\ call' = [call EXCEPT ![c] = [state |-> "error", req |-> None, result |-> None]]
          /\ UNCHANGED <<transport, client, counter, sock, link, queue, inflight, inbound, drops,
                         posted, received, lost>>
     ELSE Call(c, "subscribe")

(* disconnect: the socket closes for good and its event stream completes, *)
(* so every awaited response fails; HttpClient.disconnect does nothing.   *)
Disconnect ==
  /\ client = "ready"
  /\ client' = "disconnected"
  /\ IF transport = "ws"
     THEN /\ sock' = "disconnected" /\ link' = "none"
          /\ queue' = <<>> /\ inflight' = <<>> /\ inbound' = <<>>
          /\ call' = [c \in Callers |->
                        IF call[c].state = "waiting"
                        THEN [call[c] EXCEPT !.state = "error"]
                        ELSE call[c]]
     ELSE UNCHANGED <<sock, link, queue, inflight, inbound, call>>
  /\ UNCHANGED <<transport, counter, drops, posted, received, lost>>

(* Mutant: reconnecting without processing the queue.                      *)
OpenNoFlush ==
  /\ sock = "connecting" /\ link = "none"
  /\ sock' = "connected" /\ link' = "open"
  /\ UNCHANGED <<transport, client, counter, queue, inflight, inbound, drops, call, posted,
                 received, lost>>

(* The socket opens: connected, and the queue is sent in order.            *)
Open ==
  /\ sock = "connecting" /\ link = "none"
  /\ sock' = "connected" /\ link' = "open"
  /\ inflight' = inflight \o queue /\ received' = received \o queue /\ queue' = <<>>
  /\ UNCHANGED <<transport, client, counter, inbound, drops, call, posted, lost>>

(* The network breaks the connection; the socket does not know yet.        *)
Drop ==
  /\ link = "open" /\ drops < MaxDrops
  /\ link' = "broken" /\ drops' = drops + 1
  /\ UNCHANGED <<transport, client, counter, sock, queue, inflight, inbound, call, posted,
                 received, lost>>

(* The close event: what the node held and what was on the wire is lost;  *)
(* the socket connects again after its delay.                              *)
Close ==
  /\ link = "broken"
  /\ link' = "none" /\ sock' = "connecting"
  /\ inflight' = <<>> /\ inbound' = <<>>
  /\ lost' = lost \cup Ids(inflight) \cup Ids(inbound)
  /\ UNCHANGED <<transport, client, counter, queue, drops, call, posted, received>>

(* The node answers one of the requests it holds, in any order.           *)
Respond ==
  /\ transport = "http" \/ link = "open"
  /\ \E i \in DOMAIN inflight :
       \E res \in IF inflight[i].method = "status" THEN {"good", "malformed"} ELSE {"ok"} :
         /\ inflight' = RemoveAt(inflight, i)
         /\ inbound' = Append(inbound, [id |-> inflight[i].id, answers |-> inflight[i].method, result |-> res])
  /\ UNCHANGED <<transport, client, counter, sock, link, queue, drops, call, posted, received,
                 lost>>

(* A response arrives: every caller awaiting its id takes it; if it is    *)
(* the status response, create returns the client or throws.              *)
Receive ==
  /\ transport = "http" \/ link = "open"
  /\ inbound # <<>>
  /\ LET r == Head(inbound)
     IN /\ inbound' = Tail(inbound)
        /\ call' = [c \in Callers |->
                      IF call[c].state = "waiting" /\ call[c].req.id = r.id
                      THEN [state |-> "done", req |-> call[c].req, result |-> r]
                      ELSE call[c]]
        /\ client' = IF client = "creating" /\ r.id = StatusId THEN VersionResult(r) ELSE client
  /\ UNCHANGED <<transport, counter, sock, link, queue, inflight, drops, posted, received,
                 lost>>

(* One HTTP POST reaches the node.  Each POST of HttpClient.execute is a  *)
(* request of its own, so of several posted ones any may arrive first.    *)
Arrive ==
  /\ \E r \in posted :
       /\ posted' = posted \ {r}
       /\ inflight' = Append(inflight, r)
       /\ received' = Append(received, r)
  /\ UNCHANGED <<transport, client, counter, sock, link, queue, inbound, drops, call, lost>>

Next ==
  \/ \E c \in Callers : (\E m \in Methods : Call(c, m)) \/ Subscribe(c)
  \/ Disconnect \/ Open \/ Drop \/ Close \/ Arrive \/ Respond \/ Receive

(* A POST arrives, the node answers, the reconnect timer fires and the    *)
(* event loop delivers what arrives; callers, disconnect and the network  *)
(* owe nothing.                                                            *)
Spec ==
  Init /\ [][Next]_vars
  /\ WF_vars(Open) /\ WF_vars(Close) /\ WF_vars(Arrive) /\ WF_vars(Respond)
  /\ WF_vars(Receive)

-----------------------------------------------------------------------------
Requests == [id : FirstId + 1 .. FirstId + MaxIds, method : Methods \cup {"status", "subscribe"}]

TypeOK ==
  /\ transport \in {"http", "ws"}
  /\ client \in {"creating", "ready", "failed", "disconnected"}
  /\ counter \in StatusId .. FirstId + MaxIds
  /\ sock \in {"unconnected", "connecting", "connected", "disconnected"}
  /\ link \in {"none", "open", "broken"}
  /\ queue \in Seq(Requests) /\ inflight \in Seq(Requests) /\ received \in Seq(Requests)
  /\ posted \subseteq Requests /\ lost \subseteq StatusId .. FirstId + MaxIds
  /\ drops \in 0..MaxDrops
  /\ \A c \in Callers : call[c].state \in {"idle", "waiting", "done", "error"}

CallsSettle ==
  /\ \A c \in Callers :
       call[c].state = "waiting" ~> (call[c].state # "waiting" \/ call[c].req.id \in lost)
  /\ client = "creating" ~> (client # "creating" \/ StatusId \in lost)
(* When create throws because the status response is malformed, the RPC   *)
(* client it was given has been disconnected: connect built that client    *)
(* itself and hands it to nobody else, and a WebSocket client reconnects   *)
(* until disconnect is called (spec section 4.4).                          *)
FailedCreateReleasesSocket ==
  client = "failed" => sock \in {"unconnected", "disconnected"}
=============================================================================
