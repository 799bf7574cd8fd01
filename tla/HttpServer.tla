----------------------------- MODULE HttpServer -----------------------------
(***************************************************************************)
(* The HTTP server of the COBOL runtime (src/runtime/runtime.go): the      *)
(* COBOL program is one thread that calls HTTP-LISTEN and HTTP-RESPOND;    *)
(* every HTTP-LISTEN starts an http.Server of its own, whose goroutine     *)
(* binds the port and whose handlers, one goroutine per request, meet the  *)
(* program through two package-level channels (requestCh, handlerDoneCh)   *)
(* and one channel per request (respC).                                    *)
(*                                                                         *)
(* A client sends one request, so requests are named by their client.      *)
(* Servers are numbered by the HTTP-LISTEN that made them.  A server has   *)
(* been Closed exactly when it is not listenSrv any more.                  *)
(***************************************************************************)
EXTENDS Naturals, Sequences, FiniteSets

CONSTANTS
    Clients,      \* the clients, each with one request
    Ports,        \* the port numbers HTTP-LISTEN statements name
    HeaderNames,  \* the fields of the HEADERS groups
    Statuses,     \* the STATUS numbers of HTTP-RESPOND statements
    MaxListens,   \* bound on the number of HTTP-LISTEN calls
    MaxFailed,    \* bound on the number of HTTP-RESPOND calls that fail
    None          \* the nil request

ASSUME NoneAssumption == None \notin Clients
ASSUME BoundAssumption == MaxListens \in Nat
ASSUME StatusAssumption == Statuses \subseteq Nat
ASSUME PortAssumption == Ports \subseteq Nat \ {0}

Servers == 1..MaxListens

\* The nil *http.Server and, as a port's owner, another process.
NoServer == 0
Outsider == MaxListens + 1

\* Capacity of requestCh.
RequestCap == 1

\* net/http panics in WriteHeader on any other number.
ValidStatus(s) == s \in 100..999

\* HTTP-RESPOND statements are numbered as they run, the failing ones too.  A
\* header value is abstracted to the number of the statement whose HEADERS
\* group set it; 0 means that the header is absent.
NoHeaders == [n \in HeaderNames |-> 0]

Response == [no : Nat, status : Nat, headers : [HeaderNames -> Nat]]

\* An empty respC, and the resp of a handler that has received none.
NoResponse == [no |-> 0, status |-> 0, headers |-> NoHeaders]

VARIABLES
    pc,             \* where the COBOL thread is
    rc,             \* what the last HTTP call returned to it
    listens,        \* number of HTTP-LISTEN calls so far
    responds,       \* number of HTTP-RESPOND calls so far
    failed,         \* those of them that returned 1
    listenSrv,
    currentReq,
    pendingHeaders,
    requestCh,      \* the buffer, followed by the senders blocked on it
    handlerDone,    \* tokens in handlerDoneCh
    srv,            \* progress of each server's ListenAndServe goroutine
    srvPort,        \* Addr of each server
    portOwner,      \* who has each port bound
    handler,        \* progress of each request's handler goroutine
    srvOf,          \* the server that accepted each client
    respC,          \* content of each request's respC
    resp,           \* each handler's local variable resp
    client          \* what has become of each client's connection

programVars == <<pc, rc, listens, responds, failed, listenSrv, currentReq, pendingHeaders>>
serverVars == <<srv, srvPort, portOwner>>
handlerVars == <<handler, srvOf, resp>>
channelVars == <<requestCh, handlerDone, respC>>
vars == <<programVars, serverVars, handlerVars, channelVars, client>>

PCs == {"run", "listening", "responding", "closing", "stopped"}

SrvStates == {"none", "starting", "checked", "bound", "serving", "failed", "closed"}

HandlerStates == {"none", "reading", "sending", "blocked", "waiting", "writing",
                  "signalling", "returned", "ended", "panicked"}

ClientStates == {"idle", "open", "answered", "cut", "left"}

\* The requests in the buffer of requestCh or blocked on it.
Queued == {requestCh[i] : i \in DOMAIN requestCh}

Init ==
    /\ pc = "run"
    /\ rc = 0
    /\ listens = 0
    /\ responds = 0
    /\ failed = {}
    /\ listenSrv = NoServer
    /\ currentReq = None
    /\ pendingHeaders = NoHeaders
    /\ requestCh = <<>>
    /\ handlerDone = 0
    /\ srv = [g \in Servers |-> "none"]
    /\ srvPort = [g \in Servers |-> 0]
    /\ portOwner \in [Ports -> {NoServer, Outsider}]
    /\ handler = [c \in Clients |-> "none"]
    /\ srvOf = [c \in Clients |-> NoServer]
    /\ respC = [c \in Clients |-> NoResponse]
    /\ resp = [c \in Clients |-> NoResponse]
    /\ client = [c \in Clients |-> "idle"]

----------------------------------------------------------------------------
(* listenSrv.Close(): the listener of a serving server is closed at once    *)
(* and every connection it accepted is cut; a server that is not serving    *)
(* yet finds out in its own goroutine.  Handlers are not waited for, and    *)
(* without a server nothing happens.                                        *)

\* Mutant: Close leaves the listener open.
PortsAfterCloseKept == portOwner

PortsAfterClose ==
    [p \in Ports |-> IF /\ portOwner[p] = listenSrv
                        /\ listenSrv # NoServer
                        /\ srv[listenSrv] = "serving"
                     THEN NoServer ELSE portOwner[p]]

SrvAfterClose ==
    [g \in Servers |-> IF g = listenSrv /\ srv[g] = "serving" THEN "closed" ELSE srv[g]]

ClientsAfterClose ==
    [c \in Clients |-> IF srvOf[c] = listenSrv /\ client[c] = "open"
                       THEN "cut" ELSE client[c]]

----------------------------------------------------------------------------
(* The COBOL thread.                                                        *)

\* HTTP-LISTEN up to its receive: close the server left by the last
\* HTTP-LISTEN, if any, make a new one and start its goroutine.
Listen(p) ==
    /\ pc = "run"
    /\ listens < MaxListens
    /\ LET g == listens + 1 IN
       /\ srv' = [SrvAfterClose EXCEPT ![g] = "starting"]
       /\ srvPort' = [srvPort EXCEPT ![g] = p]
       /\ listens' = g
       /\ listenSrv' = g
    /\ portOwner' = PortsAfterClose
    /\ client' = ClientsAfterClose
    /\ pc' = "listening"
    /\ UNCHANGED <<rc, responds, failed, currentReq, pendingHeaders>>
    /\ UNCHANGED <<handlerVars, channelVars>>

\* Mutant: the newest request is served first.
ListenReceiveNewest ==
    /\ pc = "listening"
    /\ requestCh # <<>>
    /\ currentReq' = requestCh[Len(requestCh)]
    /\ requestCh' = SubSeq(requestCh, 1, Len(requestCh) - 1)
    /\ handler' = [handler EXCEPT ![requestCh[Len(requestCh)]] = "waiting"]
    /\ rc' = 0
    /\ pc' = "run"
    /\ UNCHANGED <<listens, responds, failed, listenSrv, pendingHeaders>>
    /\ UNCHANGED <<serverVars, srvOf, resp, handlerDone, respC, client>>

\* currentReq = <-requestCh: the oldest request leaves the buffer and the
\* sender that has been blocked longest puts its own there.
ListenReceive ==
    /\ pc = "listening"
    /\ requestCh # <<>>
    /\ currentReq' = Head(requestCh)
    /\ requestCh' = Tail(requestCh)
    /\ handler' = IF Len(requestCh) > RequestCap
                  THEN [handler EXCEPT ![requestCh[RequestCap + 1]] = "waiting"]
                  ELSE handler
    /\ rc' = 0
    /\ pc' = "run"
    /\ UNCHANGED <<listens, responds, failed, listenSrv, pendingHeaders>>
    /\ UNCHANGED <<serverVars, srvOf, resp, handlerDone, respC, client>>

\* One child of the HEADERS group of the HTTP-RESPOND that follows, number
\* responds + 1: a blank field removes the header.
SetHeader(n, blank) ==
    /\ pc = "run"
    /\ pendingHeaders' =
         [pendingHeaders EXCEPT ![n] = IF blank THEN 0 ELSE responds + 1]
    /\ UNCHANGED <<pc, rc, listens, responds, failed, listenSrv, currentReq>>
    /\ UNCHANGED <<serverVars, handlerVars, channelVars, client>>

\* HTTP-RESPOND before any HTTP-LISTEN has returned; its headers stay.
RespondNoRequest ==
    /\ pc = "run"
    /\ currentReq = None
    /\ Cardinality(failed) < MaxFailed
    /\ responds' = responds + 1
    /\ failed' = failed \cup {responds'}
    /\ rc' = 1
    /\ UNCHANGED <<pc, listens, listenSrv, currentReq, pendingHeaders>>
    /\ UNCHANGED <<serverVars, handlerVars, channelVars, client>>

\* Mutant: the pending headers are not forgotten.
RespondKeepsHeaders(s) ==
    /\ pc = "run"
    /\ currentReq # None
    /\ respC[currentReq] = NoResponse
    /\ respC' = [respC EXCEPT ![currentReq] =
                    [no |-> responds + 1, status |-> s, headers |-> pendingHeaders]]
    /\ responds' = responds + 1
    /\ pc' = "responding"
    /\ UNCHANGED <<rc, listens, failed, listenSrv, currentReq, pendingHeaders>>
    /\ UNCHANGED <<serverVars, handlerVars, requestCh, handlerDone, client>>

\* HTTP-RESPOND up to its wait.  currentReq is not reset, so a second
\* HTTP-RESPOND hands the same request a second response.
Respond(s) ==
    /\ pc = "run"
    /\ currentReq # None
    /\ respC[currentReq] = NoResponse
    /\ respC' = [respC EXCEPT ![currentReq] =
                    [no |-> responds + 1, status |-> s, headers |-> pendingHeaders]]
    /\ responds' = responds + 1
    /\ pendingHeaders' = NoHeaders
    /\ pc' = "responding"
    /\ UNCHANGED <<rc, listens, failed, listenSrv, currentReq>>
    /\ UNCHANGED <<serverVars, handlerVars, requestCh, handlerDone, client>>

\* Mutant: HTTP-RESPOND does not wait for the handler.
RespondWaitNot ==
    /\ pc = "responding"
    /\ pc' = "closing"
    /\ UNCHANGED <<rc, listens, responds, failed, listenSrv, currentReq, pendingHeaders>>
    /\ UNCHANGED <<serverVars, handlerVars, channelVars, client>>

\* <-handlerDoneCh
RespondWait ==
    /\ pc = "responding"
    /\ handlerDone > 0
    /\ handlerDone' = handlerDone - 1
    /\ pc' = "closing"
    /\ UNCHANGED <<rc, listens, responds, failed, listenSrv, currentReq, pendingHeaders>>
    /\ UNCHANGED <<serverVars, handlerVars, requestCh, respC, client>>

\* HTTP-RESPOND closes the server and returns.
RespondClose ==
    /\ pc = "closing"
    /\ srv' = SrvAfterClose
    /\ portOwner' = PortsAfterClose
    /\ client' = ClientsAfterClose
    /\ listenSrv' = NoServer
    /\ rc' = 0
    /\ pc' = "run"
    /\ UNCHANGED <<listens, responds, failed, currentReq, pendingHeaders, srvPort>>
    /\ UNCHANGED <<handlerVars, channelVars>>

\* The program ends: nothing of it runs any more and the kernel closes its
\* sockets.
StopRun ==
    /\ pc = "run"
    /\ pc' = "stopped"
    /\ client' = [c \in Clients |-> IF client[c] = "open" THEN "cut" ELSE client[c]]
    /\ UNCHANGED <<rc, listens, responds, failed, listenSrv, currentReq, pendingHeaders>>
    /\ UNCHANGED <<serverVars, handlerVars, channelVars>>

----------------------------------------------------------------------------
(* The goroutine of listenSrv.ListenAndServe(); its error is dropped.       *)

\* Mutant: the goroutine does not look whether its server was closed.
ShuttingDownUnchecked(g) == FALSE

ShuttingDown(g) == g # listenSrv

\* The first check of ListenAndServe.
ServerStart(g) ==
    /\ srv[g] = "starting"
    /\ srv' = [srv EXCEPT ![g] = IF ShuttingDown(g) THEN "closed" ELSE "checked"]
    /\ UNCHANGED <<programVars, srvPort, portOwner, handlerVars, channelVars, client>>

\* net.Listen: without a free port the server is gone and nobody is told.
ServerBind(g) ==
    /\ srv[g] = "checked"
    /\ \/ /\ portOwner[srvPort[g]] = NoServer
          /\ portOwner' = [portOwner EXCEPT ![srvPort[g]] = g]
          /\ srv' = [srv EXCEPT ![g] = "bound"]
       \/ /\ portOwner[srvPort[g]] # NoServer
          /\ srv' = [srv EXCEPT ![g] = "failed"]
          /\ UNCHANGED portOwner
    /\ UNCHANGED <<programVars, srvPort, handlerVars, channelVars, client>>

\* Serve registers the listener; if Close came first it gives the port back.
ServerServe(g) ==
    /\ srv[g] = "bound"
    /\ \/ /\ ~ShuttingDown(g)
          /\ srv' = [srv EXCEPT ![g] = "serving"]
          /\ UNCHANGED portOwner
       \/ /\ ShuttingDown(g)
          /\ srv' = [srv EXCEPT ![g] = "closed"]
          /\ portOwner' = [portOwner EXCEPT ![srvPort[g]] = NoServer]
    /\ UNCHANGED <<programVars, srvPort, handlerVars, channelVars, client>>

----------------------------------------------------------------------------
(* The handler goroutines.                                                  *)

\* A client connects and its request reaches the handler.
Accept(c, g) ==
    /\ srv[g] = "serving"
    /\ client[c] = "idle"
    /\ client' = [client EXCEPT ![c] = "open"]
    /\ srvOf' = [srvOf EXCEPT ![c] = g]
    /\ handler' = [handler EXCEPT ![c] = "reading"]
    /\ UNCHANGED <<programVars, serverVars, channelVars, resp>>

\* io.ReadAll(r.Body) ends because the client has sent all of its body.  The
\* server sets no ReadTimeout: only the client makes this happen.
BodyArrives(c) ==
    /\ handler[c] = "reading"
    /\ client[c] = "open"
    /\ handler' = [handler EXCEPT ![c] = "sending"]
    /\ UNCHANGED <<programVars, serverVars, srvOf, resp, channelVars, client>>

\* It ends with the error of a connection that is gone.  The error is dropped:
\* the request goes on with what there is of its body.
BodyFails(c) ==
    /\ handler[c] = "reading"
    /\ client[c] # "open"
    /\ handler' = [handler EXCEPT ![c] = "sending"]
    /\ UNCHANGED <<programVars, serverVars, srvOf, resp, channelVars, client>>

\* Mutant: off by one in the capacity.
SendRequestOffByOne(c) ==
    /\ handler[c] = "sending"
    /\ requestCh' = Append(requestCh, c)
    /\ handler' = [handler EXCEPT ![c] =
                      IF Len(requestCh) <= RequestCap THEN "waiting" ELSE "blocked"]
    /\ UNCHANGED <<programVars, serverVars, srvOf, resp, handlerDone, respC, client>>

\* Mutant: a request whose client is gone is dropped.
SendRequestIfConnected(c) ==
    /\ handler[c] = "sending"
    /\ requestCh' = IF client[c] = "open" THEN Append(requestCh, c) ELSE requestCh
    /\ handler' = [handler EXCEPT ![c] =
                      IF client[c] # "open" THEN "ended"
                      ELSE IF Len(requestCh) < RequestCap THEN "waiting" ELSE "blocked"]
    /\ UNCHANGED <<programVars, serverVars, srvOf, resp, handlerDone, respC, client>>

\* requestCh <- req
SendRequest(c) ==
    /\ handler[c] = "sending"
    /\ requestCh' = Append(requestCh, c)
    /\ handler' = [handler EXCEPT ![c] =
                      IF Len(requestCh) < RequestCap THEN "waiting" ELSE "blocked"]
    /\ UNCHANGED <<programVars, serverVars, srvOf, resp, handlerDone, respC, client>>

\* Mutant: one response slot shared by all handlers.
ReceiveSharedResponse(c) ==
    /\ handler[c] = "waiting"
    /\ \E d \in Clients :
          /\ respC[d] # NoResponse
          /\ resp' = [resp EXCEPT ![c] = respC[d]]
    /\ handler' = [handler EXCEPT ![c] = "writing"]
    /\ UNCHANGED <<programVars, serverVars, srvOf, channelVars, client>>

\* resp := <-req.respC
ReceiveResponse(c) ==
    /\ handler[c] = "waiting"
    /\ respC[c] # NoResponse
    /\ resp' = [resp EXCEPT ![c] = respC[c]]
    /\ respC' = [respC EXCEPT ![c] = NoResponse]
    /\ handler' = [handler EXCEPT ![c] = "writing"]
    /\ UNCHANGED <<programVars, serverVars, srvOf, requestCh, handlerDone, client>>

\* Mutant: the handler returns early when its client is gone.
WriteResponseIfConnected(c) ==
    /\ handler[c] = "writing"
    /\ handler' = [handler EXCEPT ![c] =
                      IF client[c] = "open" THEN "signalling" ELSE "ended"]
    /\ UNCHANGED <<programVars, serverVars, srvOf, resp, channelVars, client>>

\* The headers, WriteHeader and Write: into net/http's buffer.  A panic is
\* recovered by net/http, which closes the connection.
WriteResponse(c) ==
    /\ handler[c] = "writing"
    /\ \/ /\ ValidStatus(resp[c].status)
          /\ handler' = [handler EXCEPT ![c] = "signalling"]
          /\ UNCHANGED client
       \/ /\ ~ValidStatus(resp[c].status)
          /\ handler' = [handler EXCEPT ![c] = "panicked"]
          /\ client' = [client EXCEPT ![c] = IF @ = "open" THEN "cut" ELSE @]
    /\ UNCHANGED <<programVars, serverVars, srvOf, resp, channelVars>>

\* Mutant: the handler signals twice, in the body and in a defer.
SignalDoneTwice(c) ==
    /\ handler[c] = "signalling"
    /\ handlerDone' = handlerDone + 2
    /\ handler' = [handler EXCEPT ![c] = "returned"]
    /\ UNCHANGED <<programVars, serverVars, srvOf, resp, requestCh, respC, client>>

\* handlerDoneCh <- struct{}{}, a channel of capacity 1, and return.
SignalDone(c) ==
    /\ handler[c] = "signalling"
    /\ handlerDone < 1
    /\ handlerDone' = handlerDone + 1
    /\ handler' = [handler EXCEPT ![c] = "returned"]
    /\ UNCHANGED <<programVars, serverVars, srvOf, resp, requestCh, respC, client>>

\* net/http sends the buffered response after the handler has returned.
Flush(c) ==
    /\ handler[c] = "returned"
    /\ handler' = [handler EXCEPT ![c] = "ended"]
    /\ client' = [client EXCEPT ![c] = IF @ = "open" THEN "answered" ELSE @]
    /\ UNCHANGED <<programVars, serverVars, srvOf, resp, channelVars>>

\* A client closes its connection before it has an answer.
ClientLeaves(c) ==
    /\ client[c] = "open"
    /\ client' = [client EXCEPT ![c] = "left"]
    /\ UNCHANGED <<programVars, serverVars, handlerVars, channelVars>>

----------------------------------------------------------------------------
ServerStep(g) == ServerStart(g) \/ ServerBind(g) \/ ServerServe(g)

HandlerStep(c) ==
    \/ BodyFails(c)
    \/ SendRequest(c)
    \/ ReceiveResponse(c)
    \/ WriteResponse(c)
    \/ SignalDone(c)
    \/ Flush(c)

Environment ==
    \E c \in Clients :
        BodyArrives(c) \/ ClientLeaves(c) \/ \E g \in Servers : Accept(c, g)

\* What the COBOL thread does inside a call, which it cannot choose.
InCall == ListenReceive \/ RespondWait \/ RespondClose

SetHeaders == \E n \in HeaderNames, blank \in BOOLEAN : SetHeader(n, blank)

Runtime ==
    /\ pc # "stopped"
    /\ \/ InCall
       \/ \E g \in Servers : ServerStep(g)
       \/ \E c \in Clients : HandlerStep(c)
       \/ Environment

\* Any COBOL program.
Next ==
    \/ \E p \in Ports : Listen(p)
    \/ SetHeaders
    \/ RespondNoRequest
    \/ \E s \in Statuses : Respond(s)
    \/ StopRun
    \/ Runtime

Spec == Init /\ [][Next]_vars

----------------------------------------------------------------------------
(* The program of every example: an endless loop that answers each request  *)
(* with a valid status before it listens again (src/examples/route.cbl).    *)

\* The request in hand has not been given a response.
Owing ==
    /\ currentReq # None
    /\ resp[currentReq] = NoResponse
    /\ respC[currentReq] = NoResponse

LoopListen == ~Owing /\ \E p \in Ports : Listen(p)

LoopRespond == Owing /\ \E s \in Statuses : ValidStatus(s) /\ Respond(s)

LoopNext == LoopListen \/ LoopRespond \/ Runtime

\* The Go scheduler runs every goroutine that can run, and so does the
\* kernel the COBOL thread; a client that finds a server does connect.  That
\* it ever sends its body to the end, or that it stays, is not assumed.
Fairness ==
    /\ WF_vars(InCall)
    /\ WF_vars(LoopListen)
    /\ WF_vars(LoopRespond)
    /\ \A g \in Servers : WF_vars(ServerStep(g))
    /\ \A c \in Clients : WF_vars(HandlerStep(c))
    /\ \A c \in Clients : WF_vars(\E g \in Servers : Accept(c, g))

LoopSpec == Init /\ [][LoopNext]_vars /\ Fairness

----------------------------------------------------------------------------
(* Properties of any program.                                               *)

\* Every variable has its type.
TypeOK ==
    /\ pc \in PCs
    /\ rc \in 0..1
    /\ listens \in 0..MaxListens
    /\ responds \in Nat
    /\ failed \subseteq 1..responds
    /\ listenSrv \in Servers \cup {NoServer}
    /\ currentReq \in Clients \cup {None}
    /\ pendingHeaders \in [HeaderNames -> Nat]
    /\ requestCh \in Seq(Clients)
    /\ handlerDone \in 0..1
    /\ srv \in [Servers -> SrvStates]
    /\ srvPort \in [Servers -> Ports \cup {0}]
    /\ portOwner \in [Ports -> Servers \cup {NoServer, Outsider}]
    /\ handler \in [Clients -> HandlerStates]
    /\ srvOf \in [Clients -> Servers \cup {NoServer}]
    /\ respC \in [Clients -> Response]
    /\ resp \in [Clients -> Response]
    /\ client \in [Clients -> ClientStates]

\* The handler of the request in hand has written the last response.
LastResponseWritten ==
    /\ currentReq # None
    /\ handler[currentReq] \in {"returned", "ended"}
    /\ resp[currentReq].no = responds

\* The tokens of handlerDoneCh are anonymous, but HTTP-RESPOND never returns
\* on the token of another request's handler, nor on one left over from an
\* earlier response: whenever it has taken a token, or one is there for it
\* to take, the handler of its own request has written its own response; and
\* a token waits only for an HTTP-RESPOND that is waiting for it.
TokenIsOwn ==
    /\ pc = "closing" \/ handlerDone > 0 => LastResponseWritten
    /\ handlerDone > 0 => pc = "responding"

\* However many handlers are alive, of however many servers, at most one is
\* between receiving its response and signalling that it is written.
OneWriter ==
    \A c, d \in Clients :
        /\ handler[c] \in {"writing", "signalling"}
        /\ handler[d] \in {"writing", "signalling"}
        => c = d

\* A header set for HTTP-RESPOND number h goes out with number no only if h is
\* that number, or if the calls from h to the one before no have all failed.
GoesOutWith(h, no) == h <= no /\ h..(no - 1) \subseteq failed

\* A response carries the headers set for it, and no header of a call that
\* responded before: HTTP-RESPOND takes the pending headers along and forgets
\* them.  One that fails does not forget them, so a response does carry the
\* headers of the calls that failed since the last response: that is the one
\* way in which a header gets into a response it was not set for.
HeadersOfOwnResponse ==
    \A c \in Clients, n \in HeaderNames :
        resp[c].headers[n] # 0 => GoesOutWith(resp[c].headers[n], resp[c].no)

\* No two clients are sent the same response, and only a client whose
\* handler has a response is answered.
OneResponsePerRequest ==
    /\ \A c \in Clients : client[c] = "answered" => resp[c].no > 0
    /\ \A c, d \in Clients : c # d /\ resp[c].no = resp[d].no => resp[c].no = 0

\* A request is at one place only: it is queued once, by a handler that is
\* blocked exactly if its request is behind the buffer's capacity, and a
\* request in hand is not queued any more; no handler waits in any other case.
RequestInOnePlace ==
    /\ \A i, j \in DOMAIN requestCh : requestCh[i] = requestCh[j] => i = j
    /\ \A i \in DOMAIN requestCh :
          handler[requestCh[i]] = IF i <= RequestCap THEN "waiting" ELSE "blocked"
    /\ \A c \in Clients : handler[c] = "blocked" => c \in Queued
    /\ currentReq \notin Queued

\* Only the server of the HTTP-LISTEN in progress accepts clients, and every
\* port bound by this process is bound by a server goroutine that is going to
\* serve on it or to give it back: no server that was replaced or failed to
\* bind keeps a port.
PortsAccountedFor ==
    /\ \A g \in Servers : srv[g] = "serving" => g = listenSrv
    /\ \A p \in Ports, g \in Servers :
          portOwner[p] = g <=> srvPort[g] = p /\ srv[g] \in {"bound", "serving"}

----------------------------------------------------------------------------
(* Liveness of the loop.                                                    *)

\* HTTP-RESPOND to an unanswered request returns: handler and program never
\* wait for each other, whatever the client does meanwhile.
RespondReturns == pc = "responding" ~> pc = "run"

\* A client keeps its connection and does not send the end of its body.
Stalled(c) == handler[c] = "reading" /\ client[c] = "open"

\* Every request that reached a handler is handed to the program and gets its
\* response written, also the requests left over from servers closed before;
\* but for one case: its client stalls in the body for ever.  No client waits
\* for another one that stalls.
EveryRequestServed ==
    \A c \in Clients :
        handler[c] = "reading" ~> \/ handler[c] = "ended" /\ resp[c] # NoResponse
                                  \/ []Stalled(c)

\* HTTP-LISTEN returns if its server got the port and a client is to come;
\* but for one case: there is always a client that stalls in its body.
ListenReturns ==
    /\ pc = "listening"
    /\ srv[listenSrv] = "serving"
    /\ \E c \in Clients : client[c] = "idle"
    ~> pc = "run" \/ [](\E c \in Clients : Stalled(c))

\* A server closed before it was serving gives its port back.
PortGivenBack ==
    \A p \in Ports, g \in Servers :
        (portOwner[p] = g /\ g # listenSrv) ~> portOwner[p] # g

----------------------------------------------------------------------------
(* The service it implements.  A request has been taken once its handler    *)
(* has got it out of requestCh; a second response to the same request is    *)
(* never received by its handler and is no reply.                           *)

TakenRequests ==
    {c \in Clients : handler[c] \notin {"none", "reading", "sending"} /\ c \notin Queued}

Replies ==
    [c \in Clients |-> IF resp[c].no # 0 THEN resp[c].no ELSE respC[c].no]

Outcomes ==
    [c \in Clients |-> CASE client[c] = "idle" -> "none"
                         [] client[c] = "open" -> "pending"
                         [] client[c] = "answered" -> "answered"
                         [] client[c] \in {"cut", "left"} -> "lost"]

Service == INSTANCE HttpService
    WITH queue <- requestCh, taken <- TakenRequests, inHand <- currentReq,
         reply <- Replies, outcome <- Outcomes

\* Whatever the program does, clients and program see the service promised by
\* HttpService: no request is handed out twice or out of order, and no client
\* gets a response that was not made for it.
ImplementsService == Service!Spec
=============================================================================
