-------------------------- MODULE HttpServerProofs --------------------------
(***************************************************************************)
(* Theorems about HttpServer, for every set of clients, ports and headers  *)
(* and every number of HTTP-LISTEN calls; and the proof that it implements  *)
(* HttpService.                                                             *)
(***************************************************************************)
EXTENDS HttpServer, TLAPS

USE NoneAssumption, BoundAssumption, StatusAssumption, PortAssumption

\* The value of an empty respC is a response, number 0, that sets no header.
LEMMA NoResponseType == NoResponse \in Response /\ NoResponse.no = 0
  BY DEF NoResponse, Response, NoHeaders

\* Closing the server preserves the types of what it changes.
LEMMA CloseType ==
  ASSUME TypeOK
  PROVE  /\ PortsAfterClose \in [Ports -> Servers \cup {NoServer, Outsider}]
         /\ SrvAfterClose \in [Servers -> SrvStates]
         /\ ClientsAfterClose \in [Clients -> ClientStates]
  BY DEF TypeOK, PortsAfterClose, SrvAfterClose, ClientsAfterClose, SrvStates, ClientStates

\* Every step preserves the types, those of the COBOL thread first.
LEMMA ProgramType ==
  ASSUME TypeOK,
         \/ \E p \in Ports : Listen(p)
         \/ SetHeaders
         \/ RespondNoRequest
         \/ \E s \in Statuses : Respond(s)
         \/ StopRun
         \/ InCall
  PROVE  TypeOK'
<1>1. ASSUME NEW p \in Ports, Listen(p)
      PROVE  TypeOK'
  <2>1. listens + 1 \in Servers
    BY <1>1 DEF Listen, TypeOK, Servers
  <2>2. [SrvAfterClose EXCEPT ![listens + 1] = "starting"] \in [Servers -> SrvStates]
    BY CloseType DEF SrvStates
  <2> QED
    BY <1>1, <2>1, <2>2, CloseType
    DEF Listen, TypeOK, PCs, Servers, handlerVars, channelVars
<1>2. ASSUME SetHeaders
      PROVE  TypeOK'
  BY <1>2
  DEF SetHeaders, SetHeader, TypeOK, serverVars, handlerVars, channelVars
<1>3. ASSUME RespondNoRequest
      PROVE  TypeOK'
  <2>1. failed' \subseteq 1..responds' /\ responds' \in Nat
    BY <1>3 DEF RespondNoRequest, TypeOK
  <2> QED
    BY <1>3, <2>1
    DEF RespondNoRequest, TypeOK, serverVars, handlerVars, channelVars
<1>4. ASSUME NEW s \in Statuses, Respond(s)
      PROVE  TypeOK'
  <2>1. /\ [no |-> responds + 1, status |-> s, headers |-> pendingHeaders] \in Response
        /\ failed' \subseteq 1..responds'
    BY <1>4 DEF Respond, TypeOK, Response
  <2> QED
    BY <1>4, <2>1
    DEF Respond, TypeOK, PCs, NoHeaders, serverVars, handlerVars
<1>5. ASSUME StopRun
      PROVE  TypeOK'
  BY <1>5
  DEF StopRun, TypeOK, PCs, ClientStates, serverVars, handlerVars, channelVars
<1>6. ASSUME ListenReceive
      PROVE  TypeOK'
  <2>1. Head(requestCh) \in Clients /\ Tail(requestCh) \in Seq(Clients)
    BY <1>6 DEF ListenReceive, TypeOK
  <2>2. handler' \in [Clients -> HandlerStates]
    BY <1>6 DEF ListenReceive, TypeOK, HandlerStates
  <2> QED
    BY <1>6, <2>1, <2>2 DEF ListenReceive, TypeOK, PCs, serverVars
<1>7. ASSUME RespondWait
      PROVE  TypeOK'
  BY <1>7 DEF RespondWait, TypeOK, PCs, serverVars, handlerVars
<1>8. ASSUME RespondClose
      PROVE  TypeOK'
  BY <1>8, CloseType DEF RespondClose, TypeOK, PCs, handlerVars, channelVars
<1> QED
  BY <1>1, <1>2, <1>3, <1>4, <1>5, <1>6, <1>7, <1>8 DEF InCall

\* ... then those of the goroutines and the clients.
LEMMA GoroutineType ==
  ASSUME TypeOK,
         \/ \E g \in Servers : ServerStep(g)
         \/ \E c \in Clients : HandlerStep(c)
         \/ Environment
  PROVE  TypeOK'
<1> USE DEF TypeOK, programVars, serverVars, handlerVars, channelVars
<1>1. ASSUME NEW g \in Servers, ServerStep(g)
      PROVE  TypeOK'
  BY <1>1
  DEF ServerStep, ServerStart, ServerBind, ServerServe, SrvStates, NoServer
<1>2. ASSUME NEW c \in Clients, SendRequest(c)
      PROVE  TypeOK'
  BY <1>2 DEF SendRequest, HandlerStates
<1>3. ASSUME NEW c \in Clients, ReceiveResponse(c)
      PROVE  TypeOK'
  BY <1>3, NoResponseType DEF ReceiveResponse, HandlerStates
<1>4. ASSUME NEW c \in Clients, WriteResponse(c)
      PROVE  TypeOK'
  BY <1>4 DEF WriteResponse, HandlerStates, ClientStates
<1>5. ASSUME NEW c \in Clients, SignalDone(c)
      PROVE  TypeOK'
  BY <1>5 DEF SignalDone, HandlerStates
<1>6. ASSUME NEW c \in Clients, Flush(c)
      PROVE  TypeOK'
  BY <1>6 DEF Flush, HandlerStates, ClientStates
<1>7. ASSUME Environment
      PROVE  TypeOK'
  <2>1. ASSUME NEW c \in Clients, BodyArrives(c)
        PROVE  TypeOK'
    BY <2>1 DEF BodyArrives, HandlerStates
  <2>2. ASSUME NEW c \in Clients, ClientLeaves(c)
        PROVE  TypeOK'
    BY <2>2 DEF ClientLeaves, ClientStates
  <2>3. ASSUME NEW c \in Clients, NEW g \in Servers, Accept(c, g)
        PROVE  TypeOK'
    BY <2>3 DEF Accept, HandlerStates, ClientStates
  <2> QED
    BY <1>7, <2>1, <2>2, <2>3 DEF Environment
<1>8. ASSUME NEW c \in Clients, BodyFails(c)
      PROVE  TypeOK'
  BY <1>8 DEF BodyFails, HandlerStates
<1> QED
  BY <1>1, <1>2, <1>3, <1>4, <1>5, <1>6, <1>7, <1>8 DEF HandlerStep

\* The initial state and every step, for TypeCorrect and the invariant below.
LEMMA TypeCorrectInit == Init => TypeOK
  BY NoResponseType
  DEF Init, TypeOK, PCs, Servers, NoServer, NoHeaders, SrvStates, HandlerStates, ClientStates

\* One step of any program.
LEMMA TypeCorrectNext == TypeOK /\ [Next]_vars => TypeOK'
<1> SUFFICES ASSUME TypeOK, [Next]_vars
             PROVE  TypeOK'
  OBVIOUS
<1>1. CASE Next
  BY <1>1, ProgramType, GoroutineType DEF Next, Runtime
<1>2. CASE UNCHANGED vars
  BY <1>2 DEF TypeOK, vars, programVars, serverVars, handlerVars, channelVars
<1> QED
  BY <1>1, <1>2

\* Type correctness of the server under any COBOL program.
THEOREM TypeCorrect == Spec => []TypeOK
  BY TypeCorrectInit, TypeCorrectNext, PTL DEF Spec

----------------------------------------------------------------------------
(* The handoff of responses.  Between HTTP-RESPOND's send and its return     *)
(* there is one response on the way, and it is in one place: in the respC of *)
(* the request in hand, with its handler, or confirmed by the token.         *)

\* The response under way, wherever it is, is the last one made, for the
\* request in hand.
HandoffInv ==
    /\ \A c \in Clients : respC[c] # NoResponse =>
          pc = "responding" /\ c = currentReq /\ respC[c].no = responds
    /\ \A c \in Clients : handler[c] \in {"writing", "signalling"} =>
          /\ pc = "responding" /\ c = currentReq
          /\ respC[c] = NoResponse /\ resp[c].no = responds
    /\ handlerDone > 0 =>
          pc = "responding" /\ LastResponseWritten /\ respC[currentReq] = NoResponse
    /\ pc = "closing" => handlerDone = 0 /\ LastResponseWritten

\* A handler or a queued request exists only for a client that has connected.
ConnectedInv ==
    /\ \A c \in Clients : client[c] = "idle" => handler[c] = "none"
    /\ \A i \in DOMAIN requestCh : client[requestCh[i]] # "idle"

\* Response numbers are given in order, and a handler that has received a
\* response has a number that no other handler has.
NumberInv ==
    /\ \A c \in Clients : resp[c].no <= responds
    /\ \A c, d \in Clients : respC[c] # NoResponse => resp[d].no < responds
    /\ \A c \in Clients : handler[c] \in {"writing", "signalling", "returned"} => resp[c].no > 0
    /\ OneResponsePerRequest

ResponseInv == TypeOK /\ HandoffInv /\ ConnectedInv /\ NumberInv

\* What the COBOL thread does while it does not wait for a handler changes
\* neither a handler that has a response nor a respC.
LEMMA ProgramResponse ==
  ASSUME ResponseInv, TypeOK',
         \/ \E p \in Ports : Listen(p)
         \/ SetHeaders
         \/ RespondNoRequest
         \/ StopRun
         \/ ListenReceive
         \/ RespondClose
  PROVE  ResponseInv'
<1> USE DEF ResponseInv, HandoffInv, ConnectedInv, NumberInv,
            OneResponsePerRequest, LastResponseWritten
<1>1. ASSUME NEW p \in Ports, Listen(p)
      PROVE  ResponseInv'
  BY <1>1 DEF Listen, ClientsAfterClose, TypeOK, handlerVars, channelVars
<1>2. ASSUME SetHeaders
      PROVE  ResponseInv'
  BY <1>2 DEF SetHeaders, SetHeader, TypeOK, serverVars, handlerVars, channelVars
<1>3. ASSUME RespondNoRequest
      PROVE  ResponseInv'
  <2>1. /\ UNCHANGED <<pc, currentReq, requestCh, handlerDone, handler, resp, respC, client>>
        /\ pc = "run" /\ responds' = responds + 1 /\ responds \in Nat /\ handlerDone \in 0..1
        /\ \A c \in Clients : resp[c].no \in Nat
    BY <1>3 DEF RespondNoRequest, TypeOK, Response, serverVars, handlerVars, channelVars
  <2> QED
    BY <2>1
<1>4. ASSUME StopRun
      PROVE  ResponseInv'
  BY <1>4 DEF StopRun, TypeOK, serverVars, handlerVars, channelVars
<1>5. ASSUME ListenReceive
      PROVE  ResponseInv'
  <2>1. ConnectedInv'
    <3>1. \A i \in DOMAIN requestCh' : i + 1 \in DOMAIN requestCh
                                      /\ requestCh'[i] = requestCh[i + 1]
      BY <1>5 DEF ListenReceive, TypeOK
    <3>2. Len(requestCh) > RequestCap => RequestCap + 1 \in DOMAIN requestCh
      BY DEF TypeOK, RequestCap
    <3> QED
      BY <1>5, <3>1, <3>2 DEF ListenReceive, TypeOK
  <2> QED
    BY <1>5, <2>1 DEF ListenReceive, TypeOK, serverVars
<1>6. ASSUME RespondClose
      PROVE  ResponseInv'
  BY <1>6 DEF RespondClose, ClientsAfterClose, TypeOK, handlerVars, channelVars
<1> QED
  BY <1>1, <1>2, <1>3, <1>4, <1>5, <1>6

\* A handler receives the response.
LEMMA ReceiveKeeps ==
  ASSUME ResponseInv, TypeOK', NEW c \in Clients, ReceiveResponse(c)
  PROVE  ResponseInv'
<1>1. /\ resp' = [resp EXCEPT ![c] = respC[c]] /\ respC' = [respC EXCEPT ![c] = NoResponse]
      /\ handler' = [handler EXCEPT ![c] = "writing"] /\ respC[c] # NoResponse
      /\ UNCHANGED <<pc, responds, currentReq, pendingHeaders, requestCh, handlerDone, client>>
      /\ handler[c] = "waiting"
  BY DEF ReceiveResponse, programVars
<1>2. /\ DOMAIN resp = Clients /\ DOMAIN respC = Clients /\ DOMAIN handler = Clients
      /\ respC[c] \in Response /\ responds \in Nat /\ handlerDone \in 0..1
      /\ \A d \in Clients : resp[d].no \in Nat /\ respC[d].no \in Nat
  BY DEF ResponseInv, TypeOK, Response
<1>3. /\ pc = "responding" /\ c = currentReq /\ respC[c].no = responds
      /\ handlerDone = 0 /\ pc # "closing"
      /\ \A d \in Clients : respC[d] # NoResponse => d = c
      /\ \A d \in Clients : handler[d] \notin {"writing", "signalling"}
  BY <1>1, <1>2 DEF ResponseInv, HandoffInv
<1>4. /\ \A d \in Clients : resp[d].no < responds
      /\ resp'[c].no = responds /\ responds > 0
  BY <1>1, <1>2, <1>3 DEF ResponseInv, NumberInv
<1>5. HandoffInv'
  BY <1>1, <1>2, <1>3, <1>4 DEF HandoffInv
<1>6. ConnectedInv'
  BY <1>1, <1>2 DEF ResponseInv, ConnectedInv
<1>7. NumberInv'
  <2>1. \A d \in Clients : d # c => resp'[d] = resp[d] /\ handler'[d] = handler[d]
    BY <1>1, <1>2
  <2>2. \A d \in Clients : respC'[d] = NoResponse
    BY <1>1, <1>2, <1>3
  <2>3. \A d \in Clients : resp'[d].no <= responds'
    BY <1>1, <1>2, <1>4, <2>1
  <2>4. \A d \in Clients : handler'[d] \in {"writing", "signalling", "returned"} => resp'[d].no > 0
    BY <1>1, <1>2, <1>4, <2>1 DEF ResponseInv, NumberInv
  <2>5. OneResponsePerRequest'
    BY <1>1, <1>2, <1>4, <2>1 DEF ResponseInv, NumberInv, OneResponsePerRequest
  <2> QED
    BY <2>2, <2>3, <2>4, <2>5 DEF NumberInv
<1> QED
  BY <1>5, <1>6, <1>7 DEF ResponseInv

\* A handler says that the response is written.
LEMMA SignalKeeps ==
  ASSUME ResponseInv, TypeOK', NEW c \in Clients, SignalDone(c)
  PROVE  ResponseInv'
<1>1. /\ handler' = [handler EXCEPT ![c] = "returned"] /\ handler[c] = "signalling"
      /\ UNCHANGED <<pc, responds, currentReq, pendingHeaders, requestCh, resp, respC, client>>
  BY DEF SignalDone, programVars
<1>2. DOMAIN handler = Clients /\ None \notin Clients
  BY NoneAssumption DEF ResponseInv, TypeOK
<1>3. /\ pc = "responding" /\ c = currentReq /\ respC[c] = NoResponse /\ resp[c].no = responds
      /\ pc # "closing"
      /\ \A d \in Clients : handler[d] \in {"writing", "signalling"} => d = c
  BY <1>1 DEF ResponseInv, HandoffInv
<1>4. LastResponseWritten'
  BY <1>1, <1>2, <1>3 DEF LastResponseWritten
<1>5. HandoffInv'
  <2>1. \A d \in Clients : handler'[d] \notin {"writing", "signalling"}
    BY <1>1, <1>2, <1>3
  <2> QED
    BY <1>1, <1>3, <1>4, <2>1 DEF ResponseInv, HandoffInv
<1>6. ConnectedInv'
  BY <1>1, <1>2 DEF ResponseInv, ConnectedInv
<1>7. NumberInv'
  <2>1. \A d \in Clients : handler'[d] \in {"writing", "signalling", "returned"} =>
            handler[d] \in {"writing", "signalling", "returned"}
    BY <1>1, <1>2
  <2> QED
    BY <1>1, <2>1 DEF ResponseInv, NumberInv, OneResponsePerRequest
<1> QED
  BY <1>5, <1>6, <1>7 DEF ResponseInv

\* HTTP-RESPOND makes the response; then it goes to the handler, into the
\* connection, and back to the program as a token.
LEMMA HandoffResponse ==
  ASSUME ResponseInv, TypeOK',
         \/ \E s \in Statuses : Respond(s)
         \/ RespondWait
         \/ \E c \in Clients : HandlerStep(c)
  PROVE  ResponseInv'
<1> USE DEF ResponseInv, HandoffInv, ConnectedInv, NumberInv,
            OneResponsePerRequest, LastResponseWritten
<1>1. ASSUME NEW s \in Statuses, Respond(s)
      PROVE  ResponseInv'
  BY <1>1 DEF Respond, TypeOK, NoHeaders, Response, serverVars, handlerVars
<1>2. ASSUME RespondWait
      PROVE  ResponseInv'
  BY <1>2 DEF RespondWait, TypeOK, serverVars, handlerVars
<1>3. ASSUME NEW c \in Clients, SendRequest(c)
      PROVE  ResponseInv'
  BY <1>3 DEF SendRequest, TypeOK, programVars, serverVars
<1>4. ASSUME NEW c \in Clients, ReceiveResponse(c)
      PROVE  ResponseInv'
  BY <1>4, ReceiveKeeps
<1>5. ASSUME NEW c \in Clients, WriteResponse(c)
      PROVE  ResponseInv'
  BY <1>5 DEF WriteResponse, TypeOK, programVars, serverVars, channelVars
<1>6. ASSUME NEW c \in Clients, SignalDone(c)
      PROVE  ResponseInv'
  BY <1>6, SignalKeeps
<1>7. ASSUME NEW c \in Clients, Flush(c)
      PROVE  ResponseInv'
  BY <1>7 DEF Flush, TypeOK, programVars, serverVars, channelVars
<1>8. ASSUME NEW c \in Clients, BodyFails(c)
      PROVE  ResponseInv'
  BY <1>8 DEF BodyFails, TypeOK, programVars, serverVars, channelVars
<1> QED
  BY <1>1, <1>2, <1>3, <1>4, <1>5, <1>6, <1>7, <1>8 DEF HandlerStep

\* Servers and clients do not touch responses.
LEMMA EnvironmentResponse ==
  ASSUME ResponseInv, TypeOK',
         Environment \/ \E g \in Servers : ServerStep(g)
  PROVE  ResponseInv'
<1> USE DEF ResponseInv, HandoffInv, ConnectedInv, NumberInv,
            OneResponsePerRequest, LastResponseWritten
<1>1. ASSUME NEW c \in Clients, ClientLeaves(c)
      PROVE  ResponseInv'
  BY <1>1 DEF ClientLeaves, TypeOK, programVars, serverVars, handlerVars, channelVars
<1>2. ASSUME NEW c \in Clients, NEW g \in Servers, Accept(c, g)
      PROVE  ResponseInv'
  BY <1>2 DEF Accept, TypeOK, programVars, serverVars, channelVars
<1>3. ASSUME NEW g \in Servers, ServerStep(g)
      PROVE  ResponseInv'
  BY <1>3 DEF ServerStep, ServerStart, ServerBind, ServerServe, programVars, handlerVars, channelVars
<1>4. ASSUME NEW c \in Clients, BodyArrives(c)
      PROVE  ResponseInv'
  BY <1>4 DEF BodyArrives, TypeOK, programVars, serverVars, channelVars
<1> QED
  BY <1>1, <1>2, <1>3, <1>4 DEF Environment

\* The initial state and every step, for ResponseInvariant and what rests on it.
LEMMA ResponseInvInit == Init => ResponseInv
  BY TypeCorrectInit, NoResponseType
  DEF Init, ResponseInv, HandoffInv, ConnectedInv, NumberInv, OneResponsePerRequest,
      NoResponse, NoHeaders

LEMMA ResponseInvStep == ResponseInv /\ [Next]_vars => ResponseInv'
<1> SUFFICES ASSUME ResponseInv, [Next]_vars
             PROVE  ResponseInv'
  OBVIOUS
<1>1. TypeOK'
  BY TypeCorrectNext DEF ResponseInv
<1>2. CASE Next
  BY <1>1, <1>2, ProgramResponse, HandoffResponse, EnvironmentResponse
  DEF Next, Runtime, InCall
<1>3. CASE UNCHANGED vars
  BY <1>1, <1>3
  DEF ResponseInv, HandoffInv, ConnectedInv, NumberInv, LastResponseWritten,
      OneResponsePerRequest, vars, programVars, handlerVars, channelVars
<1> QED
  BY <1>2, <1>3

\* The handoff invariant holds of every program; the next theorems follow.
THEOREM ResponseInvariant == Spec => []ResponseInv
  BY ResponseInvInit, ResponseInvStep, PTL DEF Spec

\* HTTP-RESPOND returns only on the token of its own request's handler, after
\* its own response was written, and no token is left over.
THEOREM TokenCorrect == Spec => []TokenIsOwn
<1>1. ResponseInv => TokenIsOwn
  BY DEF ResponseInv, HandoffInv, TokenIsOwn
<1> QED
  BY <1>1, ResponseInvariant, PTL

\* Handlers run side by side, but one at a time has a response to write, while
\* the program waits for it.
THEOREM WritesOneByOne == Spec => []OneWriter
<1>1. ResponseInv => OneWriter
  BY DEF ResponseInv, HandoffInv, OneWriter
<1> QED
  BY <1>1, ResponseInvariant, PTL

\* No response for two clients.
THEOREM ResponsesSeparate == Spec => []OneResponsePerRequest
<1>1. ResponseInv => OneResponsePerRequest
  BY DEF ResponseInv, NumberInv
<1> QED
  BY <1>1, ResponseInvariant, PTL
----------------------------------------------------------------------------
(* Headers.                                                                  *)

\* Headers wait for the next HTTP-RESPOND, all of them set for it or for calls
\* that failed just before; so are those that a response has taken along.
HeaderInv ==
    /\ \A n \in HeaderNames :
          pendingHeaders[n] # 0 => GoesOutWith(pendingHeaders[n], responds + 1)
    /\ \A c \in Clients, n \in HeaderNames :
          respC[c].headers[n] # 0 => GoesOutWith(respC[c].headers[n], respC[c].no)
    /\ HeadersOfOwnResponse

\* What has no headers set, or was set for the next call, fits it; and calls
\* that have failed stay failed.
LEMMA FitsNext ==
  ASSUME TypeOK
  PROVE  /\ GoesOutWith(responds + 1, responds + 1)
         /\ \A n \in HeaderNames : NoHeaders[n] = 0 /\ NoResponse.headers[n] = 0
  BY DEF TypeOK, GoesOutWith, NoResponse, NoHeaders

\* A call that fails passes its headers on to the next call.
LEMMA FailedPassesOn ==
  ASSUME TypeOK, RespondNoRequest, NEW h \in Nat
  PROVE  /\ GoesOutWith(h, responds + 1) => GoesOutWith(h, responds + 1)'
         /\ \A no \in Nat : GoesOutWith(h, no) => GoesOutWith(h, no)'
<1>1. responds' = responds + 1 /\ failed' = failed \cup {responds + 1} /\ responds \in Nat
  BY DEF RespondNoRequest, TypeOK
<1>2. ASSUME GoesOutWith(h, responds + 1)
      PROVE  h <= responds + 2 /\ h..(responds + 1) \subseteq failed'
  BY <1>1, <1>2 DEF GoesOutWith
<1> QED
  BY <1>1, <1>2 DEF GoesOutWith

\* The steps that touch headers or responses.
LEMMA HeaderStep ==
  ASSUME TypeOK, HeaderInv,
         \/ SetHeaders \/ RespondNoRequest \/ (\E s \in Statuses : Respond(s))
         \/ \E c \in Clients : ReceiveResponse(c)
  PROVE  HeaderInv'
<1>1. ASSUME NEW n \in HeaderNames, NEW blank \in BOOLEAN, SetHeader(n, blank)
      PROVE  HeaderInv'
  <2>1. /\ pendingHeaders' = [pendingHeaders EXCEPT ![n] = IF blank THEN 0 ELSE responds + 1]
        /\ UNCHANGED <<responds, failed, resp, respC>> /\ DOMAIN pendingHeaders = HeaderNames
    BY <1>1 DEF SetHeader, TypeOK, handlerVars, channelVars
  <2> QED
    BY <2>1, FitsNext DEF HeaderInv, HeadersOfOwnResponse, GoesOutWith
<1>2. CASE RespondNoRequest
  <2>1. /\ responds' = responds + 1 /\ responds \in Nat
        /\ UNCHANGED <<pendingHeaders, resp, respC>>
        /\ \A n \in HeaderNames : pendingHeaders[n] \in Nat
        /\ \A c \in Clients : /\ resp[c].no \in Nat /\ respC[c].no \in Nat
                             /\ \A n \in HeaderNames : /\ resp[c].headers[n] \in Nat
                                                       /\ respC[c].headers[n] \in Nat
    BY <1>2 DEF RespondNoRequest, TypeOK, Response, handlerVars, channelVars
  <2>2. \A n \in HeaderNames :
           pendingHeaders'[n] # 0 => GoesOutWith(pendingHeaders[n], responds + 1)'
    BY <1>2, <2>1, FailedPassesOn DEF HeaderInv
  <2>3. \A c \in Clients, n \in HeaderNames :
           /\ respC[c].headers[n] # 0 => GoesOutWith(respC[c].headers[n], respC[c].no)'
           /\ resp[c].headers[n] # 0 => GoesOutWith(resp[c].headers[n], resp[c].no)'
    BY <1>2, <2>1, FailedPassesOn DEF HeaderInv, HeadersOfOwnResponse
  <2> QED
    BY <2>1, <2>2, <2>3 DEF HeaderInv, HeadersOfOwnResponse, GoesOutWith
<1>3. ASSUME NEW s \in Statuses, Respond(s)
      PROVE  HeaderInv'
  <2>1. /\ respC' = [respC EXCEPT ![currentReq] =
                       [no |-> responds + 1, status |-> s, headers |-> pendingHeaders]]
        /\ pendingHeaders' = NoHeaders /\ UNCHANGED <<failed, resp>>
        /\ DOMAIN respC = Clients
    BY <1>3 DEF Respond, TypeOK, handlerVars
  <2>2. \A c \in Clients :
           \/ respC'[c] = respC[c]
           \/ respC'[c].no = responds + 1 /\ respC'[c].headers = pendingHeaders
    BY <2>1
  <2> QED
    BY <2>1, <2>2, FitsNext DEF HeaderInv, HeadersOfOwnResponse, GoesOutWith
<1>4. ASSUME NEW c \in Clients, ReceiveResponse(c)
      PROVE  HeaderInv'
  <2>1. /\ resp' = [resp EXCEPT ![c] = respC[c]] /\ respC' = [respC EXCEPT ![c] = NoResponse]
        /\ UNCHANGED <<responds, failed, pendingHeaders>>
        /\ DOMAIN resp = Clients /\ DOMAIN respC = Clients
    BY <1>4 DEF ReceiveResponse, TypeOK, programVars
  <2> QED
    BY <2>1, FitsNext DEF HeaderInv, HeadersOfOwnResponse, GoesOutWith
<1> QED
  BY <1>1, <1>2, <1>3, <1>4 DEF SetHeaders

\* Whatever the program sets before and between its calls, a response has only
\* headers set for it or for calls that failed just before it.
THEOREM HeadersSeparate == Spec => []HeadersOfOwnResponse
<1>1. Init => HeaderInv
  BY FitsNext, TypeCorrectInit DEF Init, HeaderInv, HeadersOfOwnResponse
<1>2. TypeOK /\ HeaderInv /\ [Next]_vars => HeaderInv'
  <2> SUFFICES ASSUME TypeOK, HeaderInv, [Next]_vars
               PROVE  HeaderInv'
    OBVIOUS
  <2> USE DEF programVars, serverVars, handlerVars, channelVars
  <2>1. CASE \/ SetHeaders \/ RespondNoRequest \/ (\E s \in Statuses : Respond(s))
             \/ \E c \in Clients : ReceiveResponse(c)
    BY <2>1, HeaderStep
  <2>2. CASE UNCHANGED <<responds, failed, pendingHeaders, resp, respC>>
    BY <2>2 DEF HeaderInv, HeadersOfOwnResponse, GoesOutWith
  <2>3. CASE (\E p \in Ports : Listen(p)) \/ StopRun \/ InCall
    BY <2>2, <2>3 DEF Listen, StopRun, InCall, ListenReceive, RespondWait, RespondClose
  <2>4. ASSUME NEW c \in Clients, HandlerStep(c)
        PROVE  HeaderInv'
    BY <2>1, <2>2, <2>4
    DEF HandlerStep, BodyFails, SendRequest, WriteResponse, SignalDone, Flush
  <2>5. CASE Environment \/ UNCHANGED vars \/ \E g \in Servers : ServerStep(g)
    BY <2>2, <2>5 DEF Environment, BodyArrives, ClientLeaves, Accept, vars,
       ServerStep, ServerStart, ServerBind, ServerServe
  <2> QED
    BY <2>1, <2>3, <2>4, <2>5 DEF Next, Runtime
<1>3. HeaderInv => HeadersOfOwnResponse
  BY DEF HeaderInv
<1> QED
  BY <1>1, <1>2, <1>3, TypeCorrect, PTL DEF Spec

----------------------------------------------------------------------------
(* Ports.  Servers are numbered in the order of their HTTP-LISTENs, and one  *)
(* that was not made yet has neither a port nor a state.                     *)

MadeInv ==
    /\ listenSrv <= listens
    /\ \A g \in Servers : g > listens => srv[g] = "none"
    /\ \A g \in Servers : srv[g] # "none" => srvPort[g] \in Ports

PortInv == TypeOK /\ MadeInv /\ PortsAccountedFor

\* Close gives back the port of a serving server and of no other.
LEMMA CloseGivesBack ==
  ASSUME PortInv
  PROVE  /\ \A g \in Servers : SrvAfterClose[g] # "serving"
         /\ \A g \in Servers : SrvAfterClose[g] = "none" <=> srv[g] = "none"
         /\ \A p \in Ports, g \in Servers :
               PortsAfterClose[p] = g <=> srvPort[g] = p /\ SrvAfterClose[g] \in {"bound", "serving"}
<1> USE DEF PortInv, PortsAccountedFor, TypeOK, NoServer
<1>1. \A g \in Servers : SrvAfterClose[g] = IF g = listenSrv /\ srv[g] = "serving" THEN "closed" ELSE srv[g]
  BY DEF SrvAfterClose
<1>2. \A g \in Servers : g # 0
  BY DEF Servers
<1>3. ASSUME NEW p \in Ports, NEW g \in Servers
      PROVE  PortsAfterClose[p] = g <=> srvPort[g] = p /\ SrvAfterClose[g] \in {"bound", "serving"}
  BY <1>1, <1>2 DEF PortsAfterClose
<1> QED
  BY <1>1, <1>3

\* A new server has no port yet, and it is not bound.
LEMMA ListenPorts ==
  ASSUME PortInv, TypeOK', NEW p \in Ports, Listen(p)
  PROVE  PortInv'
<1> USE DEF PortInv, MadeInv, PortsAccountedFor
<1>1. /\ listens + 1 \in Servers /\ srv[listens + 1] = "none"
      /\ listens' = listens + 1 /\ listenSrv' = listens + 1
  BY DEF Listen, TypeOK, Servers
<1>2. \A g \in Servers : /\ srv'[g] = IF g = listens + 1 THEN "starting" ELSE SrvAfterClose[g]
                         /\ srvPort'[g] = IF g = listens + 1 THEN p ELSE srvPort[g]
  BY <1>1, CloseType DEF Listen, TypeOK
<1>3. portOwner' = PortsAfterClose
  BY DEF Listen
<1>4. \A g \in Servers : g > listens => srv[g] = "none"
  OBVIOUS
<1>5. MadeInv'
  <2>1. ASSUME NEW g \in Servers, g > listens + 1
        PROVE  srv'[g] = "none"
    <3>1. g > listens /\ g # listens + 1
      BY <2>1 DEF TypeOK, Servers
    <3> QED
      BY <3>1, <1>2, <1>4, CloseGivesBack
  <2>2. ASSUME NEW g \in Servers, srv'[g] # "none"
        PROVE  srvPort'[g] \in Ports
    BY <2>2, <1>2, CloseGivesBack
  <2>3. listens + 1 <= listens + 1
    BY DEF TypeOK
  <2> QED
    BY <1>1, <2>1, <2>2, <2>3
<1>6. PortsAccountedFor'
  BY <1>1, <1>2, <1>3, CloseGivesBack
<1> QED
  BY <1>5, <1>6

LEMMA RespondClosePorts ==
  ASSUME PortInv, TypeOK', RespondClose
  PROVE  PortInv'
<1> USE DEF PortInv, MadeInv, PortsAccountedFor
<1>1. srv' = SrvAfterClose /\ portOwner' = PortsAfterClose /\ listenSrv' = 0
      /\ srvPort' = srvPort /\ listens' = listens
  BY DEF RespondClose, NoServer
<1> QED
  BY <1>1, CloseGivesBack DEF TypeOK

\* The goroutine of a server binds a free port, and gives back its own.
LEMMA ServerPorts ==
  ASSUME PortInv, TypeOK', NEW g \in Servers, ServerStep(g)
  PROVE  PortInv'
<1> USE DEF PortInv, MadeInv, PortsAccountedFor, TypeOK, programVars
<1>1. g # NoServer
  BY DEF Servers, NoServer
<1>2. CASE ServerStart(g)
  BY <1>2 DEF ServerStart, ShuttingDown
<1>3. CASE ServerBind(g)
  <2>1. srvPort[g] \in Ports /\ srvPort' = srvPort /\ listenSrv' = listenSrv /\ listens' = listens
    BY <1>3 DEF ServerBind
  <2>2. CASE portOwner[srvPort[g]] = NoServer /\ srv' = [srv EXCEPT ![g] = "bound"]
             /\ portOwner' = [portOwner EXCEPT ![srvPort[g]] = g]
    <3>1. \A h \in Servers : srv[h] \in {"bound", "serving"} => srvPort[h] # srvPort[g]
      BY <2>1, <2>2 DEF Servers, NoServer
    <3> QED
      BY <1>3, <2>1, <2>2, <3>1 DEF ServerBind
  <2>3. CASE srv' = [srv EXCEPT ![g] = "failed"] /\ portOwner' = portOwner
    BY <1>3, <2>1, <2>3 DEF ServerBind
  <2> QED
    BY <1>3, <2>2, <2>3 DEF ServerBind
<1>4. CASE ServerServe(g)
  <2>1. srvPort[g] \in Ports /\ srvPort' = srvPort /\ listenSrv' = listenSrv /\ listens' = listens
        /\ portOwner[srvPort[g]] = g
    BY <1>4 DEF ServerServe
  <2>2. CASE srv' = [srv EXCEPT ![g] = "serving"] /\ portOwner' = portOwner /\ g = listenSrv
    BY <1>4, <2>1, <2>2 DEF ServerServe
  <2>3. CASE srv' = [srv EXCEPT ![g] = "closed"]
             /\ portOwner' = [portOwner EXCEPT ![srvPort[g]] = NoServer]
    <3>1. \A h \in Servers : h # NoServer
      BY DEF Servers, NoServer
    <3> QED
      BY <1>4, <2>1, <2>3, <3>1 DEF ServerServe
  <2> QED
    BY <1>4, <2>2, <2>3 DEF ServerServe, ShuttingDown
<1> QED
  BY <1>2, <1>3, <1>4 DEF ServerStep

\* Every other step leaves servers and ports alone.
LEMMA OtherPorts ==
  ASSUME PortInv, TypeOK', UNCHANGED <<serverVars, listenSrv, listens>>
  PROVE  PortInv'
  BY DEF PortInv, MadeInv, PortsAccountedFor, serverVars

\* Only the server of the HTTP-LISTEN in progress serves, and each port has
\* the server that is bound to it, whatever port any program listens on.
THEOREM PortsCorrect == Spec => []PortsAccountedFor
<1>1. Init => PortInv
  <2> SUFFICES ASSUME Init
               PROVE  PortInv
    OBVIOUS
  <2>1. TypeOK
    BY TypeCorrectInit
  <2>2. \A g \in Servers : srv[g] = "none" /\ g # NoServer /\ g # Outsider
    BY BoundAssumption DEF Init, Servers, NoServer, Outsider
  <2>3. MadeInv
    BY <2>2 DEF Init, MadeInv, NoServer
  <2>4. ASSUME NEW p \in Ports
        PROVE  portOwner[p] \in {NoServer, Outsider}
    BY DEF Init
  <2>5. PortsAccountedFor
    BY <2>2, <2>4 DEF PortsAccountedFor
  <2> QED
    BY <2>1, <2>3, <2>5 DEF PortInv
<1>2. PortInv /\ [Next]_vars => PortInv'
  <2> SUFFICES ASSUME PortInv, [Next]_vars
               PROVE  PortInv'
    OBVIOUS
  <2>1. TypeOK'
    BY TypeCorrectNext DEF PortInv
  <2>2. CASE \E p \in Ports : Listen(p)
    BY <2>1, <2>2, ListenPorts
  <2>3. CASE RespondClose
    BY <2>1, <2>3, RespondClosePorts
  <2>4. CASE \E g \in Servers : ServerStep(g)
    BY <2>1, <2>4, ServerPorts
  <2>5. CASE \/ SetHeaders \/ RespondNoRequest \/ (\E s \in Statuses : Respond(s)) \/ StopRun
             \/ ListenReceive \/ RespondWait
    BY <2>1, <2>5, OtherPorts
    DEF SetHeaders, SetHeader, RespondNoRequest, Respond, StopRun, ListenReceive, RespondWait
  <2>6. CASE \E c \in Clients : HandlerStep(c)
    BY <2>1, <2>6, OtherPorts
    DEF HandlerStep, BodyFails, SendRequest, ReceiveResponse, WriteResponse, SignalDone, Flush,
        programVars
  <2>7. CASE Environment
    BY <2>1, <2>7, OtherPorts DEF Environment, BodyArrives, ClientLeaves, Accept, programVars
  <2>8. CASE UNCHANGED vars
    BY <2>1, <2>8, OtherPorts DEF vars, programVars
  <2> QED
    BY <2>2, <2>3, <2>4, <2>5, <2>6, <2>7, <2>8 DEF Next, Runtime, InCall
<1> QED
  BY <1>1, <1>2, PTL DEF Spec, PortInv

----------------------------------------------------------------------------
(* HttpServer implements HttpService, for every COBOL program.                *)

\* The request in hand has been sent to the program by its handler.
InHandInv == currentReq # None => handler[currentReq] \notin {"none", "reading", "sending"}

\* A handler has no response before it has received one.
FreshInv ==
    \A c \in Clients : handler[c] \in {"none", "reading", "sending", "blocked", "waiting"} => resp[c].no = 0

ServiceInv == ResponseInv /\ RequestInOnePlace /\ InHandInv /\ FreshInv

\* The requests that are queued are clients' requests.
LEMMA QueuedHandlers ==
  ASSUME TypeOK, RequestInOnePlace
  PROVE  \A c \in Queued : c \in Clients /\ handler[c] \in {"waiting", "blocked"}
<1>1. \A i \in DOMAIN requestCh : requestCh[i] \in Clients
  BY DEF TypeOK
<1> QED
  BY <1>1 DEF Queued, RequestInOnePlace

\* Steps that change no queue, and no handler before its response.
LEMMA QuietStep ==
  ASSUME ServiceInv, ResponseInv', requestCh' = requestCh, currentReq' = currentReq,
         \A c \in Clients :
            \/ handler'[c] = handler[c] /\ resp'[c] = resp[c]
            \/ handler[c] = "reading" /\ handler'[c] = "sending" /\ resp'[c] = resp[c]
            \/ /\ handler[c] \in {"writing", "signalling", "returned"}
               /\ handler'[c] \in {"signalling", "returned", "ended", "panicked"}
  PROVE  ServiceInv'
<1>1. Queued' = Queued
  BY DEF Queued
<1>2. \A i \in DOMAIN requestCh : /\ requestCh[i] \in Clients
                                  /\ handler'[requestCh[i]] = handler[requestCh[i]]
  <2>1. ASSUME NEW i \in DOMAIN requestCh
        PROVE  requestCh[i] \in Clients /\ handler[requestCh[i]] \in {"waiting", "blocked"}
    BY <2>1 DEF ServiceInv, ResponseInv, TypeOK, RequestInOnePlace
  <2> QED
    BY <2>1
<1>3. RequestInOnePlace'
  BY <1>1, <1>2 DEF ServiceInv, RequestInOnePlace
<1>4. InHandInv'
  <2>1. currentReq # None => currentReq \in Clients
    BY DEF ServiceInv, ResponseInv, TypeOK
  <2> QED
    BY <2>1 DEF ServiceInv, InHandInv
<1>5. FreshInv'
  BY DEF ServiceInv, FreshInv
<1> QED
  BY <1>3, <1>4, <1>5 DEF ServiceInv

\* The head of requestCh is waiting and in no other place; the first of the
\* senders blocked on it moves into the buffer.
LEMMA ReceivePlace ==
  ASSUME ServiceInv, ResponseInv', ListenReceive
  PROVE  /\ ServiceInv'
         /\ Head(requestCh) \in Queued /\ Queued' = Queued \ {Head(requestCh)}
         /\ \A c \in Clients \ Queued : handler'[c] = handler[c]
         /\ \A c \in Queued : handler'[c] \in {"waiting", "blocked"}
<1> DEFINE n == Len(requestCh)
<1>1. /\ n \in Nat \ {0} /\ requestCh \in Seq(Clients) /\ DOMAIN requestCh = 1..n
      /\ Head(requestCh) = requestCh[1] /\ currentReq' = requestCh[1]
      /\ Len(requestCh') = n - 1 /\ DOMAIN requestCh' = 1..(n - 1)
      /\ \A i \in 1..(n - 1) : requestCh'[i] = requestCh[i + 1]
  BY DEF ListenReceive, ServiceInv, ResponseInv, TypeOK
<1>2. \A i \in 1..n : requestCh[i] \in Clients
  BY <1>1
<1>3. /\ \A i, j \in 1..n : requestCh[i] = requestCh[j] => i = j
      /\ \A i \in 1..n : handler[requestCh[i]] = IF i <= 1 THEN "waiting" ELSE "blocked"
  BY <1>1 DEF ServiceInv, RequestInOnePlace, RequestCap
<1>4. handler' = IF n > 1 THEN [handler EXCEPT ![requestCh[2]] = "waiting"] ELSE handler
  BY DEF ListenReceive, RequestCap
<1>5. \A i \in 1..n : handler'[requestCh[i]] = IF i <= 2 THEN "waiting" ELSE "blocked"
  <2> SUFFICES ASSUME NEW i \in 1..n
               PROVE  handler'[requestCh[i]] = IF i <= 2 THEN "waiting" ELSE "blocked"
    OBVIOUS
  <2>1. CASE n > 1
    <3>1. 2 \in 1..n
      BY <1>1, <2>1
    <3>2. requestCh[i] = requestCh[2] <=> i = 2
      BY <1>3, <3>1
    <3>3. handler'[requestCh[i]] = IF i = 2 THEN "waiting" ELSE handler[requestCh[i]]
      BY <1>2, <1>4, <2>1, <3>1, <3>2 DEF ServiceInv, ResponseInv, TypeOK
    <3> QED
      BY <1>3, <3>3
  <2>2. CASE ~(n > 1)
    <3>1. i = 1
      BY <1>1, <2>2
    <3> QED
      BY <1>3, <1>4, <2>2, <3>1
  <2> QED
    BY <2>1, <2>2
<1>6. Queued = {requestCh[i] : i \in 1..n} /\ Queued' = {requestCh'[i] : i \in 1..(n - 1)}
  BY <1>1 DEF Queued
<1>7. Queued' = Queued \ {requestCh[1]}
  <2>1. \A c \in Queued' : c \in Queued /\ c # requestCh[1]
    <3>1. ASSUME NEW i \in 1..(n - 1)
          PROVE  requestCh'[i] \in Queued /\ requestCh'[i] # requestCh[1]
      <4>1. i + 1 \in 1..n /\ 1 \in 1..n /\ i + 1 # 1 /\ requestCh'[i] = requestCh[i + 1]
        BY <1>1
      <4> QED
        BY <4>1, <1>3, <1>6
    <3> QED
      BY <3>1, <1>6
  <2>2. ASSUME NEW c \in Queued, c # requestCh[1]
        PROVE  c \in Queued'
    <3>1. PICK i \in 1..n : c = requestCh[i]
      BY <1>6
    <3>2. i - 1 \in 1..(n - 1)
      BY <1>1, <2>2, <3>1
    <3>3. requestCh'[i - 1] = requestCh[i]
      BY <1>1, <3>2
    <3> QED
      BY <1>6, <3>1, <3>2, <3>3
  <2> QED
    BY <2>1, <2>2
<1>8. \A c \in Clients \ Queued : handler'[c] = handler[c]
  <2>1. n > 1 => requestCh[2] \in Queued
    BY <1>1, <1>6
  <2> QED
    BY <1>4, <2>1 DEF ServiceInv, ResponseInv, TypeOK
<1>9. \A c \in Queued : handler'[c] \in {"waiting", "blocked"}
  BY <1>5, <1>6
<1>10. RequestInOnePlace'
  <2>1. \A i, j \in 1..(n - 1) : requestCh'[i] = requestCh'[j] => i = j
    <3> SUFFICES ASSUME NEW i \in 1..(n - 1), NEW j \in 1..(n - 1), requestCh'[i] = requestCh'[j]
                 PROVE  i = j
      OBVIOUS
    <3>1. i + 1 \in 1..n /\ j + 1 \in 1..n /\ requestCh[i + 1] = requestCh[j + 1]
      BY <1>1
    <3> QED
      BY <1>3, <3>1
  <2>2. \A i \in 1..(n - 1) : handler'[requestCh'[i]] = IF i <= 1 THEN "waiting" ELSE "blocked"
    <3> SUFFICES ASSUME NEW i \in 1..(n - 1)
                 PROVE  handler'[requestCh'[i]] = IF i <= 1 THEN "waiting" ELSE "blocked"
      OBVIOUS
    <3>1. i + 1 \in 1..n /\ requestCh'[i] = requestCh[i + 1] /\ (i + 1 <= 2 <=> i <= 1)
      BY <1>1
    <3> QED
      BY <1>5, <3>1
  <2>3. \A c \in Clients : handler'[c] = "blocked" => c \in Queued'
    <3>1. \A c \in Clients : handler'[c] = "blocked" => handler[c] = "blocked"
      BY <1>4 DEF ServiceInv, ResponseInv, TypeOK
    <3>2. 1 \in 1..n /\ handler[requestCh[1]] = "waiting"
      BY <1>1, <1>3
    <3> QED
      BY <1>7, <3>1, <3>2 DEF ServiceInv, RequestInOnePlace
  <2>4. currentReq' \notin Queued'
    BY <1>1, <1>7
  <2> QED
    BY <1>1, <2>1, <2>2, <2>3, <2>4 DEF RequestInOnePlace, RequestCap
<1>11. InHandInv'
  <2>1. 1 \in 1..n
    BY <1>1
  <2> QED
    BY <1>1, <1>5, <2>1 DEF InHandInv
<1>12. FreshInv'
  <2>1. \A c \in Clients : handler'[c] # handler[c] => handler[c] = "blocked"
    <3>1. n > 1 => 2 \in 1..n /\ handler[requestCh[2]] = "blocked"
      BY <1>1, <1>3
    <3> QED
      BY <1>4, <3>1 DEF ServiceInv, ResponseInv, TypeOK
  <2> QED
    BY <2>1 DEF ListenReceive, ServiceInv, FreshInv
<1>13. ServiceInv'
  BY <1>10, <1>11, <1>12 DEF ServiceInv
<1>14. Head(requestCh) \in Queued
  <2>1. 1 \in 1..n
    BY <1>1
  <2> QED
    BY <1>1, <1>6, <2>1
<1> QED
  BY <1>1, <1>7, <1>8, <1>9, <1>13, <1>14

\* A handler's request goes behind all others.
LEMMA SendPlace ==
  ASSUME ServiceInv, ResponseInv', NEW c \in Clients, SendRequest(c)
  PROVE  ServiceInv' /\ Queued' = Queued \cup {c} /\ c \notin Queued
<1> DEFINE n == Len(requestCh)
<1>1. /\ n \in Nat /\ DOMAIN requestCh = 1..n /\ requestCh' = Append(requestCh, c)
      /\ DOMAIN requestCh' = 1..(n + 1) /\ requestCh'[n + 1] = c
      /\ \A i \in 1..n : requestCh'[i] = requestCh[i] /\ requestCh[i] \in Clients
  BY DEF SendRequest, ServiceInv, ResponseInv, TypeOK
<1>2. /\ handler[c] = "sending"
      /\ handler' = [handler EXCEPT ![c] = IF n < RequestCap THEN "waiting" ELSE "blocked"]
      /\ currentReq' = currentReq /\ resp' = resp
  BY DEF SendRequest, programVars
<1>3. handler \in [Clients -> HandlerStates] /\ RequestCap = 1
  BY DEF ServiceInv, ResponseInv, TypeOK, RequestCap
<1>4. c \notin Queued
  BY <1>2, QueuedHandlers DEF ServiceInv, ResponseInv
<1>5. Queued = {requestCh[i] : i \in 1..n} /\ Queued' = {requestCh'[i] : i \in 1..(n + 1)}
  BY <1>1 DEF Queued
<1>6. Queued' = Queued \cup {c}
  <2>1. ASSUME NEW i \in 1..(n + 1)
        PROVE  requestCh'[i] \in Queued \cup {c}
    <3>1. i \in 1..n \/ i = n + 1
      BY <1>1
    <3> QED
      BY <1>1, <1>5, <3>1
  <2>2. ASSUME NEW i \in 1..n
        PROVE  requestCh[i] \in Queued'
    <3>1. i \in 1..(n + 1)
      BY <1>1
    <3> QED
      BY <1>1, <1>5, <3>1
  <2>3. n + 1 \in 1..(n + 1)
    BY <1>1
  <2> QED
    BY <1>1, <1>5, <2>1, <2>2, <2>3
<1>7. RequestInOnePlace'
  <2>1. \A i \in 1..n : requestCh[i] # c
    BY <1>4, <1>5
  <2>2. \A i, j \in 1..(n + 1) : requestCh'[i] = requestCh'[j] => i = j
    <3>1. \A i \in 1..(n + 1) : i \in 1..n \/ i = n + 1
      BY <1>1
    <3> QED
      BY <1>1, <2>1, <3>1 DEF ServiceInv, RequestInOnePlace
  <2>3. ASSUME NEW i \in 1..(n + 1)
        PROVE  handler'[requestCh'[i]] = IF i <= RequestCap THEN "waiting" ELSE "blocked"
    <3>1. CASE i \in 1..n
      BY <1>1, <1>2, <1>3, <2>1, <3>1 DEF ServiceInv, RequestInOnePlace
    <3>2. CASE i = n + 1
      BY <1>1, <1>2, <1>3, <3>2
    <3> QED
      BY <1>1, <3>1, <3>2
  <2>4. \A d \in Clients : handler'[d] = "blocked" => d \in Queued'
    BY <1>2, <1>3, <1>6 DEF ServiceInv, RequestInOnePlace
  <2>5. currentReq' \notin Queued'
    BY <1>2, <1>6, NoneAssumption DEF ServiceInv, RequestInOnePlace, InHandInv
  <2> QED
    BY <1>1, <2>2, <2>3, <2>4, <2>5 DEF RequestInOnePlace
<1>8. InHandInv'
  BY <1>2, <1>3 DEF ServiceInv, InHandInv
<1>9. FreshInv'
  BY <1>2, <1>3 DEF ServiceInv, FreshInv
<1> QED
  BY <1>4, <1>6, <1>7, <1>8, <1>9 DEF ServiceInv

\* A handler that receives a response is in the program's hand.
LEMMA ReceiveResponsePlace ==
  ASSUME ServiceInv, ResponseInv', NEW c \in Clients, ReceiveResponse(c)
  PROVE  ServiceInv' /\ c \notin Queued
<1>1. /\ c = currentReq /\ handler[c] = "waiting" /\ handler' = [handler EXCEPT ![c] = "writing"]
      /\ handler \in [Clients -> HandlerStates] /\ resp \in [Clients -> Response]
      /\ requestCh' = requestCh /\ currentReq' = currentReq
      /\ resp' = [resp EXCEPT ![c] = respC[c]]
  BY DEF ReceiveResponse, ServiceInv, ResponseInv, HandoffInv, TypeOK, programVars
<1>2. c \notin Queued
  BY <1>1 DEF ServiceInv, RequestInOnePlace
<1>3. Queued' = Queued
  BY <1>1 DEF Queued
<1>4. \A i \in DOMAIN requestCh : requestCh[i] \in Clients /\ requestCh[i] # c
  BY <1>2 DEF Queued, ServiceInv, ResponseInv, TypeOK
<1>5. RequestInOnePlace'
  BY <1>1, <1>3, <1>4 DEF ServiceInv, RequestInOnePlace
<1>6. InHandInv' /\ FreshInv'
  BY <1>1 DEF ServiceInv, InHandInv, FreshInv
<1> QED
  BY <1>2, <1>5, <1>6 DEF ServiceInv

\* A request that reaches a handler is in no place yet.
LEMMA AcceptPlace ==
  ASSUME ServiceInv, ResponseInv', NEW c \in Clients, NEW g \in Servers, Accept(c, g)
  PROVE  ServiceInv' /\ c \notin Queued /\ handler[c] = "none"
<1>1. /\ handler[c] = "none" /\ handler' = [handler EXCEPT ![c] = "reading"]
      /\ handler \in [Clients -> HandlerStates]
      /\ requestCh' = requestCh /\ currentReq' = currentReq /\ resp' = resp
  BY DEF Accept, ServiceInv, ResponseInv, ConnectedInv, TypeOK, programVars, channelVars
<1>2. c \notin Queued
  BY <1>1, QueuedHandlers DEF ServiceInv, ResponseInv
<1>3. Queued' = Queued
  BY <1>1 DEF Queued
<1>4. \A i \in DOMAIN requestCh : requestCh[i] \in Clients /\ requestCh[i] # c
  BY <1>2 DEF Queued, ServiceInv, ResponseInv, TypeOK
<1>5. RequestInOnePlace'
  BY <1>1, <1>3, <1>4 DEF ServiceInv, RequestInOnePlace
<1>6. InHandInv' /\ FreshInv'
  BY <1>1 DEF ServiceInv, InHandInv, FreshInv
<1> QED
  BY <1>1, <1>2, <1>5, <1>6 DEF ServiceInv

\* One step of any program.
LEMMA ServiceInvStep ==
  ASSUME ServiceInv, ResponseInv', [Next]_vars
  PROVE  ServiceInv'
<1> USE DEF ServiceInv, ResponseInv, TypeOK, programVars, serverVars, handlerVars, channelVars
<1>1. CASE ListenReceive
  BY <1>1, ReceivePlace
<1>2. CASE \E c \in Clients : SendRequest(c)
  BY <1>2, SendPlace
<1>3. CASE \E c \in Clients : ReceiveResponse(c)
  BY <1>3, ReceiveResponsePlace
<1>4. CASE \E c \in Clients, g \in Servers : Accept(c, g)
  BY <1>4, AcceptPlace
<1>5. CASE \/ (\E p \in Ports : Listen(p)) \/ SetHeaders \/ RespondNoRequest
           \/ (\E s \in Statuses : Respond(s)) \/ StopRun \/ RespondWait \/ RespondClose
           \/ (\E g \in Servers : ServerStep(g)) \/ UNCHANGED vars
           \/ \E c \in Clients : ClientLeaves(c)
  <2>1. requestCh' = requestCh /\ currentReq' = currentReq /\ handler' = handler /\ resp' = resp
    BY <1>5 DEF Listen, SetHeaders, SetHeader, RespondNoRequest, Respond, StopRun, RespondWait,
       RespondClose, ServerStep, ServerStart, ServerBind, ServerServe, ClientLeaves, vars
  <2> QED
    BY <2>1, QuietStep
<1>6. ASSUME NEW c \in Clients, WriteResponse(c) \/ SignalDone(c) \/ Flush(c)
      PROVE  ServiceInv'
  <2>1. /\ handler[c] \in {"writing", "signalling", "returned"}
        /\ handler'[c] \in {"signalling", "returned", "ended", "panicked"}
        /\ \A d \in Clients : d # c => handler'[d] = handler[d]
        /\ requestCh' = requestCh /\ currentReq' = currentReq /\ resp' = resp
    BY <1>6 DEF WriteResponse, SignalDone, Flush
  <2> QED
    BY <2>1, QuietStep
<1>7. ASSUME NEW c \in Clients, BodyArrives(c) \/ BodyFails(c)
      PROVE  ServiceInv'
  <2>1. /\ handler[c] = "reading" /\ handler'[c] = "sending"
        /\ \A d \in Clients : d # c => handler'[d] = handler[d]
        /\ requestCh' = requestCh /\ currentReq' = currentReq /\ resp' = resp
    BY <1>7 DEF BodyArrives, BodyFails
  <2> QED
    BY <2>1, QuietStep
<1> QED
  BY <1>1, <1>2, <1>3, <1>4, <1>5, <1>6, <1>7
  DEF Next, Runtime, InCall, HandlerStep, Environment

LEMMA ServiceInvInit == Init => ServiceInv
  BY ResponseInvInit, NoResponseType
  DEF Init, ServiceInv, RequestInOnePlace, InHandInv, FreshInv, Queued

\* Whatever the program and the clients do, a request is queued once, its handler
\* is blocked exactly if it is behind the capacity of requestCh, and the request
\* in hand is not queued.
THEOREM RequestsInOnePlace == Spec => []RequestInOnePlace
<1>1. ServiceInv /\ [Next]_vars => ServiceInv'
  BY ResponseInvStep, ServiceInvStep DEF ServiceInv
<1> QED
  BY <1>1, ServiceInvInit, PTL DEF Spec, ServiceInv

----------------------------------------------------------------------------
(* The refinement: every step of the server is a step of the service, or     *)
(* none.                                                                     *)

\* What the mapping makes of a client, before and after a step.
OutcomeTable ==
    Outcomes = [c \in Clients |-> IF client[c] = "idle" THEN "none"
                                  ELSE IF client[c] = "open" THEN "pending"
                                  ELSE IF client[c] = "answered" THEN "answered"
                                  ELSE "lost"]

LEMMA OutcomeOf ==
  /\ TypeOK => OutcomeTable
  /\ TypeOK' => OutcomeTable'
  BY DEF TypeOK, Outcomes, OutcomeTable, ClientStates

LEMMA RepliesOf ==
  \A c \in Clients : Replies[c] = IF resp[c].no # 0 THEN resp[c].no ELSE respC[c].no
  BY DEF Replies

\* Connections are lost, any number at a time, or none.
LEMMA LoseStep ==
  ASSUME TypeOK, TypeOK',
         \A c \in Clients : \/ client'[c] = client[c]
                            \/ client[c] = "open" /\ client'[c] \in {"cut", "left"},
         requestCh' = requestCh, currentReq' = currentReq,
         TakenRequests' = TakenRequests, Replies' = Replies
  PROVE  Service!Lose
<1> DEFINE lost == {c \in Clients : client[c] = "open" /\ client'[c] # "open"}
<1>1. lost \in SUBSET {c \in Clients : Outcomes[c] = "pending"}
  BY OutcomeOf DEF OutcomeTable
<1>2. OutcomeTable /\ OutcomeTable'
  BY OutcomeOf
<1>3. Outcomes' = [c \in Clients |-> IF c \in lost THEN "lost" ELSE Outcomes[c]]
  BY <1>2 DEF OutcomeTable
<1> QED
  BY <1>1, <1>3 DEF Service!Lose

\* Steps that the service does not see.
LEMMA StutterStep ==
  ASSUME UNCHANGED <<requestCh, handler, currentReq, client>>, Replies' = Replies
  PROVE  UNCHANGED Service!vars
  BY DEF Service!vars, TakenRequests, Queued, Outcomes

\* Where a handler is before its request can be in requestCh.
Untaken == {"none", "reading", "sending"}

\* The handlers that matter are at the same places.
LEMMA SameTaken ==
  ASSUME requestCh' = requestCh,
         \A c \in Clients : \/ handler'[c] = handler[c]
                            \/ {handler[c], handler'[c]} \cap Untaken = {}
                            \/ {handler[c], handler'[c]} \subseteq Untaken
  PROVE  TakenRequests' = TakenRequests
  BY DEF TakenRequests, Queued, Untaken

LEMMA ReceiveTakes ==
  ASSUME ServiceInv, ResponseInv', ListenReceive
  PROVE  Service!Take
<1> DEFINE h == Head(requestCh)
<1>1. /\ requestCh # <<>> /\ currentReq' = h /\ requestCh' = Tail(requestCh)
      /\ UNCHANGED <<resp, respC, client>>
  BY DEF ListenReceive
<1>2. /\ h \in Queued /\ Queued' = Queued \ {h}
      /\ \A c \in Clients \ Queued : handler'[c] = handler[c]
      /\ \A c \in Queued : handler'[c] \in {"waiting", "blocked"}
  BY ReceivePlace
<1>3. \A c \in Queued : c \in Clients
  BY QueuedHandlers DEF ServiceInv, ResponseInv
<1>4. TakenRequests' = TakenRequests \cup {h}
  BY <1>2, <1>3 DEF TakenRequests
<1>5. Replies' = Replies /\ Outcomes' = Outcomes
  BY <1>1 DEF Replies, Outcomes
<1> QED
  BY <1>1, <1>4, <1>5 DEF Service!Take

LEMMA SendEnqueues ==
  ASSUME ServiceInv, ResponseInv', NEW c \in Clients, SendRequest(c)
  PROVE  Service!Enqueue(c)
<1>1. /\ requestCh' = Append(requestCh, c) /\ UNCHANGED <<resp, respC, client, currentReq>>
      /\ handler[c] = "sending" /\ handler'[c] \in {"waiting", "blocked"}
      /\ \A d \in Clients : d # c => handler'[d] = handler[d]
  BY DEF SendRequest, programVars, ServiceInv, ResponseInv, TypeOK
<1>2. Queued' = Queued \cup {c} /\ c \notin Queued
  BY SendPlace
<1>3. TakenRequests' = TakenRequests /\ c \notin TakenRequests
  BY <1>1, <1>2 DEF TakenRequests
<1>4. Replies' = Replies /\ Outcomes' = Outcomes
  BY <1>1 DEF Replies, Outcomes
<1>5. Outcomes[c] # "none"
  <2>1. client[c] # "idle"
    BY <1>1 DEF ServiceInv, ResponseInv, ConnectedInv
  <2> QED
    BY <2>1, OutcomeOf DEF OutcomeTable, ServiceInv, ResponseInv
<1>6. Service!InQueue = Queued
  BY DEF Service!InQueue, Queued
<1> QED
  BY <1>1, <1>2, <1>3, <1>4, <1>5, <1>6 DEF Service!Enqueue

LEMMA AcceptArrives ==
  ASSUME ServiceInv, ResponseInv', NEW c \in Clients, NEW g \in Servers, Accept(c, g)
  PROVE  Service!Arrive(c)
<1>1. /\ client[c] = "idle" /\ client' = [client EXCEPT ![c] = "open"]
      /\ UNCHANGED <<requestCh, currentReq, resp, respC>>
      /\ handler' = [handler EXCEPT ![c] = "reading"] /\ handler[c] = "none"
      /\ client \in [Clients -> ClientStates] /\ handler \in [Clients -> HandlerStates]
  BY AcceptPlace DEF Accept, programVars, channelVars, ServiceInv, ResponseInv, TypeOK
<1>2. TakenRequests' = TakenRequests
  <2>1. Queued' = Queued
    BY <1>1 DEF Queued
  <2> QED
    BY <1>1, <2>1 DEF TakenRequests
<1>3. Replies' = Replies
  BY <1>1 DEF Replies
<1>4. Outcomes' = [Outcomes EXCEPT ![c] = "pending"] /\ Outcomes[c] = "none"
  BY <1>1 DEF Outcomes, ClientStates
<1> QED
  BY <1>1, <1>2, <1>3, <1>4 DEF Service!Arrive

\* A first response to the request in hand is its reply; a second one is none.
LEMMA RespondReplies ==
  ASSUME ServiceInv, ResponseInv', NEW s \in Statuses, Respond(s)
  PROVE  Service!Reply \/ UNCHANGED Service!vars
<1> DEFINE c == currentReq
<1>1. /\ c \in Clients /\ c # None /\ pc = "run" /\ responds \in Nat
      /\ UNCHANGED <<requestCh, handler, currentReq, client, resp>>
      /\ respC[c] = NoResponse /\ respC'[c].no = responds + 1
      /\ \A d \in Clients : d # c => respC'[d] = respC[d]
  BY DEF Respond, handlerVars, ServiceInv, ResponseInv, TypeOK
<1>2. \A d \in Clients : respC[d].no = 0 /\ resp[d].no \in 0..responds
  BY <1>1, NoResponseType
  DEF ServiceInv, ResponseInv, HandoffInv, NumberInv, TypeOK, Response
<1>3. \A d \in Clients : d # c => Replies'[d] = Replies[d]
  BY <1>1, RepliesOf DEF Replies
<1>4. Replies'[c] = IF resp[c].no # 0 THEN resp[c].no ELSE responds + 1
  BY <1>1 DEF Replies
<1>5. \A d \in Clients : Replies[d] = resp[d].no
  BY <1>2, RepliesOf
<1>6. CASE resp[c].no # 0
  <2>1. Replies' = Replies
    BY <1>1, <1>3, <1>4, <1>5, <1>6, RepliesOf DEF Replies
  <2> QED
    BY <1>1, <2>1, StutterStep
<1>7. CASE resp[c].no = 0
  <2>1. Replies' = [Replies EXCEPT ![c] = Replies'[c]]
    BY <1>1, <1>3 DEF Replies
  <2>2. Replies[c] = 0 /\ Replies'[c] # 0 /\ \A d \in Clients : Replies[d] # Replies'[c]
    BY <1>1, <1>2, <1>4, <1>5, <1>7
  <2>3. TakenRequests' = TakenRequests /\ Outcomes' = Outcomes
    BY <1>1 DEF TakenRequests, Queued, Outcomes
  <2> QED
    BY <1>1, <2>1, <2>2, <2>3 DEF Service!Reply
<1> QED
  BY <1>6, <1>7, <1>2

\* The response moves from respC to the handler.
LEMMA ReceiveKeepsReply ==
  ASSUME ServiceInv, ResponseInv', NEW c \in Clients, ReceiveResponse(c)
  PROVE  UNCHANGED Service!vars
<1>1. /\ handler[c] = "waiting" /\ handler' = [handler EXCEPT ![c] = "writing"]
      /\ resp' = [resp EXCEPT ![c] = respC[c]] /\ respC' = [respC EXCEPT ![c] = NoResponse]
      /\ resp \in [Clients -> Response] /\ respC \in [Clients -> Response]
      /\ handler \in [Clients -> HandlerStates] /\ respC[c] # NoResponse
      /\ UNCHANGED <<requestCh, currentReq, client>>
  BY DEF ReceiveResponse, programVars, ServiceInv, ResponseInv, TypeOK
<1>2. resp[c].no = 0
  BY <1>1 DEF ServiceInv, FreshInv
<1>3. respC[c].no # 0
  BY <1>1 DEF ServiceInv, ResponseInv, HandoffInv, NumberInv, TypeOK, Response
<1>4. Replies' = Replies
  BY <1>1, <1>2, <1>3 DEF Replies
<1>5. TakenRequests' = TakenRequests
  BY <1>1, SameTaken DEF Untaken
<1> QED
  BY <1>1, <1>4, <1>5 DEF Service!vars, Outcomes

\* A response that is sent answers the client with its reply.
LEMMA FlushDelivers ==
  ASSUME ServiceInv, ResponseInv', NEW c \in Clients, Flush(c)
  PROVE  Service!Deliver(c) \/ UNCHANGED Service!vars
<1>1. /\ handler[c] = "returned" /\ handler' = [handler EXCEPT ![c] = "ended"]
      /\ client' = [client EXCEPT ![c] = IF @ = "open" THEN "answered" ELSE @]
      /\ client \in [Clients -> ClientStates] /\ handler \in [Clients -> HandlerStates]
      /\ UNCHANGED <<requestCh, currentReq, resp, respC>>
  BY DEF Flush, programVars, channelVars, ServiceInv, ResponseInv, TypeOK
<1>2. TakenRequests' = TakenRequests
  BY <1>1, SameTaken DEF Untaken
<1>3. Replies' = Replies
  BY <1>1 DEF Replies
<1>4. CASE client[c] = "open"
  <2>1. Outcomes[c] = "pending" /\ Outcomes' = [Outcomes EXCEPT ![c] = "answered"]
    BY <1>1, <1>4 DEF Outcomes, ClientStates
  <2>2. Replies[c] # 0
    <3>1. resp[c].no > 0 /\ resp[c].no \in Nat
      <4>1. resp[c].no > 0
        BY <1>1 DEF ServiceInv, ResponseInv, NumberInv
      <4>2. resp \in [Clients -> Response]
        BY DEF ServiceInv, ResponseInv, TypeOK
      <4> QED
        BY <4>1, <4>2 DEF Response
    <3> QED
      BY <3>1, RepliesOf
  <2> QED
    BY <1>1, <1>2, <1>3, <2>1, <2>2 DEF Service!Deliver
<1>5. CASE client[c] # "open"
  <2>1. client' = client
    BY <1>1, <1>5
  <2>2. Outcomes' = Outcomes
    BY <2>1 DEF Outcomes
  <2> QED
    BY <1>1, <1>2, <1>3, <2>2 DEF Service!vars
<1> QED
  BY <1>4, <1>5

\* Steps that cut connections, or let a client go.
LEMMA CutLoses ==
  ASSUME ServiceInv, ResponseInv',
         \/ \E p \in Ports : Listen(p)
         \/ RespondClose \/ StopRun
         \/ \E c \in Clients : WriteResponse(c) \/ ClientLeaves(c)
  PROVE  Service!Lose
<1> USE DEF programVars, serverVars, handlerVars, channelVars
<1>1. /\ TypeOK /\ TypeOK'
      /\ handler \in [Clients -> HandlerStates] /\ client \in [Clients -> ClientStates]
  BY DEF ServiceInv, ResponseInv, TypeOK
<1>2. CASE (\E p \in Ports : Listen(p)) \/ RespondClose \/ StopRun
  <2>1. /\ UNCHANGED <<requestCh, currentReq, handler, resp, respC>>
        /\ \A c \in Clients : \/ client'[c] = client[c]
                              \/ client[c] = "open" /\ client'[c] \in {"cut", "left"}
    <3>1. ASSUME (\E p \in Ports : Listen(p)) \/ RespondClose
          PROVE  /\ UNCHANGED <<requestCh, currentReq, handler, resp, respC>>
                 /\ client' = ClientsAfterClose
      BY <3>1 DEF Listen, RespondClose
    <3>2. ASSUME StopRun
          PROVE  /\ UNCHANGED <<requestCh, currentReq, handler, resp, respC>>
                 /\ client' = [c \in Clients |-> IF client[c] = "open" THEN "cut" ELSE client[c]]
      BY <3>2 DEF StopRun
    <3>3. \A c \in Clients : ClientsAfterClose[c] \in {client[c]} \cup
                                 (IF client[c] = "open" THEN {"cut"} ELSE {})
      BY DEF ClientsAfterClose
    <3> QED
      BY <1>2, <3>1, <3>2, <3>3
  <2>2. TakenRequests' = TakenRequests /\ Replies' = Replies
    BY <2>1 DEF TakenRequests, Queued, Replies
  <2> QED
    BY <1>1, <2>1, <2>2, LoseStep
<1>3. ASSUME NEW c \in Clients, WriteResponse(c) \/ ClientLeaves(c)
      PROVE  Service!Lose
  <2>1. /\ UNCHANGED <<requestCh, currentReq, resp, respC>>
        /\ \A d \in Clients : \/ client'[d] = client[d]
                              \/ client[d] = "open" /\ client'[d] \in {"cut", "left"}
        /\ \A d \in Clients : \/ handler'[d] = handler[d]
                              \/ {handler[d], handler'[d]} \cap Untaken = {}
    <3>1. CASE WriteResponse(c)
      <4>1. handler[c] = "writing" /\ UNCHANGED <<requestCh, currentReq, resp, respC>>
        BY <3>1 DEF WriteResponse
      <4>2. \/ handler' = [handler EXCEPT ![c] = "signalling"] /\ client' = client
            \/ /\ handler' = [handler EXCEPT ![c] = "panicked"]
               /\ client' = [client EXCEPT ![c] = IF @ = "open" THEN "cut" ELSE @]
        BY <3>1 DEF WriteResponse
      <4> QED
        BY <1>1, <4>1, <4>2 DEF Untaken
    <3>2. CASE ClientLeaves(c)
      BY <1>1, <3>2 DEF ClientLeaves
    <3> QED
      BY <1>3, <3>1, <3>2
  <2>2. TakenRequests' = TakenRequests
    BY <2>1, SameTaken DEF Untaken
  <2>3. Replies' = Replies
    BY <2>1 DEF Replies
  <2> QED
    BY <1>1, <2>1, <2>2, <2>3, LoseStep
<1> QED
  BY <1>2, <1>3

\* Steps of servers and channels that the service does not have.
LEMMA InternalStutters ==
  ASSUME ServiceInv, ResponseInv',
         \/ SetHeaders \/ RespondNoRequest \/ RespondWait \/ UNCHANGED vars
         \/ \E g \in Servers : ServerStep(g)
         \/ \E c \in Clients : SignalDone(c) \/ BodyArrives(c) \/ BodyFails(c)
  PROVE  UNCHANGED Service!vars
<1> USE DEF programVars, serverVars, handlerVars, channelVars
<1>1. CASE \/ SetHeaders \/ RespondNoRequest \/ RespondWait \/ UNCHANGED vars
           \/ \E g \in Servers : ServerStep(g)
  <2>1. UNCHANGED <<requestCh, handler, currentReq, client, resp, respC>>
    BY <1>1 DEF SetHeaders, SetHeader, RespondNoRequest, RespondWait, vars,
       ServerStep, ServerStart, ServerBind, ServerServe
  <2>2. Replies' = Replies
    BY <2>1 DEF Replies
  <2> QED
    BY <2>1, <2>2, StutterStep
<1>2. ASSUME NEW c \in Clients, SignalDone(c)
      PROVE  UNCHANGED Service!vars
  <2>1. /\ UNCHANGED <<requestCh, currentReq, client, resp, respC>>
        /\ handler \in [Clients -> HandlerStates]
        /\ handler[c] = "signalling" /\ handler' = [handler EXCEPT ![c] = "returned"]
    BY <1>2 DEF SignalDone, ServiceInv, ResponseInv, TypeOK
  <2>2. TakenRequests' = TakenRequests
    BY <2>1, SameTaken DEF Untaken
  <2> QED
    BY <2>1, <2>2 DEF Service!vars, Outcomes, Replies
<1>3. ASSUME NEW c \in Clients, BodyArrives(c) \/ BodyFails(c)
      PROVE  UNCHANGED Service!vars
  <2>1. /\ UNCHANGED <<requestCh, currentReq, client, resp, respC>>
        /\ handler \in [Clients -> HandlerStates]
        /\ handler[c] = "reading" /\ handler' = [handler EXCEPT ![c] = "sending"]
    BY <1>3 DEF BodyArrives, BodyFails, ServiceInv, ResponseInv, TypeOK
  <2>2. TakenRequests' = TakenRequests
    BY <2>1, SameTaken DEF Untaken
  <2> QED
    BY <2>1, <2>2 DEF Service!vars, Outcomes, Replies
<1> QED
  BY <1>1, <1>2, <1>3

LEMMA ServiceInit == Init => Service!Init
<1> SUFFICES ASSUME Init PROVE Service!Init
  OBVIOUS
<1>1. TakenRequests = {}
  BY DEF Init, TakenRequests
<1>2. Replies = [c \in Clients |-> 0]
  BY NoResponseType DEF Init, Replies
<1>3. Outcomes = [c \in Clients |-> "none"]
  BY DEF Init, Outcomes
<1> QED
  BY <1>1, <1>2, <1>3 DEF Init, Service!Init

LEMMA ServiceStep ==
  ASSUME ServiceInv, ResponseInv', [Next]_vars
  PROVE  [Service!Next]_(Service!vars)
<1>1. CASE ListenReceive
  BY <1>1, ReceiveTakes DEF Service!Next
<1>2. ASSUME NEW c \in Clients, HandlerStep(c)
      PROVE  [Service!Next]_(Service!vars)
  BY <1>2, SendEnqueues, ReceiveKeepsReply, CutLoses, InternalStutters, FlushDelivers
  DEF HandlerStep, Service!Next
<1>3. CASE Environment
  BY <1>3, AcceptArrives, CutLoses, InternalStutters DEF Environment, Service!Next
<1>4. ASSUME NEW s \in Statuses, Respond(s)
      PROVE  [Service!Next]_(Service!vars)
  BY <1>4, RespondReplies DEF Service!Next
<1>5. CASE (\E p \in Ports : Listen(p)) \/ RespondClose \/ StopRun
  BY <1>5, CutLoses DEF Service!Next
<1>6. CASE \/ SetHeaders \/ RespondNoRequest \/ RespondWait \/ UNCHANGED vars
           \/ \E g \in Servers : ServerStep(g)
  BY <1>6, InternalStutters
<1> QED
  BY <1>1, <1>2, <1>3, <1>4, <1>5, <1>6 DEF Next, Runtime, InCall

\* Servers, handlers and channels together implement the service: requests are
\* handed out once, in the order they were sent, and no client is answered but
\* with the reply that was made while its request was in hand.
THEOREM ServiceImplemented == Spec => ImplementsService
<1>1. ServiceInv /\ ResponseInv' /\ [Next]_vars => [Service!Next]_(Service!vars)
  BY ServiceStep
<1>2. ServiceInv /\ [Next]_vars => ServiceInv'
  BY ResponseInvStep, ServiceInvStep DEF ServiceInv
<1>3. ServiceInv' => ResponseInv'
  BY DEF ServiceInv
<1> QED
  BY <1>1, <1>2, <1>3, ServiceInit, ServiceInvInit, PTL
  DEF Spec, ImplementsService, Service!Spec
=============================================================================
