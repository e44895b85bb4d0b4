----------------------------- MODULE StateRpc -----------------------------
(***************************************************************************)
(* The state server and its clients: TcpStateStoreClient (store.py), the   *)
(* frames of protocol.py and StateTcpServer (server.py), one connection    *)
(* per call and one handler thread per connection, around the store.       *)
(*                                                                         *)
(* A frame is a header followed by its payload.  What is between the two   *)
(* ends is how much of it has been passed on: nothing, the header, or all. *)
(* A client gives up after its timeout; the server has none, and may be    *)
(* stopped and started again.  A payload stands for itself and for the     *)
(* metadata that is put with it and travels in the header.  Malformed      *)
(* JSON, which clients do not send, is left out.                           *)
(***************************************************************************)
EXTENDS Integers, FiniteSets, SequencesExt

CONSTANTS
    Clients,
    Conns,          \* connections, one for each call, in the order of the calls
    Keys, EmptyKey, None,
    Payloads, Size, MaxBytes,
    NoBytes,        \* b"", the payload of a frame without one
    Cut,            \* what would be left of a payload that was cut short
    Requests,       \* what clients call: [op, key, payload, expected] records
    ServerLimit,    \* StateTcpServer.max_payload_bytes
    ClientLimit,    \* TcpStateStoreClient.max_payload_bytes
    HeaderLimit,    \* MAX_HEADER_BYTES
    KeyBytes,       \* KeyBytes[k]: bytes of a key in a header
    Metadata,       \* Metadata[p]: bytes of p's metadata in a header
    RequestHeader,  \* RequestHeader[op]: bytes of the rest of a request's header
    FoundHeader,    \* bytes of the rest of the answer to a get that found a record
    Stops           \* whether the server may be stopped

Operations == {"get", "put", "delete", "stats", "ping"}

ASSUME RpcAssumption ==
    /\ Conns \subseteq Nat
    /\ Size \in [Payloads -> Nat]
    /\ {NoBytes, Cut} \subseteq Payloads /\ Size[NoBytes] = 0
    /\ MaxBytes \in Nat \ {0} /\ ServerLimit \in Nat /\ ClientLimit \in Nat
    /\ HeaderLimit \in Nat /\ FoundHeader \in 0..HeaderLimit
    /\ KeyBytes \in [Keys \cup {EmptyKey} -> Nat]
    /\ Metadata \in [Payloads -> Nat] /\ Metadata[NoBytes] = 0
    /\ RequestHeader \in [Operations -> Nat]
    /\ \A r \in Requests :
        /\ r.op \in Operations
        /\ r.key \in Keys \cup {EmptyKey}
        /\ r.payload \in Payloads \ {Cut}
        /\ r.op # "put" => r.payload = NoBytes
    /\ None \notin Requests
    /\ Stops \in BOOLEAN

VARIABLES
    records, order, evictions,  \* the server's store
    reply,      \* reply[c]: what the store answered to the handler of c
    caller,     \* caller[c]: the client whose call uses c, or None
    request,    \* request[c]: its request
    cpc,        \* cpc[c]: where the client is: unused, send, wait, done
    sent,       \* sent[c]: how much of the request it has sent
    outcome,    \* outcome[c]: what the call returned or raised
    hpc,        \* hpc[c]: where the handler is: none, header, body, dispatch, answer, error, payload, closed
    body,       \* body[c]: the payload the handler has read
    failure,    \* failure[c]: the type of the exception the handler caught
    answer,     \* answer[c]: the frame it sends
    passed,     \* passed[c]: how much of that frame it has sent
    effects     \* effects[c]: the operations c's handler has carried out

storeVars == <<records, order, evictions>>
clientVars == <<caller, request, cpc, sent, outcome>>
handlerVars == <<hpc, body, failure, answer, passed, effects>>
vars == <<storeVars, reply, clientVars, handlerVars>>

Store == INSTANCE StateStore WITH Threads <- Conns, ExpectedVersions <- {}

NoOutcome == [kind |-> "none", value |-> Store!NoReply, payload |-> NoBytes]
NoAnswer == [status |-> "none", value |-> Store!NoReply, payload |-> NoBytes]

Init ==
    /\ Store!Init
    /\ caller = [c \in Conns |-> None]
    /\ request = [c \in Conns |-> None]
    /\ cpc = [c \in Conns |-> "unused"]
    /\ sent = [c \in Conns |-> "nothing"]
    /\ outcome = [c \in Conns |-> NoOutcome]
    /\ hpc = [c \in Conns |-> "none"]
    /\ body = [c \in Conns |-> NoBytes]
    /\ failure = [c \in Conns |-> None]
    /\ answer = [c \in Conns |-> NoAnswer]
    /\ passed = [c \in Conns |-> "nothing"]
    /\ effects = [c \in Conns |-> 0]

\* send_frame: after the header, a payload if there is one.
AfterHeader(payload) == IF Size[payload] = 0 THEN "all" ELSE "header"

---------------------------------------------------------------------------
(***************************************************************************)
(* TcpStateStoreClient._request.                                           *)
(***************************************************************************)
\* The call ends and its "with" block closes the connection.
End(c, kind, value, payload) ==
    /\ cpc' = [cpc EXCEPT ![c] = "done"]
    /\ outcome' = [outcome EXCEPT ![c] = [kind |-> kind, value |-> value, payload |-> payload]]
    /\ UNCHANGED <<storeVars, reply, caller, request, sent, handlerVars>>

Fail(c, kind) == End(c, kind, Store!NoReply, NoBytes)

Free(client) == \A c \in Conns : caller[c] = client => cpc[c] = "done"

\* A call starts; its connection is made, or refused.
Connect(client, c, r) ==
    /\ cpc[c] = "unused" /\ \A d \in Conns : d < c => cpc[d] # "unused"
    /\ Free(client)
    /\ caller' = [caller EXCEPT ![c] = client]
    /\ request' = [request EXCEPT ![c] = r]
    /\ \/ /\ cpc' = [cpc EXCEPT ![c] = "send"]
          /\ hpc' = [hpc EXCEPT ![c] = "header"]
          /\ UNCHANGED outcome
       \/ /\ cpc' = [cpc EXCEPT ![c] = "done"]
          /\ outcome' = [outcome EXCEPT ![c].kind = "disconnected"]
          /\ UNCHANGED hpc
    /\ UNCHANGED <<storeVars, reply, sent, body, failure, answer, passed, effects>>

\* send_frame has sent another part; after the last one the client waits.
\* A part sent on a connection that is closed already is lost.
SendPart(c, part) ==
    /\ sent' = [sent EXCEPT ![c] = part]
    /\ cpc' = [cpc EXCEPT ![c] = IF part = "all" THEN "wait" ELSE "send"]
    /\ UNCHANGED <<storeVars, reply, caller, request, outcome, handlerVars>>

\* send_frame's check.  Keys and metadata are what can make a header too
\* large; a request names its key, an answer does not.
RequestFits(r) ==
    KeyBytes[r.key] + Metadata[r.payload] + RequestHeader[r.op] <= HeaderLimit

AnswerFits(p) == Metadata[p] + FoundHeader <= HeaderLimit

SendHeader(c) ==
    /\ cpc[c] = "send" /\ sent[c] = "nothing"
    /\ RequestFits(request[c])
    /\ SendPart(c, AfterHeader(request[c].payload))

SendHeaderTooLarge(c) ==
    /\ cpc[c] = "send" /\ sent[c] = "nothing"
    /\ ~RequestFits(request[c])
    /\ Fail(c, "ProtocolError")

SendPayload(c) ==
    /\ cpc[c] = "send" /\ sent[c] = "header"
    /\ SendPart(c, "all")

\* Sending on a connection the server has closed raises.
SendFails(c) ==
    /\ cpc[c] = "send"
    /\ hpc[c] = "closed"
    /\ Fail(c, "disconnected")

\* How _request reports an answer.
Verdict(status) ==
    CASE status = "ok" -> "returned"
      [] status = "VersionConflict" -> "VersionConflict"
      [] OTHER -> "RuntimeError"

\* Faulty variant: the status of the answer is not looked at.
ReceiveUnchecked(c) ==
    /\ cpc[c] = "wait" /\ passed[c] = "all"
    /\ End(c, "returned", answer[c].value, answer[c].payload)

\* The whole answer is there.
Receive(c) ==
    /\ cpc[c] = "wait" /\ passed[c] = "all"
    /\ Size[answer[c].payload] <= ClientLimit
    /\ End(c, Verdict(answer[c].status), answer[c].value, answer[c].payload)

\* Its payload is larger than this client accepts; the payload is not read.
ReceiveTooLarge(c) ==
    /\ cpc[c] = "wait" /\ passed[c] # "nothing"
    /\ Size[answer[c].payload] > ClientLimit
    /\ Fail(c, "ProtocolError")

\* The connection ends inside the answer.
ReceiveEOF(c) ==
    /\ cpc[c] = "wait" /\ passed[c] # "all"
    /\ hpc[c] = "closed"
    /\ Fail(c, "disconnected")

\* Faulty variant: sock.settimeout is forgotten.
NoTimeout(c) == FALSE /\ UNCHANGED vars

\* Nothing comes for timeout_s, or the buffers take nothing.
Timeout(c) ==
    /\ \/ cpc[c] = "send"
       \/ cpc[c] = "wait" /\ passed[c] # "all"
    /\ Fail(c, "TimeoutError")

Client(c) ==
    \/ SendHeader(c) \/ SendHeaderTooLarge(c) \/ SendPayload(c) \/ SendFails(c)
    \/ Receive(c) \/ ReceiveTooLarge(c) \/ ReceiveEOF(c) \/ Timeout(c)

---------------------------------------------------------------------------
(***************************************************************************)
(* StateRequestHandler.handle.                                             *)
(***************************************************************************)
Closed(c) == cpc[c] = "done"

Handler(c, from, to) ==
    /\ hpc[c] = from
    /\ hpc' = [hpc EXCEPT ![c] = to]
    /\ UNCHANGED clientVars

\* The handler catches an exception of the given type.
Catch(c, from, type) ==
    /\ Handler(c, from, "error")
    /\ failure' = [failure EXCEPT ![c] = type]
    /\ UNCHANGED <<storeVars, body, answer, passed, effects>>

\* Faulty variant: the length of the payload is not checked.
ReadHeaderUnlimited(c) ==
    /\ sent[c] # "nothing"
    /\ Handler(c, "header", "body")
    /\ UNCHANGED <<storeVars, reply, body, failure, answer, passed, effects>>

\* recv_frame: the header, with the length of the payload.
ReadHeader(c) ==
    /\ sent[c] # "nothing"
    /\ Size[request[c].payload] <= ServerLimit
    /\ Handler(c, "header", "body")
    /\ UNCHANGED <<storeVars, reply, body, failure, answer, passed, effects>>

ReadHeaderTooLarge(c) ==
    /\ sent[c] # "nothing"
    /\ Size[request[c].payload] > ServerLimit
    /\ Catch(c, "header", "ProtocolError")
    /\ UNCHANGED reply

ReadHeaderEOF(c) ==
    /\ sent[c] = "nothing" /\ Closed(c)
    /\ Catch(c, "header", "EOFError")
    /\ UNCHANGED reply

\* recv_exact: exactly the payload,
ReadBody(c) ==
    /\ sent[c] = "all"
    /\ Handler(c, "body", "dispatch")
    /\ body' = [body EXCEPT ![c] = request[c].payload]
    /\ UNCHANGED <<storeVars, reply, failure, answer, passed, effects>>

\* Faulty variant: recv_exact returns what it has when the peer closes.
ReadBodyShort(c) ==
    /\ sent[c] = "header" /\ Closed(c)
    /\ Handler(c, "body", "dispatch")
    /\ body' = [body EXCEPT ![c] = Cut]
    /\ UNCHANGED <<storeVars, reply, failure, answer, passed, effects>>

\* Faulty variant: recv_exact goes on reading after the peer has closed.
ReadBodySpins(c) ==
    /\ sent[c] = "header" /\ Closed(c)
    /\ hpc[c] = "body"
    /\ UNCHANGED vars

\* or an EOFError.
ReadBodyEOF(c) ==
    /\ sent[c] = "header" /\ Closed(c)
    /\ Catch(c, "body", "EOFError")
    /\ UNCHANGED reply

\* _dispatch has carried out an operation: the ok frame, with what the store
\* returned, is next.
Served(c, payload) ==
    /\ Handler(c, "dispatch", "answer")
    /\ answer' = [answer EXCEPT ![c] = [status |-> "ok", value |-> reply'[c], payload |-> payload]]
    /\ effects' = [effects EXCEPT ![c] = @ + 1]
    /\ UNCHANGED <<body, failure, passed>>

DispatchPing(c) ==
    /\ hpc[c] = "dispatch" /\ request[c].op = "ping"
    /\ UNCHANGED <<storeVars, reply>>
    /\ Served(c, NoBytes)

DispatchStats(c) ==
    /\ hpc[c] = "dispatch" /\ request[c].op = "stats"
    /\ Store!Stats(c)
    /\ Served(c, NoBytes)

HasKey(c) == request[c].op \in {"get", "put", "delete"}

DispatchNoKey(c) ==
    /\ hpc[c] = "dispatch" /\ HasKey(c)
    /\ request[c].key = EmptyKey
    /\ Catch(c, "dispatch", "ProtocolError")
    /\ UNCHANGED reply

DispatchGet(c) ==
    LET record == Store!Lookup(records, request[c].key) IN
    /\ hpc[c] = "dispatch" /\ request[c].op = "get"
    /\ request[c].key # EmptyKey
    /\ Store!Get(c, request[c].key)
    /\ Served(c, IF record = None THEN NoBytes ELSE record.payload)

DispatchPut(c) ==
    /\ hpc[c] = "dispatch" /\ request[c].op = "put"
    /\ Store!Put(c, request[c].key, body[c], request[c].expected)
    /\ Served(c, NoBytes)

DispatchPutRaises(c) ==
    /\ hpc[c] = "dispatch" /\ request[c].op = "put"
    /\ request[c].key # EmptyKey
    /\ \/ Store!PutInvalid(c, request[c].key, body[c])
       \/ Store!PutConflict(c, request[c].key, body[c], request[c].expected)
    /\ Catch(c, "dispatch", reply'[c].kind)

DispatchDelete(c) ==
    /\ hpc[c] = "dispatch" /\ request[c].op = "delete"
    /\ request[c].key # EmptyKey
    /\ Store!Delete(c, request[c].key, request[c].expected)
    /\ \/ reply'[c].kind # "VersionConflict" /\ Served(c, NoBytes)
       \/ reply'[c].kind = "VersionConflict" /\ Catch(c, "dispatch", "VersionConflict")

\* The ok frame: header, then payload.
SendOk(c) ==
    LET part == AfterHeader(answer[c].payload) IN
    /\ ~Closed(c)
    /\ AnswerFits(answer[c].payload)
    /\ Handler(c, "answer", IF part = "all" THEN "closed" ELSE "payload")
    /\ passed' = [passed EXCEPT ![c] = part]
    /\ UNCHANGED <<storeVars, reply, body, failure, answer, effects>>

\* The answer to get has a header of its own, without the key but with more
\* beside the metadata: it may be too large although put's was not.
SendOkTooLarge(c) ==
    /\ ~AnswerFits(answer[c].payload)
    /\ Catch(c, "answer", "ProtocolError")
    /\ UNCHANGED reply

SendOkPayload(c) ==
    /\ ~Closed(c)
    /\ Handler(c, "payload", "closed")
    /\ passed' = [passed EXCEPT ![c] = "all"]
    /\ UNCHANGED <<storeVars, reply, body, failure, answer, effects>>

\* The error frame.
SendError(c) ==
    /\ ~Closed(c)
    /\ Handler(c, "error", "closed")
    /\ answer' = [answer EXCEPT ![c] = [status |-> failure[c], value |-> Store!NoReply, payload |-> NoBytes]]
    /\ passed' = [passed EXCEPT ![c] = "all"]
    /\ UNCHANGED <<storeVars, reply, body, failure, effects>>

\* The peer has closed: sending raises OSError, the handler's own attempt to
\* report that raises another, and it returns.
SendToNobody(c) ==
    /\ Closed(c)
    /\ \E from \in {"answer", "payload", "error"} : Handler(c, from, "closed")
    /\ UNCHANGED <<storeVars, reply, body, failure, answer, passed, effects>>

Serve(c) ==
    \/ ReadHeader(c) \/ ReadHeaderTooLarge(c) \/ ReadHeaderEOF(c)
    \/ ReadBody(c) \/ ReadBodyEOF(c)
    \/ DispatchPing(c) \/ DispatchStats(c) \/ DispatchNoKey(c)
    \/ DispatchGet(c) \/ DispatchPut(c) \/ DispatchPutRaises(c) \/ DispatchDelete(c)
    \/ SendOk(c) \/ SendOkTooLarge(c) \/ SendOkPayload(c) \/ SendError(c) \/ SendToNobody(c)

\* The server process ends, its daemon threads with it, and a new one starts
\* with an empty store.
Stop ==
    /\ Stops
    /\ hpc' = [c \in Conns |-> IF hpc[c] = "none" THEN "none" ELSE "closed"]
    /\ records' = [k \in Keys |-> None]
    /\ order' = <<>>
    /\ evictions' = 0
    /\ UNCHANGED <<reply, clientVars, body, failure, answer, passed, effects>>

Next ==
    \/ \E client \in Clients, c \in Conns, r \in Requests : Connect(client, c, r)
    \/ \E c \in Conns : Client(c) \/ Serve(c)
    \/ Stop

Spec == Init /\ [][Next]_vars

\* A client's call goes on by itself: whatever the server does, each of its
\* socket operations ends within timeout_s.
FairSpec == Spec /\ \A c \in Conns : WF_vars(Client(c))

---------------------------------------------------------------------------
(***************************************************************************)
(* Properties.                                                             *)
(***************************************************************************)
Parts == {"nothing", "header", "all"}

\* Types; the payload a handler has read is never longer than the server's
\* max_payload_bytes.
TypeOK ==
    /\ records \in Store!RecordTables
    /\ order \in Seq(Keys)
    /\ evictions \in Nat
    /\ caller \in [Conns -> Clients \cup {None}]
    /\ request \in [Conns -> Requests \cup {None}]
    /\ cpc \in [Conns -> {"unused", "send", "wait", "done"}]
    /\ sent \in [Conns -> Parts]
    /\ \A c \in Conns :
        outcome[c].kind \in {"none", "returned", "VersionConflict", "RuntimeError",
                             "ProtocolError", "disconnected", "TimeoutError"}
    /\ hpc \in [Conns -> {"none", "header", "body", "dispatch", "answer", "payload",
                          "error", "closed"}]
    /\ body \in [Conns -> {p \in Payloads : Size[p] <= ServerLimit}]
    /\ passed \in [Conns -> Parts]
    /\ effects \in [Conns -> Nat]

\* The client learns the truth: a call that returns has been carried out
\* once, with that result; one the server answered with an error has done
\* nothing, save a get whose record was found but whose metadata does not fit
\* the header of an answer; one that ended without an answer was carried out once at most,
\* however client, handler and a stop of the server interleave.
AnswerIsTrue ==
    \A c \in Conns :
        /\ outcome[c].kind = "returned" =>
            /\ effects[c] = 1
            /\ outcome[c].value = reply[c]
            /\ request[c].op = "get" /\ reply[c].value # None
                => outcome[c].payload = reply[c].value.payload
        /\ outcome[c].kind \in {"VersionConflict", "RuntimeError"} =>
            \/ effects[c] = 0
            \/ request[c].op = "get" /\ ~AnswerFits(reply[c].value.payload)
        /\ effects[c] <= 1

\* Whatever is in the store was passed to put and has arrived in full: a
\* client that gives up while sending leaves no part of its payload behind.
OnlyWholePuts ==
    \A k \in Keys : records[k] # None =>
        \E c \in Conns :
            /\ request[c] # None /\ request[c].op = "put" /\ request[c].key = k
            /\ request[c].payload = records[k].payload
            /\ sent[c] = "all"

\* Every call ends, whatever the server does or fails to do.
EveryCallEnds ==
    \A c \in Conns : (cpc[c] \in {"send", "wait"}) ~> (cpc[c] = "done")

\* Every handler thread ends, provided threads are scheduled: none waits for
\* ever for a client that has given up.
HandlersEnd ==
    (\A c \in Conns : WF_vars(Serve(c)))
        => \A c \in Conns : (hpc[c] # "none") ~> (hpc[c] = "closed")

\* "RPC errors must reach the client": when the handler has caught an
\* exception, the call ends with the error it reports, unless the client has
\* given up waiting or has refused a frame itself, its own or the server's.
ErrorsReachClient ==
    \A c \in Conns :
        failure[c] # None /\ outcome[c].kind \notin {"none", "TimeoutError", "ProtocolError"}
            => outcome[c].kind \in {"VersionConflict", "RuntimeError"}
===========================================================================
