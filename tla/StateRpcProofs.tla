--------------------------- MODULE StateRpcProofs ---------------------------
(***************************************************************************)
(* Proofs about StateRpc, for every number of clients and of calls, every  *)
(* set of requests and all limits, with and without stops of the server.   *)
(***************************************************************************)
EXTENDS StateRpc, RecencyOrderProofs

---------------------------------------------------------------------------
(***************************************************************************)
(* The inductive invariant.                                                *)
(***************************************************************************)
\* The server's store.
StoreTypes ==
    /\ records \in Store!RecordTables
    /\ order \in Seq(Keys)
    /\ evictions \in Nat

\* The rest of TypeOK.
ConnTypes ==
    /\ caller \in [Conns -> Clients \cup {None}]
    /\ request \in [Conns -> Requests \cup {None}]
    /\ cpc \in [Conns -> {"unused", "send", "wait", "done"}]
    /\ sent \in [Conns -> Parts]
    /\ hpc \in [Conns -> {"none", "header", "body", "dispatch", "answer", "payload",
                          "error", "closed"}]
    /\ body \in [Conns -> {p \in Payloads : Size[p] <= ServerLimit}]
    /\ passed \in [Conns -> Parts]
    /\ effects \in [Conns -> Nat]
    /\ reply = [c \in Conns |-> reply[c]]
    /\ DOMAIN outcome = Conns /\ DOMAIN failure = Conns /\ DOMAIN answer = Conns

\* The call's operation has been carried out, once, and the ok frame tells
\* what it returned.
Done(c) ==
    /\ effects[c] = 1
    /\ answer[c].status = "ok" /\ answer[c].value = reply[c]
    /\ answer[c].payload = IF request[c].op = "get" /\ reply[c].value # None
                           THEN reply[c].value.payload ELSE NoBytes

\* Nothing has been done, or a get whose answer does not fit its header.
NotDone(c) ==
    \/ effects[c] = 0
    \/ request[c].op = "get" /\ ~AnswerFits(reply[c].value.payload)

\* Where the client is, what it has sent and what it knows.
ClientInv(c) ==
    /\ cpc[c] = "unused" => hpc[c] = "none" /\ sent[c] = "nothing"
    /\ cpc[c] # "done" => outcome[c] = NoOutcome
    /\ cpc[c] \in {"send", "wait"} => hpc[c] # "none"
    /\ cpc[c] = "send" => sent[c] # "all"
    /\ outcome[c].kind \in {"none", "returned", "VersionConflict", "RuntimeError",
                            "ProtocolError", "disconnected", "TimeoutError"}
    /\ outcome[c].kind \in {"returned", "VersionConflict", "RuntimeError"}
            => passed[c] = "all"

\* Where the handler is, what it has read and done, and what its frame says.
HandlerInv(c) ==
    /\ hpc[c] # "none" => request[c] \in Requests
    /\ hpc[c] \in {"none", "header", "body", "dispatch"} => effects[c] = 0
    /\ hpc[c] \in {"body", "dispatch"} => Size[request[c].payload] <= ServerLimit
    /\ hpc[c] = "dispatch" => sent[c] = "all" /\ body[c] = request[c].payload
    /\ hpc[c] \in {"answer", "payload"} => Done(c)
    /\ hpc[c] = "error" => NotDone(c) /\ failure[c] # "ok"
    /\ hpc[c] \in {"none", "header", "body", "dispatch", "answer", "error"}
            => passed[c] = "nothing"
    /\ passed[c] # "nothing" => Done(c) \/ (answer[c].status # "ok" /\ NotDone(c))
    /\ passed[c] = "all" => hpc[c] = "closed"

\* AnswerIsTrue, of one call.
Truth(c) ==
    /\ outcome[c].kind = "returned" =>
        /\ effects[c] = 1
        /\ outcome[c].value = reply[c]
        /\ request[c].op = "get" /\ reply[c].value # None
            => outcome[c].payload = reply[c].value.payload
    /\ outcome[c].kind \in {"VersionConflict", "RuntimeError"} => NotDone(c)
    /\ effects[c] <= 1

ConnInv(c) == ClientInv(c) /\ HandlerInv(c) /\ Truth(c)

IInv == StoreTypes /\ ConnTypes /\ (\A c \in Conns : ConnInv(c)) /\ OnlyWholePuts

---------------------------------------------------------------------------
(***************************************************************************)
(* The store.                                                              *)
(***************************************************************************)
\* The store's list operation is the one of the lemmas on recency orders.
LEMMA StoreRemoveFirst ==
  ASSUME NEW s, NEW k
  PROVE  Store!RemoveFirst(s, k) = RemoveFirst(s, k)
BY DEF Store!RemoveFirst, Store!SelectInSeq, Store!RemoveAt, Store!Min,
       RemoveFirst, SelectInSeq, RemoveAt, Min

\* Moving a key to the end of the store's order.
LEMMA StoreMoveToEnd ==
  ASSUME NEW s \in Seq(Keys), NEW k \in Keys
  PROVE  Store!MoveToEnd(s, k) \in Seq(Keys)
<1>1. RemoveFirst(s, k) \in Seq(Keys)
  BY RemoveFirstType
<1> QED BY <1>1, StoreRemoveFirst DEF Store!MoveToEnd

\* A get changes nothing but the order.
LEMMA GetTypes ==
  ASSUME StoreTypes, NEW c \in Conns, NEW key \in Keys, Store!Get(c, key)
  PROVE  StoreTypes' /\ UNCHANGED records
<1>1. order' \in Seq(Keys)
  BY StoreMoveToEnd DEF Store!Get, Store!TouchOnGet, StoreTypes
<1> QED BY <1>1 DEF Store!Get, Store!TouchOnGet, StoreTypes

\* A write leaves an entry as it was, drops it, or it is the one written.
LEMMA WriteTypes ==
  ASSUME StoreTypes, NEW key \in Keys, NEW p \in Payloads, Store!Write(key, p)
  PROVE  /\ StoreTypes'
         /\ \A k \in Keys : \/ records'[k] \in {records[k], None}
                            \/ k = key /\ records'[k].payload = p
<1> USE DEF Store!RecordTables, Store!StateRecord
<1> DEFINE record == Store!NextRecord(key, p)
           written == [records EXCEPT ![key] = record]
           queue == Store!MoveToEnd(order, key)
<1>1. record \in Store!StateRecord /\ record.payload = p
  <2>1. Store!VersionOf(records[key]) \in Nat
    BY DEF StoreTypes, Store!VersionOf
  <2> QED BY <2>1 DEF Store!NextRecord
<1>2. queue \in Seq(Keys)
  BY StoreMoveToEnd DEF StoreTypes
<1> HIDE DEF record, queue
<1>3. PICK n \in 0 .. Len(queue) - 1 :
        /\ records' = Store!WithoutOldest(written, queue, n)
        /\ order' = SubSeq(queue, n + 1, Len(queue))
        /\ evictions' = evictions + n
  BY DEF Store!Write, record, queue
<1>4. order' \in Seq(Keys)
  <2>1. n \in 0 .. Len(queue)
    BY <1>2
  <2> QED BY <1>2, <1>3, <2>1, DropOldestProperties
<1>5. evictions' \in Nat
  BY <1>2, <1>3 DEF StoreTypes
<1>6. /\ written \in Store!RecordTables
      /\ \A k \in Keys : written[k] = IF k = key THEN record ELSE records[k]
  BY <1>1 DEF StoreTypes
<1> HIDE DEF written
<1>7. records' \in Store!RecordTables
  BY <1>3, <1>6 DEF Store!WithoutOldest
<1>8. \A k \in Keys : records'[k] \in {written[k], None}
  BY <1>3 DEF Store!WithoutOldest
<1>9. \A k \in Keys : records'[k] \in {records[k], None} \/ (k = key /\ records'[k].payload = p)
  BY <1>1, <1>6, <1>8
<1> QED BY <1>4, <1>5, <1>7, <1>9 DEF StoreTypes

\* A delete drops an entry.
LEMMA EraseTypes ==
  ASSUME StoreTypes, NEW key \in Keys, Store!Erase(key)
  PROVE  StoreTypes' /\ \A k \in Keys : records'[k] \in {records[k], None}
<1>1. order' \in Seq(Keys)
  BY RemoveFirstType, StoreRemoveFirst DEF Store!Erase, StoreTypes
<1> QED BY <1>1 DEF Store!Erase, StoreTypes, Store!RecordTables

---------------------------------------------------------------------------
(***************************************************************************)
(* What a step of one connection leaves alone.                             *)
(***************************************************************************)
\* The state of connection d.
Unchanged(d) ==
    UNCHANGED <<reply[d], request[d], cpc[d], sent[d], outcome[d], hpc[d], body[d],
                failure[d], answer[d], passed[d], effects[d]>>

\* A connection none of whose state changes keeps its invariant.
LEMMA OtherConnection ==
  ASSUME NEW d \in Conns, ConnInv(d), Unchanged(d)
  PROVE  ConnInv(d)'
<1> USE DEF Unchanged, ConnInv, Done, NotDone, AnswerFits
<1>1. ClientInv(d)'
  BY DEF ClientInv
<1>2. HandlerInv(d)'
  BY DEF HandlerInv
<1>3. Truth(d)'
  BY DEF Truth
<1> QED BY <1>1, <1>2, <1>3

\* Requests that have been sent stay sent, so a step that puts nothing into
\* the store keeps its contents accounted for.
LEMMA PutsKept ==
  ASSUME OnlyWholePuts,
         \A k \in Keys : records'[k] \in {records[k], None},
         \A c \in Conns : sent[c] = "all" => sent'[c] = "all" /\ request'[c] = request[c]
  PROVE  OnlyWholePuts'
BY DEF OnlyWholePuts

\* The frame of a client's step that ends its call.
LEMMA EndIInv ==
  ASSUME IInv, NEW c \in Conns, cpc[c] \in {"send", "wait"},
         NEW kind \in {"returned", "VersionConflict", "RuntimeError", "ProtocolError",
                       "disconnected", "TimeoutError"},
         NEW value, NEW payload, End(c, kind, value, payload),
         kind \in {"returned", "VersionConflict", "RuntimeError"} => passed[c] = "all",
         kind = "returned" =>
             /\ effects[c] = 1 /\ value = reply[c]
             /\ request[c].op = "get" /\ reply[c].value # None
                 => payload = reply[c].value.payload,
         kind \in {"VersionConflict", "RuntimeError"} => NotDone(c)
  PROVE  IInv'
<1> USE DEF IInv, End, storeVars, handlerVars
<1>1. StoreTypes' /\ ConnTypes'
  BY DEF StoreTypes, ConnTypes
<1>2. OnlyWholePuts'
  BY PutsKept
<1>3. \A d \in Conns : d # c => Unchanged(d)
  BY DEF Unchanged, ConnTypes
<1>4. ConnInv(c)'
  <2>1. /\ cpc'[c] = "done" /\ outcome'[c].kind = kind /\ outcome'[c].value = value
        /\ outcome'[c].payload = payload
    BY DEF ConnTypes
  <2>2. NotDone(c)' = NotDone(c) /\ Done(c)' = Done(c)
    BY DEF NotDone, Done, AnswerFits
  <2>3. ClientInv(c)'
    BY <2>1 DEF ClientInv
  <2>4. HandlerInv(c)'
    BY <2>2 DEF HandlerInv, ConnInv
  <2>5. Truth(c)'
    BY <2>1, <2>2 DEF Truth, ConnInv
  <2> QED BY <2>3, <2>4, <2>5 DEF ConnInv
<1> QED BY <1>1, <1>2, <1>3, <1>4, OtherConnection

\* The frame of a handler's step.
LEMMA ServeIInv ==
  ASSUME IInv, NEW c \in Conns, UNCHANGED clientVars, StoreTypes', ConnTypes',
         OnlyWholePuts', \A d \in Conns : d # c => Unchanged(d), HandlerInv(c)',
         hpc[c] # "none", hpc'[c] # "none", passed[c] = "all" => passed'[c] = "all",
         outcome[c].kind \in {"returned", "VersionConflict", "RuntimeError"} =>
            UNCHANGED <<effects[c], reply[c]>>,
         effects'[c] <= 1
  PROVE  IInv'
<1> USE DEF IInv, clientVars
<1>1. ClientInv(c)'
  BY DEF ClientInv, ConnInv
<1>2. Truth(c)'
  BY DEF Truth, ConnInv, NotDone, AnswerFits
<1>3. \A d \in Conns : ConnInv(d)'
  BY <1>1, <1>2, OtherConnection DEF ConnInv
<1> QED BY <1>3

---------------------------------------------------------------------------
(***************************************************************************)
(* The client's steps.                                                     *)
(***************************************************************************)
\* A call starts on an unused connection.
LEMMA ConnectIInv ==
  ASSUME IInv, NEW client \in Clients, NEW c \in Conns, NEW r \in Requests,
         Connect(client, c, r)
  PROVE  IInv'
<1> USE DEF IInv, Connect, storeVars
<1>1. /\ cpc[c] = "unused" /\ hpc[c] = "none" /\ sent[c] = "nothing"
      /\ outcome[c] = NoOutcome /\ ConnInv(c)
  BY DEF ConnInv, ClientInv
<1>2. StoreTypes'
  BY DEF StoreTypes
<1>3. ConnTypes'
  BY DEF ConnTypes
<1>4. OnlyWholePuts'
  <2>1. \A d \in Conns : sent[d] = "all" => sent'[d] = "all" /\ request'[d] = request[d]
    BY <1>1 DEF ConnTypes
  <2> QED BY <2>1, PutsKept
<1>5. \A d \in Conns : d # c => Unchanged(d)
  BY DEF Unchanged, ConnTypes
<1>6. effects[c] = 0 /\ passed[c] = "nothing"
  BY <1>1 DEF ConnInv, HandlerInv
<1>7. /\ request'[c] = r /\ cpc'[c] \in {"send", "done"} /\ hpc'[c] \in {"none", "header"}
      /\ cpc'[c] = "send" => hpc'[c] = "header" /\ outcome'[c] = NoOutcome
      /\ outcome'[c].kind \in {"none", "disconnected"}
  BY <1>1 DEF ConnTypes, NoOutcome
<1>8. ConnInv(c)'
  <2>1. ClientInv(c)'
    BY <1>1, <1>6, <1>7 DEF ClientInv
  <2>2. HandlerInv(c)'
    BY <1>6, <1>7 DEF HandlerInv
  <2>3. Truth(c)'
    BY <1>6, <1>7 DEF Truth
  <2> QED BY <2>1, <2>2, <2>3 DEF ConnInv
<1> QED BY <1>2, <1>3, <1>4, <1>5, <1>8, OtherConnection

\* Another part of the request is sent.
LEMMA SendIInv ==
  ASSUME IInv, NEW c \in Conns, SendHeader(c) \/ SendPayload(c)
  PROVE  IInv'
<1> USE DEF IInv
<1>1. PICK part \in Parts : SendPart(c, part)
  BY DEF SendHeader, SendPayload, AfterHeader, Parts
<1>2. /\ cpc[c] = "send" /\ sent[c] # "all" /\ ConnInv(c)
  BY DEF SendHeader, SendPayload, ConnInv, ClientInv
<1> USE DEF SendPart, storeVars, handlerVars
<1>3. StoreTypes' /\ ConnTypes'
  BY <1>1 DEF StoreTypes, ConnTypes, Parts
<1>4. OnlyWholePuts'
  <2>1. \A d \in Conns : sent[d] = "all" => sent'[d] = "all" /\ request'[d] = request[d]
    BY <1>1, <1>2 DEF ConnTypes
  <2> QED BY <1>1, <2>1, PutsKept
<1>5. \A d \in Conns : d # c => Unchanged(d)
  BY <1>1 DEF Unchanged, ConnTypes
<1>6. ConnInv(c)'
  <2>1. /\ sent'[c] = part /\ cpc'[c] = (IF part = "all" THEN "wait" ELSE "send")
        /\ UNCHANGED <<reply, request, outcome, hpc, body, failure, answer, passed, effects>>
    BY <1>1 DEF ConnTypes
  <2>2. ClientInv(c)'
    BY <1>2, <2>1 DEF ClientInv, ConnInv
  <2>3. HandlerInv(c)'
    BY <1>2, <2>1 DEF HandlerInv, ConnInv, Done, NotDone, AnswerFits
  <2>4. Truth(c)'
    BY <1>2, <2>1 DEF Truth, ConnInv, NotDone, AnswerFits
  <2> QED BY <2>2, <2>3, <2>4 DEF ConnInv
<1> QED BY <1>3, <1>4, <1>5, <1>6, OtherConnection

\* The call ends: with the answer, or without one.
LEMMA ReceiveIInv ==
  ASSUME IInv, NEW c \in Conns, Receive(c)
  PROVE  IInv'
<1> DEFINE kind == Verdict(answer[c].status)
<1>1. /\ cpc[c] = "wait" /\ passed[c] = "all" /\ ConnInv(c)
      /\ End(c, kind, answer[c].value, answer[c].payload)
  BY DEF Receive, IInv
<1>2. /\ kind \in {"returned", "VersionConflict", "RuntimeError"}
      /\ kind = "returned" => answer[c].status = "ok"
      /\ kind # "returned" => answer[c].status # "ok"
  BY DEF Verdict
<1>3. Done(c) \/ (answer[c].status # "ok" /\ NotDone(c))
  BY <1>1 DEF ConnInv, HandlerInv
<1>4. kind = "returned" =>
          /\ effects[c] = 1 /\ answer[c].value = reply[c]
          /\ request[c].op = "get" /\ reply[c].value # None
              => answer[c].payload = reply[c].value.payload
  BY <1>2, <1>3 DEF Done
<1>5. kind # "returned" => NotDone(c)
  BY <1>2, <1>3 DEF Done
<1> HIDE DEF kind
<1>6. kind \in {"returned", "VersionConflict", "RuntimeError", "ProtocolError",
                "disconnected", "TimeoutError"} /\ cpc[c] \in {"send", "wait"}
  BY <1>1, <1>2
<1>7. kind \in {"VersionConflict", "RuntimeError"} => NotDone(c)
  BY <1>5
<1> QED BY <1>1, <1>4, <1>6, <1>7, EndIInv

LEMMA FailIInv ==
  ASSUME IInv, NEW c \in Conns,
         \/ SendHeaderTooLarge(c) \/ SendFails(c) \/ ReceiveTooLarge(c)
         \/ ReceiveEOF(c) \/ Timeout(c)
  PROVE  IInv'
<1>1. cpc[c] \in {"send", "wait"}
  BY DEF SendHeaderTooLarge, SendFails, ReceiveTooLarge, ReceiveEOF, Timeout
<1>2. PICK kind \in {"ProtocolError", "disconnected", "TimeoutError"} :
        End(c, kind, Store!NoReply, NoBytes)
  BY DEF SendHeaderTooLarge, SendFails, ReceiveTooLarge, ReceiveEOF, Timeout, Fail
<1> QED BY <1>1, <1>2, EndIInv

---------------------------------------------------------------------------
(***************************************************************************)
(* The handler's steps.                                                    *)
(***************************************************************************)
\* Reading the request.
LEMMA ReadIInv ==
  ASSUME IInv, NEW c \in Conns, ReadHeader(c) \/ ReadBody(c)
  PROVE  IInv'
<1> USE DEF IInv, Handler, storeVars, clientVars
<1>1. /\ hpc[c] \in {"header", "body"} /\ ConnInv(c) /\ request[c] \in Requests
      /\ effects[c] = 0 /\ passed[c] = "nothing"
  BY DEF ReadHeader, ReadBody, ConnInv, HandlerInv
<1>2. /\ UNCHANGED <<storeVars, reply, clientVars, failure, answer, passed, effects>>
      /\ \/ /\ hpc' = [hpc EXCEPT ![c] = "body"] /\ body' = body
            /\ Size[request[c].payload] <= ServerLimit
         \/ /\ hpc[c] = "body" /\ hpc' = [hpc EXCEPT ![c] = "dispatch"]
            /\ body' = [body EXCEPT ![c] = request[c].payload] /\ sent[c] = "all"
  BY DEF ReadHeader, ReadBody
<1>3. Size[request[c].payload] <= ServerLimit /\ request[c].payload \in Payloads
  BY <1>1, <1>2, RpcAssumption DEF ConnInv, HandlerInv
<1>4. StoreTypes' /\ ConnTypes'
  BY <1>2, <1>3 DEF StoreTypes, ConnTypes
<1>5. OnlyWholePuts'
  BY <1>2, PutsKept
<1>6. \A d \in Conns : d # c => Unchanged(d)
  BY <1>2 DEF Unchanged, ConnTypes
<1>7. HandlerInv(c)' /\ hpc'[c] # "none"
  BY <1>1, <1>2, <1>3 DEF HandlerInv, ConnTypes
<1> QED BY <1>1, <1>2, <1>4, <1>5, <1>6, <1>7, ServeIInv

\* Catching an exception before anything has been done, or after a get.
LEMMA CatchIInv ==
  ASSUME IInv, NEW c \in Conns, NEW from \in {"header", "body", "dispatch", "answer"},
         NEW type, type # "ok", Catch(c, from, type), NotDone(c)',
         reply' \in {reply, [reply EXCEPT ![c] = reply'[c]]},
         from # "dispatch" => reply' = reply
  PROVE  IInv'
<1> USE DEF IInv, Catch, Handler, storeVars, clientVars
<1>1. hpc[c] = from /\ ConnInv(c) /\ request[c] \in Requests /\ passed[c] = "nothing"
  BY DEF ConnInv, HandlerInv
<1>2. StoreTypes' /\ ConnTypes'
  BY DEF StoreTypes, ConnTypes
<1>3. OnlyWholePuts'
  BY PutsKept
<1>4. \A d \in Conns : d # c => Unchanged(d)
  BY DEF Unchanged, ConnTypes
<1>5. hpc'[c] = "error" /\ failure'[c] = type
  BY DEF ConnTypes
<1>6. HandlerInv(c)'
  BY <1>1, <1>5 DEF HandlerInv
<1>7. outcome[c].kind \notin {"returned", "VersionConflict", "RuntimeError"} /\ effects[c] <= 1
  BY <1>1 DEF ConnInv, ClientInv, Truth
<1> QED BY <1>1, <1>2, <1>3, <1>4, <1>5, <1>6, <1>7, ServeIInv

\* Carrying an operation out, with the ok frame next.
LEMMA ServedIInv ==
  ASSUME IInv, NEW c \in Conns, NEW payload, Served(c, payload), NEW r,
         reply' = [reply EXCEPT ![c] = r], StoreTypes', OnlyWholePuts',
         payload = IF request[c].op = "get" /\ r.value # None THEN r.value.payload ELSE NoBytes
  PROVE  IInv'
<1> USE DEF IInv, Served, Handler, clientVars
<1>1. /\ hpc[c] = "dispatch" /\ ConnInv(c) /\ request[c] \in Requests
      /\ passed[c] = "nothing" /\ effects[c] = 0
  BY DEF ConnInv, HandlerInv
<1>2. ConnTypes'
  BY DEF ConnTypes
<1>3. \A d \in Conns : d # c => Unchanged(d)
  BY DEF Unchanged, ConnTypes
<1>4. /\ hpc'[c] = "answer" /\ effects'[c] = 1 /\ reply'[c] = r
      /\ answer'[c] = [status |-> "ok", value |-> r, payload |-> payload]
  BY <1>1 DEF ConnTypes
<1>5. Done(c)'
  BY <1>4 DEF Done
<1>6. HandlerInv(c)'
  BY <1>1, <1>4, <1>5 DEF HandlerInv
<1>7. outcome[c].kind \notin {"returned", "VersionConflict", "RuntimeError"}
  BY <1>1 DEF ConnInv, ClientInv
<1> QED BY <1>1, <1>2, <1>3, <1>4, <1>6, <1>7, ServeIInv

\* Operations that leave the table alone.
LEMMA DispatchReadIInv ==
  ASSUME IInv, NEW c \in Conns, DispatchPing(c) \/ DispatchStats(c) \/ DispatchGet(c)
  PROVE  IInv'
<1>1. CASE DispatchPing(c) \/ DispatchStats(c)
  <2>1. PICK r : reply' = [reply EXCEPT ![c] = r]
    <3>1. [reply EXCEPT ![c] = reply[c]] = reply
      BY DEF IInv, ConnTypes
    <3> QED BY <1>1, <3>1 DEF DispatchPing, DispatchStats, Store!Stats, Store!Answer
  <2>2. UNCHANGED storeVars /\ Served(c, NoBytes) /\ request[c].op # "get"
    BY <1>1 DEF DispatchPing, DispatchStats, Store!Stats, Store!storeVars, storeVars
  <2>3. StoreTypes'
    BY <2>2 DEF IInv, StoreTypes, storeVars
  <2>4. OnlyWholePuts'
    BY <2>2, PutsKept DEF IInv, storeVars, Served, Handler, clientVars
  <2> QED BY <2>1, <2>2, <2>3, <2>4, ServedIInv
<1>2. CASE DispatchGet(c)
  <2> DEFINE key == request[c].key
             record == Store!Lookup(records, key)
             r == [kind |-> "returned", key |-> key, value |-> record]
             payload == IF record = None THEN NoBytes ELSE record.payload
  <2>1. key \in Keys
    <3>1. request[c] \in Requests /\ key # EmptyKey
      BY <1>2 DEF DispatchGet, IInv, ConnInv, HandlerInv
    <3> QED BY <3>1, RpcAssumption
  <2>2. /\ Store!Get(c, key) /\ Served(c, payload) /\ request[c].op = "get"
        /\ reply' = [reply EXCEPT ![c] = r]
    BY <1>2 DEF DispatchGet, Store!Get, Store!Answer
  <2>3. StoreTypes' /\ UNCHANGED records
    BY <2>1, <2>2, GetTypes DEF IInv
  <2>4. OnlyWholePuts'
    BY <2>2, <2>3, PutsKept DEF IInv, Served, Handler, clientVars
  <2>5. r.value = record
    OBVIOUS
  <2> HIDE DEF r, record
  <2>6. payload = IF request[c].op = "get" /\ r.value # None THEN r.value.payload ELSE NoBytes
    BY <2>2, <2>5
  <2> HIDE DEF payload
  <2> QED BY <2>2, <2>3, <2>4, <2>6, ServedIInv
<1> QED BY <1>1, <1>2

\* put, carried out: what is stored is the request's own payload.
LEMMA DispatchPutIInv ==
  ASSUME IInv, NEW c \in Conns, DispatchPut(c)
  PROVE  IInv'
<1> DEFINE key == request[c].key
           p == request[c].payload
           r == [kind |-> "returned", key |-> key, value |-> Store!NextRecord(key, p)]
<1>1. /\ hpc[c] = "dispatch" /\ request[c] \in Requests /\ request[c].op = "put"
      /\ sent[c] = "all" /\ body[c] = p
  BY DEF DispatchPut, IInv, ConnInv, HandlerInv
<1>2. /\ key # EmptyKey /\ Store!Write(key, p) /\ Served(c, NoBytes)
      /\ reply' = [reply EXCEPT ![c] = r]
  BY <1>1 DEF DispatchPut, Store!Put, Store!Accepted, Store!Answer
<1>3. key \in Keys /\ p \in Payloads /\ request[c] # None
  BY <1>1, <1>2, RpcAssumption
<1> HIDE DEF r
<1>4. /\ StoreTypes'
      /\ \A k \in Keys : records'[k] \in {records[k], None} \/ (k = key /\ records'[k].payload = p)
  <2>1. StoreTypes
    BY DEF IInv
  <2> QED BY <1>2, <1>3, <2>1, WriteTypes
<1>5. OnlyWholePuts'
  <2>1. UNCHANGED <<request, sent>>
    BY <1>2 DEF Served, Handler, clientVars
  <2> QED BY <1>1, <1>3, <1>4, <2>1 DEF IInv, OnlyWholePuts
<1> QED BY <1>1, <1>2, <1>4, <1>5, ServedIInv

\* delete: carried out, nothing to delete, or another version found.
LEMMA DispatchDeleteIInv ==
  ASSUME IInv, NEW c \in Conns, DispatchDelete(c)
  PROVE  IInv'
<1> DEFINE key == request[c].key
<1>1. /\ hpc[c] = "dispatch" /\ request[c] \in Requests /\ request[c].op = "delete"
      /\ effects[c] = 0 /\ Store!Delete(c, key, request[c].expected) /\ key # EmptyKey
  BY DEF DispatchDelete, IInv, ConnInv, HandlerInv
<1>2. key \in Keys
  BY <1>1, RpcAssumption
<1>3. PICK kind \in {"absent", "deleted", "VersionConflict"} :
        /\ reply' = [reply EXCEPT ![c] = [kind |-> kind, key |-> key, value |-> None]]
        /\ UNCHANGED storeVars \/ Store!Erase(key)
  BY <1>1 DEF Store!Delete, Store!Answer, Store!storeVars, storeVars
<1>4. StoreTypes' /\ \A k \in Keys : records'[k] \in {records[k], None}
  <2>1. StoreTypes
    BY DEF IInv
  <2>2. CASE UNCHANGED storeVars
    BY <2>1, <2>2 DEF StoreTypes, storeVars
  <2>3. CASE Store!Erase(key)
    BY <1>2, <2>1, <2>3, EraseTypes
  <2> QED BY <1>3, <2>2, <2>3
<1>5. CASE Served(c, NoBytes)
  <2>1. OnlyWholePuts'
    BY <1>4, <1>5, PutsKept DEF IInv, Served, Handler, clientVars
  <2> QED BY <1>1, <1>3, <1>4, <1>5, <2>1, ServedIInv
<1>6. CASE Catch(c, "dispatch", "VersionConflict")
  <2>1. NotDone(c)'
    BY <1>1, <1>6 DEF NotDone, Catch
  <2>2. reply' = [reply EXCEPT ![c] = reply'[c]]
    BY <1>3 DEF IInv, ConnTypes
  <2> QED BY <1>6, <2>1, <2>2, CatchIInv
<1> QED BY <1>5, <1>6 DEF DispatchDelete

\* The exceptions the handler catches.
LEMMA DispatchRaisesIInv ==
  ASSUME IInv, NEW c \in Conns,
         \/ ReadHeaderTooLarge(c) \/ ReadHeaderEOF(c) \/ ReadBodyEOF(c)
         \/ DispatchNoKey(c) \/ DispatchPutRaises(c) \/ SendOkTooLarge(c)
  PROVE  IInv'
<1>1. CASE ReadHeaderTooLarge(c) \/ ReadHeaderEOF(c) \/ ReadBodyEOF(c) \/ DispatchNoKey(c)
  <2>1. PICK from \in {"header", "body", "dispatch"}, type \in {"ProtocolError", "EOFError"} :
          Catch(c, from, type)
    BY <1>1 DEF ReadHeaderTooLarge, ReadHeaderEOF, ReadBodyEOF, DispatchNoKey
  <2>2. reply' = reply /\ effects[c] = 0 /\ type # "ok"
    BY <1>1, <2>1 DEF ReadHeaderTooLarge, ReadHeaderEOF, ReadBodyEOF, DispatchNoKey,
                      Catch, Handler, IInv, ConnInv, HandlerInv
  <2>3. NotDone(c)'
    BY <2>1, <2>2 DEF NotDone, Catch
  <2> QED BY <2>1, <2>2, <2>3, CatchIInv
<1>2. CASE DispatchPutRaises(c)
  <2>1. hpc[c] = "dispatch" /\ effects[c] = 0
    BY <1>2 DEF DispatchPutRaises, IInv, ConnInv, HandlerInv
  <2>2. PICK kind \in {"ValueError", "VersionConflict"} :
          reply' = [reply EXCEPT ![c] = [kind |-> kind, key |-> request[c].key, value |-> None]]
    BY <1>2 DEF DispatchPutRaises, Store!PutInvalid, Store!PutConflict, Store!Answer
  <2>3. reply'[c].kind = kind
    BY <2>2 DEF IInv, ConnTypes
  <2>4. Catch(c, "dispatch", kind)
    BY <1>2, <2>3 DEF DispatchPutRaises
  <2>5. NotDone(c)'
    BY <2>1, <2>4 DEF NotDone, Catch
  <2>6. reply' = [reply EXCEPT ![c] = reply'[c]]
    BY <2>2 DEF IInv, ConnTypes
  <2> QED BY <2>4, <2>5, <2>6, CatchIInv
<1>3. CASE SendOkTooLarge(c)
  <2>1. /\ hpc[c] = "answer" /\ Done(c) /\ Catch(c, "answer", "ProtocolError")
        /\ ~AnswerFits(answer[c].payload) /\ reply' = reply
    BY <1>3 DEF SendOkTooLarge, Catch, Handler, IInv, ConnInv, HandlerInv
  <2>2. AnswerFits(NoBytes)
    BY RpcAssumption DEF AnswerFits
  <2>3. request[c].op = "get" /\ ~AnswerFits(reply[c].value.payload)
    BY <2>1, <2>2 DEF Done
  <2>4. NotDone(c)'
    BY <2>1, <2>3 DEF NotDone, AnswerFits, Catch, Handler, clientVars
  <2> QED BY <2>1, <2>4, CatchIInv
<1> QED BY <1>1, <1>2, <1>3

\* The answer is sent, or nobody is there to get it.
LEMMA SendAnswerIInv ==
  ASSUME IInv, NEW c \in Conns,
         SendOk(c) \/ SendOkPayload(c) \/ SendError(c) \/ SendToNobody(c)
  PROVE  IInv'
<1> USE DEF IInv, Handler, clientVars, storeVars
<1>1. /\ hpc[c] \in {"answer", "payload", "error"} /\ ConnInv(c) /\ passed[c] # "all"
      /\ UNCHANGED <<storeVars, reply, clientVars, body, failure, effects>>
  BY DEF SendOk, SendOkPayload, SendError, SendToNobody, ConnInv, HandlerInv
<1>2. StoreTypes' /\ ConnTypes'
  <2>1. \E to \in {"payload", "closed"} : hpc' = [hpc EXCEPT ![c] = to]
    BY DEF SendOk, SendOkPayload, SendError, SendToNobody
  <2>2. passed' = passed \/ \E part \in Parts : passed' = [passed EXCEPT ![c] = part]
    BY DEF SendOk, SendOkPayload, SendError, SendToNobody, AfterHeader, Parts
  <2>3. answer' = answer \/ \E frame : answer' = [answer EXCEPT ![c] = frame]
    BY DEF SendOk, SendOkPayload, SendError, SendToNobody
  <2>4. hpc' \in [Conns -> {"none", "header", "body", "dispatch", "answer", "payload",
                            "error", "closed"}]
    BY <2>1 DEF ConnTypes
  <2>5. passed' \in [Conns -> Parts] /\ DOMAIN answer' = Conns
    BY <2>2, <2>3 DEF ConnTypes
  <2> QED BY <1>1, <2>4, <2>5 DEF StoreTypes, ConnTypes
<1>3. OnlyWholePuts'
  BY <1>1, PutsKept
<1>4. \A d \in Conns : d # c => Unchanged(d)
  BY DEF Unchanged, ConnTypes, SendOk, SendOkPayload, SendError, SendToNobody
<1>5. request[c] \in Requests /\ hpc'[c] \in {"payload", "closed"} /\ effects'[c] <= 1
  BY <1>1 DEF ConnTypes, ConnInv, HandlerInv, Truth, SendOk, SendOkPayload, SendError, SendToNobody
<1>6. HandlerInv(c)'
  <2>1. CASE SendOk(c) \/ SendOkPayload(c)
    <3>1. answer' = answer /\ Done(c)
      BY <2>1 DEF SendOk, SendOkPayload, ConnInv, HandlerInv
    <3>2. Done(c)'
      BY <1>1, <3>1 DEF Done
    <3>3. passed'[c] = "all" => hpc'[c] = "closed"
      BY <2>1 DEF SendOk, SendOkPayload, ConnTypes, AfterHeader
    <3> QED BY <1>1, <1>5, <3>2, <3>3 DEF HandlerInv
  <2>2. CASE SendError(c)
    <3>1. hpc'[c] = "closed" /\ answer'[c].status # "ok" /\ NotDone(c)
      BY <2>2 DEF SendError, ConnInv, HandlerInv, ConnTypes
    <3>2. NotDone(c)'
      BY <1>1, <3>1 DEF NotDone, AnswerFits
    <3> QED BY <1>1, <1>5, <3>1, <3>2 DEF HandlerInv
  <2>3. CASE SendToNobody(c)
    <3>1. hpc'[c] = "closed" /\ answer' = answer /\ passed' = passed
      BY <2>3 DEF SendToNobody, ConnTypes
    <3>2. Done(c)' = Done(c) /\ NotDone(c)' = NotDone(c)
      BY <1>1, <3>1 DEF Done, NotDone, AnswerFits
    <3> QED BY <1>1, <1>5, <3>1, <3>2 DEF HandlerInv, ConnInv
  <2> QED BY <2>1, <2>2, <2>3
<1> QED BY <1>1, <1>2, <1>3, <1>4, <1>5, <1>6, ServeIInv

\* The server stops: every handler is gone, whatever it was doing.
LEMMA StopIInv ==
  ASSUME IInv, Stop
  PROVE  IInv'
<1> USE DEF IInv, Stop, clientVars
<1>1. StoreTypes' /\ ConnTypes'
  BY DEF StoreTypes, ConnTypes, Store!RecordTables
<1>2. OnlyWholePuts'
  BY DEF OnlyWholePuts
<1>3. ASSUME NEW c \in Conns PROVE ConnInv(c)'
  <2>1. /\ ConnInv(c) /\ hpc'[c] = (IF hpc[c] = "none" THEN "none" ELSE "closed")
        /\ Done(c)' = Done(c) /\ NotDone(c)' = NotDone(c)
    BY DEF Done, NotDone, AnswerFits
  <2>2. ClientInv(c)' /\ Truth(c)'
    BY <2>1 DEF ClientInv, Truth, ConnInv
  <2>3. HandlerInv(c)'
    BY <2>1 DEF HandlerInv, ConnInv
  <2> QED BY <2>2, <2>3 DEF ConnInv
<1> QED BY <1>1, <1>2, <1>3

\* The inductive invariant holds in every reachable state.
THEOREM Invariance == Spec => []IInv
<1>1. Init => IInv
  <2> SUFFICES ASSUME Init PROVE IInv
    OBVIOUS
  <2>1. StoreTypes /\ OnlyWholePuts
    BY DEF Init, Store!Init, StoreTypes, OnlyWholePuts, Store!RecordTables
  <2>2. ConnTypes
    BY RpcAssumption DEF Init, Store!Init, ConnTypes, Parts
  <2>3. ASSUME NEW c \in Conns PROVE ConnInv(c)
    BY DEF Init, ConnInv, ClientInv, HandlerInv, Truth, NoOutcome
  <2> QED BY <2>1, <2>2, <2>3 DEF IInv
<1>2. IInv /\ [Next]_vars => IInv'
  <2> SUFFICES ASSUME IInv, [Next]_vars PROVE IInv'
    OBVIOUS
  <2>1. CASE UNCHANGED vars
    <3> USE <2>1 DEF vars, storeVars, clientVars, handlerVars, IInv
    <3>1. StoreTypes' /\ ConnTypes'
      BY DEF StoreTypes, ConnTypes
    <3>2. OnlyWholePuts'
      BY PutsKept
    <3>3. \A c \in Conns : ConnInv(c)'
      BY OtherConnection DEF Unchanged
    <3> QED BY <3>1, <3>2, <3>3
  <2>2. ASSUME NEW client \in Clients, NEW c \in Conns, NEW r \in Requests,
               Connect(client, c, r)
        PROVE  IInv'
    BY <2>2, ConnectIInv
  <2>3. ASSUME NEW c \in Conns, Client(c) PROVE IInv'
    BY <2>3, SendIInv, ReceiveIInv, FailIInv DEF Client
  <2>4. ASSUME NEW c \in Conns, Serve(c) PROVE IInv'
    BY <2>4, ReadIInv, DispatchReadIInv, DispatchPutIInv, DispatchDeleteIInv,
       DispatchRaisesIInv, SendAnswerIInv DEF Serve
  <2>5. CASE Stop
    BY <2>5, StopIInv
  <2> QED BY <2>1, <2>2, <2>3, <2>4, <2>5 DEF Next
<1> QED BY <1>1, <1>2, PTL DEF Spec

---------------------------------------------------------------------------
(***************************************************************************)
(* The results.                                                            *)
(***************************************************************************)
\* Type correctness; in particular recv_frame's limit holds of every payload
\* a handler has read.
THEOREM TypeCorrectness == Spec => []TypeOK
<1>1. IInv => TypeOK
  BY DEF IInv, StoreTypes, ConnTypes, ConnInv, ClientInv, TypeOK
<1> QED BY <1>1, Invariance, PTL

\* However TcpStateStoreClient._request, the handler threads, timeouts and
\* stops of the server interleave: what a call returns is what the store
\* answered to it, an error answer means that nothing was done (but for a
\* get), and no call is ever carried out twice.
THEOREM AnswersAreTrue == Spec => []AnswerIsTrue
<1>1. IInv => AnswerIsTrue
  BY DEF IInv, ConnInv, Truth, NotDone, AnswerIsTrue
<1> QED BY <1>1, Invariance, PTL

\* Nothing but whole payloads of put requests ever gets into the store, at
\* whichever point of its frame a client has given up (recv_exact, _dispatch).
THEOREM PutsAreWhole == Spec => []OnlyWholePuts
<1>1. IInv => OnlyWholePuts
  BY DEF IInv
<1> QED BY <1>1, Invariance, PTL
=============================================================================
