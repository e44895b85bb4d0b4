--------------------------- MODULE TopologyTrace ---------------------------
(***************************************************************************)
(* load_topology_trace of topology/trace.py: the requests of a generator's *)
(* JSONL file, one line at a time.  A line that holds a well-formed object *)
(* is validated by GraphSpec.create, whose steps are those of GraphSpec.   *)
(*                                                                         *)
(* A line is a record: what it holds, and for a JSON object the values of  *)
(* its three fields.  Invalid stands for a value of the wrong type, a      *)
(* missing one, or an empty string, inside the lists too.                  *)
(***************************************************************************)
EXTENDS GraphSpec

CONSTANTS
    Files,      \* the trace files: sequences of lines
    Invalid

\* The checks of TopologyRequest.from_mapping.
IsMapping(l) ==
    /\ l.request_id # Invalid
    /\ l.active_roles # Invalid /\ Invalid \notin Range(l.active_roles)
    /\ l.edges # Invalid /\ Invalid \notin Range(l.edges)

\* The roles and edges that pass them are lists of roles and of pairs.
ASSUME FileAssumption ==
    \A f \in Files : f \in Seq(Range(f)) /\ \A l \in Range(f) :
        /\ l.kind \in {"blank", "not JSON", "not an object", "object"}
        /\ l.kind = "object" /\ IsMapping(l) =>
                l.active_roles \in Seq(Nat) /\ l.edges \in Seq(Nat \X Nat)

VARIABLES
    file,       \* the lines of the file
    line,       \* the line being read
    loading,    \* "lines", "graph" (inside GraphSpec.create), "loaded" or "raised"
    requests    \* the TopologyRequests loaded so far

loaderVars == <<file, line, loading, requests>>

TraceInit ==
    /\ file \in Files
    /\ line = 1
    /\ loading = "lines"
    /\ requests = <<>>
    /\ active_roles = <<>> /\ edges = <<>> /\ pc = "roles"
    /\ i = 1 /\ indegree = <<>> /\ ready = {} /\ order = <<>>

AtLine(kind) == loading = "lines" /\ line <= Len(file) /\ file[line].kind = kind

Raise == loading' = "raised" /\ UNCHANGED <<file, line, requests>>

BlankLine ==
    /\ AtLine("blank")
    /\ line' = line + 1
    /\ UNCHANGED <<file, loading, requests, vars>>

\* json.loads fails, or yields something other than an object.
NotAnObject ==
    /\ AtLine("not JSON") \/ AtLine("not an object")
    /\ Raise
    /\ UNCHANGED vars

NotARequest ==
    /\ AtLine("object")
    /\ ~IsMapping(file[line])
    /\ Raise
    /\ UNCHANGED vars

\* GraphSpec.create is called: the initial state of GraphSpec.
CreateGraph ==
    /\ AtLine("object")
    /\ IsMapping(file[line])
    /\ active_roles' = file[line].active_roles
    /\ edges' = file[line].edges
    /\ pc' = "roles" /\ i' = 1 /\ indegree' = [r \in roles' |-> 0]
    /\ ready' = {} /\ order' = <<>>
    /\ loading' = "graph"
    /\ UNCHANGED <<file, line, requests>>

GraphStep == loading = "graph" /\ Next /\ UNCHANGED loaderVars

GraphRejected ==
    /\ loading = "graph" /\ pc \in Rejections
    /\ Raise
    /\ UNCHANGED vars

seen_ids == {requests[j].request_id : j \in 1..Len(requests)}

DuplicateId ==
    /\ loading = "graph" /\ pc = "returned"
    /\ file[line].request_id \in seen_ids
    /\ Raise
    /\ UNCHANGED vars

Request(l) ==
    [request_id |-> l.request_id,
     graph |-> [active_roles |-> l.active_roles, edges |-> l.edges]]

\* Faulty variant: the request is kept before its id is looked up.
RequestLoadedTwice ==
    /\ loading = "graph" /\ pc = "returned"
    /\ requests' = Append(requests, Request(file[line]))
    /\ line' = line + 1
    /\ loading' = "lines"
    /\ UNCHANGED <<file, vars>>

RequestLoaded ==
    /\ loading = "graph" /\ pc = "returned"
    /\ file[line].request_id \notin seen_ids
    /\ requests' = Append(requests, Request(file[line]))
    /\ line' = line + 1
    /\ loading' = "lines"
    /\ UNCHANGED <<file, vars>>

EndOfFile ==
    /\ loading = "lines" /\ line > Len(file)
    /\ loading' = IF requests = <<>> THEN "raised" ELSE "loaded"
    /\ UNCHANGED <<file, line, requests, vars>>

LoadEnded == loading \in {"loaded", "raised"}

TraceNext ==
    \/ BlankLine \/ NotAnObject \/ NotARequest
    \/ CreateGraph \/ GraphStep \/ GraphRejected \/ DuplicateId \/ RequestLoaded
    \/ EndOfFile
    \/ LoadEnded /\ UNCHANGED <<vars, loaderVars>>

\* The function runs on its own.
TraceSpec ==
    TraceInit /\ [][TraceNext]_<<vars, loaderVars>> /\ WF_<<vars, loaderVars>>(TraceNext)

---------------------------------------------------------------------------
(***************************************************************************)
(* Properties.                                                             *)
(***************************************************************************)
\* The lines that are not blank, by their numbers.
Given == {j \in 1..Len(file) : file[j].kind # "blank"}

WellFormed ==
    /\ Given # {}
    /\ \A j \in Given :
        file[j].kind = "object" /\ IsMapping(file[j]) /\ IsDag(Request(file[j]).graph)
    /\ \A j, k \in Given : file[j].request_id = file[k].request_id => j = k

\* A trace is loaded exactly if every line that is not blank holds a valid
\* request with an id of its own, wherever in the file a defect stands and
\* whatever was loaded before it; and then it is the file's requests, all of
\* them, in the order of the lines (which placement goes by).
TraceVerdict ==
    /\ loading = "raised" => ~WellFormed
    /\ loading = "loaded" =>
        /\ WellFormed
        /\ Len(requests) = Cardinality(Given)
        /\ \A j \in Given : requests[Cardinality(Given \cap 1..j)] = Request(file[j])

\* Loading ends, for every file.
LoadEnds == <>LoadEnded
============================================================================
