-------------------------- MODULE CompareAndSwap --------------------------
(***************************************************************************)
(* MemoryStateStore seen by a caller that reads a record and later updates *)
(* it on the condition that its version is still the one it read.  The     *)
(* history variable is what each thread knows of the store: the latest     *)
(* record a get or a put returned to it.                                   *)
(***************************************************************************)
EXTENDS MemoryStateStore

VARIABLE known

InitK == Init /\ known = [t \in Threads |-> NoReply]

NextK ==
    /\ Next
    /\ known' = [t \in Threads |->
                    IF reply'[t].kind = "returned" THEN reply'[t] ELSE known[t]]

SpecK == InitK /\ [][NextK]_<<vars, known>>

\* A conditional put that names the version its caller knows replaces the
\* very record the caller knows: whatever other threads did to the key in
\* between is answered with VersionConflict, "another version" was observed.
CasReplacesWhatWasRead ==
    \A t \in Threads :
        /\ pc[t] = "evict"
        /\ known[t].kind = "returned" /\ known[t].value # None
        /\ known[t].key = call[t].key
        /\ call[t].expected = known[t].value.version
        => previous[t] = known[t].value
===========================================================================
