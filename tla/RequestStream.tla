--------------------------- MODULE RequestStream ---------------------------
(***************************************************************************)
(* What the extension promises the Files app about every request it sends  *)
(* through the MessageRouter, with the router, the retries and the native  *)
(* module abstracted away: a request is answered at most once, an internal *)
(* SHOULD_RETRY is never the answer, nothing is handed over after the      *)
(* answer, and a request that succeeds has handed over its last batch.     *)
(* A directory listing is handed over batch by batch without a gap or a    *)
(* repetition, and a listing that fails has handed over nothing; a file    *)
(* read may start again from its first batch.                              *)
(***************************************************************************)
EXTENDS Naturals, Sequences

CONSTANTS Requests,     \* identities of requests
          MaxBatches,   \* most batches a streamed reply is cut into
          Errors        \* the errors the Files app may be given

VARIABLES request,      \* what was asked: kind of request and batches it takes
          status,       \* "unissued", "waiting", "resolved" or an error
          delivered     \* the batches handed to the Files app, oldest first

vars == <<request, status, delivered>>

Streaming == {"readDirectory", "readFile"}

Request == [kind: {"plain"}, batches: {1}]
             \cup [kind: Streaming, batches: 1..MaxBatches]

Unissued == [kind |-> "none", batches |-> 0]

Init == /\ request = [r \in Requests |-> Unissued]
        /\ status = [r \in Requests |-> "unissued"]
        /\ delivered = [r \in Requests |-> <<>>]

LastBatch(r) == IF delivered[r] = <<>> THEN 0 ELSE delivered[r][Len(delivered[r])]

Issue(r, what) ==
    /\ status[r] = "unissued"
    /\ request' = [request EXCEPT ![r] = what]
    /\ status' = [status EXCEPT ![r] = "waiting"]
    /\ UNCHANGED delivered

Deliver(r, batch) ==
    /\ status[r] = "waiting"
    /\ request[r].kind \in Streaming
    /\ LastBatch(r) < request[r].batches
    /\ \/ batch = LastBatch(r) + 1
       \/ batch = 1 /\ request[r].kind = "readFile"
    /\ delivered' = [delivered EXCEPT ![r] = Append(@, batch)]
    /\ UNCHANGED <<request, status>>

Resolve(r) ==
    /\ status[r] = "waiting"
    /\ request[r].kind \in Streaming => LastBatch(r) = request[r].batches
    /\ status' = [status EXCEPT ![r] = "resolved"]
    /\ UNCHANGED <<request, delivered>>

Reject(r, err) ==
    /\ status[r] = "waiting"
    /\ request[r].kind = "readDirectory" => delivered[r] = <<>>
    /\ request[r].kind = "readFile" => LastBatch(r) < request[r].batches
    /\ status' = [status EXCEPT ![r] = err]
    /\ UNCHANGED <<request, delivered>>

Next == \E r \in Requests :
           \/ \E what \in Request : Issue(r, what)
           \/ \E batch \in 1..MaxBatches : Deliver(r, batch)
           \/ Resolve(r)
           \/ \E err \in Errors : Reject(r, err)

Spec == Init /\ [][Next]_vars
=============================================================================
