--------------------------- MODULE MessageRouter ---------------------------
(***************************************************************************)
(* The request path between the extension's background page and the native *)
(* client (NaCl) module: SambaClient.sendMessage_ allocates a message id,  *)
(* MessageRouter keeps a table of the messages that wait for a reply,      *)
(* getRetryingPromise sends a message again when the reply is the internal *)
(* error SHOULD_RETRY, and BaseNaclFsp::HandleMessage serves one message   *)
(* at a time, answering with one reply or with a stream of batches.        *)
(*                                                                         *)
(* JavaScript runs one task at a time and empties the queue of microtasks  *)
(* (promise callbacks) before the next task, so every task here waits for  *)
(* microtasks = <<>>, and a task that settles a promise appends the        *)
(* callback to microtasks.  postMessage is a FIFO in each direction.       *)
(***************************************************************************)
EXTENDS Integers, Sequences, FiniteSets

CONSTANTS MaxRequests,  \* bound: message ids 0 .. MaxRequests - 1 are used
          AttemptCount, \* attempts of getRetryingPromise; the code passes 3
          MaxBatches    \* bound: batches a streamed reply is cut into

ASSUME MaxRequestsAssumption == MaxRequests \in Nat
ASSUME AttemptCountAssumption == AttemptCount \in Nat \ {0}
ASSUME MaxBatchesAssumption == MaxBatches \in Nat \ {0}

Ids == 0 .. MaxRequests - 1
NoId == -1

Streaming == {"readDirectory", "readFile"}

\* What a request asks.  A plain request has one reply; the batches of a file
\* read are fixed by the file's length at open, the same for every attempt.
Request == [kind: {"plain"}, batches: {1}]
             \cup [kind: Streaming, batches: 1..MaxBatches]
Unissued == [kind |-> "none", batches |-> 0]

NoError == "none"
NaclErrors == {"SHOULD_RETRY", "FAILED", "NOT_FOUND"}
Errors == {"FAILED", "NOT_FOUND", "NO_PROCESS_FN"}

VARIABLES
    nextId,         \* messageId_: the next id to hand out
    request,        \* what each id asks
    parked,         \* ids whose sendMessage_ waits for populate and for mountPromise
    messages,       \* ids in the router's table
    isInitialized,  \* the NaCl module has loaded
    initWaiters,    \* ids whose send waits for initializeResolver
    microtasks,     \* promise callbacks that are ready to run
    toNacl,         \* posted messages NaCl has not taken
    nacl,           \* the message NaCl serves, and the batches it has sent
    toJs,           \* posted replies the page has not handled
    attempts,       \* failed attempts of each id
    outcome,        \* what the caller of sendMessage_ was told
    delivered       \* batches processDataFn handed to the Files app

jsVars == <<nextId, request, parked>>
routerVars == <<messages, isInitialized, initWaiters>>
appVars == <<attempts, outcome, delivered>>
vars == <<jsVars, routerVars, microtasks, toNacl, nacl, toJs, appVars>>

Idle == [id |-> NoId, sent |-> 0]

Job(task, id, err) == [task |-> task, id |-> id, err |-> err]
Jobs == [task: {"send", "resolve"}, id: Ids, err: {NoError}]
          \cup [task: {"retry"}, id: Ids, err: NaclErrors \cup {"NO_PROCESS_FN"}]

Reply(id, err, batch, hasMore) ==
    [id |-> id, error |-> err, batch |-> batch, hasMore |-> hasMore]
Replies == [id: Ids, error: {NoError}, batch: 1..MaxBatches, hasMore: BOOLEAN]
             \cup [id: Ids, error: NaclErrors, batch: {0}, hasMore: {FALSE}]

Init ==
    /\ nextId = 0
    /\ request = [id \in Ids |-> Unissued]
    /\ parked = {}
    /\ messages = {}
    /\ isInitialized = FALSE
    /\ initWaiters = <<>>
    /\ microtasks = <<>>
    /\ toNacl = <<>>
    /\ nacl = Idle
    /\ toJs = <<>>
    /\ attempts = [id \in Ids |-> 0]
    /\ outcome = [id \in Ids |-> "unissued"]
    /\ delivered = [id \in Ids |-> <<>>]

-----------------------------------------------------------------------------
(* The decisions of the code, each where it is made.                       *)

\* Mutants: retryFn hands the internal error on; it allows one attempt too many,
\* or one too few.
RetryVerdictLeaksRetry(n, err) ==
    IF n < AttemptCount /\ err = "SHOULD_RETRY" THEN "SEND_AGAIN" ELSE err

RetryVerdictOneMore(n, err) ==
    IF err # "SHOULD_RETRY" THEN err
    ELSE IF n > AttemptCount THEN "FAILED" ELSE "SEND_AGAIN"

RetryVerdictOneLess(n, err) ==
    IF err # "SHOULD_RETRY" THEN err
    ELSE IF n >= AttemptCount - 1 THEN "FAILED" ELSE "SEND_AGAIN"

\* retryFn: what becomes of a request whose attempt number n ended with err.
RetryVerdict(n, err) ==
    IF n >= AttemptCount
      THEN IF err = "SHOULD_RETRY" THEN "FAILED" ELSE err
      ELSE IF err = "SHOULD_RETRY" THEN "SEND_AGAIN" ELSE err

\* handleMessage: the reply is an error, or a batch nobody can process.
Failed(m) == \/ m.error # NoError
             \/ request[m.id].kind \notin Streaming /\ m.hasMore

\* Mutants: handleMessage keeps the entry of a message that failed; it drops the
\* entry at every batch.
DropsEntryOnSuccess(m) == ~Failed(m) /\ ~m.hasMore

DropsEntryAlways(m) == TRUE

\* handleMessage: the reply ends the message, so its entry is deleted.
DropsEntry(m) == Failed(m) \/ ~m.hasMore

\* Mutant: handleMessage resolves the promise at every batch.
JobsOfEveryBatch(m) ==
    IF m.error # NoError THEN <<Job("retry", m.id, m.error)>>
    ELSE IF Failed(m) THEN <<Job("retry", m.id, "NO_PROCESS_FN")>>
    ELSE <<Job("resolve", m.id, NoError)>>

\* handleMessage: the promise callback that the reply makes ready, if any.
JobsOf(m) ==
    IF m.error # NoError THEN <<Job("retry", m.id, m.error)>>
    ELSE IF Failed(m) THEN <<Job("retry", m.id, "NO_PROCESS_FN")>>
    ELSE IF ~m.hasMore THEN <<Job("resolve", m.id, NoError)>>
    ELSE <<>>

\* Mutant: a listing can fail between two batches.
MayFailAnywhere(id, sent) == sent <= request[id].batches

\* NaCl gives up a listing only before its first batch; a read may fail at
\* any smbc_read.
MayFail(id, sent) == sent = 0 \/ request[id].kind = "readFile"

\* Mutant: sendMessage does not wait for the module to load.
SendMessageUnqueued(id, rest) ==
    /\ messages' = messages \cup {id}
    /\ microtasks' = IF isInitialized THEN Append(rest, Job("send", id, NoError)) ELSE rest
    /\ UNCHANGED initWaiters

\* sendMessage, run with the microtasks in rest still to do.  A duplicate id
\* throws: no promise is made and the caller's promise stays pending.
SendMessage(id, rest) ==
    IF id \in messages
      THEN microtasks' = rest /\ UNCHANGED <<messages, initWaiters>>
      ELSE /\ messages' = messages \cup {id}
           /\ IF isInitialized
                THEN /\ microtasks' = Append(rest, Job("send", id, NoError))
                     /\ UNCHANGED initWaiters
                ELSE /\ initWaiters' = Append(initWaiters, id)
                     /\ microtasks' = rest

-----------------------------------------------------------------------------
(* Tasks of the background page.                                           *)

\* The Files app or the popup asks for something: sendMessage_ takes an id.
\* mount, unmount and enumerateFileShares go on to the router at once, which
\* is this step followed by Route; the others wait for their mount first.
Ask(what) ==
    /\ microtasks = <<>>
    /\ nextId < MaxRequests
    /\ nextId' = nextId + 1
    /\ request' = [request EXCEPT ![nextId] = what]
    /\ parked' = parked \cup {nextId}
    /\ outcome' = [outcome EXCEPT ![nextId] = "parked"]
    /\ UNCHANGED <<routerVars, microtasks, toNacl, nacl, toJs, attempts, delivered>>

\* The file system is not mounted, or its mount failed.
Refuse(id) ==
    /\ microtasks = <<>>
    /\ id \in parked
    /\ parked' = parked \ {id}
    /\ outcome' = [outcome EXCEPT ![id] = "NOT_FOUND"]
    /\ UNCHANGED <<nextId, request, routerVars, microtasks, toNacl, nacl, toJs,
                   attempts, delivered>>

\* The mount is there: sendMessageWithRetry makes the first attempt.
Route(id) ==
    /\ microtasks = <<>>
    /\ id \in parked
    /\ parked' = parked \ {id}
    /\ outcome' = [outcome EXCEPT ![id] = "waiting"]
    /\ SendMessage(id, microtasks)
    /\ UNCHANGED <<nextId, request, isInitialized, toNacl, nacl, toJs, attempts,
                   delivered>>

\* The NaCl module has loaded: the sends that waited become ready, in order.
Initialize ==
    /\ microtasks = <<>>
    /\ ~isInitialized
    /\ isInitialized' = TRUE
    /\ microtasks' = [i \in 1..Len(initWaiters) |-> Job("send", initWaiters[i], NoError)]
    /\ initWaiters' = <<>>
    /\ UNCHANGED <<jsVars, messages, toNacl, nacl, toJs, appVars>>

\* A reply arrives from NaCl.
HandleMessage ==
    /\ microtasks = <<>>
    /\ toJs # <<>>
    /\ toJs' = Tail(toJs)
    /\ LET m == Head(toJs)
       IN IF m.id \notin messages
            THEN UNCHANGED <<messages, microtasks, delivered>>
            ELSE /\ messages' = IF DropsEntry(m) THEN messages \ {m.id} ELSE messages
                 /\ microtasks' = JobsOf(m)
                 /\ delivered' = IF m.error = NoError /\ request[m.id].kind \in Streaming
                                   THEN [delivered EXCEPT ![m.id] = Append(@, m.batch)]
                                   ELSE delivered
    /\ UNCHANGED <<jsVars, isInitialized, initWaiters, toNacl, nacl, attempts, outcome>>

-----------------------------------------------------------------------------
(* Promise callbacks.                                                      *)

PostMessage ==
    /\ microtasks # <<>>
    /\ Head(microtasks).task = "send"
    /\ toNacl' = Append(toNacl, Head(microtasks).id)
    /\ microtasks' = Tail(microtasks)
    /\ UNCHANGED <<jsVars, routerVars, nacl, toJs, appVars>>

Resolve ==
    /\ microtasks # <<>>
    /\ Head(microtasks).task = "resolve"
    /\ outcome' = [outcome EXCEPT ![Head(microtasks).id] = "resolved"]
    /\ microtasks' = Tail(microtasks)
    /\ UNCHANGED <<jsVars, routerVars, toNacl, nacl, toJs, attempts, delivered>>

RetryFn ==
    /\ microtasks # <<>>
    /\ Head(microtasks).task = "retry"
    /\ LET id == Head(microtasks).id
           verdict == RetryVerdict(attempts[id] + 1, Head(microtasks).err)
       IN /\ attempts' = [attempts EXCEPT ![id] = @ + 1]
          /\ IF verdict = "SEND_AGAIN"
               THEN /\ SendMessage(id, Tail(microtasks))
                    /\ UNCHANGED outcome
               ELSE /\ outcome' = [outcome EXCEPT ![id] = verdict]
                    /\ microtasks' = Tail(microtasks)
                    /\ UNCHANGED <<messages, initWaiters>>
    /\ UNCHANGED <<jsVars, isInitialized, toNacl, nacl, toJs, delivered>>

-----------------------------------------------------------------------------
(* The NaCl process.                                                       *)

NaclReceive ==
    /\ nacl = Idle
    /\ toNacl # <<>>
    /\ nacl' = [id |-> Head(toNacl), sent |-> 0]
    /\ toNacl' = Tail(toNacl)
    /\ UNCHANGED <<jsVars, routerVars, microtasks, toJs, appVars>>

\* The next reply of the message being served; the last one has hasMore false.
NaclSend ==
    /\ nacl # Idle
    /\ LET batch == nacl.sent + 1
           hasMore == batch < request[nacl.id].batches
       IN /\ toJs' = Append(toJs, Reply(nacl.id, NoError, batch, hasMore))
          /\ nacl' = IF hasMore THEN [nacl EXCEPT !.sent = batch] ELSE Idle
    /\ UNCHANGED <<jsVars, routerVars, microtasks, toNacl, appVars>>

NaclFail(err) ==
    /\ nacl # Idle
    /\ MayFail(nacl.id, nacl.sent)
    /\ toJs' = Append(toJs, Reply(nacl.id, err, 0, FALSE))
    /\ nacl' = Idle
    /\ UNCHANGED <<jsVars, routerVars, microtasks, toNacl, appVars>>

-----------------------------------------------------------------------------
RunMicrotask == PostMessage \/ Resolve \/ RetryFn

NaclStep == NaclReceive \/ NaclSend \/ \E err \in NaclErrors : NaclFail(err)

Next == \/ \E what \in Request : Ask(what)
        \/ \E id \in Ids : Refuse(id) \/ Route(id)
        \/ Initialize
        \/ HandleMessage
        \/ RunMicrotask
        \/ NaclStep

Spec == Init /\ [][Next]_vars

\* The page's event loop runs ready callbacks and takes replies off its queue,
\* the module finishes loading and NaCl's loop serves what it is sent.  Nothing
\* forces the Files app to ask, nor a mount to settle.
Fairness == /\ WF_vars(RunMicrotask)
            /\ WF_vars(HandleMessage)
            /\ WF_vars(Initialize)
            /\ WF_vars(NaclStep)

FairSpec == Spec /\ Fairness
-----------------------------------------------------------------------------
(* Properties.                                                             *)

\* Every variable has its type; no caller is ever told SHOULD_RETRY.
TypeOK ==
    /\ nextId \in 0..MaxRequests
    /\ request \in [Ids -> Request \cup {Unissued}]
    /\ parked \subseteq Ids
    /\ messages \subseteq Ids
    /\ isInitialized \in BOOLEAN
    /\ initWaiters \in Seq(Ids)
    /\ microtasks \in Seq(Jobs)
    /\ toNacl \in Seq(Ids)
    /\ nacl \in [id: Ids \cup {NoId}, sent: 0..MaxBatches]
    /\ toJs \in Seq(Replies)
    /\ attempts \in [Ids -> Nat]
    /\ outcome \in [Ids -> {"unissued", "parked", "waiting", "resolved"} \cup Errors]
    /\ delivered \in [Ids -> Seq(1..MaxBatches)]

Ending(m) == m.error # NoError \/ ~m.hasMore

\* Where a request is between the router's accepting it and its caller's answer.
AwaitsModule(id) == \E i \in 1..Len(initWaiters) : initWaiters[i] = id
Sending(id) == \E i \in 1..Len(microtasks) :
                  microtasks[i].id = id /\ microtasks[i].task = "send"
Posted(id) == \E i \in 1..Len(toNacl) : toNacl[i] = id
Served(id) == nacl.id = id
Answered(id) == \E i \in 1..Len(toJs) : toJs[i].id = id /\ Ending(toJs[i])
Settling(id) == \E i \in 1..Len(microtasks) :
                  microtasks[i].id = id /\ microtasks[i].task # "send"

Places == {"awaits module", "sending", "posted", "served", "answered", "settling"}
At(p, id) == \/ p = "awaits module" /\ AwaitsModule(id)
             \/ p = "sending" /\ Sending(id)
             \/ p = "posted" /\ Posted(id)
             \/ p = "served" /\ Served(id)
             \/ p = "answered" /\ Answered(id)
             \/ p = "settling" /\ Settling(id)

Once(q) == \A i, j \in 1..Len(q) : q[i] = q[j] => i = j
EachOnce == /\ Once(initWaiters)
            /\ Once(toNacl)
            /\ \A i, j \in 1..Len(microtasks) : microtasks[i].id = microtasks[j].id => i = j
            /\ \A i, j \in 1..Len(toJs) :
                  i < j /\ Ending(toJs[i]) => toJs[i].id # toJs[j].id

\* A request the router has accepted is in exactly one place, once, until its
\* caller is answered: it waits for the module to load, is about to be posted, is
\* posted, is served, its ending reply is on its way, or its promise callback is
\* ready.  So no step loses a request, none is served twice at once, and nothing
\* follows the reply that ends it.
InOnePlace ==
    /\ \A id \in Ids : /\ outcome[id] = "waiting" <=> \E p \in Places : At(p, id)
                       /\ \A p, q \in Places : At(p, id) /\ At(q, id) => p = q
    /\ EachOnce

\* The message id a retry is about to send again has left the router's table,
\* so sendMessage never throws 'Cannot send duplicate message id'.
NoDuplicateSend ==
    \A i \in 1..Len(microtasks) :
        microtasks[i].task = "retry" => microtasks[i].id \notin messages

\* handleMessage never ignores a reply: each reply on its way has an entry.
NoOrphanReply == \A i \in 1..Len(toJs) : toJs[i].id \in messages

\* The attempts add up: a request that is still waiting, or that succeeded, has
\* an attempt left; none is tried more often than getRetryingPromise was told;
\* and every time a file read hands over its first batch again, an attempt of
\* it has failed before.
AttemptsAddUp ==
    \A id \in Ids :
        /\ attempts[id] <= AttemptCount
        /\ outcome[id] \in {"waiting", "resolved"} => attempts[id] < AttemptCount
        /\ Cardinality({i \in 1..Len(delivered[id]) : delivered[id][i] = 1})
             <= attempts[id] + 1

\* The router, the retries and the native module together keep the promise of
\* RequestStream: one answer to a request, never SHOULD_RETRY and never the
\* router's own 'No processing function' error, listings without a gap or a
\* repetition, and no success before the last batch.
Stream == INSTANCE RequestStream
            WITH Requests <- Ids,
                 Errors <- {"FAILED", "NOT_FOUND"},
                 status <- [id \in Ids |-> IF outcome[id] = "parked" THEN "waiting"
                                                                     ELSE outcome[id]]
KeepsPromise == Stream!Spec

\* Every request the router accepts is answered in the end: three attempts end
\* the retries, and no attempt is lost on its way.
EveryRequestSettles ==
    \A id \in Ids : outcome[id] = "waiting" ~> outcome[id] \in Errors \cup {"resolved"}

AnsweredWith(id, err) == \E i \in 1..Len(toJs) : toJs[i].id = id /\ toJs[i].error = err

\* What the module says of an attempt that failed decides what follows: after
\* SHOULD_RETRY the request is posted again as long as one of AttemptCount
\* attempts is left, so getRetryingPromise never gives up early, and its caller is
\* told FAILED after the last; after any other error the caller is told that error.
ErrorsDecide ==
    \A id \in Ids :
        /\ AnsweredWith(id, "SHOULD_RETRY") /\ attempts[id] < AttemptCount - 1 ~> Posted(id)
        /\ AnsweredWith(id, "SHOULD_RETRY") /\ attempts[id] = AttemptCount - 1
             ~> outcome[id] = "FAILED"
        /\ \A err \in NaclErrors \ {"SHOULD_RETRY"} :
              AnsweredWith(id, err) ~> outcome[id] = err

\* readFile restricts what it reads to the rest of the file: the Files app is
\* not handed more batches than the request takes.
ReadWithinFile ==
    \A id \in Ids : Len(delivered[id]) <= request[id].batches
=============================================================================
